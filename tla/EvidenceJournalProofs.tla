------------------------ MODULE EvidenceJournalProofs ------------------------
(***************************************************************************)
(* Proofs about EvidenceJournal, for every set of events, every calendar   *)
(* and every retention period.  The argument: the table inside an import's *)
(* transaction has the properties of the table it replaces and contains    *)
(* it; retention works on the dates that are protected while it runs, as   *)
(* no other command runs meanwhile; and it compacts the journal before the *)
(* store, so that what it takes from the store is in no line any more.     *)
(***************************************************************************)
EXTENDS EvidenceJournal, TLAPS

\* Appending, or damaging the last line, keeps a sequence of lines.
LEMMA WrittenType ==
    ASSUME TypeOK, NEW line \in Lines
    PROVE  /\ Written(line) \in Seq(Lines) /\ Len(Written(line)) > 0
           /\ \A i \in DOMAIN Written(line) :
                 \/ i \in DOMAIN journal /\ Written(line)[i] = journal[i]
                 \/ Written(line)[i] = line
                 \/ Written(line)[i] = Malformed
<1>1. Malformed \in Lines
  BY DEF Lines
<1>2. journal \in Seq(Lines)
  BY DEF TypeOK
<1>3. CASE openTail
  <2>1. Len(journal) > 0 /\ Len(journal) \in Nat
    BY <1>2, <1>3 DEF TypeOK
  <2>2. Written(line) = [journal EXCEPT ![Len(journal)] = Malformed]
    BY <1>3 DEF Written
  <2> QED
    BY <1>1, <1>2, <2>1, <2>2
<1>4. CASE ~openTail
  <2>1. Written(line) = Append(journal, line)
    BY <1>4 DEF Written
  <2> QED
    BY <1>2, <2>1
<1> QED
  BY <1>3, <1>4

\* A row that is not there yet is inserted as a whole, linked to the latest earlier
\* revision; a table that is a proper one stays so.
LEMMA InsertedTable ==
    ASSUME NEW rows \in SUBSET Rows, TableInv(rows), NEW e \in Events, e \notin expired
    PROVE  /\ Inserted(rows, e) \subseteq Rows /\ rows \subseteq Inserted(rows, e)
           /\ TableInv(Inserted(rows, e))
<1>1. CASE \E r \in rows : Key(r) = Key(e)
  BY <1>1 DEF Inserted
<1>2. CASE ~ \E r \in rows : Key(r) = Key(e)
  <2> DEFINE new == RowOf(rows, e)
  <2>1. Inserted(rows, e) = rows \cup {new}
    BY <1>2 DEF Inserted
  <2>2. Predecessors(rows, e) \subseteq Keys
    BY DEF Predecessors, Keys, Rows, Key
  <2>3. new \in Rows
    <3>1. EventOf(new) = e
      BY DEF RowOf, EventOf, Events
    <3> QED
      BY <2>2, <3>1 DEF RowOf, Rows, Events
  <2>4. Key(new) = Key(e) /\ EventOf(new) = e /\ new.supersedes = Predecessors(rows, e)
        /\ new.origin = e.origin /\ new.seq = e.seq
    BY DEF RowOf, Key, EventOf, Events
  <2>5. PrimaryKey(rows \cup {new})
    BY <1>2, <2>4 DEF PrimaryKey, TableInv
  <2>6. \A k \in new.supersedes : \E s \in rows : Key(s) = k /\ s.origin = new.origin
                                                 /\ s.seq < new.seq
    BY <2>4 DEF Predecessors
  <2>7. Linked(rows \cup {new})
    BY <2>6 DEF Linked, TableInv
  <2>8. Forgotten(rows \cup {new})
    BY <2>4 DEF Forgotten, TableInv
  <2> QED
    BY <2>1, <2>3, <2>5, <2>7, <2>8 DEF TableInv
<1> QED
  BY <1>1, <1>2

\* Initially there is no evidence and no command.
LEMMA InvInit == Init => Inv
<1> SUFFICES ASSUME Init PROVE Inv
  OBVIOUS
<1>1. TypeOK
  <2>1. journal \in Seq(Lines) /\ ~openTail
    BY DEF Init
  <2>2. today \in Dates /\ work \in [Dates -> {"none", "held", "open", "settled"}]
        /\ cites \in [Dates -> SUBSET Keys]
    BY DateAssumption DEF Init, Dates
  <2>3. /\ openTail \in BOOLEAN /\ store \subseteq Rows /\ pc \in Labels
        /\ target \in Dates \cup {NoDate} /\ cursor \in Nat /\ tx \subseteq Rows
        /\ prot \subseteq Dates /\ asOf \in Dates \cup {NoDate} /\ expired \subseteq Events
    BY DEF Init, Labels
  <2> QED
    BY <2>1, <2>2, <2>3 DEF TypeOK
<1>2. TableInv(store) /\ ExpiredStaysGone
  BY DEF Init, TableInv, PrimaryKey, Linked, Forgotten, ExpiredStaysGone
<1>3. PendingEvidenceKept /\ \A d \in Dates : cites[d] = {}
  BY DEF Init, PendingEvidenceKept
<1>4. CommandInv
  BY DEF Init, CommandInv
<1> QED
  BY <1>1, <1>2, <1>3, <1>4 DEF Inv

\* What a capture or a collector appends is not expired any more, and touches no row.
LEMMA WriteStep ==
    ASSUME Inv, NEW e \in Events, Write(e) \/ WriteInterrupted(e),
           UNCHANGED <<store, work, cites, today>>, pc \in {"idle", "collect"},
           UNCHANGED command \/ Finish
    PROVE  Inv'
<1>1. PICK line \in {Whole(e), Malformed} :
         journal' = Written(line) /\ expired' = expired \ {e} /\ openTail' \in BOOLEAN
  BY DEF Write, WriteInterrupted
<1>2. line \in Lines
  BY DEF Lines
<1>3. /\ journal' \in Seq(Lines) /\ Len(journal') > 0
      /\ \A i \in DOMAIN journal' : \/ i \in DOMAIN journal /\ journal'[i] = journal[i]
                                    \/ journal'[i].events \subseteq {e}
  <2>1. TypeOK
    BY DEF Inv
  <2>2. line.events \subseteq {e} /\ Malformed.events \subseteq {e}
    BY DEF Whole, Malformed
  <2> QED
    BY <1>1, <1>2, <2>1, <2>2, WrittenType
<1>4. pc' \in {"idle", "collect"} /\ (pc' = "collect" => pc = "collect" /\ target' = target)
      /\ target' \in Dates \cup {NoDate} /\ cursor' \in Nat /\ tx' \subseteq Rows
      /\ prot' \subseteq Dates /\ asOf' \in Dates \cup {NoDate}
  BY DEF command, importing, retaining, Finish, Inv, TypeOK
<1>5. TypeOK'
  BY <1>1, <1>3, <1>4 DEF Inv, TypeOK, Labels
<1>6. TableInv(store)' /\ Forgotten(store)'
  BY <1>1 DEF Inv, TableInv, PrimaryKey, Linked, Forgotten
<1>7. \A i \in DOMAIN journal' : journal'[i].events \cap expired' = {}
  BY <1>1, <1>3 DEF Inv, ExpiredStaysGone
<1>8. CommandInv'
  BY <1>4 DEF Inv, CommandInv
<1> QED
  BY <1>5, <1>6, <1>7, <1>8 DEF Inv, PendingEvidenceKept, ExpiredStaysGone

\* Retention takes from the store only rows of unprotected dates, of events that are in
\* no line any more.
LEMMA CompactStoreStep == Inv /\ CompactStore => Inv'
<1> SUFFICES ASSUME Inv, CompactStore PROVE Inv'
  OBVIOUS
<1> USE DaysAssumption
<1> DEFINE deleted == {r \in store : NormalizedExpired(r.date)}
<1> DEFINE gone == {Key(r) : r \in deleted}
<1> DEFINE New(r) == [Redacted(r) EXCEPT !.supersedes = @ \ gone]
<1> DEFINE taken == {EventOf(r) : r \in {s \in store : /\ s.payload
                                                      /\ \/ NormalizedExpired(s.date)
                                                         \/ ~Redacted(s).payload}}
<1>1. /\ store' = {New(r) : r \in store \ deleted}
      /\ expired' = expired \cup taken
      /\ UNCHANGED <<journal, openTail, cites, today>>
  BY DEF CompactStore, Compacted
<1>2. \A r \in Rows : /\ New(r) \in Rows /\ Key(New(r)) = Key(r) /\ EventOf(New(r)) = EventOf(r)
                      /\ New(r).origin = r.origin /\ New(r).seq = r.seq
                      /\ New(r).supersedes = r.supersedes \ gone
                      /\ New(r).payload = Redacted(r).payload
                      /\ New(r).payload => r.payload
                      /\ New(r).date = r.date
  <2> SUFFICES ASSUME NEW r \in Rows
               PROVE  /\ New(r) \in Rows /\ Key(New(r)) = Key(r) /\ EventOf(New(r)) = EventOf(r)
                      /\ New(r).origin = r.origin /\ New(r).seq = r.seq
                      /\ New(r).supersedes = r.supersedes \ gone
                      /\ New(r).payload = Redacted(r).payload
                      /\ New(r).payload => r.payload
                      /\ New(r).date = r.date
    OBVIOUS
  <2> DEFINE fields == [origin : Plain \cup Occurrences, seq : Revisions \cup {0},
                        date : Tracked, content : Contents, redacted : BOOLEAN,
                        payload : BOOLEAN, supersedes : SUBSET Keys]
  <2>1. r \in fields /\ EventOf(r) \in Events
    BY DEF Rows
  <2>2. /\ Redacted(r) \in fields
        /\ Redacted(r).origin = r.origin /\ Redacted(r).seq = r.seq
        /\ Redacted(r).date = r.date /\ Redacted(r).content = r.content
        /\ Redacted(r).supersedes = r.supersedes /\ (Redacted(r).payload => r.payload)
    BY <2>1 DEF Redacted
  <2> HIDE DEF fields
  <2>3. /\ New(r) \in fields
        /\ New(r).origin = r.origin /\ New(r).seq = r.seq /\ New(r).date = r.date
        /\ New(r).content = r.content /\ New(r).payload = Redacted(r).payload
        /\ New(r).supersedes = r.supersedes \ gone
    BY <2>2 DEF fields
  <2> HIDE DEF New
  <2>4. EventOf(New(r)) = EventOf(r) /\ Key(New(r)) = Key(r)
    BY <2>3 DEF EventOf, Key
  <2> QED
    BY <2>1, <2>2, <2>3, <2>4 DEF Rows, fields
<1>3. store \subseteq Rows /\ Tracked \subseteq Dates
  BY DateAssumption DEF Inv, TypeOK, Dates
<1>4. prot = Protected /\ asOf \in Dates /\ asOf \in Int /\ pc = "compactStore"
  BY DEF Inv, CommandInv, CompactStore, Dates
<1>5. \A d \in Dates : NormalizedExpired(d) => RawExpired(d)
  BY <1>4 DEF NormalizedExpired, RawExpired, Dates
<1>6. \A d \in Dates : cites[d] # {} => ~RawExpired(d)
  BY <1>4 DEF Inv, RawExpired, Protected
<1>7. taken \subseteq Events
  BY <1>3 DEF Rows
<1> HIDE DEF deleted, gone, New, taken
<1>8. /\ pc' \in {"idle", "audit"} /\ (pc' = "audit" => target' \in Dates)
      /\ target' \in Dates \cup {NoDate} /\ cursor' \in Nat /\ tx' \subseteq Rows
      /\ prot' = {} /\ asOf' = NoDate
  BY DEF CompactStore, Finish, Goto, importing, Inv, TypeOK
<1>9. /\ work' \in [Dates -> {"none", "held", "open", "settled"}]
      /\ \A d \in Dates : work[d] = "open" => work'[d] = "open"
  BY DEF CompactStore, Inv, TypeOK
<1>10. TypeOK'
  <2>1. store' \subseteq Rows /\ expired' \subseteq Events
    BY <1>1, <1>2, <1>3, <1>7 DEF Inv, TypeOK
  <2> QED
    BY <1>1, <1>8, <1>9, <2>1 DEF Inv, TypeOK, Labels
<1>11. TableInv(store)'
  <2>1. PrimaryKey(store')
    BY <1>1, <1>2, <1>3 DEF PrimaryKey, Inv, TableInv
  <2>2. ASSUME NEW r \in store \ deleted, NEW k \in New(r).supersedes
        PROVE  \E s \in store' : Key(s) = k /\ s.origin = New(r).origin /\ s.seq < New(r).seq
    <3>1. k \in r.supersedes /\ k \notin gone
      BY <1>2, <1>3, <2>2
    <3>2. PICK s \in store : Key(s) = k /\ s.origin = r.origin /\ s.seq < r.seq
      BY <3>1 DEF Inv, TableInv, Linked
    <3>3. s \notin deleted
      BY <3>1, <3>2 DEF gone
    <3>4. New(s) \in store'
      BY <1>1, <3>3
    <3> QED
      BY <1>2, <1>3, <3>2, <3>4
  <2>3. Linked(store')
    BY <1>1, <2>2 DEF Linked
  <2>4. ASSUME NEW r \in store \ deleted, EventOf(New(r)) \in expired', New(r).payload
        PROVE  FALSE
    <3>1. r.payload /\ Redacted(r).payload /\ EventOf(r) = EventOf(New(r))
      BY <1>2, <1>3, <2>4
    <3>2. EventOf(r) \in taken
      BY <1>1, <2>4, <3>1 DEF Inv, TableInv, Forgotten
    <3>3. PICK s \in store : /\ EventOf(s) = EventOf(r)
                             /\ NormalizedExpired(s.date) \/ ~Redacted(s).payload
      BY <3>2 DEF taken
    <3>4. Key(s) = Key(r)
      BY <3>3 DEF EventOf, Key
    <3>5. s = r
      BY <3>4 DEF Inv, TableInv, PrimaryKey
    <3> QED
      BY <3>1, <3>3, <3>5 DEF deleted
  <2>5. Forgotten(store)'
    BY <1>1, <2>4 DEF Forgotten
  <2> QED
    BY <2>1, <2>3, <2>5 DEF TableInv, Forgotten
<1>12. PendingEvidenceKept'
  <2> SUFFICES ASSUME NEW d \in Dates, NEW k \in cites[d]
               PROVE  \E r \in store' : Key(r) = k /\ r.date = d /\ r.payload
    BY <1>1 DEF PendingEvidenceKept
  <2>1. PICK r \in store : Key(r) = k /\ r.date = d /\ r.payload
    BY DEF Inv, PendingEvidenceKept
  <2>2. ~RawExpired(d) /\ ~NormalizedExpired(d)
    BY <1>5, <1>6
  <2>3. Redacted(r) = r /\ r \notin deleted
    BY <2>1, <2>2 DEF Redacted, deleted
  <2> QED
    BY <1>1, <1>2, <1>3, <2>1, <2>3
<1>13. \A i \in DOMAIN journal' : journal'[i].events \cap expired' = {}
  <2> SUFFICES ASSUME NEW i \in DOMAIN journal, NEW e \in journal[i].events, e \in expired'
               PROVE  FALSE
    BY <1>1
  <2>1. e \in taken
    BY <1>1 DEF Inv, ExpiredStaysGone
  <2>2. PICK s \in store : /\ EventOf(s) = e
                           /\ NormalizedExpired(s.date) \/ ~Redacted(s).payload
                           /\ s.payload
    BY <2>1 DEF taken
  <2>3. s.date \in Dates /\ e.date = s.date
    BY <1>3, <2>2 DEF Rows, EventOf
  <2>4. RawExpired(e.date)
    BY <1>5, <2>2, <2>3 DEF Redacted
  <2> QED
    BY <1>4, <2>4 DEF Inv, CommandInv
<1>14. CommandInv'
  BY <1>8 DEF CommandInv
<1> QED
  BY <1>1, <1>9, <1>10, <1>11, <1>12, <1>13, <1>14 DEF Inv, ExpiredStaysGone, TableInv, Forgotten

\* After it, no line holds an event that expires today.
LEMMA CompactJournalStep == Inv /\ CompactJournal => Inv'
<1> SUFFICES ASSUME Inv, CompactJournal PROVE Inv'
  OBVIOUS
<1> DEFINE Expires(line) == \E e \in line.events : RawExpired(e.date)
<1>1. /\ journal' = [i \in DOMAIN journal |-> IF Expires(journal[i]) THEN Blank ELSE journal[i]]
      /\ openTail' = (openTail /\ \A i \in DOMAIN journal : ~Expires(journal[i]))
      /\ pc = "compactJournal" /\ pc' = "compactStore"
      /\ UNCHANGED <<target, store, work, cites, today, cursor, tx, prot, asOf, expired>>
  BY DEF CompactJournal, Goto, importing, retaining
<1>2. journal \in Seq(Lines) /\ Blank \in Lines /\ Blank.events = {}
  BY DEF Inv, TypeOK, Lines, Blank
<1>3. journal' \in Seq(Lines) /\ Len(journal') = Len(journal) /\ DOMAIN journal' = DOMAIN journal
  <2>1. \A i \in 1..Len(journal) : journal'[i] \in Lines
    BY <1>1, <1>2
  <2>2. DOMAIN journal = 1..Len(journal) /\ Len(journal) \in Nat
    BY <1>2
  <2>3. journal' \in [1..Len(journal) -> Lines]
    BY <1>1, <2>1, <2>2
  <2> QED
    BY <2>2, <2>3
<1>4. \A i \in DOMAIN journal' : /\ journal'[i].events \subseteq journal[i].events
                                 /\ \A e \in journal'[i].events : ~RawExpired(e.date)
  BY <1>1, <1>2
<1>5. \A d \in Dates : RawExpired(d)' <=> RawExpired(d)
  BY <1>1 DEF RawExpired
<1>6. TypeOK'
  BY <1>1, <1>3 DEF Inv, TypeOK, Labels
<1>7. \A i \in DOMAIN journal' : \A e \in journal'[i].events : ~RawExpired(e.date)'
  BY <1>1, <1>4 DEF RawExpired
<1>8. CommandInv'
  BY <1>1, <1>7 DEF Inv, CommandInv, Protected
<1>9. ExpiredStaysGone'
  BY <1>1, <1>3, <1>4 DEF Inv, ExpiredStaysGone, Forgotten
<1> QED
  BY <1>1, <1>6, <1>8, <1>9 DEF Inv, TableInv, Linked, PrimaryKey, Forgotten, PendingEvidenceKept

\* Each line extends the table inside the transaction.
LEMMA ImportLineStep == Inv /\ ImportLine => Inv'
<1> SUFFICES ASSUME Inv, ImportLine PROVE Inv'
  OBVIOUS
<1>1. /\ pc = "import" /\ pc' = "import" /\ cursor \in DOMAIN journal /\ cursor' = cursor + 1
      /\ UNCHANGED <<journal, openTail, store, work, cites, today, target, prot, asOf, expired>>
      /\ tx \subseteq Rows /\ store \subseteq tx /\ TableInv(tx) /\ cursor \in Nat
  BY DEF ImportLine, retaining, Inv, CommandInv, TypeOK
<1>2. tx' \subseteq Rows /\ tx \subseteq tx' /\ TableInv(tx')
  <2>1. CASE tx' = tx
    BY <1>1, <2>1
  <2>2. ASSUME NEW e \in journal[cursor].events, tx' = Inserted(tx, e)
        PROVE  tx' \subseteq Rows /\ tx \subseteq tx' /\ TableInv(tx')
    <3>1. journal[cursor] \in Lines
      BY <1>1 DEF Inv, TypeOK
    <3>2. e \in Events
      BY <3>1, <2>2 DEF Lines, Whole, Malformed, Blank
    <3>3. e \notin expired
      BY <1>1, <2>2 DEF Inv, ExpiredStaysGone
    <3> QED
      BY <1>1, <2>2, <3>2, <3>3, InsertedTable
  <2> QED
    BY <2>1, <2>2 DEF ImportLine
<1>3. TableInv(tx)'
  BY <1>1, <1>2 DEF TableInv, PrimaryKey, Linked, Forgotten
<1>4. TypeOK'
  BY <1>1, <1>2 DEF Inv, TypeOK
<1>5. CommandInv'
  BY <1>1, <1>2, <1>3 DEF Inv, CommandInv
<1> QED
  BY <1>1, <1>4, <1>5 DEF Inv, TableInv, Linked, PrimaryKey, Forgotten, PendingEvidenceKept,
                          ExpiredStaysGone

\* A command that ends takes nothing with it.
LEMMA FinishStep ==
    ASSUME Inv, Finish, UNCHANGED <<journal, openTail, store, work, cites, today, expired>>
    PROVE  Inv'
<1>1. TypeOK'
  BY DEF Finish, Inv, TypeOK, Labels
<1>2. CommandInv'
  BY DEF Finish, CommandInv
<1> QED
  BY <1>1, <1>2 DEF Inv, TableInv, Linked, PrimaryKey, Forgotten, PendingEvidenceKept,
                    ExpiredStaysGone

\* Each step of a hook, an import, a run, retention or purge preserves the invariant.
LEMMA InvStep == Inv /\ [Next]_vars => Inv'
<1> SUFFICES ASSUME Inv, [Next]_vars PROVE Inv'
  OBVIOUS
<1> USE DEF Inv, TableInv, Linked, PrimaryKey, Forgotten, PendingEvidenceKept, ExpiredStaysGone
<1>1. CASE UNCHANGED vars
  <2>1. TypeOK'
    BY <1>1 DEF vars, command, importing, retaining, TypeOK
  <2>2. CommandInv'
    BY <1>1 DEF vars, command, importing, retaining, CommandInv, Protected, RawExpired
  <2> QED
    BY <1>1, <2>1, <2>2 DEF vars, command, importing, retaining
<1>2. ASSUME NEW e \in Events, Capture(e) PROVE Inv'
  BY <1>2, WriteStep DEF Capture
<1>3. ASSUME NEW e \in Events, Collect(e) PROVE Inv'
  BY <1>3, WriteStep DEF Collect
<1>4. ASSUME NEW d \in Tracked, BeginRun(d) PROVE Inv'
  <2>1. d \in Dates
    BY DateAssumption DEF Dates
  <2>2. TypeOK' /\ CommandInv'
    BY <1>4, <2>1 DEF BeginRun, importing, retaining, TypeOK, CommandInv, Labels
  <2> QED
    BY <1>4, <2>2 DEF BeginRun
<1>5. ASSUME CollectEnds \/ BeginImport PROVE Inv'
  <2>1. TypeOK' /\ CommandInv'
    BY <1>5 DEF CollectEnds, BeginImport, OpenTransaction, retaining, TypeOK, CommandInv, Labels
  <2> QED
    BY <1>5, <2>1 DEF CollectEnds, BeginImport
<1>6. CASE ImportLine
  BY <1>6, ImportLineStep
<1>7. CASE ImportFails
  BY <1>7, FinishStep DEF ImportFails
<1>8. CASE ImportCommits
  <2>1. /\ store' = tx /\ store \subseteq tx /\ tx \subseteq Rows
        /\ UNCHANGED <<journal, openTail, work, cites, today, expired>>
    BY <1>8 DEF ImportCommits, CommandInv, TypeOK
  <2>2. /\ pc' \in {"idle", "propose"} /\ (pc' = "propose" => target' \in Dates)
        /\ target' \in Dates \cup {NoDate} /\ cursor' \in Nat /\ tx' \subseteq Rows
        /\ prot' \subseteq Dates /\ asOf' \in Dates \cup {NoDate}
    BY <1>8 DEF ImportCommits, Finish, Goto, retaining, TypeOK
  <2>3. TypeOK'
    BY <2>1, <2>2 DEF TypeOK, Labels
  <2>4. CommandInv'
    BY <2>2 DEF CommandInv
  <2>5. TableInv(store)'
    BY <1>8, <2>1 DEF ImportCommits, CommandInv
  <2> QED
    BY <2>1, <2>3, <2>4, <2>5
<1>9. ASSUME NEW refs \in SUBSET store, Propose(refs) PROVE Inv'
  <2>1. /\ target \in Dates /\ pc' = "audit" /\ target' = target
        /\ UNCHANGED <<journal, openTail, store, today, cursor, tx, prot, asOf, expired>>
    BY <1>9 DEF Propose, Goto, importing, retaining, CommandInv
  <2>2. /\ work' = [work EXCEPT ![target] = IF refs = {} THEN "held" ELSE "open"]
        /\ cites' = [cites EXCEPT ![target] = Readable(refs)]
        /\ refs \subseteq EvidenceOf(target)
    BY <1>9 DEF Propose
  <2>3. \A k \in Readable(refs) : \E r \in store : Key(r) = k /\ r.date = target /\ r.payload
    BY <2>2 DEF Readable, EvidenceOf
  <2>4. Readable(refs) \subseteq Keys /\ (Readable(refs) # {} => refs # {})
    BY <2>2 DEF Readable, Keys, Key, TypeOK, Rows
  <2>5. TypeOK'
    BY <2>1, <2>2, <2>4 DEF TypeOK, Labels
  <2>6. PendingEvidenceKept'
    BY <2>1, <2>2, <2>3 DEF TypeOK
  <2>7. \A d \in Dates : cites'[d] # {} => work'[d] = "open"
    BY <2>1, <2>2, <2>4 DEF TypeOK
  <2>8. CommandInv'
    BY <2>1 DEF CommandInv
  <2> QED
    BY <2>1, <2>5, <2>6, <2>7, <2>8
<1>10. CASE ProposeNothing
  <2>1. TypeOK' /\ CommandInv'
    BY <1>10 DEF ProposeNothing, Goto, importing, retaining, TypeOK, CommandInv, Labels
  <2> QED
    BY <1>10, <2>1 DEF ProposeNothing
<1>11. CASE Decide
  <2>1. /\ target \in Dates /\ pc' = "protect" /\ target' = target
        /\ UNCHANGED <<journal, openTail, store, today, cursor, tx, prot, asOf, expired>>
    BY <1>11 DEF Decide, Goto, importing, retaining, CommandInv
  <2>2. /\ work' \in [Dates -> {"none", "held", "open", "settled"}]
        /\ cites' \in [Dates -> SUBSET Keys]
        /\ \A d \in Dates : cites'[d] \subseteq cites[d]
        /\ \A d \in Dates : cites'[d] # {} => work'[d] = "open"
    <3>1. CASE UNCHANGED <<work, cites>>
      BY <3>1 DEF TypeOK
    <3>2. CASE ~UNCHANGED <<work, cites>>
      <4>1. PICK outcome \in {"open", "settled"} :
              /\ work' = [work EXCEPT ![target] = outcome]
              /\ cites' = IF work'[target] = "settled" THEN [cites EXCEPT ![target] = {}]
                                                       ELSE cites
        BY <1>11, <3>2 DEF Decide
      <4> QED
        BY <2>1, <4>1 DEF TypeOK
    <3> QED
      BY <3>1, <3>2
  <2>3. TypeOK'
    BY <2>1, <2>2 DEF TypeOK, Labels
  <2>4. CommandInv'
    BY <2>1 DEF CommandInv
  <2>5. PendingEvidenceKept'
    <3> SUFFICES ASSUME NEW d \in Dates, NEW k \in cites'[d]
                 PROVE  \E r \in store : Key(r) = k /\ r.date = d /\ r.payload
      BY <2>1
    <3>1. cites'[d] \subseteq cites[d]
      BY <2>2
    <3>2. k \in cites[d]
      BY <3>1
    <3> QED
      BY <3>2
  <2>6. TableInv(store)' /\ ExpiredStaysGone'
    BY <2>1
  <2>7. \A d \in Dates : cites'[d] # {} => work'[d] = "open"
    BY <2>2
  <2> QED
    BY <2>3, <2>4, <2>5, <2>6, <2>7
<1>12. CASE BeginRetention
  <2>1. TypeOK' /\ CommandInv'
    BY <1>12 DEF BeginRetention, Goto, importing, retaining, TypeOK, CommandInv, Labels
  <2> QED
    BY <1>12, <2>1 DEF BeginRetention
<1>13. CASE ReadProtected
  <2>1. TypeOK' /\ CommandInv'
    BY <1>13 DEF ReadProtected, Goto, importing, TypeOK, CommandInv, Labels, Protected
  <2> QED
    BY <1>13, <2>1 DEF ReadProtected
<1>14. CASE CompactJournal
  BY <1>14, CompactJournalStep
<1>15. CASE CompactStore
  BY <1>15, CompactStoreStep
<1>16. CASE PurgeStore
  <2>1. /\ store' = {} /\ pc' = "purgeFiles" /\ target' = target
        /\ cites' = [d \in Dates |-> {}]
        /\ work' \in [Dates -> {"none", "held", "open", "settled"}]
        /\ UNCHANGED <<journal, openTail, today, cursor, tx, prot, asOf, expired>>
    BY <1>16 DEF PurgeStore, Goto, importing, retaining
  <2>2. TypeOK' /\ CommandInv'
    BY <2>1 DEF TypeOK, CommandInv, Labels
  <2> QED
    BY <2>1, <2>2
<1>17. CASE PurgeFiles
  <2>1. /\ journal' = <<>> /\ openTail' = FALSE /\ Finish
        /\ UNCHANGED <<store, work, cites, today, expired>>
    BY <1>17 DEF PurgeFiles
  <2>2. journal' \in Seq(Lines) /\ DOMAIN journal' = {}
    BY <2>1
  <2>3. TypeOK'
    BY <2>1, <2>2 DEF Finish, TypeOK, Labels
  <2>4. CommandInv'
    BY <2>1 DEF Finish, CommandInv
  <2> QED
    BY <2>1, <2>2, <2>3, <2>4
<1>18. CASE Stop
  BY <1>18, FinishStep DEF Stop
<1>19. CASE Tick
  <2>1. today' \in Dates
    BY <1>19, DateAssumption DEF Tick, TypeOK, Dates
  <2>2. UNCHANGED <<journal, openTail, store, work, cites, pc, target, cursor, tx, prot, asOf,
                    expired>>
    BY <1>19 DEF Tick, command, importing, retaining
  <2>3. TypeOK'
    BY <2>1, <2>2 DEF TypeOK
  <2>4. CommandInv'
    BY <2>2 DEF CommandInv, Protected, RawExpired
  <2> QED
    BY <2>2, <2>3, <2>4
<1> QED
  BY <1>1, <1>2, <1>3, <1>4, <1>5, <1>6, <1>7, <1>8, <1>9, <1>10, <1>11, <1>12, <1>13, <1>14,
     <1>15, <1>16, <1>17, <1>18, <1>19 DEF Next

\* The inductive invariant holds in every state.
THEOREM EvidenceInvCorrect == Spec => []Inv
<1> QED
  BY InvInit, InvStep, PTL DEF Spec

\* The evidence of an open proposal stays in the store, with its payload, however old its
\* date grows: no order of imports, retention, purges and interruptions loses it.
THEOREM PendingEvidenceKeptCorrect == Spec => []PendingEvidenceKept
<1>1. Inv => PendingEvidenceKept
  BY DEF Inv
<1> QED
  BY <1>1, EvidenceInvCorrect, PTL

\* The table never reports the latest known revision of an occurrence as superseded, and
\* never refers to a row that retention has deleted.
THEOREM SupersedesEarlierCorrect == Spec => []SupersedesEarlier
<1>1. Inv => SupersedesEarlier
  BY DEF Inv, TableInv, SupersedesEarlier
<1> QED
  BY <1>1, EvidenceInvCorrect, PTL

\* What retention took stays away until it is captured again.
THEOREM ExpiredStaysGoneCorrect == Spec => []ExpiredStaysGone
<1>1. Inv => ExpiredStaysGone
  BY DEF Inv
<1> QED
  BY <1>1, EvidenceInvCorrect, PTL

\* A step that keeps a row changes nothing of it but to forget.
LEMMA RowsStep == Inv /\ [Next]_vars => [\A r \in store : \A s \in store' : RowKept(r, s)]_vars
<1> SUFFICES ASSUME Inv, Next, NEW r \in store, NEW s \in store' PROVE RowKept(r, s)
  BY DEF vars
<1>1. PrimaryKey(store) /\ store \subseteq Rows
  BY DEF Inv, TableInv, TypeOK
<1>2. CASE store' = store
  BY <1>1, <1>2 DEF RowKept, PrimaryKey
<1>3. CASE ImportCommits
  BY <1>3 DEF ImportCommits, Inv, CommandInv, TableInv, PrimaryKey, RowKept
<1>4. CASE CompactStore
  <2> DEFINE deleted == {q \in store : NormalizedExpired(q.date)}
  <2> DEFINE gone == {Key(q) : q \in deleted}
  <2>1. PICK q \in store \ deleted : s = [Redacted(q) EXCEPT !.supersedes = @ \ gone]
    BY <1>4 DEF CompactStore, Compacted
  <2> HIDE DEF deleted, gone
  <2>2. /\ s.origin = q.origin /\ s.seq = q.seq /\ s.date = q.date /\ s.content = q.content
        /\ (s.payload => q.payload) /\ s.supersedes \subseteq q.supersedes
    <3>1. q \in [origin : Plain \cup Occurrences, seq : Revisions \cup {0}, date : Tracked,
                content : Contents, redacted : BOOLEAN, payload : BOOLEAN,
                supersedes : SUBSET Keys]
      BY <1>1 DEF Rows
    <3> QED
      BY <2>1, <3>1 DEF Redacted
  <2>3. Key(s) = Key(q)
    BY <2>2 DEF Key
  <2> QED
    BY <1>1, <2>2, <2>3 DEF RowKept, PrimaryKey
<1>5. CASE PurgeStore
  BY <1>5 DEF PurgeStore
<1> QED
  BY <1>2, <1>3, <1>4, <1>5
  DEF Next, Capture, Collect, BeginRun, CollectEnds, BeginImport, ImportLine, ImportFails, Propose,
      ProposeNothing, Decide, BeginRetention, ReadProtected, CompactJournal, PurgeFiles, Stop, Tick

\* A row that is there keeps its hash, and its redaction, from import to deletion.
THEOREM RowsNeverRewrittenCorrect == Spec => RowsNeverRewritten
<1> QED
  BY EvidenceInvCorrect, RowsStep, PTL DEF Spec, RowsNeverRewritten
=============================================================================
