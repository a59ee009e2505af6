-------------------------- MODULE EvidenceJournal --------------------------
(***************************************************************************)
(* The life of local evidence: hooks and collectors append events to       *)
(* journal.jsonl, an import turns the journal into rows of evidence_events *)
(* in one transaction, proposals cite those rows, and retention removes    *)
(* journal lines, redacts rows and deletes them as their dates grow old.   *)
(*                                                                         *)
(* Commands that change the store hold the state lock exclusively and      *)
(* captures hold it shared, so one such command runs at a time and nothing *)
(* is captured meanwhile; it may be interrupted, or fail, between any two  *)
(* of its steps.  What the audit and the execution of a date do to its     *)
(* proposals is the matter of WorklogExecution: here they end in a state   *)
(* that protects the date from retention or in one that does not.          *)
(***************************************************************************)
EXTENDS Integers, Sequences

CONSTANTS
    Plain,           \* commits, hook sessions and captures: an event id each
    Minimized,       \* those captured as already redacted (the hooks' sessions)
    Occurrences,     \* calendar occurrences: an event id for each revision of one
    Revisions,       \* the sequence numbers these have
    Contents,        \* what else the integrity hash covers
    Tracked,         \* the dates that events and runs are about
    RawDays,         \* DRAG_TRACKING_RETENTION_RAW_DAYS
    NormalizedDays,  \* DRAG_TRACKING_RETENTION_NORMALIZED_DAYS
    MaxDate,         \* bound on the calendar
    MaxLines         \* bound on the lines ever written to the journal

ASSUME SequenceAssumption == Revisions \subseteq Nat
ASSUME OriginAssumption == Plain \cap Occurrences = {} /\ Minimized \subseteq Plain
\* The defaults are 30 and 90 days; nothing in the code keeps a user from configuring
\* the opposite order.
ASSUME DaysAssumption == RawDays \in Nat /\ NormalizedDays \in Nat /\ RawDays <= NormalizedDays
ASSUME DateAssumption == MaxDate \in Nat \ {0} /\ Tracked \subseteq 1..MaxDate

Dates == 1..MaxDate
NoDate == 0

\* Two events with one id have one hash exactly if they are equal.
Events == [origin : Plain, seq : {0}, date : Tracked, content : Contents]
          \cup [origin : Occurrences, seq : Revisions, date : Tracked, content : Contents]

Key(x) == <<x.origin, x.seq>>
Keys == (Plain \cup Occurrences) \X (Revisions \cup {0})

\* A line holds an event.  A malformed one is whatever a write that did not finish has
\* left, and what was appended to it.  A blank one is skipped by every reader; it stands
\* for a line that was removed, too.
Whole(e) == [parses |-> TRUE, events |-> {e}]
Malformed == [parses |-> FALSE, events |-> {}]
Blank == [parses |-> TRUE, events |-> {}]
Lines == {Whole(e) : e \in Events} \cup {Malformed, Blank}

\* The event a row was made from.
EventOf(r) == [origin |-> r.origin, seq |-> r.seq, date |-> r.date, content |-> r.content]

Rows == {r \in [origin : Plain \cup Occurrences, seq : Revisions \cup {0}, date : Tracked,
                content : Contents, redacted : BOOLEAN, payload : BOOLEAN,
                supersedes : SUBSET Keys] : EventOf(r) \in Events}

VARIABLES
    journal,     \* the lines of journal.jsonl, in order
    openTail,    \* its last line has no newline
    store,       \* the rows of evidence_events
    work,        \* per date: what the ledger and the proposals say of it
    cites,       \* per date: the rows with a payload its open proposals cite
    today,
    pc,          \* what the exclusive command does next
    target,      \* the date of a run, NoDate in other commands
    cursor, tx,  \* the import: next line, and the table inside its transaction
    prot, asOf,  \* retention: protected dates and the day it was started
    expired      \* history: the events that retention took the payload of

importing == <<cursor, tx>>
retaining == <<prot, asOf>>
command == <<pc, target, importing, retaining>>
vars == <<journal, openTail, store, work, cites, today, command, expired>>

Init ==
    /\ journal = <<>>
    /\ openTail = FALSE
    /\ store = {}
    /\ work = [d \in Dates |-> "none"]
    /\ cites = [d \in Dates |-> {}]
    /\ today = 1
    /\ pc = "idle"
    /\ target = NoDate
    /\ cursor = 0 /\ tx = {}
    /\ prot = {} /\ asOf = NoDate
    /\ expired = {}

-----------------------------------------------------------------------------
(* The journal.                                                            *)

\* What one append does to the file: it continues a line that has no newline, and
\* makes it unreadable, or it starts a line of its own.
Written(line) ==
    IF openTail THEN [journal EXCEPT ![Len(journal)] = Malformed]
                ELSE Append(journal, line)

\* append_journal_event, under the journal lock.
Write(e) ==
    /\ Len(journal) < MaxLines
    /\ journal' = Written(Whole(e))
    /\ openTail' = FALSE
    /\ expired' = expired \ {e}

\* The write ends early, with the process or by an error: the line is cut short, perhaps
\* by no more than its newline.
WriteInterrupted(e) ==
    /\ Len(journal) < MaxLines
    /\ \E line \in {Whole(e), Malformed} : journal' = Written(line)
    /\ openTail' = TRUE
    /\ expired' = expired \ {e}

\* The hooks, `internal capture` and `internal collect`.
Capture(e) ==
    /\ pc = "idle"
    /\ Write(e) \/ WriteInterrupted(e)
    /\ UNCHANGED <<store, work, cites, today, command>>

-----------------------------------------------------------------------------
(* A command ends, by itself, by an error or by a crash: an open transaction is  *)
(* rolled back, everything else it has done stays.                               *)

Goto(label) == pc' = label /\ UNCHANGED target

Finish ==
    /\ pc' = "idle" /\ target' = NoDate
    /\ cursor' = 0 /\ tx' = {}
    /\ prot' = {} /\ asOf' = NoDate

Stop ==
    /\ pc # "idle"
    /\ Finish
    /\ UNCHANGED <<journal, openTail, store, work, cites, today, expired>>

BeginRun(d) ==
    /\ pc = "idle"
    /\ pc' = "collect" /\ target' = d
    /\ UNCHANGED <<journal, openTail, store, work, cites, today, importing, retaining, expired>>

\* One event of a source of the run.  A calendar only yields events of the run's date;
\* a commit is found by its committer date and filed under its author's.  The content is
\* open: a commit's event holds the branch checked out at the moment, that of a calendar
\* event without LAST-MODIFIED and without an interval the time of collection.
Collect(e) ==
    /\ pc = "collect"
    /\ e.origin \in Occurrences => e.date = target
    /\ \/ Write(e) /\ UNCHANGED command
       \/ WriteInterrupted(e) /\ Finish
    /\ UNCHANGED <<store, work, cites, today>>

OpenTransaction ==
    /\ pc' = "import"
    /\ cursor' = 1 /\ tx' = store

\* All sources were read; after a source that failed the run stops instead (Stop).
CollectEnds ==
    /\ pc = "collect"
    /\ OpenTransaction
    /\ UNCHANGED <<journal, openTail, store, work, cites, today, target, retaining, expired>>

-----------------------------------------------------------------------------
(* The import, line by line.                                               *)

BeginImport ==
    /\ pc = "idle"
    /\ OpenTransaction
    /\ UNCHANGED <<journal, openTail, store, work, cites, today, target, retaining, expired>>

\* validate_event: a known id with another integrity hash.
Conflicts(rows, e) ==
    \E r \in rows : Key(r) = Key(e) /\ (r.date # e.date \/ r.content # e.content)

\* resolve_supersedes: the latest known earlier revision of the occurrence.  The first
\* two sequence numbers ask for none.
Predecessors(rows, e) ==
    LET earlier == {r \in rows : r.origin = e.origin /\ r.seq < e.seq}
    IN  IF e.origin \in Plain \/ e.seq <= 1
        THEN {}
        ELSE {Key(r) : r \in {s \in earlier : \A o \in earlier : o.seq <= s.seq}}

RowOf(rows, e) ==
    [origin |-> e.origin, seq |-> e.seq, date |-> e.date, content |-> e.content,
     redacted |-> e.origin \in Minimized, payload |-> TRUE,
     supersedes |-> Predecessors(rows, e)]

\* Deviation: INSERT OR REPLACE.
InsertedOrReplaced(rows, e) == {r \in rows : Key(r) # Key(e)} \cup {RowOf(rows, e)}

\* INSERT OR IGNORE.
Inserted(rows, e) ==
    IF \E r \in rows : Key(r) = Key(e) THEN rows ELSE rows \cup {RowOf(rows, e)}

ImportLine ==
    /\ pc = "import" /\ cursor \in DOMAIN journal
    /\ \/ journal[cursor] = Blank /\ UNCHANGED tx
       \/ \E e \in journal[cursor].events : ~Conflicts(tx, e) /\ tx' = Inserted(tx, e)
    /\ cursor' = cursor + 1
    /\ UNCHANGED <<journal, openTail, store, work, cites, today, pc, target, retaining, expired>>

\* One line that does not parse, or conflicts, undoes the whole import.
ImportFails ==
    /\ pc = "import" /\ cursor \in DOMAIN journal
    /\ \/ journal[cursor] = Malformed
       \/ \E e \in journal[cursor].events : Conflicts(tx, e)
    /\ Finish
    /\ UNCHANGED <<journal, openTail, store, work, cites, today, expired>>

ImportCommits ==
    /\ pc = "import" /\ cursor > Len(journal)
    /\ store' = tx
    /\ IF target = NoDate THEN Finish
                          ELSE Goto("propose") /\ cursor' = 0 /\ tx' = {} /\ UNCHANGED retaining
    /\ UNCHANGED <<journal, openTail, work, cites, today, expired>>

-----------------------------------------------------------------------------
(* The proposals of the run's date.                                        *)

EvidenceOf(d) == {r \in store : r.date = d}
Readable(rows) == {Key(r) : r \in {s \in rows : s.payload}}

\* The provider answers for a date without proposals.  An answer may hold no proposal:
\* the empty bundle it leaves protects the date as an open proposal does.
Propose(refs) ==
    /\ pc = "propose"
    /\ work[target] \in {"none", "held"}
    /\ refs \subseteq EvidenceOf(target)
    /\ work' = [work EXCEPT ![target] = IF refs = {} THEN "held" ELSE "open"]
    /\ cites' = [cites EXCEPT ![target] = Readable(refs)]
    /\ Goto("audit")
    /\ UNCHANGED <<journal, openTail, store, today, importing, retaining, expired>>

\* There are proposals already, or no provider is configured.
ProposeNothing ==
    /\ pc = "propose"
    /\ Goto("audit")
    /\ UNCHANGED <<journal, openTail, store, work, cites, today, importing, retaining, expired>>

\* The audit and the execution leave the proposals of the date in a state that protects
\* it, or in one that does not; a later one may take them up again.
Decide ==
    /\ pc = "audit"
    /\ \/ UNCHANGED <<work, cites>>
       \/ /\ work[target] \in {"open", "settled"}
          /\ \E outcome \in {"open", "settled"} :
                work' = [work EXCEPT ![target] = outcome]
          /\ cites' = IF work'[target] = "settled" THEN [cites EXCEPT ![target] = {}] ELSE cites
    /\ Goto("protect")
    /\ UNCHANGED <<journal, openTail, store, today, importing, retaining, expired>>

-----------------------------------------------------------------------------
(* enforce_retention: it reads which dates are protected, compacts the     *)
(* journal, then the store.                                                *)

BeginRetention ==
    /\ pc = "idle"
    /\ Goto("protect")
    /\ UNCHANGED <<journal, openTail, store, work, cites, today, importing, retaining, expired>>

\* Deviation: only the ledger and empty bundles protect a date.
ProtectedByLedger == {d \in Dates : work[d] = "held"}

Protected == {d \in Dates : work[d] \in {"open", "held"}}

ReadProtected ==
    /\ pc = "protect"
    /\ prot' = Protected /\ asOf' = today
    /\ Goto("compactJournal")
    /\ UNCHANGED <<journal, openTail, store, work, cites, today, importing, expired>>

\* Raw evidence expires first, normalized evidence later.
RawExpired(d) == d < asOf - RawDays /\ d \notin prot
NormalizedExpired(d) == d < asOf - NormalizedDays /\ d \notin prot

\* Deviation: the journal is left to the next run.
CompactJournalLater ==
    /\ pc = "compactJournal"
    /\ Goto("compactStore")
    /\ UNCHANGED <<journal, openTail, store, work, cites, today, importing, retaining, expired>>

\* A line that does not parse has no date and is kept.  The file is rewritten, with a
\* newline after its last line, only if a line has expired.
CompactJournal ==
    /\ pc = "compactJournal"
    /\ LET Expires(line) == \E e \in line.events : RawExpired(e.date)
       IN  /\ journal' = [i \in DOMAIN journal |->
                             IF Expires(journal[i]) THEN Blank ELSE journal[i]]
           /\ openTail' = (openTail /\ \A i \in DOMAIN journal : ~Expires(journal[i]))
    /\ Goto("compactStore")
    /\ UNCHANGED <<store, work, cites, today, importing, retaining, expired>>

\* What was captured as redacted is not redacted again.
Redacted(r) ==
    IF RawExpired(r.date) /\ ~r.redacted THEN [r EXCEPT !.redacted = TRUE, !.payload = FALSE]
                                         ELSE r

\* Deviation: the references to deleted rows stay.
CompactedOnly(rows) == {Redacted(r) : r \in {s \in rows : ~NormalizedExpired(s.date)}}

\* Rows are redacted, then deleted; a reference to a deleted row is cleared.
Compacted(rows) ==
    LET deleted == {r \in rows : NormalizedExpired(r.date)}
        gone == {Key(r) : r \in deleted}
    IN  {[Redacted(r) EXCEPT !.supersedes = @ \ gone] : r \in rows \ deleted}

\* One transaction.  A run goes on to execute, and comes back here at its end.
CompactStore ==
    /\ pc = "compactStore"
    /\ store' = Compacted(store)
    /\ work' = [d \in Dates |-> IF NormalizedExpired(d) /\ work[d] = "settled"
                                THEN "none" ELSE work[d]]
    /\ expired' = expired \cup
          {EventOf(r) : r \in {s \in store : /\ s.payload
                                             /\ \/ NormalizedExpired(s.date)
                                                \/ ~Redacted(s).payload}}
    /\ \/ Finish
       \/ /\ target # NoDate
          /\ Goto("audit")
          /\ prot' = {} /\ asOf' = NoDate
          /\ UNCHANGED importing
    /\ UNCHANGED <<journal, openTail, cites, today>>

-----------------------------------------------------------------------------
(* purge_state without --acknowledge-lost-recovery: the tables first, then *)
(* the files.  An operation of the ledger that is not finished stays and   *)
(* protects its date.                                                      *)

PurgeStore ==
    /\ pc = "idle"
    /\ store' = {}
    /\ \E ledger \in SUBSET {d \in Dates : work[d] \in {"open", "held"}} :
          work' = [d \in Dates |-> IF d \in ledger THEN "held" ELSE "none"]
    /\ cites' = [d \in Dates |-> {}]
    /\ Goto("purgeFiles")
    /\ UNCHANGED <<journal, openTail, today, importing, retaining, expired>>

PurgeFiles ==
    /\ pc = "purgeFiles"
    /\ journal' = <<>> /\ openTail' = FALSE
    /\ Finish
    /\ UNCHANGED <<store, work, cites, today, expired>>

\* Midnight may pass in the middle of a command.
Tick ==
    /\ today < MaxDate
    /\ today' = today + 1
    /\ UNCHANGED <<journal, openTail, store, work, cites, command, expired>>

Next ==
    \/ \E e \in Events : Capture(e) \/ Collect(e)
    \/ \E d \in Tracked : BeginRun(d)
    \/ CollectEnds
    \/ BeginImport \/ ImportLine \/ ImportFails \/ ImportCommits
    \/ \E refs \in SUBSET store : Propose(refs)
    \/ ProposeNothing \/ Decide
    \/ BeginRetention \/ ReadProtected \/ CompactJournal \/ CompactStore
    \/ PurgeStore \/ PurgeFiles
    \/ Stop \/ Tick

Spec == Init /\ [][Next]_vars

-----------------------------------------------------------------------------
Labels == {"idle", "collect", "import", "propose", "audit", "protect", "compactJournal",
           "compactStore", "purgeFiles"}

\* The variables hold values of their types.
TypeOK ==
    /\ journal \in Seq(Lines)
    /\ openTail \in BOOLEAN /\ (openTail => Len(journal) > 0)
    /\ store \subseteq Rows
    /\ work \in [Dates -> {"none", "held", "open", "settled"}]
    /\ cites \in [Dates -> SUBSET Keys]
    /\ today \in Dates
    /\ pc \in Labels
    /\ target \in Dates \cup {NoDate}
    /\ cursor \in Nat
    /\ tx \subseteq Rows
    /\ prot \subseteq Dates
    /\ asOf \in Dates \cup {NoDate}
    /\ expired \subseteq Events

\* The evidence that an open proposal cites is in the store with its payload for as long
\* as the proposal is open, however old its date is, whatever retention, imports, purges,
\* interruptions and runs of other dates have done in between.
PendingEvidenceKept ==
    \A d \in Dates : \A k \in cites[d] : \E r \in store : Key(r) = k /\ r.date = d /\ r.payload

\* A row supersedes only a row that is there, an earlier revision of the same occurrence:
\* the latest revision that is known is never reported as superseded, and deleting old
\* rows leaves no reference to them, across dates.
Linked(rows) ==
    \A r \in rows : \A k \in r.supersedes :
        \E s \in rows : Key(s) = k /\ s.origin = r.origin /\ s.seq < r.seq
SupersedesEarlier == Linked(store)

\* What retention took the payload of comes back only if it is captured again: no later
\* import finds it in the journal, wherever a command was interrupted.
Forgotten(rows) == \A r \in rows : EventOf(r) \in expired => ~r.payload
ExpiredStaysGone ==
    /\ \A i \in DOMAIN journal : journal[i].events \cap expired = {}
    /\ Forgotten(store)

\* While a row is there its hash stays that of its first import, a payload that is
\* redacted stays redacted, and what it supersedes can only be forgotten.
RowKept(r, s) ==
    Key(r) = Key(s) => /\ s.date = r.date /\ s.content = r.content
                       /\ s.payload => r.payload
                       /\ s.supersedes \subseteq r.supersedes
RowsNeverRewritten == [][\A r \in store : \A s \in store' : RowKept(r, s)]_vars

-----------------------------------------------------------------------------
(* What the proofs add: the table in the transaction is as good as the one it  *)
(* replaces, and retention works on what it has read.                          *)
PrimaryKey(rows) == \A r, s \in rows : Key(r) = Key(s) => r = s

TableInv(rows) == PrimaryKey(rows) /\ Linked(rows) /\ Forgotten(rows)

CommandInv ==
    /\ pc \in {"collect", "propose", "audit"} => target \in Dates
    /\ pc = "import" => store \subseteq tx /\ TableInv(tx)
    /\ pc \in {"compactJournal", "compactStore"} => prot = Protected /\ asOf \in Dates
    /\ pc = "compactStore" =>
          \A i \in DOMAIN journal : \A e \in journal[i].events : ~RawExpired(e.date)

\* The inductive invariant.
Inv ==
    /\ TypeOK
    /\ TableInv(store)
    /\ PendingEvidenceKept
    /\ \A d \in Dates : cites[d] # {} => work[d] = "open"
    /\ ExpiredStaysGone
    /\ CommandInv
=============================================================================
