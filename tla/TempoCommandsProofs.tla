------------------------- MODULE TempoCommandsProofs -------------------------
(***************************************************************************)
(* What is proved of TempoCommands, for any month of worklogs, any limits  *)
(* and any batches.                                                        *)
(***************************************************************************)
EXTENDS TempoCommands, SequenceTheorems, WellFoundedInduction, TLAPS

(* What 0 has and n hands on to n + 1 all natural numbers have.            *)
LEMMA NatInduct ==
    ASSUME NEW S, 0 \in S, \A n \in Nat : n \in S => n + 1 \in S
    PROVE  Nat \subseteq S
<1> DEFINE rest == Nat \ S
           less == OpToRel(<, Nat)
<1>1. IsWellFoundedOn(less, Nat)
  BY NatLessThanWellFounded
<1> HIDE DEF less
<1>2. ASSUME rest # {} PROVE FALSE
  <2>1. PICK n \in rest : \A m \in rest : ~(<<m, n>> \in less)
    BY <1>1, <1>2, WFMin
  <2>2. n \in Nat /\ n # 0 /\ n - 1 \in Nat /\ (n - 1) + 1 = n
    BY <2>1
  <2>3. n - 1 \in rest
    BY <2>2
  <2>4. <<n - 1, n>> \in less
    BY <2>2 DEF less, OpToRel
  <2> QED
    BY <2>1, <2>3, <2>4
<1> QED
  BY <1>2

-----------------------------------------------------------------------------
(* Only.                                                                   *)

(* There is a function as the definition of Only asks for.                 *)
LEMMA AmongExists ==
    ASSUME NEW w, Len(w) \in Nat, NEW S
    PROVE  \E f : f = [n \in 0 .. Len(w) |->
                         IF n = 0 THEN <<>>
                         ELSE IF w[n] \in S THEN Append(f[n - 1], w[n]) ELSE f[n - 1]]
<1> DEFINE Upto(m) == \E f : f = [n \in 0 .. m |->
                                   IF n = 0 THEN <<>>
                                   ELSE IF w[n] \in S THEN Append(f[n - 1], w[n])
                                   ELSE f[n - 1]]
           good == {m \in Nat : Upto(m)}
<1>1. 0 \in good
  <2>1. Upto(0)
    <3> DEFINE f == [n \in 0 .. 0 |-> <<>>]
    <3>1. f = [n \in 0 .. 0 |->
                 IF n = 0 THEN <<>>
                 ELSE IF w[n] \in S THEN Append(f[n - 1], w[n]) ELSE f[n - 1]]
      OBVIOUS
    <3> QED
      BY <3>1
  <2> QED
    BY <2>1
<1>2. ASSUME NEW m \in Nat, m \in good PROVE m + 1 \in good
  <2>1. PICK f : f = [n \in 0 .. m |->
                        IF n = 0 THEN <<>>
                        ELSE IF w[n] \in S THEN Append(f[n - 1], w[n]) ELSE f[n - 1]]
    BY <1>2
  <2> DEFINE g == [n \in 0 .. m + 1 |->
                     IF n <= m THEN f[n]
                     ELSE IF w[n] \in S THEN Append(f[m], w[n]) ELSE f[m]]
  <2>2. \A n \in 0 .. m : g[n] = f[n]
    OBVIOUS
  <2>3. \A n \in 0 .. m + 1 :
           g[n] = IF n = 0 THEN <<>>
                  ELSE IF w[n] \in S THEN Append(g[n - 1], w[n]) ELSE g[n - 1]
    <3> SUFFICES ASSUME NEW n \in 0 .. m + 1
                 PROVE  g[n] = IF n = 0 THEN <<>>
                               ELSE IF w[n] \in S THEN Append(g[n - 1], w[n]) ELSE g[n - 1]
      OBVIOUS
    <3>1. CASE n <= m
      <4>1. g[n] = f[n] /\ n \in 0 .. m
        BY <3>1, <2>2
      <4>2. n # 0 => g[n - 1] = f[n - 1]
        BY <3>1, <2>2
      <4>3. f[n] = IF n = 0 THEN <<>>
                   ELSE IF w[n] \in S THEN Append(f[n - 1], w[n]) ELSE f[n - 1]
        BY <2>1, <4>1
      <4> HIDE DEF g
      <4> QED
        BY <4>1, <4>2, <4>3
    <3>2. CASE n = m + 1
      <4>1. g[n] = IF w[n] \in S THEN Append(f[m], w[n]) ELSE f[m]
        BY <3>2
      <4>2. g[n - 1] = f[m] /\ n # 0
        BY <3>2, <2>2
      <4> HIDE DEF g
      <4> QED
        BY <4>1, <4>2
    <3> QED
      BY <3>1, <3>2
  <2>4. g = [n \in 0 .. m + 1 |->
               IF n = 0 THEN <<>>
               ELSE IF w[n] \in S THEN Append(g[n - 1], w[n]) ELSE g[n - 1]]
    <3>1. g = [n \in 0 .. m + 1 |-> g[n]]
      OBVIOUS
    <3> HIDE DEF g
    <3> QED
      BY <3>1, <2>3
  <2>5. Upto(m + 1)
    BY <2>4
  <2> QED
    BY <2>5
<1>3. Len(w) \in good
  <2> HIDE DEF good
  <2> QED
    BY <1>1, <1>2, NatInduct
<1> QED
  BY <1>3

(* The function whose last value Only is.                                  *)
Among(w, S) ==
    CHOOSE f : f = [n \in 0 .. Len(w) |->
                      IF n = 0 THEN <<>>
                      ELSE IF w[n] \in S THEN Append(f[n - 1], w[n]) ELSE f[n - 1]]

LEMMA AmongSteps ==
    ASSUME NEW X, NEW w \in Seq(X), NEW S
    PROVE  /\ Only(w, S) = Among(w, S)[Len(w)]
           /\ Among(w, S)[0] = <<>>
           /\ \A n \in 1 .. Len(w) :
                 Among(w, S)[n] = IF w[n] \in S THEN Append(Among(w, S)[n - 1], w[n])
                                  ELSE Among(w, S)[n - 1]
<1> DEFINE f == Among(w, S)
           Value(h, n) == IF n = 0 THEN <<>>
                          ELSE IF w[n] \in S THEN Append(h[n - 1], w[n]) ELSE h[n - 1]
           Steady(h) == h = [n \in 0 .. Len(w) |-> Value(h, n)]
<1>1. Len(w) \in Nat
  OBVIOUS
<1>2. \E h : Steady(h)
  BY <1>1, AmongExists
<1>3. f = CHOOSE h : Steady(h)
  BY DEF Among
<1>4. Only(w, S) = f[Len(w)]
  BY DEF Only, Among
<1> HIDE DEF f
<1>5. Steady(f)
  <2> HIDE DEF Steady
  <2> QED
    BY <1>2, <1>3, Zenon
<1>6. \A n \in 0 .. Len(w) : f[n] = Value(f, n)
  <2> HIDE DEF Value
  <2> QED
    BY <1>5
<1>7. 0 \in 0 .. Len(w) /\ \A n \in 1 .. Len(w) : n \in 0 .. Len(w) /\ n # 0
  BY <1>1
<1> QED
  BY <1>4, <1>6, <1>7 DEF f

LEMMA OnlyEmpty == \A S : Only(<<>>, S) = <<>>
<1> SUFFICES ASSUME NEW S PROVE Only(<<>>, S) = <<>>
  OBVIOUS
<1>1. <<>> \in Seq(Nat) /\ Len(<<>>) = 0
  OBVIOUS
<1>2. /\ Only(<<>>, S) = Among(<<>>, S)[Len(<<>>)]
      /\ Among(<<>>, S)[0] = <<>>
  BY <1>1, AmongSteps
<1> QED
  BY <1>1, <1>2

(* A worklog more at the end is a worklog more, if it is in the set.       *)
LEMMA OnlyAppend ==
    ASSUME NEW X, NEW w \in Seq(X), NEW x \in X, NEW S
    PROVE  Only(Append(w, x), S) = IF x \in S THEN Append(Only(w, S), x) ELSE Only(w, S)
<1> DEFINE longer == Append(w, x)
           f == Among(w, S)
           g == Among(longer, S)
           same == {n \in Nat : n <= Len(w) => f[n] = g[n]}
<1>1. /\ longer \in Seq(X) /\ Len(longer) = Len(w) + 1 /\ Len(w) \in Nat
      /\ \A n \in 1 .. Len(w) : longer[n] = w[n]
      /\ longer[Len(w) + 1] = x
  OBVIOUS
<1> HIDE DEF longer
<1>2. /\ Only(w, S) = f[Len(w)] /\ f[0] = <<>>
      /\ \A n \in 1 .. Len(w) : f[n] = IF w[n] \in S THEN Append(f[n - 1], w[n]) ELSE f[n - 1]
  BY AmongSteps
<1>3. /\ Only(longer, S) = g[Len(w) + 1] /\ g[0] = <<>>
      /\ \A n \in 1 .. Len(w) + 1 :
            g[n] = IF longer[n] \in S THEN Append(g[n - 1], longer[n]) ELSE g[n - 1]
  BY <1>1, AmongSteps
<1> HIDE DEF f, g
<1>4. 0 \in same
  BY <1>2, <1>3
<1>5. ASSUME NEW n \in Nat, n \in same PROVE n + 1 \in same
  <2> SUFFICES ASSUME n + 1 <= Len(w) PROVE f[n + 1] = g[n + 1]
    OBVIOUS
  <2>1. f[n] = g[n] /\ n + 1 \in 1 .. Len(w) /\ n + 1 \in 1 .. Len(w) + 1 /\ (n + 1) - 1 = n
    BY <1>1, <1>5
  <2>2. f[n + 1] = IF w[n + 1] \in S THEN Append(f[n], w[n + 1]) ELSE f[n]
    BY <2>1, <1>2
  <2>3. g[n + 1] = IF longer[n + 1] \in S THEN Append(g[n], longer[n + 1]) ELSE g[n]
    BY <2>1, <1>3
  <2> QED
    BY <2>1, <2>2, <2>3, <1>1
<1>6. f[Len(w)] = g[Len(w)]
  <2> HIDE DEF same
  <2>1. Len(w) \in same
    BY <1>1, <1>4, <1>5, NatInduct
  <2> QED
    BY <2>1, <1>1 DEF same
<1>7. g[Len(w) + 1] = IF x \in S THEN Append(g[Len(w)], x) ELSE g[Len(w)]
  <2>1. Len(w) + 1 \in 1 .. Len(w) + 1 /\ (Len(w) + 1) - 1 = Len(w)
    BY <1>1
  <2> QED
    BY <2>1, <1>1, <1>3
<1> QED
  BY <1>2, <1>3, <1>6, <1>7 DEF longer

(* To be shown of all sequences, something is shown of each length.        *)
LEMMA OnlyTyped ==
    ASSUME NEW X, NEW S
    PROVE  \A w \in Seq(X) : Only(w, S) \in Seq(X)
<1> DEFINE good == {n \in Nat : \A w \in Seq(X) : Len(w) = n => Only(w, S) \in Seq(X)}
<1>1. 0 \in good
  BY OnlyEmpty, EmptySeq
<1>2. ASSUME NEW n \in Nat, n \in good PROVE n + 1 \in good
  <2> SUFFICES ASSUME NEW w \in Seq(X), Len(w) = n + 1 PROVE Only(w, S) \in Seq(X)
    OBVIOUS
  <2>0. w # <<>>
    BY EmptySeq
  <2>1. PICK v \in Seq(X), x \in X : w = Append(v, x)
    BY <2>0, SequenceEmptyOrAppend
  <2>2. Len(v) = n
    BY <2>1, AppendProperties
  <2>3. Only(v, S) \in Seq(X)
    BY <1>2, <2>2
  <2>4. Only(w, S) = IF x \in S THEN Append(Only(v, S), x) ELSE Only(v, S)
    BY <2>1, OnlyAppend
  <2> QED
    BY <2>3, <2>4, AppendProperties
<1> HIDE DEF good
<1>3. Nat \subseteq good
  BY <1>1, <1>2, NatInduct
<1> QED
  BY <1>3, LenProperties DEF good

LEMMA OnlyConcat ==
    ASSUME NEW X, NEW S, NEW v \in Seq(X)
    PROVE  \A w \in Seq(X) : Only(v \o w, S) = Only(v, S) \o Only(w, S)
<1> DEFINE good == {n \in Nat : \A w \in Seq(X) :
                       Len(w) = n => Only(v \o w, S) = Only(v, S) \o Only(w, S)}
<1>0. Only(v, S) \in Seq(X)
  BY OnlyTyped
<1>1. 0 \in good
  <2> SUFFICES ASSUME NEW w \in Seq(X), Len(w) = 0
               PROVE  Only(v \o w, S) = Only(v, S) \o Only(w, S)
    OBVIOUS
  <2>1. w = <<>>
    BY EmptySeq
  <2> QED
    BY <1>0, <2>1, OnlyEmpty, ConcatEmptySeq
<1>2. ASSUME NEW n \in Nat, n \in good PROVE n + 1 \in good
  <2> SUFFICES ASSUME NEW w \in Seq(X), Len(w) = n + 1
               PROVE  Only(v \o w, S) = Only(v, S) \o Only(w, S)
    OBVIOUS
  <2>0. w # <<>>
    BY EmptySeq
  <2>1. PICK u \in Seq(X), x \in X : w = Append(u, x)
    BY <2>0, SequenceEmptyOrAppend
  <2>2. Only(v \o u, S) = Only(v, S) \o Only(u, S)
    BY <2>1, <1>2, AppendProperties
  <2>3. v \o w = Append(v \o u, x)
    BY <2>1, AppendIsConcat, ConcatAssociative, ConcatProperties
  <2>4. v \o u \in Seq(X) /\ Only(u, S) \in Seq(X)
    BY ConcatProperties, OnlyTyped
  <2>5a. Only(Append(v \o u, x), S) = IF x \in S THEN Append(Only(v \o u, S), x)
                                     ELSE Only(v \o u, S)
    BY <2>4, OnlyAppend
  <2>5b. Only(w, S) = IF x \in S THEN Append(Only(u, S), x) ELSE Only(u, S)
    BY <2>1, OnlyAppend
  <2>6. Append(Only(v, S) \o Only(u, S), x) = Only(v, S) \o Append(Only(u, S), x)
    <3>1. /\ Only(v, S) \o Only(u, S) \in Seq(X) /\ <<x>> \in Seq(X)
      BY <1>0, <2>4, ConcatProperties
    <3>2. Append(Only(v, S) \o Only(u, S), x) = (Only(v, S) \o Only(u, S)) \o <<x>>
      BY <3>1, AppendIsConcat
    <3>3. Append(Only(u, S), x) = Only(u, S) \o <<x>>
      BY <2>4, AppendIsConcat
    <3>4. (Only(v, S) \o Only(u, S)) \o <<x>> = Only(v, S) \o (Only(u, S) \o <<x>>)
      BY <1>0, <2>4, <3>1, ConcatAssociative
    <3> QED
      BY <3>2, <3>3, <3>4
  <2> QED
    BY <2>2, <2>3, <2>5a, <2>5b, <2>6
<1> HIDE DEF good
<1>3. Nat \subseteq good
  BY <1>1, <1>2, NatInduct
<1> QED
  BY <1>3, LenProperties DEF good

LEMMA OnlyHas ==
    ASSUME NEW X, NEW S
    PROVE  \A w \in Seq(X) : ToSet(Only(w, S)) = ToSet(w) \cap S
<1> DEFINE good == {n \in Nat : \A w \in Seq(X) :
                       Len(w) = n => ToSet(Only(w, S)) = ToSet(w) \cap S}
<1>1. 0 \in good
  <2>1. \A w \in Seq(X) : Len(w) = 0 => w = <<>>
    BY EmptySeq
  <2>2. ToSet(<<>>) = {}
    BY DEF ToSet
  <2> QED
    BY <2>1, <2>2, OnlyEmpty
<1>2. ASSUME NEW n \in Nat, n \in good PROVE n + 1 \in good
  <2> SUFFICES ASSUME NEW w \in Seq(X), Len(w) = n + 1
               PROVE  ToSet(Only(w, S)) = ToSet(w) \cap S
    OBVIOUS
  <2>0. w # <<>>
    BY EmptySeq
  <2>1. PICK u \in Seq(X), x \in X : w = Append(u, x)
    BY <2>0, SequenceEmptyOrAppend
  <2>2. ToSet(Only(u, S)) = ToSet(u) \cap S
    BY <2>1, <1>2, AppendProperties
  <2>3. ASSUME NEW q \in Seq(X) PROVE ToSet(Append(q, x)) = ToSet(q) \cup {x}
    <3>1. /\ Append(q, x) \in Seq(X) /\ Len(Append(q, x)) = Len(q) + 1 /\ Len(q) \in Nat
          /\ \A i \in 1 .. Len(q) : Append(q, x)[i] = q[i]
          /\ Append(q, x)[Len(q) + 1] = x
      BY AppendProperties, LenProperties
    <3>2. DOMAIN q = 1 .. Len(q) /\ DOMAIN Append(q, x) = 1 .. Len(q) + 1
      BY <3>1, LenProperties
    <3>3. 1 .. Len(q) + 1 = (1 .. Len(q)) \cup {Len(q) + 1}
      BY <3>1
    <3> QED
      BY <3>1, <3>2, <3>3 DEF ToSet
  <2>4. Only(w, S) = IF x \in S THEN Append(Only(u, S), x) ELSE Only(u, S)
    BY <2>1, OnlyAppend
  <2>5. Only(u, S) \in Seq(X)
    BY OnlyTyped
  <2>6. ToSet(w) = ToSet(u) \cup {x}
    BY <2>1, <2>3
  <2>7. ToSet(Only(w, S)) = IF x \in S THEN ToSet(Only(u, S)) \cup {x} ELSE ToSet(Only(u, S))
    BY <2>3, <2>4, <2>5
  <2> QED
    BY <2>2, <2>6, <2>7
<1> HIDE DEF good
<1>3. Nat \subseteq good
  BY <1>1, <1>2, NatInduct
<1> QED
  BY <1>3, LenProperties DEF good

-----------------------------------------------------------------------------
(* The inductive invariant.                                                *)

Kinds == {"none", "list", "stream", "delete", "log", "resolve", "tempo"}
Statuses == {"none", "ok", "invalidInput", "authentication", "rejected", "invalidResponse",
             "http", "io"}

(* The requests of a command of each kind.                                 *)
StepsOf(kind) ==
    CASE kind = "list" -> {"page", "keys"}
      [] kind = "stream" -> {"schedule", "page", "row", "rowKey"}
      [] kind = "delete" -> {"worklog", "worklogKey", "delete"}
      [] kind = "log" -> {"issue", "post", "hint"}
      [] kind = "resolve" -> {"issue", "attributes"}
      [] kind = "tempo" -> {"call"}
      [] OTHER -> {}

Typed ==
    /\ TypeOK
    /\ cmd.kind \in Kinds /\ cmd.resumed \in BOOLEAN /\ cmd.dry \in BOOLEAN
    /\ cmd.method \in {"GET", "POST"}
    /\ out \in [status : Statuses, rows : Seq(Ids), terminal : BOOLEAN, complete : BOOLEAN,
                totals : BOOLEAN]
    /\ queue \in Seq(Ids) /\ chain \in Seq(Ids)
    /\ faulty \in BOOLEAN /\ intact \in BOOLEAN

(* A command under way has printed no end, and waits for what its kind     *)
(* asks for.                                                               *)
UnderWay ==
    /\ step # "idle" =>
          /\ step \in StepsOf(cmd.kind)
          /\ out.status = "none" /\ ~out.terminal /\ ~out.totals
    /\ schedule.pending => cmd.kind = "list" /\ step \in {"page", "keys"}
    /\ cmd.plan.pages <= HardPageLimit /\ token.plan.pages <= HardPageLimit
    /\ decided = "continue" => pages < HardPageLimit

(* What of a mutation has been sent.                                       *)
Unsent ==
    /\ created <= sent /\ sent <= 1
    /\ cmd.kind = "delete" => created = 0
    /\ step \notin {"hint", "idle"} => sent = 0

(* Where a deletion is.                                                    *)
Deleting ==
    /\ DeletesPrefix
    /\ cmd.kind = "delete" /\ step # "idle" =>
          /\ item < Len(cmd.batch)
          /\ cmd.dry => step # "delete"

(* Where a listing is: the worklogs read are those of the month from where *)
(* it began.                                                               *)
Base == IF cmd.resumed THEN token.link.at ELSE 0
Read ==
    /\ fetched = SubSeq(Listing, Base + 1, Base + Len(fetched))
    /\ Base + Len(fetched) <= Len(Listing)
    /\ decided # "complete" => link.at = Base + Len(fetched)
    /\ decided = "complete" => Base + Len(fetched) = Len(Listing)
Listings == {"list", "stream"}
Reading ==
    /\ cmd.kind \in Listings /\ step # "idle" =>
          /\ decided # "tooMany"
          /\ step \in {"schedule", "page"} => decided = "continue"
          /\ step = "keys" => decided # "continue"
          /\ decided # "complete" => link.limit > 0
          /\ cmd.resumed => token # NoToken
          /\ ~faulty /\ Base <= Len(Listing) => Read
    /\ token = NoToken \/ token.link.limit > 0
    /\ intact /\ token # NoToken => token.link.at <= Len(Listing)
    /\ ListingsAddUp

(* Where a stream is: the rows of the page that are not yet written.       *)
Writing ==
    /\ step = "idle" => StreamAgrees
    /\ step # "idle" /\ cmd.kind = "stream" => out.rows \o Rows(queue) = Rows(fetched)
    /\ step # "idle" /\ cmd.kind # "stream" => out.rows = <<>>
    /\ step \in {"schedule", "page"} => queue = <<>>
    /\ step = "rowKey" => queue # <<>>

TempoIInv == Typed /\ UnderWay /\ Unsent /\ Deleting /\ Reading /\ Writing

-----------------------------------------------------------------------------
(* Worklogs and rows.                                                      *)

LEMMA IdsInOrder == Order \in Seq(Ids)
BY OrderAssumption DEF Ids, ToSet

LEMMA ListingIs ==
    ASSUME there \subseteq Ids
    PROVE  /\ Listing \in Seq(Ids) /\ Len(Listing) \in Nat
           /\ ToSet(Listing) = there
<1>1. Listing \in Seq(Ids)
  BY IdsInOrder, OnlyTyped DEF Listing
<1>2. ToSet(Listing) = Ids \cap there
  BY IdsInOrder, OnlyHas DEF Listing, Ids
<1> QED
  BY <1>1, <1>2, LenProperties

LEMMA RowsTyped == \A w \in Seq(Ids) : Rows(w) \in Seq(Ids)
BY OnlyTyped, EmptySeq DEF Rows, Chosen

LEMMA RowsEmpty == Rows(<<>>) = <<>>
BY OnlyEmpty DEF Rows, Chosen

LEMMA RowsConcat ==
    ASSUME NEW v \in Seq(Ids), NEW w \in Seq(Ids)
    PROVE  Rows(v \o w) = Rows(v) \o Rows(w)
<1>1. Only(v \o w, Selected) = Only(v, Selected) \o Only(w, Selected)
  BY OnlyConcat
<1>2. <<>> \o <<>> = <<>>
  OBVIOUS
<1> QED
  BY <1>1, <1>2 DEF Rows, Chosen

(* The first worklog is a row of its own, or none.                         *)
LEMMA RowsOfFirst ==
    ASSUME NEW q \in Seq(Ids), q # <<>>
    PROVE  /\ Head(q) \in Ids /\ Tail(q) \in Seq(Ids)
           /\ Rows(q) = IF Head(q) \in Selected /\ cmd.fields # "none"
                        THEN <<Head(q)>> \o Rows(Tail(q)) ELSE Rows(Tail(q))
<1>1. Head(q) \in Ids /\ Tail(q) \in Seq(Ids)
  BY HeadTailProperties
<1>2. <<Head(q)>> \in Seq(Ids) /\ q = <<Head(q)>> \o Tail(q)
  BY <1>1
<1>3. Rows(q) = Rows(<<Head(q)>>) \o Rows(Tail(q))
  BY <1>1, <1>2, RowsConcat
<1>4. Only(<<Head(q)>>, Selected) = IF Head(q) \in Selected THEN <<Head(q)>> ELSE <<>>
  <2>1. <<Head(q)>> = Append(<<>>, Head(q)) /\ <<>> \in Seq(Ids)
    OBVIOUS
  <2>2. Only(Append(<<>>, Head(q)), Selected) =
           IF Head(q) \in Selected THEN Append(Only(<<>>, Selected), Head(q))
           ELSE Only(<<>>, Selected)
    BY <1>1, <2>1, OnlyAppend
  <2> QED
    BY <2>1, <2>2, OnlyEmpty
<1>5. Rows(<<Head(q)>>) =
         IF Head(q) \in Selected /\ cmd.fields # "none" THEN <<Head(q)>> ELSE <<>>
  BY <1>4 DEF Rows, Chosen
<1>6. Rows(Tail(q)) \in Seq(Ids)
  BY <1>1, RowsTyped
<1> QED
  BY <1>1, <1>3, <1>5, <1>6, ConcatEmptySeq

LEMMA RowWritten ==
    ASSUME NEW v \in Seq(Ids), NEW x \in Ids, NEW w \in Seq(Ids)
    PROVE  Append(v, x) \o w = v \o (<<x>> \o w)
<1>1. <<x>> \in Seq(Ids)
  OBVIOUS
<1>2. Append(v, x) = v \o <<x>>
  BY AppendIsConcat
<1> QED
  BY <1>1, <1>2, ConcatAssociative

LEMMA PrefixOfConcat ==
    ASSUME NEW X, NEW v \in Seq(X), NEW w \in Seq(X)
    PROVE  IsPrefix(v, v \o w)
<1>1. Len(v) <= Len(v \o w) /\ Len(v) \in Nat
  BY ConcatProperties, LenProperties
<1>2. SubSeq(v, 1, Len(v)) = SubSeq(v \o w, 1, Len(v))
  <2>1. CASE Len(v) = 0
    BY <2>1, SubSeqEmpty
  <2>2. CASE Len(v) # 0
    BY <1>1, <2>2, SubSeqOfConcat1
  <2> QED
    BY <2>1, <2>2
<1> QED
  BY <1>1, <1>2 DEF IsPrefix

(* Tempo's pages.                                                          *)
LEMMA MinOfThree ==
    ASSUME NEW a \in Nat, NEW b \in Nat, NEW c \in Nat
    PROVE  /\ Min({a, b, c}) \in {a, b, c}
           /\ Min({a, b, c}) <= a /\ Min({a, b, c}) <= b /\ Min({a, b, c}) <= c
<1>1. \E x \in {a, b, c} : \A y \in {a, b, c} : x <= y
  <2>1. CASE a <= b /\ a <= c
    BY <2>1
  <2>2. CASE b <= a /\ b <= c
    BY <2>2
  <2>3. CASE c <= a /\ c <= b
    BY <2>3
  <2> QED
    BY <2>1, <2>2, <2>3
<1> QED
  BY <1>1 DEF Min

(* A page continues where it was asked to; the last one has no link.       *)
LEMMA PageIs ==
    ASSUME there \subseteq Ids, NEW l \in Links, l.limit > 0
    PROVE  /\ Page(l).results \in Seq(Ids) /\ Page(l).next \in Links
           /\ Page(l).next # NoLink => Page(l).next.limit > 0
           /\ l.at <= Len(Listing) =>
                 \E last \in l.at .. Len(Listing) :
                    /\ Page(l).results = SubSeq(Listing, l.at + 1, last)
                    /\ IF Page(l).next = NoLink THEN last = Len(Listing)
                       ELSE Page(l).next.at = last
<1> DEFINE last == Min({Len(Listing), l.at + l.limit, l.at + PageCap})
<1>1. Listing \in Seq(Ids) /\ Len(Listing) \in Nat
  BY ListingIs
<1>2. l.at \in Nat /\ l.limit \in Nat /\ PageCap \in Nat /\ PageCap > 0
      /\ l = [at |-> l.at, limit |-> l.limit]
  BY BoundsAssumption DEF Links
<1>3. /\ last \in Nat /\ last <= Len(Listing)
      /\ l.at <= Len(Listing) => l.at <= last
  <2>1. l.at + l.limit \in Nat /\ l.at + PageCap \in Nat
    BY <1>2
  <2>2. last \in {Len(Listing), l.at + l.limit, l.at + PageCap} /\ last <= Len(Listing)
    BY <1>1, <2>1, MinOfThree
  <2> QED
    BY <1>1, <1>2, <2>1, <2>2
<1>4. /\ Page(l).results = SubSeq(Listing, l.at + 1, last)
      /\ Page(l).next = IF last < Len(Listing) THEN [at |-> last, limit |-> l.limit]
                        ELSE NoLink
  <2>1. [l EXCEPT !.at = last] = [at |-> last, limit |-> l.limit]
    BY <1>2
  <2>2. /\ Page(l).results = SubSeq(Listing, l.at + 1, last)
        /\ Page(l).next = IF last < Len(Listing) THEN [l EXCEPT !.at = last] ELSE NoLink
    BY DEF Page
  <2> QED
    BY <2>1, <2>2
<1> HIDE DEF last
<1>5. [at |-> last, limit |-> l.limit] # NoLink
  BY <1>2 DEF NoLink
<1>6. SubSeq(Listing, l.at + 1, last) \in Seq(Ids)
  BY <1>1, <1>2, <1>3, SubSeqProperties
<1>7. Page(l).next \in Links /\ (Page(l).next # NoLink => Page(l).next.limit > 0)
  BY <1>2, <1>3, <1>4 DEF Links, NoLink
<1>8. ASSUME l.at <= Len(Listing)
      PROVE  /\ last \in l.at .. Len(Listing)
             /\ IF Page(l).next = NoLink THEN last = Len(Listing) ELSE Page(l).next.at = last
  BY <1>1, <1>2, <1>3, <1>4, <1>5, <1>8
<1> QED
  BY <1>4, <1>6, <1>7, <1>8

LEMMA FaultyPagesAre ==
    ASSUME there \subseteq Ids, NEW l \in Links, l.limit > 0, NEW page \in FaultyPages(l)
    PROVE  /\ page.results \in Seq(Ids) /\ page.next \in Links
           /\ page.next # NoLink => page.next.limit > 0
<1>1. /\ Page(l).results \in Seq(Ids) /\ Page(l).next \in Links
      /\ Listing \in Seq(Ids) /\ Len(Listing) \in Nat
  BY PageIs, ListingIs
<1>2. l.at \in Nat /\ l.limit \in Nat /\ l = [at |-> l.at, limit |-> l.limit]
      /\ DefaultLimit \in Nat /\ PageCap \in Nat
  BY BoundsAssumption DEF Links
<1>3. SubSeq(Listing, l.at + 1, Len(Listing)) \in Seq(Ids)
  BY <1>1, <1>2, SubSeqProperties
<1>4. [at |-> l.at, limit |-> l.limit + DefaultLimit + PageCap] \in Links
  BY <1>2 DEF Links
<1>5. \A next : [Page(l) EXCEPT !.next = next].results = Page(l).results
               /\ [Page(l) EXCEPT !.next = next].next = next
  BY DEF Page
<1>6. NoLink \in Links
  BY DEF NoLink, Links
<1>7. CASE page = [results |-> SubSeq(Listing, l.at + 1, Len(Listing)), next |-> NoLink]
  BY <1>3, <1>6, <1>7
<1>8. CASE page = [Page(l) EXCEPT !.next = l]
  BY <1>1, <1>5, <1>8
<1>9. CASE page = [Page(l) EXCEPT !.next =
                     [at |-> l.at, limit |-> l.limit + DefaultLimit + PageCap]]
  BY <1>1, <1>2, <1>4, <1>5, <1>9
<1> QED
  BY <1>7, <1>8, <1>9 DEF FaultyPages

-----------------------------------------------------------------------------
(* What the steps have in common.                                          *)

LEMMA StatusesOfErrors ==
    \A answer \in Answers \ {"ok"} : ErrorOf(answer) \in Statuses \ {"none", "ok"}
BY DEF Answers, ErrorOf, Statuses

(* What a command under way waits for tells its kind.                      *)
LEMMA KindOfStep ==
    ASSUME TempoIInv, step # "idle"
    PROVE  /\ step \in {"schedule", "row", "rowKey"} => cmd.kind = "stream"
           /\ step \in {"schedule", "page", "row", "rowKey", "keys"} <=> cmd.kind \in Listings
           /\ step \in {"worklog", "worklogKey", "delete"} <=> cmd.kind = "delete"
           /\ step \in {"post", "hint"} => cmd.kind = "log"
           /\ step = "issue" => cmd.kind \in {"log", "resolve"}
           /\ step = "attributes" => cmd.kind = "resolve"
           /\ step = "call" <=> cmd.kind = "tempo"
BY DEF TempoIInv, UnderWay, StepsOf, Typed, Kinds, Listings

(* Only these requests change Tempo.                                       *)
LEMMA MutatingSteps ==
    ASSUME TempoIInv
    PROVE  ~IsIdempotentRead(Method) => step \in {"delete", "post", "call"}
BY DEF IsIdempotentRead, Method

(* What a listing does leaves mutations alone.                             *)
LEMMA ListingOnly ==
    ASSUME TempoIInv, cmd.kind \in Listings, step # "idle",
           UNCHANGED <<created, cmd, sent, removed>>
    PROVE  Unsent' /\ Deleting'
<1>1. cmd.kind # "delete" /\ cmd'.kind = cmd.kind /\ removed = {} /\ sent = 0
  BY DEF Listings, TempoIInv, UnderWay, StepsOf, Unsent, Deleting, DeletesPrefix
<1>2. Unsent'
  BY <1>1 DEF TempoIInv, Unsent
<1>3. Deleting'
  BY <1>1 DEF Deleting, DeletesPrefix
<1> QED
  BY <1>2, <1>3

(* What another command does leaves what is listed and written alone.      *)
LEMMA MutationOnly ==
    ASSUME TempoIInv, step # "idle", cmd.kind \notin Listings,
           UNCHANGED <<cmd, listing, token, faulty>>,
           out'.rows = out.rows, ~out'.terminal, ~out'.totals,
           Undisturbed \/ UNCHANGED <<there, chain, intact>>,
           step' \notin {"schedule", "page", "rowKey"}
    PROVE  Reading' /\ Writing'
<1>1. cmd'.kind \notin Listings /\ cmd.kind # "stream" /\ cmd'.kind # "stream"
  BY DEF Listings
<1>2. /\ intact' => intact /\ there' = there /\ chain' = chain
  BY DEF Undisturbed
<1>3. intact' => Listing' = Listing
  BY <1>2 DEF Listing
<1>4. out'.rows = <<>>
  BY <1>1 DEF TempoIInv, Writing
<1>5. Reading'
  BY <1>1, <1>2, <1>3 DEF TempoIInv, Reading, ListingsAddUp
<1>6. IsPrefix(<<>>, Rows(fetched)')
  <2>1. fetched' \in Seq(Ids)
    BY DEF TempoIInv, Typed, TypeOK, listing
  <2>2. Rows(fetched)' \in Seq(Ids)
    BY <2>1, OnlyTyped, EmptySeq DEF Rows, Chosen
  <2>3. <<>> \o Rows(fetched)' = Rows(fetched)'
    BY <2>2
  <2> QED
    BY <2>2, <2>3, EmptySeq, PrefixOfConcat
<1>7. Writing'
  BY <1>1, <1>4, <1>6 DEF Writing, StreamAgrees
<1> QED
  BY <1>5, <1>7

(* A listing that waits, or ends before its last line.                     *)
LEMMA ListingWaits ==
    ASSUME TempoIInv, step # "idle", cmd.kind \in Listings,
           UNCHANGED <<there, cmd, fetched, link, decided, token>>, faulty => faulty',
           Undisturbed \/ UNCHANGED <<chain, intact>>, ~out'.totals,
           step' \in {"schedule", "page"} => decided = "continue",
           step' = "keys" => decided # "continue"
    PROVE  Reading'
<1>1. intact' => intact /\ chain' = chain
  BY DEF Undisturbed
<1>2. Listing' = Listing /\ Base' = Base
  BY DEF Listing, Base
<1>3. Read' = Read
  BY <1>2 DEF Read
<1> QED
  BY <1>1, <1>2, <1>3 DEF TempoIInv, Reading, ListingsAddUp

(* One that is broken off has written the first rows.                      *)
LEMMA ListingBreaksOff ==
    ASSUME TempoIInv, step # "idle", cmd.kind \in Listings, step' = "idle",
           UNCHANGED <<cmd, fetched>>, out'.rows = out.rows, ~out'.terminal
    PROVE  Writing'
<1>1. /\ fetched \in Seq(Ids) /\ queue \in Seq(Ids) /\ out.rows \in Seq(Ids)
  BY DEF TempoIInv, Typed, TypeOK
<1>2. Rows(fetched) \in Seq(Ids) /\ Rows(queue) \in Seq(Ids)
  BY <1>1, RowsTyped
<1>3. IsPrefix(out.rows, Rows(fetched))
  <2>1. CASE cmd.kind = "stream"
    <3>1. out.rows \o Rows(queue) = Rows(fetched)
      BY <2>1 DEF TempoIInv, Writing
    <3> QED
      BY <1>1, <1>2, <3>1, PrefixOfConcat
  <2>2. CASE cmd.kind # "stream"
    <3>1. out.rows = <<>>
      BY <2>2 DEF TempoIInv, Writing
    <3>2. <<>> \o Rows(fetched) = Rows(fetched)
      BY <1>2
    <3> QED
      BY <1>2, <3>1, <3>2, EmptySeq, PrefixOfConcat
  <2> QED
    BY <2>1, <2>2
<1>4. Rows(fetched)' = Rows(fetched)
  BY DEF Rows, Chosen
<1> QED
  BY <1>3, <1>4 DEF Writing, StreamAgrees

(* A command that ends.                                                    *)
LEMMA EndsTyped ==
    ASSUME TempoIInv, NEW status \in Statuses \ {"none"}, Ends(status),
           UNCHANGED <<cmd, token, pages, decided>>
    PROVE  /\ UnderWay'
           /\ step' = "idle" /\ tries' \in 0 .. MaxAttempts - 1
           /\ schedule' \in [pending : BOOLEAN, tries : 0 .. MaxAttempts - 1]
           /\ out' \in [status : Statuses, rows : Seq(Ids), terminal : BOOLEAN,
                        complete : BOOLEAN, totals : BOOLEAN]
           /\ out'.rows = out.rows /\ out'.status = status
           /\ out'.terminal = out.terminal /\ out'.totals = out.totals
<1>1. out \in [status : Statuses, rows : Seq(Ids), terminal : BOOLEAN, complete : BOOLEAN,
                totals : BOOLEAN]
  BY DEF TempoIInv, Typed
<1>2. 0 \in 0 .. MaxAttempts - 1
  BY BoundsAssumption
<1>3. step' = "idle" /\ tries' = 0 /\ schedule' = [pending |-> FALSE, tries |-> 0]
      /\ out' = [out EXCEPT !.status = status]
  BY DEF Ends, Goes
<1>4. UnderWay'
  BY <1>3 DEF TempoIInv, UnderWay
<1> QED
  BY <1>1, <1>2, <1>3, <1>4

-----------------------------------------------------------------------------
(* The steps.                                                              *)

LEMMA TempoStart == Init => TempoIInv
<1> SUFFICES ASSUME Init PROVE TempoIInv
  OBVIOUS
<1>1. <<>> \in Seq(Ids) /\ Len(<<>>) = 0
  OBVIOUS
<1>2. 0 \in 0 .. MaxAttempts - 1 /\ 0 \in 0 .. HardPageLimit
  BY BoundsAssumption
<1>3. TypeOK
  BY <1>1, <1>2 DEF Init, TypeOK, NoCommand, NoPlan, NoToken, NoLink, Plans, Links, Fields
<1>4. Typed
  BY <1>1, <1>3 DEF Init, Typed, NoCommand, Kinds, NothingPrinted, Statuses
<1>5. UnderWay
  BY BoundsAssumption DEF Init, UnderWay, NoCommand, NoPlan, NoToken
<1>6. Unsent /\ Deleting
  BY DEF Init, Unsent, Deleting, DeletesPrefix, NoCommand
<1>7. Reading
  BY DEF Init, Reading, ListingsAddUp, NothingPrinted
<1>8. Writing
  <2>1. Rows(fetched) = <<>> /\ IsPrefix(<<>>, <<>>)
    BY RowsEmpty DEF Init, IsPrefix
  <2> QED
    BY <2>1 DEF Init, Writing, StreamAgrees, NothingPrinted
<1> QED
  BY <1>4, <1>5, <1>6, <1>7, <1>8 DEF TempoIInv

Commands == [kind : Kinds, plan : Plans, resumed : BOOLEAN, fields : Fields, batch : Seq(Ids),
             dry : BOOLEAN, method : {"GET", "POST"}]

(* Whatever command starts, it starts with nothing done.                   *)
LEMMA StartKeeps ==
    ASSUME TempoIInv, NEW c \in Commands, NEW first, NEW status \in Statuses,
           Start(c, first, status),
           c.plan.pages <= HardPageLimit, c.resumed => token # NoToken,
           first = "idle" \/ first \in StepsOf(c.kind) \cap
                                 {"schedule", "page", "worklog", "issue", "call"},
           first # "idle" => status = "none",
           first = "worklog" => c.batch # <<>>,
           c.kind = "delete" => status # "ok"
    PROVE  TempoIInv'
<1>1. /\ step = "idle" /\ cmd' = c /\ step' = first /\ tries' = 0
      /\ schedule' = [pending |-> c.kind = "list" /\ first # "idle", tries |-> 0]
      /\ pages' = 0 /\ fetched' = <<>> /\ decided' = "continue"
      /\ link' = IF c.resumed THEN token.link ELSE FirstLink(RequestLimit(c.plan, 0))
      /\ queue' = <<>> /\ keys' = {} /\ item' = 0
      /\ out' = [NothingPrinted EXCEPT !.status = status]
      /\ created' = 0 /\ sent' = 0 /\ removed' = {} /\ faulty' = FALSE
      /\ there' = there /\ token' = token /\ chain' = chain /\ intact' = intact
  BY DEF Start, memory
<1>2. /\ out'.status = status /\ out'.rows = <<>> /\ ~out'.terminal /\ ~out'.totals
      /\ out' \in [status : Statuses, rows : Seq(Ids), terminal : BOOLEAN,
                   complete : BOOLEAN, totals : BOOLEAN]
  <2>1. out' = [status |-> status, rows |-> <<>>, terminal |-> FALSE, complete |-> FALSE,
                totals |-> FALSE]
    BY <1>1 DEF NothingPrinted
  <2>2. <<>> \in Seq(Ids)
    OBVIOUS
  <2> QED
    BY <2>1, <2>2
<1>3. /\ there \subseteq Ids /\ chain \in Seq(Ids) /\ intact \in BOOLEAN
      /\ token \in [link : Links, plan : Plans]
  BY DEF TempoIInv, Typed, TypeOK
<1>4. /\ c.kind \in Kinds /\ c.plan \in Plans /\ c.resumed \in BOOLEAN /\ c.fields \in Fields
      /\ c.batch \in Seq(Ids) /\ c.dry \in BOOLEAN /\ c.method \in {"GET", "POST"}
  BY DEF Commands
<1>5. RequestLimit(c.plan, 0) \in Nat /\ RequestLimit(c.plan, 0) > 0
  BY <1>4, BoundsAssumption DEF RequestLimit, Bounded, Plans, Absent
<1>6. link' \in Links
  BY <1>1, <1>3, <1>5 DEF FirstLink, Links
<1>7. first \in Requests \cup {"idle"}
  BY DEF Requests
<1>8. 0 \in 0 .. MaxAttempts - 1 /\ 0 \in 0 .. HardPageLimit /\ 0 < HardPageLimit
  BY BoundsAssumption
<1>9. schedule' \in [pending : BOOLEAN, tries : 0 .. MaxAttempts - 1]
  BY <1>1, <1>8
<1>10. <<>> \in Seq(Ids) /\ Len(c.batch) \in Nat /\ (c.batch # <<>> => Len(c.batch) > 0)
  BY <1>4, EmptySeq, LenProperties
<1>11. TypeOK'
  BY <1>1, <1>3, <1>4, <1>6, <1>7, <1>8, <1>9, <1>10 DEF TypeOK
<1>12. Typed'
  BY <1>1, <1>2, <1>3, <1>4, <1>10, <1>11 DEF Typed
<1>13. UnderWay'
  <2>1. token.plan.pages <= HardPageLimit
    BY DEF TempoIInv, UnderWay
  <2>2. schedule'.pending => c.kind = "list" /\ first = "page"
    BY <1>1 DEF StepsOf
  <2> QED
    BY <1>1, <1>2, <1>8, <2>1, <2>2 DEF UnderWay
<1>14. Unsent'
  BY <1>1 DEF Unsent
<1>15. Deleting'
  <2>1. DealtWith' = {}
    BY <1>1, <1>4, <1>10 DEF DealtWith
  <2>2. c.kind = "delete" /\ first # "idle" => first = "worklog"
    BY DEF StepsOf
  <2> QED
    BY <1>1, <1>2, <1>10, <2>1, <2>2 DEF Deleting, DeletesPrefix
<1>16. Listing' = Listing /\ Len(Listing) \in Nat
  BY <1>1, <1>3, ListingIs DEF Listing
<1>17. Base' = IF c.resumed THEN token.link.at ELSE 0
  BY <1>1 DEF Base
<1>18. Base' \in Nat /\ link'.at = Base'
  BY <1>1, <1>3, <1>17 DEF Links, FirstLink
<1>19. Base' <= Len(Listing') => Read'
  <2>1. SubSeq(Listing', Base' + 1, Base' + Len(fetched')) = <<>>
    BY <1>1, <1>18, SubSeqEmpty
  <2> QED
    BY <1>1, <1>16, <1>18, <2>1 DEF Read
<1>20. Reading'
  <2>1. token = NoToken \/ token.link.limit > 0
    BY DEF TempoIInv, Reading
  <2>2. link'.limit > 0 \/ (c.resumed /\ token = NoToken)
    BY <1>1, <1>5, <2>1 DEF FirstLink
  <2>3. ListingsAddUp'
    BY <1>1, <1>2, <1>16 DEF TempoIInv, Reading, ListingsAddUp
  <2>4. first \in StepsOf(c.kind) => first # "keys"
    OBVIOUS
  <2> QED
    BY <1>1, <1>16, <1>19, <2>1, <2>2, <2>3 DEF TempoIInv, Reading
<1>21. Writing'
  <2>1. Rows(fetched)' = <<>> /\ Rows(queue)' = <<>>
    BY <1>1, OnlyEmpty DEF Rows, Chosen
  <2>2. IsPrefix(<<>>, <<>>) /\ <<>> \o <<>> = <<>>
    BY DEF IsPrefix
  <2> QED
    BY <1>1, <1>2, <2>1, <2>2 DEF Writing, StreamAgrees
<1> QED
  BY <1>12, <1>13, <1>14, <1>15, <1>20, <1>21 DEF TempoIInv

LEMMA RequestedPlans ==
    ASSUME TempoIInv, NEW args \in Arguments, NEW resumed \in BOOLEAN
    PROVE  /\ RequestedPlan(args, resumed) \in Plans
           /\ RequestedPlan(args, resumed).pages <= HardPageLimit
<1>1. /\ token.plan \in Plans /\ token.plan.pages <= HardPageLimit
  BY DEF TempoIInv, Typed, TypeOK, UnderWay
<1>2. AllPages \in Plans /\ AllPages.pages <= HardPageLimit
  BY BoundsAssumption DEF AllPages, Plans, Absent
<1>3. /\ OrElse(args.limit, DefaultLimit) \in Nat
      /\ OrElse(args.pages, DefaultPages) \in 1 .. HardPageLimit
  BY LimitsAssumption, BoundsAssumption DEF Arguments, OrElse, Absent
<1> QED
  BY <1>1, <1>2, <1>3, BoundsAssumption DEF RequestedPlan, Plans

LEMMA StartsKeep == ASSUME TempoIInv, Starts PROVE TempoIInv'
<1>1. /\ NoCommand \in Commands /\ NoCommand.plan.pages <= HardPageLimit
      /\ NoCommand.resumed = FALSE
  BY BoundsAssumption DEF NoCommand, NoPlan, NoToken, NoLink, Plans, Fields, Commands, Kinds
<1>2. ASSUME NEW kind \in Listings, NEW args \in Arguments, NEW resumed \in BOOLEAN,
             NEW fields \in Fields, List(kind, args, resumed, fields)
      PROVE  TempoIInv'
  <2> DEFINE plan == RequestedPlan(args, resumed)
             c == [NoCommand EXCEPT !.kind = kind, !.plan = plan, !.resumed = resumed,
                                    !.fields = fields]
  <2>1. plan \in Plans /\ plan.pages <= HardPageLimit
    BY RequestedPlans
  <2> HIDE DEF plan
  <2>2. /\ c \in Commands /\ c.kind = kind /\ c.plan = plan /\ c.resumed = resumed
    BY <1>1, <2>1 DEF Commands, Kinds, Listings
  <2>3. resumed => token # NoToken
    BY <1>2 DEF List
  <2>4. Refuse(c) \/ Begin(c, IF kind = "stream" THEN "schedule" ELSE "page")
    BY <1>2 DEF List, plan
  <2>5. (IF kind = "stream" THEN "schedule" ELSE "page") \in StepsOf(kind)
    BY DEF Listings, StepsOf
  <2> HIDE DEF c
  <2>6. CASE Refuse(c)
    BY <2>1, <2>2, <2>3, <2>6, StartKeeps DEF Refuse, Statuses, Listings
  <2>7. CASE Begin(c, IF kind = "stream" THEN "schedule" ELSE "page")
    BY <2>1, <2>2, <2>3, <2>5, <2>7, StartKeeps DEF Begin, Statuses, Listings
  <2> QED
    BY <2>4, <2>6, <2>7
<1>3. ASSUME NEW batch \in Batches, NEW dry \in BOOLEAN, Delete(batch, dry) PROVE TempoIInv'
  <2> DEFINE c == [NoCommand EXCEPT !.kind = "delete", !.batch = batch, !.dry = dry]
  <2>1. /\ c \in Commands /\ c.kind = "delete" /\ c.plan = NoCommand.plan /\ c.resumed = FALSE
        /\ c.batch = batch
    BY <1>1, BatchesAssumption DEF Commands, Kinds
  <2>2. IF batch = <<>> THEN Refuse(c) ELSE Begin(c, "worklog")
    BY <1>3 DEF Delete
  <2> HIDE DEF c
  <2>3. CASE Refuse(c)
    BY <1>1, <2>1, <2>3, StartKeeps DEF Refuse, Statuses
  <2>4. CASE Begin(c, "worklog") /\ batch # <<>>
    BY <1>1, <2>1, <2>4, StartKeeps DEF Begin, Statuses, StepsOf
  <2> QED
    BY <2>2, <2>3, <2>4
<1>4. ASSUME NEW c \in Commands, c.plan.pages <= HardPageLimit, ~c.resumed,
             c.kind \in {"log", "resolve", "tempo"},
             NEW first, first \in StepsOf(c.kind) \cap {"issue", "call"},
             Refuse(c) \/ DryRun(c) \/ Begin(c, first)
      PROVE  TempoIInv'
  <2>1. CASE Refuse(c)
    BY <1>4, <2>1, StartKeeps DEF Refuse, Statuses
  <2>2. CASE DryRun(c)
    <3>1. /\ [c EXCEPT !.dry = TRUE] \in Commands
          /\ [c EXCEPT !.dry = TRUE].kind = c.kind /\ [c EXCEPT !.dry = TRUE].plan = c.plan
          /\ [c EXCEPT !.dry = TRUE].resumed = c.resumed
      BY DEF Commands
    <3> QED
      BY <1>4, <2>2, <3>1, StartKeeps DEF DryRun, Statuses
  <2>3. CASE Begin(c, first)
    BY <1>4, <2>3, StartKeeps DEF Begin, Statuses
  <2> QED
    BY <1>4, <2>1, <2>2, <2>3
<1>5. CASE Log
  <2> DEFINE c == [NoCommand EXCEPT !.kind = "log"]
  <2>1. /\ c \in Commands /\ c.kind = "log" /\ c.plan = NoCommand.plan /\ c.resumed = FALSE
    BY <1>1 DEF Commands, Kinds
  <2>2. Refuse(c) \/ DryRun(c) \/ Begin(c, "issue")
    BY <1>5 DEF Log
  <2> HIDE DEF c
  <2> QED
    BY <1>1, <1>4, <2>1, <2>2 DEF StepsOf
<1>6. CASE Resolve
  <2> DEFINE c == [NoCommand EXCEPT !.kind = "resolve"]
  <2>1. /\ c \in Commands /\ c.kind = "resolve" /\ c.plan = NoCommand.plan /\ c.resumed = FALSE
    BY <1>1 DEF Commands, Kinds
  <2>2. Refuse(c) \/ Begin(c, "issue")
    BY <1>6 DEF Resolve
  <2> HIDE DEF c
  <2> QED
    BY <1>1, <1>4, <2>1, <2>2 DEF StepsOf
<1>7. ASSUME NEW method \in {"GET", "POST"}, TempoCall(method) PROVE TempoIInv'
  <2> DEFINE c == [NoCommand EXCEPT !.kind = "tempo", !.method = method]
  <2>1. /\ c \in Commands /\ c.kind = "tempo" /\ c.plan = NoCommand.plan /\ c.resumed = FALSE
    BY <1>1 DEF Commands, Kinds
  <2>2. Refuse(c) \/ DryRun(c) \/ Begin(c, "call")
    BY <1>7 DEF TempoCall
  <2> HIDE DEF c
  <2> QED
    BY <1>1, <1>4, <2>1, <2>2 DEF StepsOf
<1> QED
  BY <1>2, <1>3, <1>5, <1>6, <1>7 DEF Starts, Listings

(* A step that only goes on to another request.                            *)
LEMMA GoesOn ==
    ASSUME TempoIInv, step # "idle", NEW to \in StepsOf(cmd.kind) \ {"keys"}, Goes(to),
           UNCHANGED <<there, created, cmd, schedule, listing, item, out, memory, sent,
                       removed, faulty>>,
           to \in {"schedule", "page"} => queue = <<>> /\ decided = "continue",
           to = "rowKey" => queue # <<>>,
           to = "delete" => ~cmd.dry,
           to # "hint", step # "hint",
           schedule.pending => to = "page"
    PROVE  TempoIInv'
<1>1. step' = to /\ tries' = 0 /\ 0 \in 0 .. MaxAttempts - 1
  BY BoundsAssumption DEF Goes
<1>2. to \in Requests \cup {"idle", "row"}
  BY DEF StepsOf, Requests
<1>3. Typed'
  BY <1>1, <1>2 DEF TempoIInv, Typed, TypeOK, listing, memory
<1>4. UnderWay'
  BY <1>1 DEF TempoIInv, UnderWay, listing, memory
<1>5. to # "idle"
  BY DEF StepsOf
<1>6. Unsent'
  BY <1>1, <1>5 DEF TempoIInv, Unsent
<1>7. Deleting'
  BY <1>1, <1>5 DEF TempoIInv, Deleting, DeletesPrefix, DealtWith
<1>8. Reading'
  <2>1. CASE cmd.kind \in Listings
    BY <1>1, <2>1, ListingWaits DEF listing, memory, TempoIInv, UnderWay
  <2>2. CASE cmd.kind \notin Listings
    <3>1. cmd'.kind \notin Listings /\ Listing' = Listing
      BY <2>2 DEF Listing
    <3> QED
      BY <3>1 DEF TempoIInv, Reading, ListingsAddUp, listing, memory
  <2> QED
    BY <2>1, <2>2
<1>9. Writing'
  <2>1. Rows(fetched)' = Rows(fetched) /\ Rows(queue)' = Rows(queue)
    BY DEF Rows, Chosen, listing
  <2> QED
    BY <1>1, <1>5, <2>1 DEF TempoIInv, Writing, listing
<1> QED
  BY <1>3, <1>4, <1>6, <1>7, <1>8, <1>9 DEF TempoIInv

LEMMA RetryKeeps == ASSUME TempoIInv, Retry PROVE TempoIInv'
<1>1. PICK answer \in Answers \ {"ok"}, happens \in BOOLEAN :
         /\ Retried(Method, answer, tries)
         /\ happens => MayHaveHappened(Method, answer)
         /\ Effect(happens)
  BY DEF Retry
<1>2. IsIdempotentRead(Method) /\ tries + 1 < MaxAttempts /\ ~happens
  BY <1>1 DEF Retried, MayHaveHappened
<1>3. UNCHANGED <<there, created, removed>> /\ sent' = sent
  BY <1>1, <1>2 DEF Effect, Retry, Sent
<1>4. /\ step # "idle" /\ tries' = tries + 1 /\ Undisturbed
      /\ UNCHANGED <<cmd, step, schedule, listing, item, out, token, faulty>>
  BY DEF Retry, Waits, Requests
<1>5. tries' \in 0 .. MaxAttempts - 1
  <2>1. tries \in 0 .. MaxAttempts - 1 /\ MaxAttempts \in Nat
    BY BoundsAssumption DEF TempoIInv, Typed, TypeOK
  <2> QED
    BY <1>2, <1>4, <2>1
<1>6. intact' \in BOOLEAN /\ chain' \in Seq(Ids)
  BY <1>4, EmptySeq DEF Undisturbed, TempoIInv, Typed
<1>7. Typed'
  BY <1>3, <1>4, <1>5, <1>6 DEF TempoIInv, Typed, TypeOK, listing
<1>8. UnderWay'
  BY <1>4 DEF TempoIInv, UnderWay, listing
<1>9. Unsent' /\ Deleting'
  BY <1>3, <1>4 DEF TempoIInv, Unsent, Deleting, DeletesPrefix, DealtWith
<1>10. Reading' /\ Writing'
  <2>1. CASE cmd.kind \in Listings
    <3>1. Reading'
      BY <1>3, <1>4, <2>1, ListingWaits DEF listing, TempoIInv, Reading, UnderWay
    <3>2. Rows(fetched)' = Rows(fetched) /\ Rows(queue)' = Rows(queue)
      BY <1>4 DEF Rows, Chosen, listing
    <3> QED
      BY <1>4, <3>1, <3>2 DEF TempoIInv, Writing, listing
  <2>2. CASE cmd.kind \notin Listings
    BY <1>4, <2>2, MutationOnly, KindOfStep DEF TempoIInv, UnderWay
  <2> QED
    BY <2>1, <2>2
<1> QED
  BY <1>7, <1>8, <1>9, <1>10 DEF TempoIInv

(* A request that failed for good ends a listing, and changed nothing.     *)
LEMMA FailureOfListing ==
    ASSUME TempoIInv, RequestFails, cmd.kind \in Listings
    PROVE  TempoIInv'
<1>1. PICK answer \in Answers \ {"ok"}, happens \in BOOLEAN :
         /\ happens => MayHaveHappened(Method, answer)
         /\ Effect(happens) /\ Fails(answer)
  BY DEF RequestFails
<1>2. step # "idle" /\ Undisturbed /\ Sent /\ UNCHANGED <<cmd, listing, token, faulty>>
  BY DEF RequestFails, Waits, Requests
<1>3. step \in {"schedule", "page", "row", "rowKey", "keys"}
  BY <1>2, KindOfStep
<1>4. IsIdempotentRead(Method) /\ ~happens
  BY <1>1, <1>3, MutatingSteps DEF MayHaveHappened
<1>5. UNCHANGED <<there, created, removed, sent>>
  BY <1>1, <1>2, <1>4 DEF Effect, Sent
<1>6. PICK status \in Statuses \ {"none", "ok"} : Ends(status) /\ item' = item
  BY <1>1, <1>3, StatusesOfErrors DEF Fails, Statuses
<1>7. /\ UnderWay' /\ step' = "idle" /\ tries' \in 0 .. MaxAttempts - 1
      /\ schedule' \in [pending : BOOLEAN, tries : 0 .. MaxAttempts - 1]
      /\ out' \in [status : Statuses, rows : Seq(Ids), terminal : BOOLEAN,
                   complete : BOOLEAN, totals : BOOLEAN]
      /\ out'.rows = out.rows /\ out'.terminal = out.terminal /\ out'.totals = out.totals
  BY <1>2, <1>6, EndsTyped DEF listing
<1>8. intact' \in BOOLEAN /\ chain' \in Seq(Ids)
  BY <1>2, EmptySeq DEF Undisturbed, TempoIInv, Typed
<1>9. Typed'
  BY <1>2, <1>5, <1>6, <1>7, <1>8 DEF TempoIInv, Typed, TypeOK, listing
<1>10. Unsent' /\ Deleting'
  BY <1>2, <1>5, ListingOnly
<1>11. ~out.terminal /\ ~out.totals
  BY <1>2 DEF TempoIInv, UnderWay
<1>12. Reading'
  BY <1>2, <1>5, <1>7, <1>11, ListingWaits DEF listing
<1>13. Writing'
  BY <1>2, <1>7, <1>11, ListingBreaksOff DEF listing
<1> QED
  BY <1>7, <1>9, <1>10, <1>12, <1>13 DEF TempoIInv

LEMMA FailureKeeps == ASSUME TempoIInv, RequestFails PROVE TempoIInv'
<1>1. CASE cmd.kind \in Listings
  BY <1>1, FailureOfListing
<1>2. CASE cmd.kind \notin Listings
  <2>1. PICK answer \in Answers \ {"ok"}, happens \in BOOLEAN :
           /\ happens => MayHaveHappened(Method, answer)
           /\ Effect(happens) /\ Fails(answer)
    BY DEF RequestFails
  <2>2. step # "idle" /\ Undisturbed /\ Sent /\ UNCHANGED <<cmd, listing, token, faulty>>
    BY DEF RequestFails, Waits, Requests
  <2>3. /\ step' \in {"hint", "idle"} /\ item' = item
        /\ step' = "hint" => step = "post" /\ answer = "rejected"
        /\ UnderWay' /\ tries' \in 0 .. MaxAttempts - 1
        /\ schedule' \in [pending : BOOLEAN, tries : 0 .. MaxAttempts - 1]
        /\ out' \in [status : Statuses, rows : Seq(Ids), terminal : BOOLEAN,
                     complete : BOOLEAN, totals : BOOLEAN]
        /\ out'.rows = out.rows /\ out'.status # "ok"
        /\ out'.terminal = out.terminal /\ out'.totals = out.totals
    <3>1. CASE Goes("hint") /\ step = "post" /\ answer = "rejected"
               /\ UNCHANGED <<item, schedule, out>>
      <4>1. step' = "hint" /\ tries' = 0 /\ 0 \in 0 .. MaxAttempts - 1
        BY <3>1, BoundsAssumption DEF Goes
      <4>2. cmd.kind = "log"
        BY <2>2, <3>1, KindOfStep
      <4>3. UnderWay'
        BY <2>2, <3>1, <4>1, <4>2 DEF TempoIInv, UnderWay, StepsOf, listing
      <4> QED
        BY <2>2, <3>1, <4>1, <4>3 DEF TempoIInv, Typed, TypeOK, UnderWay
    <3>2. CASE Ends(IF step = "hint" THEN "rejected" ELSE ErrorOf(answer)) /\ item' = item
      <4>1. (IF step = "hint" THEN "rejected" ELSE ErrorOf(answer)) \in Statuses \ {"none", "ok"}
        BY StatusesOfErrors DEF Statuses
      <4> QED
        BY <2>2, <3>2, <4>1, EndsTyped DEF listing
    <3> QED
      BY <2>1, <3>1, <3>2 DEF Fails
  <2>4. /\ there' \subseteq Ids /\ removed' \subseteq Ids /\ created' \in Nat /\ sent' \in Nat
        /\ created' <= sent' /\ sent' <= 1
        /\ cmd.kind = "delete" => created' = 0
        /\ cmd.kind # "delete" => removed' = removed
        /\ removed' = removed
              \/ (step = "delete" /\ removed' = removed \cup {cmd.batch[item + 1]})
    <3>1. /\ there \subseteq Ids /\ removed \subseteq Ids /\ created \in Nat /\ sent \in Nat
          /\ cmd.batch \in Seq(Ids) /\ item \in Nat
      BY DEF TempoIInv, Typed, TypeOK
    <3>2. created <= sent /\ sent <= 1 /\ (step # "hint" => sent = 0)
          /\ (cmd.kind = "delete" => created = 0)
      BY <2>2 DEF TempoIInv, Unsent
    <3>3. CASE ~happens
      BY <2>1, <2>2, <3>1, <3>2, <3>3, MutatingSteps DEF Effect, Sent
    <3>4. CASE happens
      <4>1. ~IsIdempotentRead(Method) /\ step \in {"delete", "post", "call"}
        BY <2>1, <3>4, MutatingSteps DEF MayHaveHappened
      <4>2. sent' = 1 /\ created = 0 /\ step # "hint"
        BY <2>2, <3>1, <3>2, <4>1 DEF Sent
      <4>3. CASE step = "delete"
        <5>1. cmd.kind = "delete" /\ item + 1 \in 1 .. Len(cmd.batch)
          BY <2>2, <3>1, <4>3, KindOfStep DEF TempoIInv, Deleting
        <5>2. cmd.batch[item + 1] \in Ids
          BY <3>1, <5>1, ElementOfSeq
        <5> QED
          BY <2>1, <3>1, <3>4, <4>2, <4>3, <5>1, <5>2 DEF Effect
      <4>4. CASE step # "delete"
        <5>1. cmd.kind # "delete"
          BY <2>2, <4>1, <4>4, KindOfStep
        <5> QED
          BY <2>1, <3>1, <3>4, <4>2, <4>4, <5>1 DEF Effect
      <4> QED
        BY <4>3, <4>4
    <3> QED
      BY <3>3, <3>4
  <2>5. intact' \in BOOLEAN /\ chain' \in Seq(Ids)
    BY <2>2, EmptySeq DEF Undisturbed, TempoIInv, Typed
  <2>6. Typed'
    <3>1. step' \in Requests \cup {"idle", "row"}
      BY <2>3 DEF Requests
    <3>2. TypeOK'
      BY <2>2, <2>3, <2>4, <3>1 DEF TempoIInv, Typed, TypeOK, listing
    <3> QED
      BY <2>2, <2>3, <2>5, <3>2 DEF TempoIInv, Typed, listing
  <2>7. Unsent'
    BY <2>2, <2>3, <2>4 DEF Unsent
  <2>8. Deleting'
    <3>1. CASE cmd.kind # "delete"
      BY <2>2, <2>4, <3>1 DEF TempoIInv, Deleting, DeletesPrefix
    <3>2. CASE cmd.kind = "delete"
      <4>1. step' = "idle" /\ step \in {"worklog", "worklogKey", "delete"}
        BY <2>2, <2>3, <3>2, KindOfStep
      <4>2. item < Len(cmd.batch) /\ (cmd.dry => step # "delete")
        BY <2>2, <3>2 DEF TempoIInv, Deleting
      <4>3. DealtWith' = DealtWith
        BY <2>2, <2>3 DEF DealtWith
      <4>4. /\ cmd.dry => removed = {}
            /\ ~cmd.dry => DealtWith \subseteq removed /\ removed \subseteq DealtWith
        BY <2>2, <3>2 DEF TempoIInv, Deleting, DeletesPrefix
      <4> QED
        BY <2>2, <2>3, <2>4, <3>2, <4>1, <4>2, <4>3, <4>4 DEF Deleting, DeletesPrefix
    <3> QED
      BY <3>1, <3>2
  <2>9. Reading' /\ Writing'
    <3>1. ~out.terminal /\ ~out.totals
      BY <2>2 DEF TempoIInv, UnderWay
    <3> QED
      BY <1>2, <2>2, <2>3, <3>1, MutationOnly
  <2> QED
    BY <2>3, <2>6, <2>7, <2>8, <2>9 DEF TempoIInv
<1> QED
  BY <1>1, <1>2

-----------------------------------------------------------------------------
(* Listings.                                                               *)

LEMMA ScheduleFailureKeeps == ASSUME TempoIInv, ScheduleFails PROVE TempoIInv'
<1>1. schedule.pending /\ cmd.kind \in Listings /\ step \in {"page", "keys"} /\ step # "idle"
  BY DEF ScheduleFails, TempoIInv, UnderWay, Listings
<1>2. UNCHANGED <<there, created, cmd, listing, item, memory, sent, removed, faulty>>
  BY DEF ScheduleFails
<1>3. ~out.terminal /\ ~out.totals
  BY <1>1 DEF TempoIInv, UnderWay
<1>4. Unsent' /\ Deleting'
  BY <1>1, <1>2, ListingOnly
<1>5. CASE /\ schedule.tries + 1 < MaxAttempts
           /\ schedule' = [schedule EXCEPT !.tries = @ + 1] /\ UNCHANGED <<step, tries, out>>
  <2>1. schedule \in [pending : BOOLEAN, tries : 0 .. MaxAttempts - 1] /\ MaxAttempts \in Nat
    BY BoundsAssumption DEF TempoIInv, Typed, TypeOK
  <2>2. schedule' \in [pending : BOOLEAN, tries : 0 .. MaxAttempts - 1]
    BY <1>5, <2>1
  <2>3. Typed'
    BY <1>2, <1>5, <2>2 DEF TempoIInv, Typed, TypeOK, listing, memory
  <2>4. UnderWay'
    BY <1>1, <1>2, <1>5 DEF TempoIInv, UnderWay, listing, memory, Listings
  <2>5. Reading'
    BY <1>1, <1>2, <1>3, <1>5, ListingWaits DEF TempoIInv, Reading, listing, memory
  <2>6. Rows(fetched)' = Rows(fetched) /\ Rows(queue)' = Rows(queue)
    BY <1>2 DEF Rows, Chosen, listing
  <2>7. Writing'
    BY <1>1, <1>2, <1>5, <2>6 DEF TempoIInv, Writing, listing
  <2> QED
    BY <1>4, <2>3, <2>4, <2>5, <2>7 DEF TempoIInv
<1>6. ASSUME NEW answer \in Answers \ {"ok"}, Ends(ErrorOf(answer)) PROVE TempoIInv'
  <2>1. ErrorOf(answer) \in Statuses \ {"none", "ok"}
    BY StatusesOfErrors
  <2>2. /\ UnderWay' /\ step' = "idle" /\ tries' \in 0 .. MaxAttempts - 1
        /\ schedule' \in [pending : BOOLEAN, tries : 0 .. MaxAttempts - 1]
        /\ out' \in [status : Statuses, rows : Seq(Ids), terminal : BOOLEAN,
                     complete : BOOLEAN, totals : BOOLEAN]
        /\ out'.rows = out.rows /\ out'.terminal = out.terminal /\ out'.totals = out.totals
    BY <1>2, <1>6, <2>1, EndsTyped DEF listing, memory
  <2>3. Typed'
    BY <1>2, <2>2 DEF TempoIInv, Typed, TypeOK, listing, memory
  <2>4. Reading'
    BY <1>1, <1>2, <1>3, <2>2, ListingWaits DEF listing, memory
  <2>5. Writing'
    BY <1>1, <1>2, <1>3, <2>2, ListingBreaksOff DEF listing
  <2> QED
    BY <1>4, <2>2, <2>3, <2>4, <2>5 DEF TempoIInv
<1> QED
  BY <1>5, <1>6 DEF ScheduleFails, Retried

(* The report of the schedule that arrives concerns nothing else.          *)
LEMMA ScheduleArrivalKeeps == ASSUME TempoIInv, ScheduleArrives PROVE TempoIInv'
<1>1. /\ schedule' = [pending |-> FALSE, tries |-> 0]
      /\ UNCHANGED <<there, created, cmd, step, tries, listing, item, out, memory, sent,
                     removed, faulty>>
  BY DEF ScheduleArrives
<1>2. 0 \in 0 .. MaxAttempts - 1
  BY BoundsAssumption
<1>3. Typed'
  BY <1>1, <1>2 DEF TempoIInv, Typed, TypeOK, listing, memory
<1>4. UnderWay'
  BY <1>1 DEF TempoIInv, UnderWay, listing, memory
<1>5. Unsent' /\ Deleting'
  BY <1>1 DEF TempoIInv, Unsent, Deleting, DeletesPrefix, DealtWith
<1>6. Listing' = Listing /\ Base' = Base /\ Rows(fetched)' = Rows(fetched)
      /\ Rows(queue)' = Rows(queue)
  BY <1>1 DEF Listing, Base, Rows, Chosen, listing, memory
<1>7. Reading'
  BY <1>1, <1>6 DEF TempoIInv, Reading, Read, ListingsAddUp, listing, memory
<1>8. Writing'
  BY <1>1, <1>6 DEF TempoIInv, Writing, StreamAgrees, listing
<1> QED
  BY <1>3, <1>4, <1>5, <1>7, <1>8 DEF TempoIInv

(* A page that is taken, with the decision that follows from it.           *)
LEMMA ConsumedKeeps ==
    ASSUME TempoIInv, step = "page", NEW page \in {Page(link)} \cup FaultyPages(link),
           faulty' = (faulty \/ page # Page(link)), Consumed(page),
           UNCHANGED <<there, cmd, token>>
    PROVE  /\ page.results \in Seq(Ids) /\ fetched' \in Seq(Ids) /\ link' \in Links
           /\ pages' \in 0 .. HardPageLimit
           /\ decided' \in {"continue", "complete", "bounded", "tooMany"}
           /\ decided' = "continue" => pages' < HardPageLimit
           /\ decided' # "complete" => link'.limit > 0
           /\ faulty => faulty'
           /\ ~faulty' /\ Base' <= Len(Listing') => Read'
<1>1. /\ cmd.kind \in Listings /\ decided = "continue" /\ link \in Links /\ link.limit > 0
      /\ there \subseteq Ids /\ fetched \in Seq(Ids) /\ pages \in 0 .. HardPageLimit
      /\ pages < HardPageLimit /\ cmd.plan.pages <= HardPageLimit /\ cmd.plan \in Plans
      /\ (~faulty /\ Base <= Len(Listing) => Read)
      /\ token \in [link : Links, plan : Plans] /\ faulty \in BOOLEAN
  <2>1. cmd.kind \in Listings
    BY KindOfStep
  <2> QED
    BY <2>1 DEF TempoIInv, Typed, TypeOK, UnderWay, Reading
<1>2. /\ page.results \in Seq(Ids) /\ page.next \in Links
      /\ page.next # NoLink => page.next.limit > 0
  BY <1>1, PageIs, FaultyPagesAre
<1>3. /\ fetched' = fetched \o page.results
      /\ pages' = pages + 1
      /\ decided' = Decision(cmd.plan, pages + 1, Len(fetched'), page.next # NoLink)
      /\ link' = page.next
  BY DEF Consumed
<1>4. fetched' \in Seq(Ids)
  BY <1>1, <1>2, <1>3, ConcatProperties
<1>5. /\ decided' \in {"continue", "complete", "bounded", "tooMany"}
      /\ decided' = "complete" <=> page.next = NoLink
      /\ decided' = "continue" => pages + 1 < cmd.plan.pages
  BY <1>3 DEF Decision, ShouldFollow
<1>6. pages' \in 0 .. HardPageLimit /\ (decided' = "continue" => pages' < HardPageLimit)
  BY <1>1, <1>3, <1>5, BoundsAssumption DEF Plans
<1>7. ASSUME ~faulty', Base' <= Len(Listing') PROVE Read'
  <2>1. Listing' = Listing /\ Base' = Base /\ Base \in Nat
    BY <1>1 DEF Listing, Base, Links
  <2>2. /\ fetched = SubSeq(Listing, Base + 1, Base + Len(fetched))
        /\ Base + Len(fetched) <= Len(Listing)
        /\ link.at = Base + Len(fetched)
    BY <1>1, <1>7, <2>1 DEF Read
  <2>3. Listing \in Seq(Ids) /\ Len(Listing) \in Nat /\ Len(fetched) \in Nat
    BY <1>1, ListingIs, LenProperties
  <2>4. page = Page(link)
    BY <1>7
  <2>5. PICK last \in link.at .. Len(Listing) :
           /\ page.results = SubSeq(Listing, link.at + 1, last)
           /\ IF page.next = NoLink THEN last = Len(Listing) ELSE page.next.at = last
    BY <1>1, <2>2, <2>4, PageIs
  <2>6. fetched' = SubSeq(Listing, Base + 1, last)
    <3>1. /\ Base + 1 \in 1 .. Len(Listing) + 1 /\ link.at \in (Base + 1) - 1 .. Len(Listing)
          /\ last \in link.at .. Len(Listing)
      BY <2>1, <2>2, <2>3, <2>5
    <3>2. SubSeq(Listing, Base + 1, link.at) \o SubSeq(Listing, link.at + 1, last)
            = SubSeq(Listing, Base + 1, last)
      BY <2>3, <3>1, ConcatAdjacentSubSeq
    <3> QED
      BY <1>3, <2>2, <2>5, <3>2
  <2>7. Len(fetched') = last - Base
    <3>1. \A i \in Base + 1 .. last : Listing[i] \in Ids
      BY <2>1, <2>3, <2>5, ElementOfSeq
    <3>2. Len(SubSeq(Listing, Base + 1, last)) =
             IF Base + 1 <= last THEN last - (Base + 1) + 1 ELSE 0
      BY <2>1, <2>3, <2>5, <3>1, SubSeqProperties
    <3> QED
      BY <2>1, <2>2, <2>3, <2>5, <2>6, <3>2
  <2>8. Base + Len(fetched') = last
    BY <2>1, <2>3, <2>5, <2>7
  <2>9. /\ decided' # "complete" => link'.at = last
        /\ decided' = "complete" => last = Len(Listing)
    BY <1>3, <1>5, <2>5
  <2> QED
    BY <2>1, <2>3, <2>5, <2>6, <2>8, <2>9 DEF Read
<1> QED
  BY <1>1, <1>2, <1>3, <1>4, <1>5, <1>6, <1>7

LEMMA PageKeeps == ASSUME TempoIInv, PageArrives PROVE TempoIInv'
<1>1. PICK page \in {Page(link)} \cup FaultyPages(link) :
         /\ faulty' = (faulty \/ page # Page(link))
         /\ IF ~PageFits(page)
            THEN Ends("invalidResponse") /\ UNCHANGED listing
            ELSE /\ Consumed(page)
                 /\ IF decided' = "tooMany"
                    THEN Ends("invalidResponse") /\ UNCHANGED <<queue, keys>>
                    ELSE IF cmd.kind = "stream"
                    THEN /\ Goes("row") /\ queue' = page.results
                         /\ UNCHANGED <<schedule, out, keys>>
                    ELSE Goes(AfterPage) /\ UNCHANGED <<schedule, out, queue, keys>>
  BY DEF PageArrives
<1>2. step = "page" /\ UNCHANGED <<there, created, cmd, item, memory, sent, removed>>
  BY DEF PageArrives
<1>3. /\ cmd.kind \in Listings /\ queue = <<>> /\ ~out.terminal /\ ~out.totals
      /\ faulty \in BOOLEAN /\ step # "idle"
  BY <1>2, KindOfStep DEF TempoIInv, Typed, UnderWay, Writing
<1>4. Unsent' /\ Deleting'
  BY <1>2, <1>3, ListingOnly
<1>5. faulty' \in BOOLEAN /\ (faulty => faulty')
  BY <1>1, <1>3
<1>6. ASSUME Ends("invalidResponse")
      PROVE  /\ step' = "idle" /\ tries' \in 0 .. MaxAttempts - 1
             /\ schedule' \in [pending : BOOLEAN, tries : 0 .. MaxAttempts - 1]
             /\ out' \in [status : Statuses, rows : Seq(Ids), terminal : BOOLEAN,
                          complete : BOOLEAN, totals : BOOLEAN]
             /\ out'.rows = out.rows /\ ~out'.terminal /\ ~out'.totals
             /\ ~schedule'.pending
  <2>1. out \in [status : Statuses, rows : Seq(Ids), terminal : BOOLEAN, complete : BOOLEAN,
                 totals : BOOLEAN]
    BY DEF TempoIInv, Typed
  <2>2. 0 \in 0 .. MaxAttempts - 1 /\ "invalidResponse" \in Statuses
    BY BoundsAssumption DEF Statuses
  <2>3. step' = "idle" /\ tries' = 0 /\ schedule' = [pending |-> FALSE, tries |-> 0]
        /\ out' = [out EXCEPT !.status = "invalidResponse"]
    BY <1>6 DEF Ends, Goes
  <2> QED
    BY <1>3, <2>1, <2>2, <2>3
<1>7. CASE Ends("invalidResponse") /\ UNCHANGED listing
  <2>1. Typed'
    BY <1>2, <1>5, <1>6, <1>7 DEF TempoIInv, Typed, TypeOK, listing, memory
  <2>2. UnderWay'
    BY <1>2, <1>6, <1>7 DEF TempoIInv, UnderWay, listing, memory
  <2>3. Reading'
    BY <1>2, <1>3, <1>5, <1>6, <1>7, ListingWaits DEF listing, memory
  <2>4. Writing'
    BY <1>2, <1>3, <1>6, <1>7, ListingBreaksOff DEF listing
  <2> QED
    BY <1>4, <2>1, <2>2, <2>3, <2>4 DEF TempoIInv
<1>8. ASSUME Consumed(page)
      PROVE  /\ page.results \in Seq(Ids) /\ fetched' \in Seq(Ids) /\ link' \in Links
             /\ pages' \in 0 .. HardPageLimit
             /\ decided' \in {"continue", "complete", "bounded", "tooMany"}
             /\ decided' = "continue" => pages' < HardPageLimit
             /\ decided' # "complete" => link'.limit > 0
             /\ ~faulty' /\ Base' <= Len(Listing') => Read'
             /\ fetched' = fetched \o page.results
  BY <1>1, <1>2, <1>8, ConsumedKeeps DEF memory, Consumed
<1>9. /\ fetched \in Seq(Ids) /\ out.rows \in Seq(Ids) /\ Rows(fetched) \in Seq(Ids)
      /\ cmd.kind = "stream" => out.rows = Rows(fetched)
      /\ cmd.kind # "stream" => out.rows = <<>>
  <2>1. fetched \in Seq(Ids) /\ out.rows \in Seq(Ids)
    BY DEF TempoIInv, Typed, TypeOK
  <2>2. out.rows \o <<>> = out.rows
    BY <2>1, ConcatEmptySeq
  <2>3. cmd.kind = "stream" => out.rows \o Rows(queue) = Rows(fetched)
    BY <1>3 DEF TempoIInv, Writing
  <2> QED
    BY <1>3, <2>1, <2>2, <2>3, RowsEmpty, RowsTyped DEF TempoIInv, Writing
<1>10. ASSUME Consumed(page) PROVE Rows(fetched)' = Rows(fetched) \o Rows(page.results)
  <2>1. Rows(fetched \o page.results) = Rows(fetched) \o Rows(page.results)
    BY <1>8, <1>9, <1>10, RowsConcat
  <2>2. Rows(fetched)' = Rows(fetched')
    BY <1>2 DEF Rows
  <2> QED
    BY <1>8, <1>10, <2>1, <2>2
<1>11. /\ token = NoToken \/ token.link.limit > 0
       /\ intact /\ token # NoToken => token.link.at <= Len(Listing)
       /\ cmd.resumed => token # NoToken
       /\ ListingsAddUp
  BY <1>3 DEF TempoIInv, Reading
<1>12. Listing' = Listing
  BY <1>2 DEF Listing
<1>13. CASE Consumed(page) /\ decided' = "tooMany" /\ Ends("invalidResponse")
            /\ UNCHANGED <<queue, keys>>
  <2>1. Typed'
    <3>1. step' \in Requests \cup {"idle", "row"}
      BY <1>6, <1>13
    <3>2. TypeOK'
      BY <1>2, <1>6, <1>8, <1>13, <3>1 DEF TempoIInv, Typed, TypeOK, memory
    <3> QED
      BY <1>2, <1>5, <1>6, <1>13, <3>2 DEF TempoIInv, Typed, memory
  <2>2. UnderWay'
    BY <1>2, <1>6, <1>13 DEF TempoIInv, UnderWay, memory
  <2>3. Reading'
    BY <1>2, <1>6, <1>11, <1>12, <1>13 DEF Reading, ListingsAddUp, memory
  <2>4. Writing'
    <3>1. Rows(page.results) \in Seq(Ids)
      BY <1>8, <1>13, RowsTyped
    <3>2. IsPrefix(out.rows, Rows(fetched)')
      <4>1. CASE cmd.kind = "stream"
        BY <1>9, <1>10, <1>13, <3>1, <4>1, PrefixOfConcat
      <4>2. CASE cmd.kind # "stream"
        <5>1. Rows(fetched)' \in Seq(Ids)
          BY <1>9, <1>10, <1>13, <3>1, ConcatProperties
        <5>2. <<>> \o Rows(fetched)' = Rows(fetched)' /\ <<>> \in Seq(Ids)
          BY <5>1, ConcatEmptySeq
        <5> QED
          BY <1>9, <4>2, <5>1, <5>2, PrefixOfConcat
      <4> QED
        BY <4>1, <4>2
    <3> QED
      BY <1>6, <1>13, <3>2 DEF Writing, StreamAgrees
  <2> QED
    BY <1>4, <2>1, <2>2, <2>3, <2>4 DEF TempoIInv
<1>14. CASE /\ Consumed(page) /\ decided' # "tooMany" /\ UNCHANGED <<schedule, out, keys>>
            /\ \/ cmd.kind = "stream" /\ Goes("row") /\ queue' = page.results
               \/ cmd.kind # "stream" /\ Goes(AfterPage) /\ UNCHANGED queue
  <2>1. /\ tries' = 0 /\ 0 \in 0 .. MaxAttempts - 1
        /\ step' = IF cmd.kind = "stream" THEN "row"
                   ELSE IF decided' = "continue" THEN "page" ELSE "keys"
        /\ queue' = IF cmd.kind = "stream" THEN page.results ELSE <<>>
    BY <1>3, <1>14, BoundsAssumption DEF Goes, AfterPage
  <2>2. cmd'.kind = cmd.kind /\ cmd.kind \in {"list", "stream"}
    BY <1>2, <1>3 DEF Listings
  <2>3. Typed'
    <3>1. step' \in Requests \cup {"idle", "row"}
      BY <2>1 DEF Requests
    <3>2. TypeOK'
      BY <1>2, <1>8, <1>14, <2>1, <3>1 DEF TempoIInv, Typed, TypeOK, memory
    <3>3. queue' \in Seq(Ids)
      BY <1>8, <1>14, <2>1
    <3> QED
      BY <1>2, <1>5, <1>14, <3>2, <3>3 DEF TempoIInv, Typed, memory
  <2>4. UnderWay'
    <3>1. schedule.pending => cmd.kind = "list"
      BY DEF TempoIInv, UnderWay
    <3>2. /\ out.status = "none" /\ cmd.plan.pages <= HardPageLimit
          /\ token.plan.pages <= HardPageLimit
      BY <1>3 DEF TempoIInv, UnderWay
    <3>3. step' \in StepsOf(cmd.kind) /\ (cmd.kind = "list" => step' \in {"page", "keys"})
      BY <2>1, <2>2 DEF StepsOf
    <3> QED
      BY <1>2, <1>3, <1>8, <1>14, <3>1, <3>2, <3>3 DEF UnderWay, memory
  <2>5. Reading'
    BY <1>2, <1>3, <1>8, <1>11, <1>12, <1>14, <2>1 DEF Reading, ListingsAddUp, memory
  <2>6. Writing'
    <3>1. CASE cmd.kind = "stream"
      <4>1. Rows(queue)' = Rows(page.results)
        BY <1>2, <2>1, <3>1 DEF Rows
      <4> QED
        BY <1>2, <1>9, <1>10, <1>14, <2>1, <3>1, <4>1 DEF Writing
    <3>2. CASE cmd.kind # "stream"
      BY <1>2, <1>9, <1>14, <2>1, <3>2 DEF Writing
    <3> QED
      BY <3>1, <3>2
  <2> QED
    BY <1>4, <2>3, <2>4, <2>5, <2>6 DEF TempoIInv
<1> QED
  BY <1>1, <1>7, <1>13, <1>14

(* The last line of a listing: its rows, its totals and its token.         *)
LEMMA ConcludesKeeps ==
    ASSUME TempoIInv, step \in {"keys", "row"}, decided # "continue", ~schedule.pending,
           NEW rows, rows = Rows(fetched), Concludes(rows),
           UNCHANGED <<there, created, cmd, listing, item, sent, removed, faulty>>
    PROVE  TempoIInv'
<1>1. /\ cmd.kind \in Listings /\ step # "idle"
      /\ there \subseteq Ids /\ fetched \in Seq(Ids) /\ link \in Links
      /\ cmd.plan \in Plans /\ cmd.plan.pages <= HardPageLimit
      /\ cmd.resumed \in BOOLEAN /\ faulty \in BOOLEAN /\ intact \in BOOLEAN
      /\ chain \in Seq(Ids) /\ token \in [link : Links, plan : Plans]
      /\ decided \in {"complete", "bounded"}
      /\ decided # "complete" => link.limit > 0
      /\ cmd.resumed => token # NoToken
      /\ ~faulty /\ Base <= Len(Listing) => Read
      /\ token = NoToken \/ token.link.limit > 0
      /\ intact /\ token # NoToken => token.link.at <= Len(Listing)
      /\ intact => chain = SubSeq(Listing, 1, IF token = NoToken THEN Len(Listing)
                                              ELSE token.link.at)
  <2>1. cmd.kind \in Listings
    BY KindOfStep
  <2> QED
    BY <2>1 DEF TempoIInv, Typed, TypeOK, UnderWay, Reading, ListingsAddUp
<1>2. /\ step' = "idle" /\ tries' = 0 /\ schedule' = schedule
      /\ out' = [status |-> "ok", rows |-> rows, terminal |-> TRUE,
                 complete |-> decided = "complete", totals |-> TotalsComplete]
      /\ token' = IF decided = "complete" THEN NoToken ELSE [link |-> link, plan |-> cmd.plan]
      /\ intact' = (~faulty /\ (cmd.resumed => intact))
      /\ chain' = CASE ~intact' -> <<>>
                   [] intact' /\ cmd.resumed -> chain \o fetched
                   [] intact' /\ ~cmd.resumed -> fetched
  BY DEF Concludes, Goes, PrintsToken
<1>3. Unsent' /\ Deleting'
  BY <1>1, ListingOnly
<1>4. rows \in Seq(Ids)
  BY <1>1, RowsTyped
<1>5. intact' \in BOOLEAN /\ chain' \in Seq(Ids)
  <2>1. intact' \in BOOLEAN
    BY <1>2
  <2>2. <<>> \in Seq(Ids) /\ chain \o fetched \in Seq(Ids)
    BY <1>1, ConcatProperties
  <2> QED
    BY <1>1, <1>2, <2>1, <2>2
<1>6. /\ token' \in [link : Links, plan : Plans] /\ token'.plan.pages <= HardPageLimit
      /\ token' = NoToken \/ token'.link.limit > 0
      /\ token' = NoToken <=> decided = "complete"
      /\ decided # "complete" => token'.link = link
  <2>1. NoToken \in [link : Links, plan : Plans] /\ NoToken.plan.pages <= HardPageLimit
    BY BoundsAssumption DEF NoToken, NoLink, Links, Plans
  <2>2. link.limit > 0 => [link |-> link, plan |-> cmd.plan] # NoToken
    BY DEF NoToken, NoLink
  <2> QED
    BY <1>1, <1>2, <2>1, <2>2
<1>7. Typed'
  <2>1. 0 \in 0 .. MaxAttempts - 1 /\ "ok" \in Statuses /\ "idle" \in Requests \cup {"idle", "row"}
    BY BoundsAssumption DEF Statuses
  <2>2. out' \in [status : Statuses, rows : Seq(Ids), terminal : BOOLEAN, complete : BOOLEAN,
                  totals : BOOLEAN]
    BY <1>2, <1>4, <2>1 DEF TotalsComplete
  <2>3. TypeOK'
    BY <1>2, <1>6, <2>1 DEF TempoIInv, Typed, TypeOK, listing
  <2> QED
    BY <1>5, <2>2, <2>3 DEF TempoIInv, Typed, listing
<1>8. UnderWay'
  BY <1>2, <1>6 DEF TempoIInv, UnderWay, listing
<1>9. Listing' = Listing /\ Listing \in Seq(Ids) /\ Len(Listing) \in Nat
      /\ ToSet(Listing) = there /\ fetched' = fetched
  BY <1>1, ListingIs DEF Listing, listing
<1>10. Len(fetched) \in Nat /\ Base \in Nat
  BY <1>1, LenProperties DEF Base, Links
<1>11. ASSUME intact'
       PROVE  /\ chain' = SubSeq(Listing, 1, Base + Len(fetched)) /\ Read
  <2>1. ~faulty /\ (cmd.resumed => intact)
    BY <1>2, <1>11
  <2>2. Base <= Len(Listing)
    BY <1>1, <1>9, <2>1 DEF Base
  <2>3. Read
    BY <1>1, <2>1, <2>2
  <2>4. CASE cmd.resumed
    <3>1. chain = SubSeq(Listing, 1, Base) /\ chain' = chain \o fetched
      BY <1>1, <1>2, <1>11, <2>1, <2>4 DEF Base
    <3>2. /\ 1 \in 1 .. Len(Listing) + 1 /\ Base \in 1 - 1 .. Len(Listing)
          /\ Base + Len(fetched) \in Base .. Len(Listing)
      BY <1>9, <1>10, <2>2, <2>3 DEF Read
    <3>3. SubSeq(Listing, 1, Base) \o SubSeq(Listing, Base + 1, Base + Len(fetched))
             = SubSeq(Listing, 1, Base + Len(fetched))
      BY <1>9, <3>2, ConcatAdjacentSubSeq
    <3> QED
      BY <2>3, <3>1, <3>3 DEF Read
  <2>5. CASE ~cmd.resumed
    <3>1. chain' = fetched /\ Base = 0
      BY <1>2, <1>11, <2>5 DEF Base
    <3> QED
      BY <2>3, <3>1 DEF Read
  <2> QED
    BY <1>1, <2>3, <2>4, <2>5
<1>12. intact' => /\ chain' = SubSeq(Listing, 1, IF token' = NoToken THEN Len(Listing)
                                                 ELSE token'.link.at)
                  /\ token' # NoToken => token'.link.at <= Len(Listing)
  BY <1>1, <1>6, <1>11 DEF Read
<1>13. out'.totals /\ ~faulty' => ToSet(fetched') = there'
  <2> SUFFICES ASSUME out'.totals, ~faulty' PROVE ToSet(fetched) = there
    BY <1>9
  <2>1. ~cmd.resumed /\ decided = "complete" /\ ~faulty
    BY <1>2 DEF TotalsComplete
  <2>2. Base = 0 /\ Base <= Len(Listing)
    BY <1>9, <2>1 DEF Base
  <2>3. fetched = SubSeq(Listing, 1, Len(Listing))
    BY <1>1, <1>9, <1>10, <2>1, <2>2 DEF Read
  <2>4. fetched = Listing
    BY <1>9, <2>3, SubSeqFull
  <2> QED
    BY <1>9, <2>4
<1>14. Reading'
  BY <1>2, <1>6, <1>9, <1>12, <1>13 DEF Reading, ListingsAddUp
<1>15. Writing'
  <2>1. Rows(fetched)' = rows /\ out'.rows = rows
    BY <1>2 DEF Rows, Chosen, listing
  <2>2. IsPrefix(rows, rows)
    <3>1. rows \o <<>> = rows /\ <<>> \in Seq(Ids)
      BY <1>4, ConcatEmptySeq
    <3> QED
      BY <1>4, <3>1, PrefixOfConcat
  <2> QED
    BY <1>2, <2>1, <2>2 DEF Writing, StreamAgrees
<1> QED
  BY <1>3, <1>7, <1>8, <1>14, <1>15 DEF TempoIInv

(* A listing that is broken off while it writes.                           *)
LEMMA BrokenOffKeeps ==
    ASSUME TempoIInv, step \in {"keys", "row"}, NEW status \in Statuses \ {"none"}, Ends(status),
           UNCHANGED <<there, created, cmd, listing, item, memory, sent, removed, faulty>>
    PROVE  TempoIInv'
<1>1. cmd.kind \in Listings /\ step # "idle" /\ ~out.terminal /\ ~out.totals
  BY KindOfStep DEF TempoIInv, UnderWay
<1>2. /\ UnderWay' /\ step' = "idle" /\ tries' \in 0 .. MaxAttempts - 1
      /\ schedule' \in [pending : BOOLEAN, tries : 0 .. MaxAttempts - 1]
      /\ out' \in [status : Statuses, rows : Seq(Ids), terminal : BOOLEAN,
                   complete : BOOLEAN, totals : BOOLEAN]
      /\ out'.rows = out.rows /\ out'.terminal = out.terminal /\ out'.totals = out.totals
  BY EndsTyped DEF listing, memory
<1>3. Typed'
  BY <1>2 DEF TempoIInv, Typed, TypeOK, listing, memory
<1>4. Unsent' /\ Deleting'
  BY <1>1, ListingOnly
<1>5. Reading'
  BY <1>1, <1>2, ListingWaits DEF listing, memory
<1>6. Writing'
  BY <1>1, <1>2, ListingBreaksOff DEF listing
<1> QED
  BY <1>2, <1>3, <1>4, <1>5, <1>6 DEF TempoIInv

LEMMA ReportKeyKeeps == ASSUME TempoIInv, ReportKey PROVE TempoIInv'
<1>1. /\ step = "keys" /\ tries' = 0 /\ cmd.kind \in Listings
      /\ UNCHANGED <<there, created, cmd, step, schedule, pages, fetched, link, decided, queue,
                     item, out, memory, sent, removed, faulty>>
  BY KindOfStep DEF ReportKey
<1>2. 0 \in 0 .. MaxAttempts - 1
  BY BoundsAssumption
<1>3. Typed'
  BY <1>1, <1>2 DEF TempoIInv, Typed, TypeOK, memory
<1>4. UnderWay'
  BY <1>1 DEF TempoIInv, UnderWay, memory
<1>5. Unsent' /\ Deleting'
  BY <1>1, ListingOnly
<1>6. Reading'
  BY <1>1, ListingWaits DEF TempoIInv, Reading, UnderWay, memory
<1>7. Rows(fetched)' = Rows(fetched) /\ Rows(queue)' = Rows(queue)
  BY <1>1 DEF Rows, Chosen
<1>8. Writing'
  BY <1>1, <1>7 DEF TempoIInv, Writing
<1> QED
  BY <1>3, <1>4, <1>5, <1>6, <1>8 DEF TempoIInv

LEMMA ReportKeeps == ASSUME TempoIInv, Report PROVE TempoIInv'
<1>1. /\ step = "keys" /\ ~schedule.pending
      /\ UNCHANGED <<there, created, cmd, listing, item, sent, removed, faulty>>
  BY DEF Report
<1>2. cmd.kind \in Listings /\ decided # "continue"
  BY <1>1, KindOfStep DEF TempoIInv, Reading
<1>3. CASE Concludes(Rows(fetched))
  BY <1>1, <1>2, <1>3, ConcludesKeeps
<1>4. ASSUME NEW error \in {"invalidResponse", "io"}, Ends(error), UNCHANGED memory
      PROVE  TempoIInv'
  BY <1>1, <1>4, BrokenOffKeeps DEF Statuses
<1> QED
  BY <1>3, <1>4 DEF Report

(* A stream at its rows, before the next page.                             *)
LEMMA StreamKeeps ==
    ASSUME TempoIInv, step \in {"row", "rowKey"}, step' \in {"row", "rowKey"},
           UNCHANGED <<there, created, cmd, schedule, pages, fetched, link, decided, item,
                       memory, sent, removed, faulty>>,
           tries' \in 0 .. MaxAttempts - 1, queue' \in Seq(Ids),
           out' \in [status : Statuses, rows : Seq(Ids), terminal : BOOLEAN,
                     complete : BOOLEAN, totals : BOOLEAN],
           out'.status = out.status, ~out'.terminal, ~out'.totals,
           out'.rows \o Rows(queue') = Rows(fetched),
           step' = "rowKey" => queue' # <<>>
    PROVE  TempoIInv'
<1>1. cmd.kind = "stream" /\ cmd.kind \in Listings /\ ~schedule.pending /\ step # "idle"
  BY KindOfStep DEF TempoIInv, UnderWay
<1>2. step' \in Requests \cup {"idle", "row"}
  BY DEF Requests
<1>3. Typed'
  BY <1>2 DEF TempoIInv, Typed, TypeOK, memory
<1>4. UnderWay'
  BY <1>1 DEF TempoIInv, UnderWay, StepsOf, memory
<1>5. Unsent' /\ Deleting'
  BY <1>1, ListingOnly
<1>6. Reading'
  BY <1>1, ListingWaits DEF memory
<1>7. Rows(fetched)' = Rows(fetched) /\ Rows(queue)' = Rows(queue')
  BY DEF Rows
<1>8. Writing'
  BY <1>1, <1>7 DEF Writing
<1> QED
  BY <1>3, <1>4, <1>5, <1>6, <1>8 DEF TempoIInv

LEMMA StreamStepsKeep ==
    ASSUME TempoIInv, SkipRow \/ AskKey \/ RowKey \/ WriteRow PROVE TempoIInv'
<1>1. step \in {"row", "rowKey"} /\ cmd.kind = "stream" /\ step # "idle"
  BY KindOfStep DEF SkipRow, AskKey, RowKey, WriteRow
<1>2. /\ queue \in Seq(Ids) /\ fetched \in Seq(Ids) /\ tries \in 0 .. MaxAttempts - 1
      /\ out \in [status : Statuses, rows : Seq(Ids), terminal : BOOLEAN, complete : BOOLEAN,
                  totals : BOOLEAN]
      /\ ~out.terminal /\ ~out.totals
      /\ out.rows \o Rows(queue) = Rows(fetched)
      /\ step = "rowKey" => queue # <<>>
  BY <1>1 DEF TempoIInv, Typed, TypeOK, UnderWay, Writing
<1>3. 0 \in 0 .. MaxAttempts - 1
  BY BoundsAssumption
<1>4. CASE SkipRow
  <2>1. queue # <<>> /\ queue' = Tail(queue) /\ Tail(queue) \in Seq(Ids)
        /\ Rows(queue) = Rows(Tail(queue))
    BY <1>2, <1>4, RowsOfFirst DEF SkipRow
  <2> QED
    BY <1>1, <1>2, <1>4, <2>1, StreamKeeps DEF SkipRow
<1>5. CASE AskKey
  BY <1>1, <1>2, <1>3, <1>5, StreamKeeps DEF AskKey, Goes, listing
<1>6. CASE RowKey
  BY <1>1, <1>2, <1>3, <1>6, StreamKeeps DEF RowKey, Goes
<1>7. CASE WriteRow
  <2>1. /\ step = "row" /\ queue # <<>> /\ Head(queue) \in Selected /\ cmd.fields # "none"
        /\ UNCHANGED <<there, created, cmd, item, sent, removed, faulty>>
    BY <1>7 DEF WriteRow
  <2>2. CASE /\ out' = [out EXCEPT !.rows = Append(@, Head(queue))]
             /\ queue' = Tail(queue)
             /\ UNCHANGED <<step, tries, schedule, pages, fetched, link, decided, keys, memory>>
    <3>1. /\ Head(queue) \in Ids /\ Tail(queue) \in Seq(Ids)
          /\ Rows(queue) = <<Head(queue)>> \o Rows(Tail(queue))
      BY <1>2, <2>1, RowsOfFirst
    <3>2. /\ out'.rows = Append(out.rows, Head(queue)) /\ out.rows \in Seq(Ids)
          /\ Append(out.rows, Head(queue)) \in Seq(Ids)
          /\ out'.status = out.status /\ ~out'.terminal /\ ~out'.totals
          /\ out' \in [status : Statuses, rows : Seq(Ids), terminal : BOOLEAN,
                       complete : BOOLEAN, totals : BOOLEAN]
      BY <1>2, <2>2, <3>1, AppendProperties
    <3>3. Rows(Tail(queue)) \in Seq(Ids)
      BY <3>1, RowsTyped
    <3>4. Append(out.rows, Head(queue)) \o Rows(Tail(queue))
             = out.rows \o (<<Head(queue)>> \o Rows(Tail(queue)))
      BY <3>1, <3>2, <3>3, RowWritten
    <3>6. out'.rows \o Rows(queue') = Rows(fetched)
      BY <1>2, <2>2, <3>1, <3>2, <3>4
    <3> QED
      BY <1>1, <1>2, <2>1, <2>2, <3>1, <3>2, <3>6, StreamKeeps
  <2>3. ASSUME NEW status \in {"ok", "invalidResponse", "io"}, Ends(status),
               UNCHANGED <<listing, memory>>
        PROVE  TempoIInv'
    BY <2>1, <2>3, BrokenOffKeeps DEF Statuses
  <2> QED
    BY <1>7, <2>2, <2>3 DEF WriteRow, PipeCloses, WriteFails
<1> QED
  BY <1>4, <1>5, <1>6, <1>7

LEMMA PageEndKeeps == ASSUME TempoIInv, PageWritten \/ SummaryLost PROVE TempoIInv'
<1>1. /\ step = "row" /\ queue = <<>> /\ cmd.kind = "stream" /\ ~schedule.pending
      /\ step # "idle"
      /\ UNCHANGED <<there, created, cmd, item, sent, removed, faulty>>
  BY KindOfStep DEF PageWritten, SummaryLost, TempoIInv, UnderWay
<1>2. out.rows = Rows(fetched)
  <2>1. out.rows \in Seq(Ids) /\ out.rows \o Rows(queue) = Rows(fetched)
    BY <1>1 DEF TempoIInv, Typed, Writing
  <2> QED
    BY <1>1, <2>1, RowsEmpty, ConcatEmptySeq
<1>3. CASE PageWritten /\ decided = "continue"
  <2>1. "page" \in StepsOf(cmd.kind)
    BY <1>1 DEF StepsOf
  <2>2. /\ Goes("page")
        /\ UNCHANGED <<there, created, cmd, schedule, listing, item, out, memory, sent,
                       removed, faulty>>
    BY <1>3 DEF PageWritten
  <2> QED
    BY <1>1, <1>3, <2>1, <2>2, GoesOn
<1>4. CASE PageWritten /\ decided # "continue"
  BY <1>1, <1>2, <1>4, ConcludesKeeps DEF PageWritten
<1>5. CASE SummaryLost
  <2>1. ASSUME NEW status \in {"ok", "invalidResponse", "io"}, Ends(status),
               UNCHANGED <<listing, memory>>
        PROVE  TempoIInv'
    BY <1>1, <2>1, BrokenOffKeeps DEF Statuses
  <2> QED
    BY <1>5, <2>1 DEF SummaryLost, PipeCloses, WriteFails
<1> QED
  BY <1>3, <1>4, <1>5

-----------------------------------------------------------------------------
(* Deletions and the other commands.                                       *)

(* The next worklog of the batch, or the end of the deletion.              *)
LEMMA NextItemKeeps ==
    ASSUME TempoIInv, cmd.kind = "delete", step # "idle", NextItem,
           Undisturbed \/ UNCHANGED <<there, chain, intact>>,
           UNCHANGED <<created, cmd, listing, token, faulty>>,
           there' \subseteq Ids, removed' \subseteq Ids,
           removed' = IF cmd.dry THEN removed ELSE removed \cup {cmd.batch[item + 1]}
    PROVE  TempoIInv'
<1>1. /\ item \in Nat /\ item < Len(cmd.batch) /\ cmd.batch \in Seq(Ids)
      /\ Len(cmd.batch) \in Nat /\ created = 0 /\ cmd.kind \notin Listings
      /\ ~out.terminal /\ ~out.totals /\ out.status = "none" /\ ~schedule.pending
  BY LenProperties
     DEF TempoIInv, Typed, TypeOK, UnderWay, Unsent, Deleting, Listings
<1>2. item' = item + 1 /\ sent' = 0 /\ item' \in 0 .. Len(cmd.batch)
  BY <1>1 DEF NextItem
<1>3. /\ IF item + 1 < Len(cmd.batch) THEN step' = "worklog" /\ out'.status = "none"
         ELSE step' = "idle"
      /\ UnderWay' /\ tries' \in 0 .. MaxAttempts - 1
      /\ schedule' \in [pending : BOOLEAN, tries : 0 .. MaxAttempts - 1]
      /\ out' \in [status : Statuses, rows : Seq(Ids), terminal : BOOLEAN,
                   complete : BOOLEAN, totals : BOOLEAN]
      /\ out'.rows = out.rows /\ out'.terminal = out.terminal /\ out'.totals = out.totals
  <2>1. CASE item + 1 < Len(cmd.batch)
    <3>1. step' = "worklog" /\ tries' = 0 /\ UNCHANGED <<schedule, out>>
          /\ 0 \in 0 .. MaxAttempts - 1
      BY <2>1, BoundsAssumption DEF NextItem, Goes
    <3>2. UnderWay'
      BY <1>1, <3>1 DEF TempoIInv, UnderWay, StepsOf, listing
    <3> QED
      BY <1>1, <2>1, <3>1, <3>2 DEF TempoIInv, Typed, TypeOK
  <2>2. CASE ~(item + 1 < Len(cmd.batch))
    <3>1. Ends("ok") /\ "ok" \in Statuses
      BY <2>2 DEF NextItem, Statuses
    <3> QED
      BY <2>2, <3>1, EndsTyped DEF listing
  <2> QED
    BY <2>1, <2>2
<1>4. intact' \in BOOLEAN /\ chain' \in Seq(Ids)
  BY EmptySeq DEF Undisturbed, TempoIInv, Typed
<1>5. Typed'
  <2>1. step' \in Requests \cup {"idle", "row"}
    BY <1>3 DEF Requests
  <2>2. TypeOK'
    BY <1>2, <1>3, <2>1 DEF TempoIInv, Typed, TypeOK, listing
  <2> QED
    BY <1>3, <1>4, <2>2 DEF TempoIInv, Typed, listing
<1>6. Unsent'
  BY <1>1, <1>2 DEF Unsent
<1>7. Deleting'
  <2>1. DealtWith' = DealtWith \cup {cmd.batch[item + 1]}
    <3>1. 1 .. item + 1 = (1 .. item) \cup {item + 1}
      BY <1>1
    <3> QED
      BY <1>2, <3>1 DEF DealtWith
  <2>2. /\ cmd.dry => removed = {}
        /\ ~cmd.dry => DealtWith \subseteq removed /\ removed \subseteq DealtWith
    BY DEF TempoIInv, Deleting, DeletesPrefix
  <2>3. item' < Len(cmd.batch) \/ item' = Len(cmd.batch)
    BY <1>1, <1>2
  <2> QED
    BY <1>1, <1>2, <1>3, <2>1, <2>2, <2>3 DEF Deleting, DeletesPrefix
<1>8. Reading' /\ Writing'
  BY <1>1, <1>3, MutationOnly
<1> QED
  BY <1>3, <1>5, <1>6, <1>7, <1>8 DEF TempoIInv

LEMMA DeletionKeeps ==
    ASSUME TempoIInv, WorklogFound \/ WorklogKey \/ Deleted PROVE TempoIInv'
<1>1. /\ step \in {"worklog", "worklogKey", "delete"} /\ step # "idle"
      /\ cmd.kind = "delete" /\ cmd.kind \notin Listings
  BY KindOfStep DEF WorklogFound, WorklogKey, Deleted, Listings
<1>2. /\ there \subseteq Ids /\ removed \subseteq Ids /\ item < Len(cmd.batch)
      /\ cmd.dry => step # "delete"
      /\ ~out.terminal /\ ~out.totals /\ ~schedule.pending
  BY <1>1 DEF TempoIInv, Typed, TypeOK, UnderWay, Deleting
<1>3. CASE WorklogFound
  <2>1. "worklogKey" \in StepsOf(cmd.kind)
    BY <1>1 DEF StepsOf
  <2> QED
    BY <1>1, <1>2, <1>3, <2>1, GoesOn DEF WorklogFound
<1>4. CASE WorklogKey
  <2>1. /\ step = "worklogKey"
        /\ UNCHANGED <<there, created, cmd, listing, memory, removed, faulty>>
    BY <1>4 DEF WorklogKey
  <2>2. CASE Ends("invalidResponse") /\ UNCHANGED <<item, sent>>
    <3>1. /\ UnderWay' /\ step' = "idle" /\ tries' \in 0 .. MaxAttempts - 1
          /\ schedule' \in [pending : BOOLEAN, tries : 0 .. MaxAttempts - 1]
          /\ out' \in [status : Statuses, rows : Seq(Ids), terminal : BOOLEAN,
                       complete : BOOLEAN, totals : BOOLEAN]
          /\ out'.rows = out.rows /\ out'.status # "ok"
          /\ out'.terminal = out.terminal /\ out'.totals = out.totals
      BY <2>1, <2>2, EndsTyped DEF listing, memory, Statuses
    <3>2. Typed'
      BY <2>1, <2>2, <3>1 DEF TempoIInv, Typed, TypeOK, listing, memory
    <3>3. Unsent'
      BY <2>1, <2>2, <3>1 DEF TempoIInv, Unsent
    <3>4. Deleting'
      <4>1. DealtWith' = DealtWith
        BY <2>1, <2>2 DEF DealtWith
      <4> QED
        BY <1>1, <2>1, <2>2, <3>1, <4>1 DEF TempoIInv, Deleting, DeletesPrefix
    <3>5. Reading' /\ Writing'
      BY <1>1, <1>2, <2>1, <3>1, MutationOnly DEF memory
    <3> QED
      BY <3>1, <3>2, <3>3, <3>4, <3>5 DEF TempoIInv
  <2>3. CASE Described
    <3>1. CASE cmd.dry
      BY <1>1, <1>2, <2>1, <2>3, <3>1, NextItemKeeps DEF Described, memory
    <3>2. CASE ~cmd.dry
      <4>1. "delete" \in StepsOf(cmd.kind)
        BY <1>1 DEF StepsOf
      <4> QED
        BY <1>1, <1>2, <2>1, <2>3, <3>2, <4>1, GoesOn DEF Described
    <3> QED
      BY <3>1, <3>2
  <2> QED
    BY <1>4, <2>2, <2>3 DEF WorklogKey
<1>5. CASE Deleted
  <2>1. /\ step = "delete" /\ Undisturbed /\ NextItem /\ ~cmd.dry
        /\ UNCHANGED <<cmd, listing, token, faulty>>
    BY <1>2, <1>5 DEF Deleted
  <2>2. /\ there' = there \ {cmd.batch[item + 1]}
        /\ removed' = removed \cup {cmd.batch[item + 1]}
        /\ created' = created /\ cmd.batch[item + 1] \in there
    BY <1>5, <2>1 DEF Deleted, Effect, Current
  <2> QED
    BY <1>1, <1>2, <2>1, <2>2, NextItemKeeps
<1> QED
  BY <1>3, <1>4, <1>5

LEMMA IssueKeeps == ASSUME TempoIInv, IssueResolved PROVE TempoIInv'
<1>1. /\ step = "issue" /\ step # "idle" /\ cmd.kind \in {"log", "resolve"} /\ ~schedule.pending
      /\ Goes(IF cmd.kind = "log" THEN "post" ELSE "attributes")
      /\ UNCHANGED <<there, created, cmd, schedule, listing, item, out, memory, sent, removed,
                     faulty>>
  BY KindOfStep DEF IssueResolved, TempoIInv, UnderWay
<1>2. (IF cmd.kind = "log" THEN "post" ELSE "attributes") \in StepsOf(cmd.kind) \ {"keys"}
  BY <1>1 DEF StepsOf
<1> QED
  BY <1>1, <1>2, GoesOn

LEMMA AnswerKeeps == ASSUME TempoIInv, Answered PROVE TempoIInv'
<1>1. /\ step \in {"attributes", "post", "hint", "call"} /\ step # "idle"
      /\ Effect(~IsIdempotentRead(Method)) /\ Sent
      /\ UNCHANGED <<cmd, listing, item, memory, faulty>>
  BY DEF Answered
<1>2. cmd.kind \notin Listings /\ cmd.kind # "delete"
  BY <1>1, KindOfStep DEF Listings
<1>3. PICK status \in Statuses \ {"none"} : Ends(status)
  BY DEF Answered, Statuses
<1>4. /\ UnderWay' /\ step' = "idle" /\ tries' \in 0 .. MaxAttempts - 1
      /\ schedule' \in [pending : BOOLEAN, tries : 0 .. MaxAttempts - 1]
      /\ out' \in [status : Statuses, rows : Seq(Ids), terminal : BOOLEAN,
                   complete : BOOLEAN, totals : BOOLEAN]
      /\ out'.rows = out.rows /\ out'.terminal = out.terminal /\ out'.totals = out.totals
  BY <1>1, <1>3, EndsTyped DEF listing, memory
<1>5. /\ there' = there /\ removed' = removed /\ created' \in Nat /\ sent' \in Nat
      /\ created' <= sent' /\ sent' <= 1
  <2>1. created \in Nat /\ sent \in Nat /\ created <= sent /\ sent <= 1
        /\ (step # "hint" => sent = 0)
    BY <1>1 DEF TempoIInv, Typed, TypeOK, Unsent
  <2>2. CASE IsIdempotentRead(Method)
    BY <1>1, <2>1, <2>2 DEF Effect, Sent
  <2>3. CASE ~IsIdempotentRead(Method)
    <3>1. step # "hint"
      BY <2>3, MutatingSteps
    <3> QED
      BY <1>1, <2>1, <2>3, <3>1 DEF Effect, Sent
  <2> QED
    BY <2>2, <2>3
<1>6. Typed'
  BY <1>1, <1>4, <1>5 DEF TempoIInv, Typed, TypeOK, listing, memory
<1>7. Unsent' /\ Deleting'
  BY <1>1, <1>2, <1>4, <1>5 DEF TempoIInv, Unsent, Deleting, DeletesPrefix
<1>8. ~out.terminal /\ ~out.totals
  BY <1>1 DEF TempoIInv, UnderWay
<1>9. Reading' /\ Writing'
  BY <1>1, <1>2, <1>4, <1>5, <1>8, MutationOnly DEF memory
<1> QED
  BY <1>4, <1>6, <1>7, <1>9 DEF TempoIInv

-----------------------------------------------------------------------------
(* The theorems.                                                           *)

LEMMA TempoStep == TempoIInv /\ [Next]_vars => TempoIInv'
<1> SUFFICES ASSUME TempoIInv, [Next]_vars PROVE TempoIInv'
  OBVIOUS
<1>1. CASE Starts
  BY <1>1, StartsKeep
<1>2. CASE Steps
  <2>1. CASE StreamSchedule
    <3>1. /\ step = "schedule" /\ step # "idle" /\ Goes("page") /\ queue = <<>>
          /\ decided = "continue"
          /\ UNCHANGED <<there, created, cmd, schedule, listing, item, out, memory, sent,
                         removed, faulty>>
      BY <2>1, KindOfStep DEF StreamSchedule, TempoIInv, Reading, Writing
    <3>2. "page" \in StepsOf(cmd.kind) \ {"keys"}
      BY <3>1, KindOfStep DEF StepsOf
    <3> QED
      BY <3>1, <3>2, GoesOn
  <2> QED
    BY <1>2, <2>1, RetryKeeps, FailureKeeps, ScheduleArrivalKeeps, ScheduleFailureKeeps,
       PageKeeps, ReportKeyKeeps, ReportKeeps, StreamStepsKeep, PageEndKeeps, DeletionKeeps,
       IssueKeeps, AnswerKeeps
       DEF Steps
<1>3. CASE UNCHANGED vars
  <2>1. /\ Listing' = Listing /\ Base' = Base /\ DealtWith' = DealtWith
        /\ Rows(fetched)' = Rows(fetched) /\ Rows(queue)' = Rows(queue)
    BY <1>3 DEF vars, listing, memory, Listing, Base, DealtWith, Rows, Chosen
  <2>2. Typed' /\ UnderWay' /\ Unsent' /\ Deleting'
    BY <1>3, <2>1
       DEF vars, listing, memory, TempoIInv, Typed, TypeOK, UnderWay, Unsent, Deleting,
           DeletesPrefix
  <2>3. Reading' /\ Writing'
    BY <1>3, <2>1
       DEF vars, listing, memory, TempoIInv, Reading, Read, ListingsAddUp, Writing,
           StreamAgrees
  <2> QED
    BY <2>2, <2>3 DEF TempoIInv
<1> QED
  BY <1>1, <1>2, <1>3 DEF Next

LEMMA TempoInductive == Spec => []TempoIInv
BY TempoStart, TempoStep, PTL DEF Spec

(* A request that changes Tempo leaves the client once (transport.rs), and *)
(* a deletion removes its batch in order, up to the first failure          *)
(* (delete.rs).                                                            *)
THEOREM MutationsHappenOnce == Spec => []Inv
<1>1. TempoIInv => Inv
  <2> SUFFICES ASSUME TempoIInv PROVE Inv
    OBVIOUS
  <2>1. /\ created \in Nat /\ sent \in Nat /\ created <= sent /\ sent <= 1
        /\ step \notin {"hint", "idle"} => sent = 0
    BY DEF TempoIInv, Typed, TypeOK, Unsent
  <2>2. ~IsIdempotentRead(Method) => step \in {"delete", "post", "call"}
    BY MutatingSteps
  <2>3. MutatesOnce
    BY <2>1, <2>2 DEF MutatesOnce
  <2> QED
    BY <2>3 DEF TempoIInv, Typed, Deleting, Inv
<1> QED
  BY <1>1, TempoInductive, PTL

(* A listing and those that resume it list every worklog once, and totals  *)
(* are claimed for a month that was read to its end (pagination.rs).       *)
THEOREM NoPageIsLost == Spec => []ListingsAddUp
<1>1. TempoIInv => ListingsAddUp
  BY DEF TempoIInv, Reading
<1> QED
  BY <1>1, TempoInductive, PTL

(* What the stream writes are the first rows of the report, and all of     *)
(* them before its last line (list.rs).                                    *)
THEOREM StreamIsTheReport == Spec => []StreamAgrees
<1>1. TempoIInv => StreamAgrees
  <2> SUFFICES ASSUME TempoIInv PROVE StreamAgrees
    OBVIOUS
  <2>1. CASE step = "idle"
    BY <2>1 DEF TempoIInv, Writing
  <2>2. CASE step # "idle"
    <3>1. /\ fetched \in Seq(Ids) /\ queue \in Seq(Ids) /\ out.rows \in Seq(Ids)
          /\ Rows(fetched) \in Seq(Ids) /\ Rows(queue) \in Seq(Ids) /\ ~out.terminal
      BY <2>2, RowsTyped DEF TempoIInv, Typed, TypeOK, UnderWay
    <3>2. CASE cmd.kind = "stream"
      BY <2>2, <3>1, <3>2, PrefixOfConcat DEF TempoIInv, Writing, StreamAgrees
    <3>3. CASE cmd.kind # "stream"
      <4>1. out.rows = <<>> /\ <<>> \o Rows(fetched) = Rows(fetched)
        BY <2>2, <3>1, <3>3, ConcatEmptySeq DEF TempoIInv, Writing
      <4> QED
        BY <3>1, <4>1, PrefixOfConcat DEF StreamAgrees
    <3> QED
      BY <3>2, <3>3
  <2> QED
    BY <2>1, <2>2
<1> QED
  BY <1>1, TempoInductive, PTL

=============================================================================
