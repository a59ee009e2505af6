------------------------- MODULE ListSessionProofs -------------------------
(***************************************************************************)
(* For any dates, months and limits, and any number of worklogs: the rows  *)
(* of a session stay in bounds, no date is read twice at a time, a waiting *)
(* session has its report to wait behind, and the complete reports of a    *)
(* month agree.                                                            *)
(***************************************************************************)
EXTENDS ListSession, FiniteSetTheorems, TLAPS

(* A complete report shows the totals that are remembered for its month.   *)
Settled(r) == r.complete => MonthOf(r.date) \in DOMAIN months /\ r.month = months[MonthOf(r.date)]

(* Reports by date, as the session leaves them behind, and reads by date.  *)
CacheOf(cache) ==
    /\ DOMAIN cache \subseteq Dates
    /\ \A d \in DOMAIN cache :
          cache[d] \in Cached /\ cache[d].report.date = d /\ Settled(cache[d].report)

ReadsOf(d) == [state : {"done"}, report : {r \in Report : r.date = d}]
TaskOf(d) == {Running, Broken} \cup ReadsOf(d)
TasksOf(tasks) == DOMAIN tasks \subseteq Dates /\ \A d \in DOMAIN tasks : tasks[d] \in TaskOf(d)

IInv ==
    /\ Inv
    /\ CacheOf(reports) /\ TasksOf(prefetches)
    /\ Live => shown.report.date = displayed /\ Settled(shown.report)
    /\ at = "suspended" => displayed \in DOMAIN reports
    /\ at = "initial" => DOMAIN reports = {} /\ DOMAIN prefetches = {}

-----------------------------------------------------------------------------
(* Operators.                                                              *)

LEMMA PairBounds ==
    ASSUME NEW a \in Int, NEW b \in Int
    PROVE  /\ Max({a, b}) = IF a >= b THEN a ELSE b
           /\ Min({a, b}) = IF a <= b THEN a ELSE b
BY DEF Max, Min

(* Tempo holds finitely many worklogs, so that a month has a total.        *)
LEMMA Totals ==
    ASSUME TypeOK, NEW d, NEW m
    PROVE  LoggedOn(d) \in Nat /\ MonthLogged(m) \in Nat
<1>1. /\ IsFiniteSet({w \in logged : w.date = d})
      /\ IsFiniteSet({w \in logged : MonthOf(w.date) = m})
  BY FS_Subset DEF TypeOK
<1> QED
  BY <1>1, FS_CardinalityType DEF LoggedOn, MonthLogged

LEMMA ReportsAreReports ==
    ASSUME TypeOK, NEW d \in Dates, NEW continued \in BOOLEAN, NEW r \in ReportsOf(d, continued)
    PROVE  r \in Report /\ r.date = d
<1>1. LoggedOn(d) \in Nat /\ MonthLogged(MonthOf(d)) \in Nat /\ Limit \in Nat
  BY Totals, LimitAssumption
<1> DEFINE n == LoggedOn(d)
           total == MonthLogged(MonthOf(d))
           segments == [date : {d}, rows : 0 .. n, month : {total, Limit}, complete : {FALSE}]
<1>2. \/ r = [date |-> d, rows |-> n, month |-> total, complete |-> TRUE]
      \/ r \in segments
  BY DEF ReportsOf
<1> HIDE DEF n, total
<1>3. n \in Nat /\ total \in Nat /\ Limit \in Nat
  BY <1>1 DEF n, total
<1>4. segments \subseteq Report
  <2>1. /\ {d} \subseteq Dates /\ 0 .. n \subseteq Nat /\ {total, Limit} \subseteq Nat
        /\ {FALSE} \subseteq BOOLEAN
    BY <1>3
  <2> QED
    BY <2>1, Zenon DEF Report
<1>5. ASSUME r = [date |-> d, rows |-> n, month |-> total, complete |-> TRUE]
      PROVE  r \in Report /\ r.date = d
  BY <1>3, <1>5 DEF Report
<1>6. ASSUME r \in segments PROVE r \in Report /\ r.date = d
  BY <1>4, <1>6
<1> QED
  BY <1>2, <1>5, <1>6

LEMMA ReadsAreTasks ==
    ASSUME NEW d, NEW r \in Report, r.date = d
    PROVE  Read(r) \in TaskOf(d)
BY DEF Read, TaskOf, ReadsOf

LEMMA TaskStates ==
    ASSUME NEW d, NEW t \in TaskOf(d)
    PROVE  /\ t.state \in {"running", "failed", "done"}
           /\ t \notin {Running, Broken} => t.report \in Report /\ t.report.date = d
<1>1. CASE t = Running
  BY <1>1 DEF Running
<1>2. CASE t = Broken
  BY <1>2 DEF Broken
<1>3. CASE t \in ReadsOf(d)
  BY <1>3 DEF ReadsOf
<1> QED
  BY <1>1, <1>2, <1>3 DEF TaskOf

LEMMA NothingIsCached == Nothing \in Cached
BY DatesAssumption DEF Nothing, Cached, Report

(* The totals of a month are remembered once and not changed afterwards.   *)
LEMMA StabilizedIs ==
    ASSUME TypeOK, NEW r \in Report
    PROVE  LET s == Stabilized(r)
               totals == Remembered(r)
           IN  /\ s \in Report /\ s.date = r.date /\ s.rows = r.rows /\ s.complete = r.complete
               /\ DOMAIN months \subseteq DOMAIN totals /\ DOMAIN totals \subseteq Months
               /\ \A m \in DOMAIN months : totals[m] = months[m]
               /\ \A m \in DOMAIN totals : totals[m] \in Nat
               /\ r.complete => /\ MonthOf(r.date) \in DOMAIN totals
                                /\ s.month = totals[MonthOf(r.date)]
<1> DEFINE m == MonthOf(r.date)
<1>1. /\ r.date \in Dates /\ r.month \in Nat /\ m \in Months /\ DOMAIN months \subseteq Months
      /\ \A n \in DOMAIN months : months[n] \in Nat
  BY DEF Report, TypeOK, Months
<1>2. CASE r.complete /\ m \in DOMAIN months
  <2>1. Stabilized(r) = [r EXCEPT !.month = months[m]] /\ Remembered(r) = months
    BY <1>2 DEF Stabilized, Remembered
  <2> QED
    BY <1>1, <1>2, <2>1 DEF Report
<1>3. CASE r.complete /\ m \notin DOMAIN months
  <2>1. Stabilized(r) = r /\ Remembered(r) = Put(months, m, r.month)
    BY <1>3 DEF Stabilized, Remembered
  <2> QED
    BY <1>1, <1>3, <2>1 DEF Put
<1>4. CASE ~r.complete
  BY <1>1, <1>4 DEF Stabilized, Remembered, Report
<1> QED
  BY <1>2, <1>3, <1>4

-----------------------------------------------------------------------------
(* What the loop of run_command does with a date.                          *)

LEMMA Failed ==
    ASSUME IInv, NEW reason \in Errors \ {"noBackground"}, Fail(reason)
    PROVE  IInv'
<1>1. /\ at' = reason /\ ~(reason \in {"initial", "shown", "suspended", "exited"})
      /\ reason \in Stages
  BY DEF Fail, Errors, Stages
<1>2. /\ DOMAIN <<>> = {} /\ requested' = Start /\ displayed' = Start /\ shown' = Nothing
      /\ reports' = <<>> /\ months' = <<>> /\ prefetches' = <<>> /\ load' = NoLoad
      /\ focus' = 0 /\ UNCHANGED <<logged, pending, failing>>
  BY DEF Fail, Return
<1>3. TypeOK'
  BY <1>1, <1>2, NothingIsCached, DatesAssumption DEF IInv, Inv, BackgroundKept, TypeOK
<1>4. (~Live)' /\ (at \notin {"exited", "noBackground"})'
  BY <1>1 DEF Live
<1>5. Inv'
  BY <1>3, <1>4 DEF Inv, BackgroundKept, FocusInBounds, ReadOnce, Undone
<1>6. CacheOf(reports)' /\ TasksOf(prefetches)'
  BY <1>2 DEF CacheOf, TasksOf
<1> QED
  BY <1>1, <1>4, <1>5, <1>6 DEF IInv

LEMMA Shows ==
    ASSUME IInv, NEW r \in Report, NEW reusable \in BOOLEAN, NEW d \in Dates, r.date = d,
           NEW cache, CacheOf(cache), NEW tasks, TasksOf(tasks),
           d \notin DOMAIN tasks, DOMAIN tasks \cap DOMAIN cache = {},
           Show(r, reusable, d, cache, tasks)
    PROVE  IInv'
<1>1. CASE Fail("noTerminal") \/ Fail("outOfRange")
  BY <1>1, Failed DEF Errors
<1>2. CASE ~(Fail("noTerminal") \/ Fail("outOfRange"))
  <2> DEFINE new == ToPrefetch(d, DOMAIN cache, DOMAIN tasks)
  <2>1. /\ {d - 1, d + 1} \subseteq Dates /\ at' = "shown"
        /\ requested' = d /\ displayed' = d
        /\ shown' = [report |-> Stabilized(r), reusable |-> reusable]
        /\ months' = Remembered(r) /\ reports' = cache
        /\ prefetches' = [e \in DOMAIN tasks \cup new |-> IF e \in new THEN Running ELSE tasks[e]]
        /\ load' = NoLoad /\ focus' = InitialFocus(r) /\ pending' = CleanupSteps
        /\ UNCHANGED <<logged, failing>>
    BY <1>2 DEF Show
  <2>2. /\ new \subseteq Dates /\ d \notin new /\ new \cap DOMAIN cache = {}
        /\ DOMAIN tasks \subseteq Dates
    BY <2>1, DatesAssumption DEF ToPrefetch, TasksOf
  <2>3. TypeOK
    BY DEF IInv, Inv, BackgroundKept
  <2> HIDE DEF new
  <2>4. TasksOf(prefetches)' /\ DOMAIN prefetches' = DOMAIN tasks \cup new
    BY <2>1, <2>2 DEF TasksOf, TaskOf
  <2>5. \A s : Settled(s) => Settled(s)'
    BY <2>1, <2>3, StabilizedIs DEF Settled
  <2>6. CacheOf(reports)'
    BY <2>1, <2>5 DEF CacheOf
  <2>7. /\ shown'.report = Stabilized(r) /\ shown' \in Cached
        /\ shown'.report.date = d /\ shown'.report.rows = r.rows
    BY <2>1, <2>3, StabilizedIs DEF Cached
  <2>8. Settled(shown.report)'
    BY <2>1, <2>3, <2>7, StabilizedIs DEF Settled
  <2>9. \A e \in DOMAIN prefetches' : prefetches'[e].state \in {"running", "failed", "done"}
    BY <2>4, TaskStates DEF TasksOf
  <2>10. DOMAIN months' \subseteq Months /\ \A m \in DOMAIN months' : months'[m] \in Nat
    BY <2>1, <2>3, StabilizedIs
  <2>11. InitialFocus(r) \in {0, 1} /\ r.rows \in Nat /\ InitialFocus(r) <= r.rows
    BY DEF InitialFocus, Report
  <2>12. TypeOK'
    <3>1. /\ logged' \subseteq [date : Dates, number : 1 .. MaxLogged] /\ IsFiniteSet(logged')
          /\ failing' \subseteq CleanupSteps /\ pending' \subseteq CleanupSteps
      BY <2>1, <2>3 DEF TypeOK
    <3>2. /\ at' \in Stages /\ requested' \in Dates /\ displayed' \in Dates
          /\ shown' \in Cached /\ load' \in {NoLoad, Quiet, Running} /\ focus' \in Nat
      BY <2>1, <2>7, <2>11 DEF Stages
    <3>3. /\ DOMAIN reports' \subseteq Dates
          /\ \A e \in DOMAIN reports' : reports'[e] \in Cached /\ reports'[e].report.date = e
      BY <2>6 DEF CacheOf
    <3>4. DOMAIN prefetches' \subseteq Dates
      BY <2>4 DEF TasksOf
    <3> QED
      BY <3>1, <3>2, <3>3, <3>4, <2>9, <2>10 DEF TypeOK
  <2>13. FocusInBounds'
    BY <2>1, <2>7, <2>11 DEF FocusInBounds, OnScreen, InitialFocus
  <2>14. ReadOnce' /\ Undone'
    BY <2>1, <2>2, <2>4 DEF ReadOnce, Undone
  <2> QED
    BY <2>1, <2>4, <2>6, <2>7, <2>8, <2>12, <2>13, <2>14 DEF IInv, Inv, BackgroundKept
<1> QED
  BY <1>1, <1>2

LEMMA Suspends ==
    ASSUME IInv, Live, NEW d \in Dates,
           NEW cache, CacheOf(cache), displayed \in DOMAIN cache,
           NEW tasks, TasksOf(tasks), d \notin DOMAIN tasks,
           DOMAIN tasks \cap DOMAIN cache = {},
           NEW l \in {Quiet, Running}, Suspend(d, cache, tasks, l)
    PROVE  IInv'
<1>1. /\ at' = "suspended" /\ requested' = d /\ reports' = cache /\ prefetches' = tasks
      /\ load' = l /\ focus' = InitialFocus(cache[displayed].report)
      /\ UNCHANGED <<logged, displayed, shown, months, pending, failing>>
  BY DEF Suspend
<1>2. TypeOK /\ shown.report.date = displayed /\ Settled(shown.report)
  BY DEF IInv, Inv, BackgroundKept
<1>3. CacheOf(reports)' /\ TasksOf(prefetches)' /\ Settled(shown.report)'
  BY <1>1, <1>2 DEF CacheOf, TasksOf, Settled
<1>4. cache[displayed].report \in Report /\ cache[displayed].report.rows \in Nat
  BY DEF CacheOf, Cached, Report
<1>5. \A e \in DOMAIN tasks : tasks[e].state \in {"running", "failed", "done"}
  BY TaskStates DEF TasksOf
<1>6. InitialFocus(cache[displayed].report) \in
         InitialFocus(cache[displayed].report) .. cache[displayed].report.rows
  BY <1>4 DEF InitialFocus
<1>7. TypeOK'
  BY <1>1, <1>2, <1>3, <1>4, <1>5 DEF TypeOK, Stages, CacheOf, TasksOf, InitialFocus
<1>8. FocusInBounds'
  BY <1>1, <1>6 DEF FocusInBounds, OnScreen
<1>9. ReadOnce' /\ Undone'
  BY <1>1 DEF ReadOnce, Undone
<1> QED
  BY <1>1, <1>2, <1>3, <1>7, <1>8, <1>9 DEF IInv, Inv, BackgroundKept

LEMMA Visits ==
    ASSUME IInv, Live, NEW d \in Dates,
           NEW cache, CacheOf(cache), displayed \in DOMAIN cache,
           DOMAIN prefetches \cap DOMAIN cache = {}, Visit(d, cache)
    PROVE  IInv'
<1>1. CASE Takes(cache, d)
  <2>1. /\ cache[d].report \in Report /\ cache[d].report.date = d /\ d \in DOMAIN cache
    BY <1>1 DEF Takes, CacheOf, Cached
  <2> DEFINE rest == Remove(cache, d)
  <2>a. /\ DOMAIN rest = DOMAIN cache \ {d}
        /\ \A e \in DOMAIN rest : rest[e] = cache[e]
    BY DEF Remove, Restrict
  <2> HIDE DEF rest
  <2>2. CacheOf(rest)
    BY <2>a DEF CacheOf
  <2>3. Show(cache[d].report, TRUE, d, rest, prefetches)
    BY <1>1 DEF Visit, rest
  <2>4. d \notin DOMAIN prefetches /\ DOMAIN prefetches \cap DOMAIN rest = {}
    BY <2>1, <2>a
  <2>5. TasksOf(prefetches)
    BY DEF IInv
  <2> QED
    BY <2>1, <2>2, <2>3, <2>4, <2>5, Shows
<1>2. CASE ~Takes(cache, d) /\ d \notin DOMAIN prefetches
  <2>1. Suspend(d, cache, prefetches, Quiet)
    BY <1>2 DEF Visit
  <2> QED
    BY <1>2, <2>1, Suspends DEF IInv
<1>3. CASE ~Takes(cache, d) /\ d \in DOMAIN prefetches
  <2> DEFINE tasks == Remove(prefetches, d)
  <2>1. TasksOf(tasks) /\ DOMAIN tasks = DOMAIN prefetches \ {d}
    BY DEF IInv, TasksOf, Remove, Restrict
  <2>2. prefetches[d] \in TaskOf(d)
    BY <1>3 DEF IInv, TasksOf
  <2>3. Running # Broken
    BY DEF Running, Broken
  <2>4. CASE prefetches[d] = Running
    <3>1. Suspend(d, cache, tasks, Running)
      BY <1>3, <2>3, <2>4 DEF Visit
    <3> QED
      BY <2>1, <3>1, Suspends
  <2>5. CASE prefetches[d] = Broken
    <3>1. Fail("readFailed")
      BY <1>3, <2>3, <2>5 DEF Visit
    <3> QED
      BY <3>1, Failed DEF Errors
  <2>6. CASE prefetches[d] \notin {Running, Broken}
    <3>1. prefetches[d].report \in Report /\ prefetches[d].report.date = d
      BY <2>2, <2>6, TaskStates
    <3>2. Show(prefetches[d].report, TRUE, d, cache, tasks)
      BY <1>3, <2>6 DEF Visit
    <3> QED
      BY <2>1, <3>1, <3>2, Shows
  <2> QED
    BY <2>4, <2>5, <2>6
<1> QED
  BY <1>1, <1>2, <1>3

LEMMA Navigates ==
    ASSUME IInv, Live, NEW from, NEW step,
           NEW cache, CacheOf(cache), displayed \in DOMAIN cache,
           DOMAIN prefetches \cap DOMAIN cache = {}, Navigate(from, step, cache)
    PROVE  IInv'
BY Visits, Failed DEF Navigate, Errors

-----------------------------------------------------------------------------
(* The steps.                                                              *)

LEMMA InitIInv == Init => IInv
<1> SUFFICES ASSUME Init PROVE IInv
  OBVIOUS
<1>1. /\ at = "initial" /\ ~Live /\ DOMAIN <<>> = {}
      /\ reports = <<>> /\ months = <<>> /\ prefetches = <<>>
  BY DEF Init, Live
<1>2. TypeOK
  BY <1>1, NothingIsCached, DatesAssumption, FS_EmptySet
     DEF Init, TypeOK, Stages, CleanupSteps
<1> QED
  BY <1>1, <1>2 DEF IInv, Inv, BackgroundKept, FocusInBounds, ReadOnce, Undone, CacheOf, TasksOf

LEMMA FirstReadKeeps == IInv /\ FirstRead => IInv'
<1> SUFFICES ASSUME IInv, FirstRead PROVE IInv'
  OBVIOUS
<1>1. CASE Fail("readFailed")
  BY <1>1, Failed DEF Errors
<1>2. ASSUME NEW continued \in Continued, NEW r \in ReportsOf(Start, continued),
             Show(r, ~continued, Start, reports, prefetches)
      PROVE  IInv'
  <2>1. r \in Report /\ r.date = Start
    BY <1>2, ReportsAreReports, DatesAssumption, ContinuedAssumption DEF IInv, Inv, BackgroundKept
  <2>2. DOMAIN reports = {} /\ DOMAIN prefetches = {}
    BY DEF IInv, FirstRead
  <2> QED
    BY <1>2, <2>1, <2>2, Shows, DatesAssumption, ContinuedAssumption DEF IInv
<1> QED
  BY <1>1, <1>2 DEF FirstRead

LEMMA DateKeyKeeps ==
    ASSUME IInv, NEW kind, NEW step, DateKey(kind, step)
    PROVE  IInv'
<1>1. Live
  BY DEF DateKey, Live
<1>2. CASE at = "shown" /\ Navigate(displayed, step, Put(reports, displayed, shown))
  <2> DEFINE cache == Put(reports, displayed, shown)
  <2>1. /\ shown \in Cached /\ shown.report.date = displayed /\ Settled(shown.report)
        /\ displayed \in Dates
    BY <1>1 DEF IInv, Inv, BackgroundKept, TypeOK
  <2>2. CacheOf(cache) /\ DOMAIN cache = DOMAIN reports \cup {displayed}
    BY <2>1 DEF IInv, CacheOf, Put
  <2>3. DOMAIN prefetches \cap DOMAIN cache = {}
    BY <1>1, <2>2 DEF IInv, Inv, BackgroundKept, ReadOnce
  <2> HIDE DEF cache
  <2> QED
    BY <1>1, <1>2, <2>2, <2>3, Navigates DEF cache
<1>3. CASE at = "suspended" /\ Navigate(requested, step, reports)
  BY <1>1, <1>3, Navigates DEF IInv, Inv, BackgroundKept, ReadOnce
<1> QED
  BY <1>2, <1>3 DEF DateKey

LEMMA RowKeyKeeps ==
    ASSUME IInv, NEW step \in {-1, 1}, RowKey(step)
    PROVE  IInv'
<1>1. /\ Live /\ focus > 0 /\ focus' = Max({1, Min({OnScreen.rows, focus + step})})
      /\ UNCHANGED <<logged, at, session, pending, failing>>
  BY DEF RowKey, Live
<1>2. OnScreen \in Report
  BY <1>1 DEF IInv, Inv, BackgroundKept, TypeOK, OnScreen, Cached, Live
<1>3. /\ OnScreen.rows \in Nat /\ focus \in Nat
      /\ focus \in InitialFocus(OnScreen) .. OnScreen.rows
  BY <1>1, <1>2 DEF IInv, Inv, BackgroundKept, TypeOK, FocusInBounds, Report
<1>4. OnScreen.rows >= 1 /\ InitialFocus(OnScreen) = 1
  BY <1>1, <1>3 DEF InitialFocus
<1>5. focus' \in 1 .. OnScreen.rows
  <2> DEFINE rows == OnScreen.rows
             next == focus + step
             least == Min({rows, next})
  <2>1. rows \in Int /\ next \in Int /\ rows >= 1
    BY <1>3, <1>4
  <2> HIDE DEF rows, next
  <2>2. least = IF rows <= next THEN rows ELSE next
    BY <2>1, PairBounds
  <2>3. least \in Int /\ least <= rows
    BY <2>1, <2>2
  <2> HIDE DEF least
  <2>4. Max({1, least}) = IF 1 >= least THEN 1 ELSE least
    BY <2>3, PairBounds
  <2>5. focus' = Max({1, least})
    BY <1>1 DEF least, rows, next
  <2>6. focus' \in 1 .. rows
    BY <2>1, <2>3, <2>4, <2>5
  <2> QED
    BY <2>6 DEF rows
<1>6. OnScreen' = OnScreen
  BY <1>1 DEF OnScreen, session
<1>7. TypeOK' /\ ReadOnce' /\ Undone'
  BY <1>1, <1>3, <1>5 DEF IInv, Inv, BackgroundKept, TypeOK, ReadOnce, Undone, Live, session
<1>8. FocusInBounds'
  BY <1>4, <1>5, <1>6 DEF FocusInBounds, InitialFocus
<1> QED
  BY <1>1, <1>7, <1>8 DEF IInv, Inv, BackgroundKept, CacheOf, TasksOf, Settled, Live, session

LEMMA QuitKeyKeeps ==
    ASSUME IInv, NEW broken \in SUBSET CleanupSteps, QuitKey(broken)
    PROVE  IInv'
<1>1. /\ at' \in {"closed", "terminalError"} /\ at' \in Stages
      /\ pending' \subseteq CleanupSteps /\ failing' \subseteq CleanupSteps
  BY DEF QuitKey, Stages, Errors, RestoreWith, IInv, Inv, BackgroundKept, TypeOK
<1>2. /\ DOMAIN <<>> = {} /\ requested' = Start /\ displayed' = Start /\ shown' = Nothing
      /\ reports' = <<>> /\ months' = <<>> /\ prefetches' = <<>> /\ load' = NoLoad
      /\ focus' = 0 /\ UNCHANGED logged
  BY DEF QuitKey, Return
<1>3. TypeOK'
  BY <1>1, <1>2, NothingIsCached, DatesAssumption DEF IInv, Inv, BackgroundKept, TypeOK
<1>4. (~Live)' /\ (at \notin {"exited", "initial", "suspended", "noBackground"})'
  BY <1>1 DEF Live
<1>5. Inv'
  BY <1>3, <1>4 DEF Inv, BackgroundKept, FocusInBounds, ReadOnce, Undone
<1>6. CacheOf(reports)' /\ TasksOf(prefetches)'
  BY <1>2 DEF CacheOf, TasksOf
<1> QED
  BY <1>4, <1>5, <1>6 DEF IInv

LEMMA LoadEndsKeeps == IInv /\ LoadEnds => IInv'
<1> SUFFICES ASSUME IInv, LoadEnds PROVE IInv'
  OBVIOUS
<1>1. CASE Fail("readFailed")
  BY <1>1, Failed DEF Errors
<1>2. ASSUME NEW r \in ReportsOf(requested, FALSE),
             Show(r, TRUE, requested, reports, prefetches)
      PROVE  IInv'
  <2>1. requested \in Dates /\ Live
    BY DEF IInv, Inv, BackgroundKept, TypeOK, LoadEnds, Live
  <2>2. r \in Report /\ r.date = requested
    BY <1>2, <2>1, ReportsAreReports DEF IInv, Inv, BackgroundKept
  <2>3. requested \notin DOMAIN prefetches /\ DOMAIN prefetches \cap DOMAIN reports = {}
    BY <2>1 DEF IInv, Inv, BackgroundKept, ReadOnce
  <2> QED
    BY <1>2, <2>1, <2>2, <2>3, Shows DEF IInv
<1> QED
  BY <1>1, <1>2 DEF LoadEnds

LEMMA PrefetchEndsKeeps ==
    ASSUME IInv, NEW d \in Dates, PrefetchEnds(d)
    PROVE  IInv'
<1>1. PICK t \in {Broken} \cup {Read(r) : r \in ReportsOf(d, FALSE)} :
         prefetches' = [prefetches EXCEPT ![d] = t]
  BY DEF PrefetchEnds
<1>2. UNCHANGED <<logged, at, requested, displayed, shown, reports, months, load, focus,
                  pending, failing>>
  BY DEF PrefetchEnds
<1>3. t \in TaskOf(d)
  <2>1. CASE t = Broken
    BY <2>1 DEF TaskOf
  <2>2. ASSUME NEW r \in ReportsOf(d, FALSE), t = Read(r) PROVE t \in TaskOf(d)
    BY <2>2, ReportsAreReports, ReadsAreTasks DEF IInv, Inv, BackgroundKept
  <2> QED
    BY <1>1, <2>1, <2>2
<1>4. /\ DOMAIN prefetches' = DOMAIN prefetches
      /\ \A e \in DOMAIN prefetches : prefetches'[e] = IF e = d THEN t ELSE prefetches[e]
  BY <1>1
<1>5. TasksOf(prefetches)'
  BY <1>3, <1>4 DEF TasksOf, IInv, TaskOf
<1>6. \A e \in DOMAIN prefetches' : prefetches'[e].state \in {"running", "failed", "done"}
  BY <1>5, TaskStates DEF TasksOf
<1>7. Inv'
  BY <1>2, <1>4, <1>6
     DEF IInv, Inv, BackgroundKept, TypeOK, FocusInBounds, ReadOnce, Undone, Live, OnScreen
<1> QED
  BY <1>2, <1>4, <1>5, <1>7 DEF IInv, CacheOf, Settled, Live

LEMMA ExitKeeps ==
    ASSUME IInv, NEW broken \in SUBSET CleanupSteps, Exit(broken)
    PROVE  IInv'
<1>1. /\ at' = "exited" /\ pending' = pending \cap broken /\ failing' = broken
      /\ UNCHANGED <<logged, session, focus>>
  BY DEF Exit, RestoreWith
<1>2. TypeOK'
  BY <1>1 DEF IInv, Inv, BackgroundKept, TypeOK, session, Stages
<1> QED
  BY <1>1, <1>2
     DEF IInv, Inv, BackgroundKept, FocusInBounds, ReadOnce, Undone, Live, CacheOf, TasksOf,
         Settled, session

LEMMA TempoChangesKeeps ==
    ASSUME IInv, NEW d \in Busy, TempoChanges(d)
    PROVE  IInv'
<1> DEFINE new == [date |-> d, number |-> LoggedOn(d) + 1]
<1>1. logged' = logged \cup {new} /\ UNCHANGED <<at, session, focus, pending, failing>>
  BY DEF TempoChanges
<1>2. TypeOK /\ LoggedOn(d) \in Nat /\ LoggedOn(d) < MaxLogged /\ d \in Dates
  BY Totals, DatesAssumption DEF IInv, Inv, BackgroundKept, TempoChanges
<1>3. new \in [date : Dates, number : 1 .. MaxLogged]
  BY <1>2, LimitAssumption
<1>4. IsFiniteSet(logged')
  BY <1>1, <1>2, FS_AddElement DEF TypeOK
<1> HIDE DEF new
<1>5. TypeOK'
  BY <1>1, <1>2, <1>3, <1>4 DEF TypeOK, session
<1>6. FocusInBounds' /\ ReadOnce' /\ Undone'
  BY <1>1 DEF IInv, Inv, BackgroundKept, FocusInBounds, ReadOnce, Undone, Live, OnScreen, session
<1> QED
  BY <1>1, <1>5, <1>6 DEF IInv, Inv, BackgroundKept, CacheOf, TasksOf, Settled, Live, session

LEMMA NextIInv == IInv /\ [Next]_vars => IInv'
<1> SUFFICES ASSUME IInv, [Next]_vars PROVE IInv'
  OBVIOUS
<1>1. CASE Keys
  BY <1>1, DateKeyKeeps, RowKeyKeeps, QuitKeyKeeps DEF Keys
<1>2. CASE QuietEnds
  <2>1. TypeOK'
    BY <1>2 DEF QuietEnds, IInv, Inv, BackgroundKept, TypeOK
  <2> QED
    BY <1>2, <2>1
       DEF QuietEnds, IInv, Inv, BackgroundKept, FocusInBounds, ReadOnce, Undone, Live, OnScreen,
           CacheOf, TasksOf, Settled
<1>3. CASE EventsEnd
  BY <1>3, Failed DEF EventsEnd, Errors
<1>4. CASE UNCHANGED vars
  BY <1>4
     DEF vars, session, IInv, Inv, BackgroundKept, TypeOK, FocusInBounds, ReadOnce, Undone, Live,
         OnScreen, CacheOf, TasksOf, Settled
<1> QED
  BY <1>1, <1>2, <1>3, <1>4, FirstReadKeeps, LoadEndsKeeps, PrefetchEndsKeeps, ExitKeeps,
     TempoChangesKeeps DEF Next

LEMMA Inductive == Spec => []IInv
BY InitIInv, NextIInv, PTL DEF Spec

-----------------------------------------------------------------------------
(* Types; the row the keys act on is on the screen; no date is read ahead  *)
(* twice; only what failed itself is left undone in the terminal; and the  *)
(* error "displayed list report was not cached" is never returned (list.rs *)
(* run_command, list_tui.rs, terminal.rs restore_with).                    *)
THEOREM SessionInv == Spec => []Inv
BY Inductive, PTL DEF IInv

(* The complete reports of a month agree on its totals, whenever they were *)
(* read (list_policy.rs, MonthSummaryCache).                               *)
THEOREM MonthTotalsAgreeCorrect == Spec => []MonthTotalsAgree
<1>1. ASSUME IInv PROVE MonthTotalsAgree
  <2>1. \A r \in Seen : Settled(r)
    BY <1>1 DEF IInv, Seen, CacheOf
  <2> QED
    BY <2>1 DEF MonthTotalsAgree, Settled
<1> QED
  BY <1>1, Inductive, PTL
=============================================================================
