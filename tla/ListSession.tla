---------------------------- MODULE ListSession ----------------------------
(***************************************************************************)
(* An interactive `drag list` session (drag-cli/src/list.rs run_command,   *)
(* its pure policy drag/src/list_policy.rs, the two event loops of         *)
(* drag-cli/src/list_tui.rs and the terminal of drag-cli/src/terminal.rs). *)
(*                                                                         *)
(* The user walks from date to date. A report that was shown is cached; a  *)
(* report of an adjacent date is read ahead by a task; a date that is in   *)
(* neither is read after a quiet period, behind the report shown last. In  *)
(* the meantime worklogs are added in Tempo, reads fail and the user goes  *)
(* on pressing keys, which drops the read that is under way.               *)
(***************************************************************************)
EXTENDS Integers, FiniteSets, FiniteSetsExt, Functions

CONSTANTS
    Dates,        \* the dates chrono can represent, a range of integers
    Start,        \* the date the command selects
    MonthOf(_),   \* the month of a date
    Limit,        \* how many worklogs of a month one read returns at most
    Continued,    \* whether the command may carry a continuation token, a set
    Busy,         \* bound: the dates work is logged on
    MaxLogged     \* bound: worklogs per date in Tempo

ASSUME DatesAssumption == Dates \subseteq Int /\ Start \in Dates /\ Busy \subseteq Dates
ASSUME LimitAssumption == Limit \in Nat /\ MaxLogged \in Nat
ASSUME ContinuedAssumption == Continued \subseteq BOOLEAN

VARIABLES
    logged,       \* Tempo: the worklogs of the user, by date and number
    at,           \* where run_command is
    requested,    \* requested_date
    displayed,    \* displayed_date
    shown,        \* the report session.run presents, and whether it is reusable
    reports,      \* the reports left behind, by date
    months,       \* MonthSummaryCache: the month totals seen first
    prefetches,   \* the tasks that read ahead, by date
    load,         \* the read the session is suspended on
    focus,        \* the focused row of the table, 0 when it has none
    pending,      \* what StderrTerminal must still undo
    failing       \* the clean-up steps that failed when they were last tried

session == <<requested, displayed, shown, reports, months, prefetches, load>>
vars == <<logged, at, session, focus, pending, failing>>

Months == {MonthOf(d) : d \in Dates}
CleanupSteps == {"screen", "cursor", "raw"}

Report == [date : Dates, rows : Nat, month : Nat, complete : BOOLEAN]
Cached == [report : Report, reusable : BOOLEAN]
Running == [state |-> "running"]
Broken == [state |-> "failed"]
Read(r) == [state |-> "done", report |-> r]
Tasks == {Running, Broken} \cup {Read(r) : r \in Report}
NoLoad == [state |-> "none"]
Quiet == [state |-> "quiet"]

Nothing == [report |-> [date |-> Start, rows |-> 0, month |-> 0, complete |-> FALSE],
            reusable |-> FALSE]

Put(f, x, v) == [y \in DOMAIN f \cup {x} |-> IF y = x THEN v ELSE f[y]]
Remove(f, x) == Restrict(f, DOMAIN f \ {x})
PartialFunctions(S, T) == UNION {[D -> T] : D \in SUBSET S}

(***************************************************************************)
(* What a read of date d finds. The worklogs of the whole month are read,  *)
(* at most Limit of them; the report is complete when there are no more    *)
(* and the read did not continue an earlier one.                           *)
(***************************************************************************)
LoggedOn(d) == Cardinality({w \in logged : w.date = d})
MonthLogged(m) == Cardinality({w \in logged : MonthOf(w.date) = m})

ReportsOf(d, continued) ==
    LET total == MonthLogged(MonthOf(d))
        whole == [date |-> d, rows |-> LoggedOn(d), month |-> total, complete |-> TRUE]
        segments == [date : {d}, rows : 0 .. LoggedOn(d), month : {total, Limit}, complete : {FALSE}]
    IN  IF ~continued /\ total <= Limit
        THEN {whole}
        ELSE {r \in segments : r.rows <= r.month /\ r.month <= total}

-----------------------------------------------------------------------------
(* The pure policy.                                                        *)

\* Deviation: only the tasks are looked at.
PrefetchAgain(d, cached, tasks) == {d - 1, d + 1} \ tasks

(* The adjacent dates that are neither cached nor being read.              *)
ToPrefetch(d, cached, tasks) == {d - 1, d + 1} \ (cached \cup tasks)

\* Deviation: every report keeps the totals it was read with.
AsRead(r) == r

(* The first complete summary of a month stands for the whole session.     *)
Stabilized(r) ==
    IF r.complete /\ MonthOf(r.date) \in DOMAIN months
    THEN [r EXCEPT !.month = months[MonthOf(r.date)]]
    ELSE r
Remembered(r) ==
    IF r.complete /\ MonthOf(r.date) \notin DOMAIN months
    THEN Put(months, MonthOf(r.date), r.month)
    ELSE months

(* A report is taken from the cache only when it may be shown again.       *)
Takes(cache, d) == d \in DOMAIN cache /\ cache[d].reusable

InitialFocus(r) == IF r.rows > 0 THEN 1 ELSE 0

(* Every clean-up step that is pending is tried, whichever fail.           *)
RestoreWith(left, broken) == left \cap broken

-----------------------------------------------------------------------------
Init ==
    /\ logged = {}
    /\ at = "initial"
    /\ requested = Start /\ displayed = Start
    /\ shown = Nothing
    /\ reports = <<>> /\ months = <<>> /\ prefetches = <<>>
    /\ load = NoLoad
    /\ focus = 0
    /\ pending = {} /\ failing = {}

(* run_command returns: its caches are gone and its reads aborted.         *)
Return ==
    /\ reports' = <<>> /\ months' = <<>> /\ prefetches' = <<>>
    /\ load' = NoLoad
    /\ shown' = Nothing
    /\ requested' = Start /\ displayed' = Start
    /\ focus' = 0

(* The session ends with an error.                                         *)
Fail(reason) ==
    /\ at' = reason
    /\ Return
    /\ UNCHANGED <<logged, pending, failing>>

(* The body of the loop once a report is there. The adjacent dates must be *)
(* representable, the tasks for them start, and the first report opens the *)
(* terminal, which may be refused.                                         *)
Show(r, reusable, d, cache, tasks) ==
    LET new == ToPrefetch(d, DOMAIN cache, DOMAIN tasks)
    IN  \/ /\ {d - 1, d + 1} \subseteq Dates
           /\ at' = "shown"
           /\ requested' = d /\ displayed' = d
           /\ shown' = [report |-> Stabilized(r), reusable |-> reusable]
           /\ months' = Remembered(r)
           /\ reports' = cache
           /\ prefetches' = [e \in DOMAIN tasks \cup new |->
                                IF e \in new THEN Running ELSE tasks[e]]
           /\ load' = NoLoad
           /\ focus' = InitialFocus(r)
           /\ pending' = CleanupSteps
           /\ UNCHANGED <<logged, failing>>
        \/ {d - 1, d + 1} \subseteq Dates /\ pending = {} /\ Fail("noTerminal")
        \/ ~({d - 1, d + 1} \subseteq Dates) /\ Fail("outOfRange")

(* The session waits for a read with the report shown last behind it.      *)
Suspend(d, cache, tasks, l) ==
    IF displayed \in DOMAIN cache
    THEN /\ at' = "suspended"
         /\ requested' = d
         /\ reports' = cache /\ prefetches' = tasks
         /\ load' = l
         /\ focus' = InitialFocus(cache[displayed].report)
         /\ UNCHANGED <<logged, displayed, shown, months, pending, failing>>
    ELSE Fail("noBackground")

\* Deviation: a report that may not be shown again is taken and then dropped.
VisitDropping(d, cache) ==
    IF Takes(cache, d)
    THEN Show(cache[d].report, TRUE, d, Remove(cache, d), prefetches)
    ELSE Suspend(d, Remove(cache, d), prefetches, Quiet)

(* The head of the loop for the date that is asked for.                    *)
Visit(d, cache) ==
    IF Takes(cache, d)
    THEN Show(cache[d].report, TRUE, d, Remove(cache, d), prefetches)
    ELSE IF d \notin DOMAIN prefetches
    THEN Suspend(d, cache, prefetches, Quiet)
    ELSE CASE prefetches[d] = Running -> Suspend(d, cache, Remove(prefetches, d), Running)
           [] prefetches[d] = Broken  -> Fail("readFailed")
           [] OTHER -> Show(prefetches[d].report, TRUE, d, cache, Remove(prefetches, d))

(* date_for_list_action, from the date the action was pressed on.          *)
Navigate(from, step, cache) ==
    IF from + step \in Dates THEN Visit(from + step, cache) ELSE Fail("outOfRange")

-----------------------------------------------------------------------------
(* The report the rows on the screen come from.                            *)
OnScreen == IF at = "suspended" THEN reports[displayed].report ELSE shown.report

FirstRead ==
    /\ at = "initial"
    /\ \/ \E continued \in Continued : \E r \in ReportsOf(Start, continued) :
             Show(r, ~continued, Start, reports, prefetches)
       \/ Fail("readFailed")

(* Left, h, right and l count only when pressed, not while held.           *)
DateKey(kind, step) ==
    /\ kind = "press"
    /\ \/ at = "shown" /\ Navigate(displayed, step, Put(reports, displayed, shown))
       \/ at = "suspended" /\ Navigate(requested, step, reports)

(* Up, k, down and j also repeat.                                          *)
RowKey(step) ==
    /\ at \in {"shown", "suspended"}
    /\ focus > 0
    /\ focus' = Max({1, Min({OnScreen.rows, focus + step})})
    /\ UNCHANGED <<logged, at, session, pending, failing>>

(* q, escape and control-c: the terminal is given back first.              *)
QuitKey(broken) ==
    /\ at \in {"shown", "suspended"}
    /\ broken \subseteq pending
    /\ pending' = RestoreWith(pending, broken)
    /\ failing' = broken
    /\ at' = IF broken = {} THEN "closed" ELSE "terminalError"
    /\ Return
    /\ UNCHANGED logged

\* Deviation: a tick of the spinner starts the quiet period again.
QuietStartsOver ==
    /\ at = "suspended" /\ load = Quiet
    /\ load' = Quiet
    /\ UNCHANGED <<logged, at, requested, displayed, shown, reports, months, prefetches,
                   focus, pending, failing>>

(* 150 ms passed without another date: the read begins.                    *)
QuietEnds ==
    /\ at = "suspended" /\ load = Quiet
    /\ load' = Running
    /\ UNCHANGED <<logged, at, requested, displayed, shown, reports, months, prefetches,
                   focus, pending, failing>>

LoadEnds ==
    /\ at = "suspended" /\ load = Running
    /\ \/ \E r \in ReportsOf(requested, FALSE) : Show(r, TRUE, requested, reports, prefetches)
       \/ Fail("readFailed")

PrefetchEnds(d) ==
    /\ d \in DOMAIN prefetches /\ prefetches[d] = Running
    /\ \E t \in {Broken} \cup {Read(r) : r \in ReportsOf(d, FALSE)} :
          prefetches' = [prefetches EXCEPT ![d] = t]
    /\ UNCHANGED <<logged, at, requested, displayed, shown, reports, months, load,
                   focus, pending, failing>>

(* The event stream of the terminal ends, or reading it fails.             *)
EventsEnd == at \in {"shown", "suspended"} /\ Fail("terminalError")

(* The command returns: dropping the terminal tries what is left again,    *)
(* and only then is an error printed.                                      *)
Errors == {"noTerminal", "outOfRange", "noBackground", "readFailed", "terminalError"}
Exit(broken) ==
    /\ at \in {"closed"} \cup Errors
    /\ broken \subseteq pending
    /\ pending' = RestoreWith(pending, broken)
    /\ failing' = broken
    /\ at' = "exited"
    /\ UNCHANGED <<logged, session, focus>>

(* Somebody logs work while the session lasts.                             *)
TempoChanges(d) ==
    /\ at \in {"initial", "shown", "suspended"}
    /\ LoggedOn(d) < MaxLogged
    /\ logged' = logged \cup {[date |-> d, number |-> LoggedOn(d) + 1]}
    /\ UNCHANGED <<at, session, focus, pending, failing>>

Keys ==
    \/ \E kind \in {"press", "repeat"}, step \in {-1, 1} : DateKey(kind, step)
    \/ \E step \in {-1, 1} : RowKey(step)
    \/ \E broken \in SUBSET CleanupSteps : QuitKey(broken)

Next ==
    \/ FirstRead
    \/ Keys
    \/ QuietEnds
    \/ LoadEnds
    \/ \E d \in Dates : PrefetchEnds(d)
    \/ EventsEnd
    \/ \E broken \in SUBSET CleanupSteps : Exit(broken)
    \/ \E d \in Busy : TempoChanges(d)

(* The quiet period is a timer and every request has a timeout. Nothing is *)
(* assumed of the user, of the tasks that read ahead or of Tempo.          *)
Fairness == WF_vars(QuietEnds) /\ WF_vars(LoadEnds)

Spec == Init /\ [][Next]_vars /\ Fairness

-----------------------------------------------------------------------------
(* Properties                                                              *)

Stages == {"initial", "shown", "suspended", "closed", "exited"} \cup Errors
Live == at \in {"shown", "suspended"}

TypeOK ==
    /\ logged \subseteq [date : Dates, number : 1 .. MaxLogged] /\ IsFiniteSet(logged)
    /\ at \in Stages
    /\ requested \in Dates /\ displayed \in Dates
    /\ shown \in Cached
    /\ DOMAIN reports \subseteq Dates
    /\ \A d \in DOMAIN reports : reports[d] \in Cached /\ reports[d].report.date = d
    /\ DOMAIN months \subseteq Months
    /\ \A m \in DOMAIN months : months[m] \in Nat
    /\ DOMAIN prefetches \subseteq Dates
    /\ \A d \in DOMAIN prefetches : prefetches[d].state \in {"running", "failed", "done"}
    /\ load \in {NoLoad, Quiet, Running}
    /\ focus \in Nat
    /\ pending \subseteq CleanupSteps /\ failing \subseteq CleanupSteps

(* The row the arrow keys and `o` act on is a row of the report on the     *)
(* screen (list_tui.rs:129 indexes the worklogs with it), also when the    *)
(* background of a suspended session has fewer rows than the report before.*)
FocusInBounds == Live => focus \in InitialFocus(OnScreen) .. OnScreen.rows

(* No date is read ahead that is on the screen, cached or being loaded.    *)
ReadOnce ==
    Live => DOMAIN prefetches \cap (DOMAIN reports \cup {displayed, requested}) = {}

(* A clean-up step of the terminal is left undone only when it failed      *)
(* itself, not because one before it failed (terminal.rs restore_with).    *)
Undone == at = "exited" => pending \subseteq failing

(* A session that has to wait always finds the report to wait behind: the  *)
(* error "displayed list report was not cached" (list.rs:611) is never     *)
(* returned, however the user moves back and forth over reports that may   *)
(* not be shown again.                                                     *)
BackgroundKept == at # "noBackground"

Inv == TypeOK /\ FocusInBounds /\ ReadOnce /\ Undone /\ BackgroundKept

(* All complete reports of a month that the session has shown agree on the *)
(* month totals, whatever was logged between the reads of two of its dates.*)
Seen == {reports[d].report : d \in DOMAIN reports} \cup (IF Live THEN {shown.report} ELSE {})
MonthTotalsAgree ==
    \A r, s \in Seen :
        r.complete /\ s.complete /\ MonthOf(r.date) = MonthOf(s.date) => r.month = s.month

(* Once the user no longer changes the date, a session that waits for a    *)
(* report shows it or ends.                                                *)
DateKeys == \E kind \in {"press", "repeat"}, step \in {-1, 1} : DateKey(kind, step)
EventuallyShown == <>[][~DateKeys]_vars => [](at = "suspended" => <>(at # "suspended"))
=============================================================================
