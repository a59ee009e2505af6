--------------------------- MODULE ListProjection ---------------------------
(***************************************************************************)
(* `drag list --fields`: a mask of paths selects what of the result is    *)
(* computed, asked of Jira and printed, as one JSON document or as one     *)
(* event per line.  A result is the set of its nodes, <<path, worklog>>,   *)
(* the worklog being 0 for the nodes that are of none; a node's value is   *)
(* determined by it.  `attributes` of a worklog that has none are an       *)
(* empty array.                                                            *)
(***************************************************************************)
EXTENDS Naturals, Sequences, FiniteSets, Functions

CONSTANTS
  Typed,       \* what a user may type: sequences of paths, or NotSet
  Listed,    \* the days to list: sequences of [issue, attributes, clock]
  Keys,        \* the key Jira has for an issue, by issue
  NotSet

VARIABLES
  typed, day,
  mode,    \* "report", "stream" or NotSet before the command
  at,      \* the worklogs a stream is past
  output,  \* the nodes printed
  keys,    \* the issues whose key is known
  calls    \* the issues Jira was asked about, in order

vars == <<typed, day, mode, at, output, keys, calls>>

-----------------------------------------------------------------------------
(* The fields, and the masks over them.                                    *)

WorklogFields ==
  {"worklogs.id", "worklogs.interval", "worklogs.issueId", "worklogs.issueKey",
   "worklogs.duration", "worklogs.description", "worklogs.attributes", "worklogs.link"}
ClockFields == {"worklogs.interval.startTime", "worklogs.interval.endTime"}
ScheduleFields ==
  {"schedule.monthRequiredDuration", "schedule.monthLoggedDuration",
   "schedule.monthCurrentPeriodDuration", "schedule.dayRequiredDuration",
   "schedule.dayLoggedDuration"}
PaginationFields ==
  {"pagination.selectedDate", "pagination.monthStart", "pagination.monthEnd",
   "pagination.limit", "pagination.pageLimit", "pagination.allPages",
   "pagination.pagesRetrieved", "pagination.recordsRetrieved",
   "pagination.recordsReturned", "pagination.next", "pagination.complete",
   "pagination.totalsComplete"}
Roots == {"date", "worklogs", "schedule", "pagination"}

ListField == Roots \cup WorklogFields \cup ClockFields \cup ScheduleFields
             \cup PaginationFields

Parent(field) ==
  CASE field \in WorklogFields -> "worklogs"
    [] field \in ClockFields -> "worklogs.interval"
    [] field \in ScheduleFields -> "schedule"
    [] field \in PaginationFields -> "pagination"
    [] OTHER -> NotSet

\* The field, its parent and its parent's.
Line(field) ==
  {field, Parent(field)} \cup
  (IF Parent(field) = NotSet THEN {} ELSE {Parent(Parent(field))})

\* ListFieldMask::parse: at least one path, all known, none twice, none above
\* another.
Parses(paths) ==
  /\ paths # <<>> /\ Range(paths) \subseteq ListField
  /\ IsInjective(paths)
  /\ \A f \in Range(paths) : Range(paths) \cap (Line(f) \ {f}) = {}

\* Deviation: a path selects what it names and nothing below.
IncludesExactly(field) == typed = NotSet \/ field \in Range(typed)

\* No mask includes everything; a path includes what is below it.
Includes(field) == typed = NotSet \/ Line(field) \cap Range(typed) # {}

AnyIncluded(fields) == \E f \in fields : Includes(f)

SelectsWorklogs == AnyIncluded({"worklogs"} \cup WorklogFields \cup ClockFields)
RequiresIssueKey == AnyIncluded({"worklogs.issueKey", "worklogs.link"})
RequiresInterval == AnyIncluded(ClockFields)

-----------------------------------------------------------------------------
(* The result.                                                             *)

\* A start time Tempo sends that is no clock leaves the interval null.
Clocks(w) == IF w.clock THEN {f \in ClockFields : Includes(f)} ELSE {}

ProjectWorklog(w) ==
  {f \in WorklogFields \ {"worklogs.interval"} : Includes(f)} \cup Clocks(w)
  \cup (IF Includes("worklogs.interval") \/ RequiresInterval
        THEN {"worklogs.interval"} ELSE {})

\* Serialized without a mask, no attributes are no node.
CompleteWorklog(w) ==
  (WorklogFields \ IF w.attributes THEN {} ELSE {"worklogs.attributes"})
  \cup (IF w.clock THEN ClockFields ELSE {})

WorklogNodes(i) ==
  (IF typed = NotSet THEN CompleteWorklog(day[i]) ELSE ProjectWorklog(day[i])) \X {i}

Group(root, fields) ==
  IF AnyIncluded({root} \cup fields)
  THEN ({root} \cup {f \in fields : Includes(f)}) \X {0} ELSE {}

\* project_list_result without its worklogs: the stream's summary and its
\* last event are made of this.
Frame ==
  (IF Includes("date") THEN {<<"date", 0>>} ELSE {})
  \cup Group("schedule", ScheduleFields) \cup Group("pagination", PaginationFields)

ProjectListResult ==
  Frame \cup (IF SelectsWorklogs
              THEN {<<"worklogs", 0>>} \cup UNION {WorklogNodes(i) : i \in DOMAIN day}
              ELSE {})

-----------------------------------------------------------------------------
(* The two ways to print it.                                               *)

Init == /\ typed \in Typed /\ day \in Listed
        /\ mode = NotSet /\ at = 0 /\ output = {} /\ keys = {} /\ calls = <<>>

Issues(worklogs) == {worklogs[i].issue : i \in DOMAIN worklogs}

\* A mask that does not parse ends the command before anything is asked for.
Start(m) ==
  /\ mode = NotSet
  /\ typed # NotSet => Parses(typed)
  /\ mode' = m
  /\ UNCHANGED <<typed, day, at, output, keys, calls>>

\* Each of a set once, in some order.
InSomeOrder(S) == {f \in [1..Cardinality(S) -> S] : IsInjective(f)}

\* The report is complete, every key included, and then projected.
Report ==
  /\ mode = "report" /\ at = 0
  /\ Issues(day) \subseteq DOMAIN Keys
  /\ calls' \in InSomeOrder(Issues(day)) /\ keys' = Issues(day)
  /\ output' = ProjectListResult /\ at' = Len(day) + 1
  /\ UNCHANGED <<typed, day, mode>>

\* stream_worklog_value: a key is asked for once, and only if it is printed.
StreamWorklog ==
  LET i == at + 1
      asks == SelectsWorklogs /\ RequiresIssueKey /\ day[i].issue \notin keys
  IN  /\ mode = "stream" /\ at < Len(day)
      /\ asks => day[i].issue \in DOMAIN Keys
      /\ IF asks THEN calls' = Append(calls, day[i].issue) /\ keys' = keys \cup {day[i].issue}
         ELSE UNCHANGED <<calls, keys>>
      /\ output' = output \cup IF SelectsWorklogs THEN WorklogNodes(i) ELSE {}
      /\ at' = i
      /\ UNCHANGED <<typed, day, mode>>

StreamEnd ==
  /\ mode = "stream" /\ at = Len(day)
  /\ output' = output \cup Frame /\ at' = at + 1
  /\ UNCHANGED <<typed, day, mode, keys, calls>>

Next == (\E m \in {"report", "stream"} : Start(m)) \/ Report \/ StreamWorklog \/ StreamEnd

Spec == Init /\ [][Next]_vars

-----------------------------------------------------------------------------
(* The properties.                                                         *)

\* Types.
TypeOK ==
  /\ typed \in Typed /\ day \in Listed /\ mode \in {NotSet, "report", "stream"}
  /\ at \in 0..(Len(day) + 1) /\ keys = Range(calls)
  /\ output \subseteq ListField \X (0..Len(day))

Everything ==
  ((Roots \cup ScheduleFields \cup PaginationFields) \X {0})
  \cup UNION {CompleteWorklog(day[i]) \X {i} : i \in DOMAIN day}

\* Of two paths, one is the other or above it.
Related(f, g) == f \in Line(g) \/ g \in Line(f)

\* What is printed is the complete result cut down to the mask: a node is
\* there exactly if a path of the mask names it or a node above or below it,
\* whichever way it is printed; only `attributes` may be there empty and a
\* stream has no array.  Jira is asked about no issue twice, and by a stream
\* about none unless a key or a link is printed.
PrintedAsSelected ==
  LET selected == {n \in Everything :
                     typed = NotSet \/ \E f \in Range(typed) : Related(n[1], f)}
      loose == ({"worklogs"} \X {0}) \cup ({"worklogs.attributes"} \X (1..Len(day)))
  IN  /\ at > Len(day) =>
           /\ output \ loose = selected \ loose
           /\ mode = "report" => selected \cap loose \subseteq output
      /\ IsInjective(calls)
      /\ mode = "stream" /\ calls # <<>> =>
           \E n \in output : n[1] \in {"worklogs.issueKey", "worklogs.link"}

=============================================================================
