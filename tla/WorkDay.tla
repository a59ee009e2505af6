------------------------------ MODULE WorkDay ------------------------------
(***************************************************************************)
(* One day of worklogs and the three programs that touch it: `drag log`,  *)
(* which turns what a user typed into a worklog on Tempo; `drag list`,    *)
(* which turns Tempo's worklogs back into clock intervals; and the        *)
(* companion, which reads that list, decides which of its proposals may be *)
(* submitted, and submits them through `drag log`.                        *)
(*                                                                         *)
(* A worklog crosses four notions of time on that way.  A proposal has    *)
(* instants and an offset of its own; the payload made of it has a clock   *)
(* and a duration; Tempo keeps a date, a clock and a number of seconds;    *)
(* the list has two clocks.  Local time is a zone with one change of       *)
(* offset: clocks it skips (a gap) and clocks it shows twice.  Instants    *)
(* count from the midnight, in UTC, of the selected day, day 0; a naive    *)
(* local time is date * Day + clock.                                      *)
(***************************************************************************)
EXTENDS Integers, Sequences, FiniteSets, Functions, LocalTime

CONSTANTS
  Minute, Hour, Day,  \* in seconds, each a multiple of the one before
  Zones,              \* [at, before, after]: the offset changes at an instant
  Now,                \* [date, clock] when `drag log` is run
  Requests,           \* what a user may type: [issue, text, when, start]
  Responses,          \* what the provider may answer: sequences of periods
  Evidence,           \* the evidence ids of the day's bundle
  Settings,           \* [current, legacy]: the two attribute variables
  Required,           \* the work attributes Tempo requires
  NotSet,             \* an unset variable, a missing argument
  MaxByHand,          \* bound: worklogs the user logs
  MaxResponses        \* bound: provider answers accepted for the day

VARIABLES
  zone,       \* the configured zone
  tempo,      \* Tempo's worklogs, by id; the first is 1
  asked,      \* for each worklog, the text it was logged with (history)
  settings,   \* the companion's environment
  proposals,  \* the stored proposals of the day, by response
  resolved,   \* the attributes stored with a proposal's Drag resolution
  decision,   \* the last policy decision on a proposal
  submitted   \* the proposals whose worklog is on Tempo

vars == <<zone, tempo, asked, settings, proposals, resolved, decision,
          submitted>>

-----------------------------------------------------------------------------
(* Local time in the configured zone.                                      *)

Resolve(local) == ResolveLocal(zone, local)
Show(instant) == Wall(zone, instant)

At(date, clock) == date * Day + clock
Clock(local) == (local % Day) - (local % Minute)

-----------------------------------------------------------------------------
(* What a user types.  A duration is [hours, minutes], an interval is      *)
(* [from, to]; anything else is refused.                                   *)

IsDuration(text) == text # NotSet /\ DOMAIN text = {"hours", "minutes"}
IsInterval(text) == text # NotSet /\ DOMAIN text = {"from", "to"}

ParseDuration(text) == text.hours * Hour + text.minutes * Minute

\* Deviation: the clocks' difference, whatever the zone does between them.
IntervalSecondsOnTheClock(text, date) ==
  IF text.to > text.from THEN text.to - text.from ELSE text.to + Day - text.from

\* An interval that does not end after it starts ends on the next day.
IntervalSeconds(text, date) ==
  LET from == Resolve(At(date, text.from))
      same == Resolve(At(date, text.to))
  IN  (IF same > from THEN same ELSE Resolve(At(date + 1, text.to))) - from

Seconds(text, date) ==
  IF IsDuration(text) THEN ParseDuration(text) ELSE IntervalSeconds(text, date)

\* No date: today, and now unless a start is given.  Any date: midnight.
SelectDate(when) ==
  CASE when = NotSet -> Now
    [] when # NotSet /\ when.kind = "offset" -> [date |-> Now.date + when.days, clock |-> 0]
    [] when # NotSet /\ when.kind = "date" -> [date |-> when.date, clock |-> 0]

\* An interval's own start wins over --start, and --start over the default.
StartClock(request) ==
  CASE IsInterval(request.text) -> request.text.from
    [] IsDuration(request.text) /\ request.start # NotSet -> request.start
    [] OTHER -> SelectDate(request.when).clock

\* Half a minute is below what a duration shows.
FormatDuration(seconds) ==
  [hours |-> seconds \div Hour, minutes |-> (seconds % Hour) \div Minute]

Acceptable(request) ==
  /\ IsDuration(request.text) \/ IsInterval(request.text)
  /\ Seconds(request.text, SelectDate(request.when).date) > 0
  /\ request.estimate # NotSet => IsDuration(request.estimate)

BuildLogRequest(request) ==
  LET date == SelectDate(request.when).date
  IN  [issue |-> request.issue, date |-> date, start |-> StartClock(request),
       seconds |-> Seconds(request.text, date), text |-> request.description,
       attributes |-> request.attributes]

-----------------------------------------------------------------------------
(* What `drag list` says of a day, and how the companion reads it.         *)

ClockInterval(worklog) ==
  LET from == Resolve(At(worklog.date, worklog.start))
  IN  [from |-> Clock(Show(from)), to |-> Clock(Show(from + worklog.seconds))]

ToWorklog(worklog) ==
  [issue |-> worklog.issue, interval |-> ClockInterval(worklog),
   duration |-> FormatDuration(worklog.seconds), text |-> worklog.text,
   attributes |-> worklog.attributes]

ListDay == {ToWorklog(tempo[i]) : i \in {j \in DOMAIN tempo : tempo[j].date = 0}}

\* The companion's own reading of two clocks: the end is on the next day
\* unless it is after the start.
CanonicalWallInterval(interval) ==
  [from |-> interval.from,
   to |-> IF interval.to <= interval.from THEN interval.to + Day ELSE interval.to]

NormalizeWorklog(item) ==
  [issue |-> item.issue, period |-> CanonicalWallInterval(item.interval),
   text |-> item.text, attributes |-> item.attributes]

ReadDragDay == {NormalizeWorklog(item) : item \in ListDay}

PeriodsOverlap(a, b) == a.from < b.to /\ b.from < a.to
SameWorklog(a, b) == a = b

-----------------------------------------------------------------------------
(* What the provider answers and what of it is stored.                     *)

\* One bad period refuses the answer: ids are distinct, every period rests
\* on evidence of the bundle, ends after it starts and is apart from every
\* other one, the periods no worklog is proposed for included.
ValidateProviderResponse(response) ==
  /\ \A i, j \in DOMAIN response : i # j =>
       /\ response[i].id # response[j].id
       /\ ~PeriodsOverlap(response[i], response[j])
  /\ \A i \in DOMAIN response :
       /\ response[i].refs # <<>> /\ Range(response[i].refs) \subseteq Evidence
       /\ response[i].from < response[i].to
       /\ response[i].kind = "worklog" => response[i].facts # {}

\* A stored proposal is named by the answer it came in and its own id.
Stored == UNION {{<<n, i>> : i \in {j \in DOMAIN proposals[n] :
                                      proposals[n][j].kind = "worklog"}} :
                 n \in DOMAIN proposals}
Period(p) == proposals[p[1]][p[2]]

-----------------------------------------------------------------------------
(* The payload of a proposal: its own offset's clock, its length in        *)
(* minutes, and the attributes stored when it was first resolved.          *)

\* Neither variable set means no attributes; two that differ are refused.
SettingsConflict == /\ settings.current # NotSet /\ settings.legacy # NotSet
                    /\ settings.current # settings.legacy

ConfiguredAttributes ==
  CASE settings.current # NotSet -> settings.current
    [] settings.current = NotSet /\ settings.legacy # NotSet -> settings.legacy
    [] OTHER -> <<>>

RequiredAttributeValues == [k \in Required |-> ConfiguredAttributes[k]]

CanResolve == \/ Stored = {}
              \/ /\ ~SettingsConflict
                 /\ \/ Stored \subseteq DOMAIN resolved
                    \/ Required \subseteq DOMAIN ConfiguredAttributes

\* Deviation: what is configured now replaces what was resolved.
ResolveAgain == [p \in Stored |-> RequiredAttributeValues]

\* A complete resolution is never made again.
ResolveAll == [p \in Stored |-> IF p \in DOMAIN resolved THEN resolved[p]
                             ELSE RequiredAttributeValues]

StartOf(p) == Period(p).from + Period(p).offset
Length(p) == Period(p).to - Period(p).from

\* One proposal that is not of the date, or not of whole minutes, fails the
\* whole audit.
PayloadReady(p) == /\ Length(p) > 0 /\ Length(p) % Minute = 0
                   /\ StartOf(p) \in 0..(Day - 1) /\ StartOf(p) % Minute = 0

Payload(p, resolutions) ==
  [issue |-> Period(p).issue, text |-> [hours |-> 0, minutes |-> Length(p) \div Minute],
   when |-> [kind |-> "date", date |-> 0], start |-> StartOf(p),
   estimate |-> NotSet, description |-> Period(p).facts, attributes |-> resolutions[p]]

NormalizeDragLogInput(payload) ==
  [from |-> payload.start, to |-> payload.start + payload.text.minutes * Minute]

Candidate(p, resolutions) ==
  LET payload == Payload(p, resolutions)
  IN  [issue |-> payload.issue, period |-> NormalizeDragLogInput(payload),
       text |-> payload.description, attributes |-> payload.attributes]

-----------------------------------------------------------------------------
(* The policy.                                                             *)

Duplicate(p, read, rs) == \E w \in read : SameWorklog(w, Candidate(p, rs))
Overlapping(p, read, rs) ==
  \E w \in read : PeriodsOverlap(w.period, Candidate(p, rs).period)
HasIssueWorklog(p, read) == \E w \in read : w.issue = Period(p).issue
\* Deviation: the provider's answers are looked at one by one.
ProposalOverlapInAnswer(p) ==
  \E q \in Stored \ {p} : q[1] = p[1] /\ PeriodsOverlap(Period(p), Period(q))
ProposalOverlap(p) == \E q \in Stored \ {p} : PeriodsOverlap(Period(p), Period(q))
MultipleCandidates(p) == \E q \in Stored \ {p} : Period(p).issue = Period(q).issue

Reasons(p, read, rs, authorized) ==
  {code \in {"evidence.direct.single_issue_required", "issue.verification.failed",
             "tempo.duplicate", "tempo.overlap", "proposal.overlap",
             "allocation.multiple_candidates", "tempo.current_state.has_issue_worklog",
             "evidence.contradiction", "authorization.unattended.required"} :
     CASE code = "evidence.direct.single_issue_required" -> Len(Period(p).refs) # 1
       [] code = "issue.verification.failed" -> Period(p).issue = NotSet
       [] code = "tempo.duplicate" -> Duplicate(p, read, rs)
       [] code = "tempo.overlap" -> Overlapping(p, read, rs)
       [] code = "proposal.overlap" -> ProposalOverlap(p)
       [] code = "allocation.multiple_candidates" -> MultipleCandidates(p)
       [] code = "tempo.current_state.has_issue_worklog" -> HasIssueWorklog(p, read)
       [] code = "evidence.contradiction" -> "conflict" \in Period(p).facts
       [] code = "authorization.unattended.required" -> ~authorized}

PolicyDecision(reasons) ==
  CASE reasons = {} -> "approved"
    [] "authorization.unattended.required" \in reasons -> "skipped"
    [] OTHER -> "rejected"

-----------------------------------------------------------------------------
(* The actions.                                                            *)

Init == /\ zone \in Zones /\ settings \in Settings
        /\ tempo = <<>> /\ asked = <<>>
        /\ proposals = <<>> /\ resolved = <<>> /\ decision = <<>>
        /\ submitted = {}

Create(request) == /\ tempo' = Append(tempo, BuildLogRequest(request))
                   /\ asked' = Append(asked, request.text)

\* `drag log`: a request that cannot be read never reaches Tempo, and Tempo
\* refuses one without a required attribute.
LogByHand ==
  /\ Len(tempo) - Cardinality(submitted) < MaxByHand
  /\ \E request \in Requests :
       /\ Acceptable(request)
       /\ Required \subseteq DOMAIN request.attributes
       /\ Create(request)
  /\ UNCHANGED <<zone, settings, proposals, resolved, decision, submitted>>

\* The environment a later command runs in may differ.
Reconfigure ==
  /\ settings' \in Settings
  /\ UNCHANGED <<zone, tempo, asked, proposals, resolved, decision, submitted>>

\* An answer is stored whole or not at all.
Propose ==
  /\ Len(proposals) < MaxResponses
  /\ \E response \in Responses : /\ ValidateProviderResponse(response)
                                 /\ proposals' = Append(proposals, response)
  /\ UNCHANGED <<zone, tempo, asked, settings, resolved, decision, submitted>>

\* audit_drag_day: resolve, read the day, decide on every stored proposal.
\* The resolutions stay when a payload cannot be made.
Audit ==
  /\ Stored # {} /\ CanResolve
  /\ resolved' = ResolveAll
  /\ IF \A p \in Stored : PayloadReady(p)
     THEN LET read == ReadDragDay
          IN  \E authorized \in BOOLEAN :
                decision' = [p \in Stored |->
                               PolicyDecision(Reasons(p, read, resolved', authorized))]
     ELSE UNCHANGED decision
  /\ UNCHANGED <<zone, tempo, asked, settings, proposals, submitted>>

\* execution.rs, without its ledger: an approved proposal is posted through
\* `drag log` unless the day, read again, already has it.
Submit ==
  /\ \E p \in DOMAIN decision \ submitted :
       /\ decision[p] = "approved" /\ PayloadReady(p)
       /\ ~Duplicate(p, ReadDragDay, resolved)
       /\ Create(Payload(p, resolved))
       /\ submitted' = submitted \cup {p}
  /\ UNCHANGED <<zone, settings, proposals, resolved, decision>>

Next == LogByHand \/ Reconfigure \/ Propose \/ Audit \/ Submit

Spec == Init /\ [][Next]_vars

-----------------------------------------------------------------------------
(* The properties.                                                         *)

Decisions == {"approved", "skipped", "rejected"}

\* Types, and that a decision and a submission are about a resolved proposal.
TypeOK ==
  /\ zone \in Zones /\ settings \in Settings
  /\ Len(tempo) = Len(asked)
  /\ \A i \in DOMAIN tempo : tempo[i].start \in 0..(Day - 1) /\ tempo[i].seconds > 0
  /\ \A n \in DOMAIN proposals : ValidateProviderResponse(proposals[n])
  /\ DOMAIN decision \subseteq DOMAIN resolved /\ DOMAIN resolved \subseteq Stored
  /\ Range(decision) \subseteq Decisions
  /\ submitted \subseteq DOMAIN decision

\* A worklog the zone's change does not fall into.
Steady(date, start, seconds) ==
  /\ Shown(zone, At(date, start)) /\ seconds <= Day
  /\ Show(Resolve(At(date, start)) + seconds) = At(date, start) + seconds

\* What is logged as `a-b` is listed as a-b, on days with a change of offset
\* and past midnight too, and a listed duration typed again would log the
\* same time: whenever the clock shows both ends (parse_duration_or_interval
\* and clock_interval are each other's inverse).
ListedAsLogged ==
  \A i \in DOMAIN tempo :
    LET item == ToWorklog(tempo[i])
        ends == {At(tempo[i].date, asked[i].from), At(tempo[i].date, asked[i].to),
                 At(tempo[i].date + 1, asked[i].to)}
    IN  IsInterval(asked[i]) =>
          /\ (\A e \in ends : Shown(zone, e)) => item.interval = asked[i]
          /\ ParseDuration(item.duration) = tempo[i].seconds

\* What the companion submitted, it recognises in the list it reads, however
\* the environment changed since: the duplicate check and the adoption of a
\* worklog after an uncertain submission both rest on this.  Not so when the
\* zone changes its offset within the worklog.
OwnIsRecognised ==
  \A p \in submitted :
    Steady(0, StartOf(p), Length(p)) => Duplicate(p, ReadDragDay, resolved)

\* The clock time a worklog takes on Tempo, to the minute: one that starts now
\* keeps its seconds there, and the list does not show them.
Taken(worklog) ==
  LET from == At(worklog.date, worklog.start - (worklog.start % Minute))
  IN  [from |-> from, to |-> from + worklog.seconds]

\* What an audit approves is free on Tempo: it was not submitted before, not
\* even when the list shows its worklog at another time than it was submitted
\* with; no worklog of the day is at the clock time the proposal would take;
\* and no two approved proposals whose times have the same offset would take
\* the same clock time.
ApprovesWhatIsFree ==
  \A p \in DOMAIN decision' :
    decision' # decision /\ decision'[p] = "approved" =>
      LET mine == Taken(BuildLogRequest(Payload(p, resolved')))
      IN  /\ p \notin submitted
          /\ \A i \in DOMAIN tempo :
               LET w == tempo[i]
               IN  w.date = 0 /\ Steady(0, w.start, w.seconds)
                     => ~PeriodsOverlap(Taken(w), mine)
          /\ \A q \in DOMAIN decision' \ {p} :
               decision'[q] = "approved" /\ Period(q).offset = Period(p).offset =>
                 ~PeriodsOverlap(Taken(BuildLogRequest(Payload(q, resolved'))), mine)

\* In every step: what an audit approves is free on Tempo.
ApprovedIsFree == [][ApprovesWhatIsFree]_vars

=============================================================================
