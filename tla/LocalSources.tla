---------------------------- MODULE LocalSources ----------------------------
(***************************************************************************)
(* The companion's local sources of evidence: a calendar file and a Git    *)
(* repository, both changed by others at any time.  Setup inspects a       *)
(* calendar before it accepts it; a run collects one date and appends what *)
(* it finds to the journal, where an event is known by its id and a newer  *)
(* version of a calendar event supersedes the one before.                  *)
(*                                                                         *)
(* A VEVENT is a record: uid, sequence, status, the zone its times are in, *)
(* start and end as local times (date * Day + clock), and a daily rule     *)
(* with interval, count and, as an instant, until; a rule that is not      *)
(* daily is as none.  The file it is in may be cut off.  What happens to   *)
(* the journal afterwards is EvidenceJournal's; here it is the set of its  *)
(* calendar and Git rows.                                                  *)
(***************************************************************************)
EXTENDS Integers, Sequences, FiniteSets, FiniteSetsExt, LocalTime

CONSTANTS
  Day,          \* length of a day
  Zone,         \* the zone of events that are not in UTC, and of the host
  Dates,        \* the dates runs collect
  Today,        \* the date of setup
  NotSet,
  Events,       \* first versions of the calendar's events
  Edits,        \* what an edit may change: records of new fields
  Commits,      \* [hash, authored, offset, committed]
  CommitLimit,  \* SOURCE_TEST_OBSERVATION_LIMIT, of commits
  MaxEdits      \* bound: edits of the calendar

VARIABLES
  calendar,   \* the file: whole or cut off, and the events in it
  commits,    \* the commits reachable from any ref
  accepted,   \* the file setup accepted (history), or NotSet
  journal,    \* the rows appended
  fresh,      \* the dates collected since the sources last changed (history)
  failed,     \* the dates whose calendar could not be collected since
  edits

vars == <<calendar, commits, accepted, journal, fresh, failed, edits>>

-----------------------------------------------------------------------------
(* One VEVENT on one date.                                                 *)

DateOf(local) == local \div Day
ClockOf(local) == local % Day

\* parse_ics_start and localize: no instant for an unknown zone or a time
\* the zone skips, the earlier of two for one it repeats.
KnownInstant(zone, local) ==
  CASE zone = "UTC" -> {local}
    [] zone = "local" /\ Shown(Zone, local) -> {Min(Instants(Zone, local))}
    [] OTHER -> {}

Daily(e) == e.rule # NotSet /\ e.rule.daily

FirstDate(e) == DateOf(e.start)

\* Deviation: one occurrence too many.
OnRulePastCount(e, date) ==
  LET elapsed == date - FirstDate(e)
  IN  /\ elapsed >= 0 /\ elapsed % e.rule.interval = 0
      /\ e.rule.count # NotSet => elapsed \div e.rule.interval <= e.rule.count

\* Whether a daily rule reaches a date, before the time of day is looked at.
OnRule(e, date) ==
  LET elapsed == date - FirstDate(e)
  IN  /\ elapsed >= 0 /\ elapsed % e.rule.interval = 0
      /\ e.rule.count # NotSet => elapsed \div e.rule.interval < e.rule.count

OccurrenceLocal(e, date) == date * Day + ClockOf(e.start)

\* The instants an occurrence starts at: none or one.
OccurrenceStarts(e, date) ==
  IF ~Daily(e)
  THEN IF FirstDate(e) = date THEN KnownInstant(e.zone, e.start) ELSE {}
  ELSE {i \in KnownInstant(e.zone, OccurrenceLocal(e, date)) :
          /\ e.rule.interval > 0 /\ OnRule(e, date)
          /\ e.rule.until # NotSet => i <= e.rule.until
          /\ i \notin UNION {KnownInstant(e.zone, x) : x \in e.exdates}}

\* A rule keeps the clock of the end and the days between start and end.
OccurrenceEnd(e, date) ==
  IF Daily(e)
  THEN KnownInstant(e.endZone, e.end + (date - FirstDate(e)) * Day)
  ELSE KnownInstant(e.endZone, e.end)

\* The interval of an occurrence, or why there is none; endpoints that make
\* no interval are errors.
HasInterval(e) == e.status # "CANCELLED" /\ ~e.allDay /\ e.end # NotSet

IntervalFails(e, date, start) ==
  /\ HasInterval(e)
  /\ \/ e.endZone # e.zone
     \/ \A end \in OccurrenceEnd(e, date) : end <= start

\* Errors of the text itself, found whatever the date.
TextFails(e) ==
  \/ e.uid = NotSet \/ e.start = NotSet \/ e.zone = "floating"
  \/ KnownInstant(e.zone, e.start) = {}
  \/ Daily(e) /\ e.rule.interval = 0

DateFails(e, date) ==
  \/ /\ Daily(e) /\ OnRule(e, date)
     /\ KnownInstant(e.zone, OccurrenceLocal(e, date)) = {}
  \/ \E start \in OccurrenceStarts(e, date) : IntervalFails(e, date, start)

\* One bad event fails the file.
ScanFails(file, date) ==
  \/ file.cut
  \/ \E e \in file.events : TextFails(e) \/ DateFails(e, date)

-----------------------------------------------------------------------------
(* Rows of the journal.                                                    *)

\* calendar_event: an occurrence of a rule is known by its date, and so is
\* an event without one.
Occurrence(e, date) == <<e.uid, date>>

Supersedes(sequence) == IF sequence > 1 THEN sequence - 1 ELSE NotSet

CalendarRow(e, date, start) ==
  [occurrence |-> Occurrence(e, date), sequence |-> e.sequence, date |-> date,
   supersedes |-> Supersedes(e.sequence),
   interval |-> IF HasInterval(e) THEN <<start, Min(OccurrenceEnd(e, date))>>
                ELSE NotSet]

ScanIcs(file, date) ==
  UNION {{CalendarRow(e, date, start) : start \in OccurrenceStarts(e, date)} :
         e \in file.events}

\* git log --since --until goes by the time of the commit in the host's
\* zone; the row is filed under the date in the author's own offset.
CommittedOn(date) ==
  {c \in commits : /\ Instants(Zone, Wall(Zone, c.committed)) # {}
                   /\ DateOf(Wall(Zone, c.committed)) = date}

CommitRow(c) == [hash |-> c.hash, date |-> DateOf(c.authored + c.offset)]

\* With more than the limit, Git keeps the newest.
Newest(cs) ==
  {c \in cs : Cardinality({d \in cs : d.committed > c.committed}) < CommitLimit}

ScanGit(date) == {CommitRow(c) : c \in Newest(CommittedOn(date))}

\* resolve_supersedes, at import: a version that supersedes any supersedes the
\* latest earlier one there is.
Earlier(r, s) == r.occurrence = s.occurrence /\ r.sequence < s.sequence

Live(rows) ==
  {r \in rows : ~\E s \in rows : /\ s.supersedes # NotSet /\ Earlier(r, s)
                                  /\ ~\E t \in rows : Earlier(r, t) /\ Earlier(t, s)}

-----------------------------------------------------------------------------
Init == /\ calendar \in [cut : {FALSE}, events : {{e} : e \in Events}]
        /\ commits = {} /\ accepted = NotSet
        /\ journal = [calendar |-> {}, git |-> {}]
        /\ fresh = {} /\ failed = {} /\ edits = 0

\* validate_source_configuration: the calendar is read for the date of setup.
Setup ==
  /\ ~ScanFails(calendar, Today)
  /\ accepted' = calendar
  /\ UNCHANGED <<calendar, commits, journal, fresh, failed, edits>>

Changed == fresh' = {} /\ failed' = {}

\* A calendar program saves a new version of the event; a sync tool may be
\* interrupted while it writes the file.
EditEvent ==
  /\ edits < MaxEdits
  /\ \E e \in calendar.events, edit \in Edits :
       /\ calendar' = [cut |-> FALSE,
                       events |-> {[f \in DOMAIN e |->
                         CASE f \in DOMAIN edit -> edit[f]
                           [] f = "sequence" -> e.sequence + 1
                           [] OTHER -> e[f]]}]
  /\ edits' = edits + 1
  /\ Changed
  /\ UNCHANGED <<commits, accepted, journal>>

CutFile ==
  /\ edits < MaxEdits /\ ~calendar.cut
  /\ calendar' = [calendar EXCEPT !.cut = TRUE]
  /\ edits' = edits + 1
  /\ Changed
  /\ UNCHANGED <<commits, accepted, journal>>

Commit ==
  /\ \E c \in Commits \ commits : commits' = commits \cup {c}
  /\ Changed
  /\ UNCHANGED <<calendar, accepted, journal, edits>>

\* collect_activity: commits first; a calendar that cannot be read leaves
\* nothing of it.
Collect(date) ==
  /\ accepted # NotSet
  /\ journal' = [calendar |-> journal.calendar \cup
                   IF ScanFails(calendar, date) THEN {} ELSE ScanIcs(calendar, date),
                 git |-> journal.git \cup ScanGit(date)]
  /\ IF ScanFails(calendar, date)
     THEN failed' = failed \cup {date} /\ UNCHANGED fresh
     ELSE fresh' = fresh \cup {date} /\ UNCHANGED failed
  /\ UNCHANGED <<calendar, commits, accepted, edits>>

Next == Setup \/ EditEvent \/ CutFile \/ Commit \/ \E date \in Dates : Collect(date)

Spec == Init /\ [][Next]_vars

-----------------------------------------------------------------------------
(* The properties.                                                         *)

\* Types, and that rows were only made of an accepted calendar.
TypeOK ==
  /\ calendar.cut \in BOOLEAN /\ Cardinality(calendar.events) <= Cardinality(Events)
  /\ commits \subseteq Commits /\ edits \in 0..MaxEdits
  /\ fresh \cup failed \subseteq Dates /\ fresh \cap failed = {}
  /\ journal.calendar # {} => accepted # NotSet
  /\ \A r \in journal.calendar :
       r.interval # NotSet => r.interval[1] < r.interval[2]

\* What RFC 5545 says of a daily rule, counted from its first occurrence.
RuleDates(e) ==
  IF ~Daily(e) THEN {FirstDate(e)}
  ELSE {date \in Dates : \E k \in 0..(date - FirstDate(e)) :
          /\ date = FirstDate(e) + k * e.rule.interval
          /\ e.rule.count # NotSet => k \in 0..(e.rule.count - 1)
          /\ OccurrenceLocal(e, date) \notin e.exdates
          /\ e.rule.until # NotSet =>
               \A i \in KnownInstant(e.zone, OccurrenceLocal(e, date)) : i <= e.rule.until}

\* The local time an instant has in the event's zone.
Shows(e, instant) == IF e.zone = "UTC" THEN instant ELSE Wall(Zone, instant)

\* Of the versions of an occurrence the newest is live, and version 0 beside it
\* once there is a version 1, which supersedes none (collectors.rs:698).
LiveVersions(rows) ==
  {r \in rows : \/ \A s \in rows : s.sequence <= r.sequence
                \/ r.sequence = 0 /\ \E s \in rows : s.sequence = 1}

\* A date collected since its sources changed has them in the journal as they
\* are: a row of the event's current version exactly when the rule has an
\* occurrence on that date, at the clock times of the event; of all versions
\* collected for the date the newest is live and no other but a version 0 that
\* was followed by version 1 (an event that was moved off the date has its last
\* version there live for good); and every commit made on that date, filed
\* under it if it was authored on it.
CollectedIsCurrent ==
  /\ \A date \in fresh, e \in calendar.events :
       LET rows == {r \in journal.calendar : r.occurrence = Occurrence(e, date)}
           now == {r \in rows : r.sequence = e.sequence}
       IN  /\ now # {} <=> date \in RuleDates(e)
           /\ \A r \in now : r.interval # NotSet =>
                /\ Shows(e, r.interval[1]) = OccurrenceLocal(e, date)
                /\ ClockOf(Shows(e, r.interval[2])) = ClockOf(e.end)
           /\ rows \cap Live(journal.calendar) = LiveVersions(rows)
           /\ \A r \in rows : r.sequence <= e.sequence
  /\ \A date \in fresh \cup failed, c \in commits :
       /\ DateOf(Wall(Zone, c.committed)) = date
       /\ Cardinality(commits) <= CommitLimit
       => CommitRow(c) \in journal.git

=============================================================================
