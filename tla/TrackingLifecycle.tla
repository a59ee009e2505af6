-------------------------- MODULE TrackingLifecycle --------------------------
(***************************************************************************)
(* Automatic tracking from setup to uninstall, and the scheduled runs in   *)
(* between: config.json, scheduler.json, the unit files of the host        *)
(* scheduler and the timer it keeps are written one after another, and a   *)
(* command may fail or be interrupted between any two of these writes.     *)
(*                                                                         *)
(* Every command here takes the exclusive state lock, so one runs at a     *)
(* time; a timer that fires meanwhile is turned away and changes nothing.  *)
(***************************************************************************)
EXTENDS Integers, Sequences

CONSTANTS
    FirstDate,     \* the date on which the history begins
    LastDate,      \* bound: the last date on which anything happens
    Workdays,      \* the dates that are weekdays
    CatchUpDays,   \* how far catch-up looks back: 7 in the code
    Targets,       \* directories setup may be given for the unit files
    HostTarget,    \* the one the host scheduler reads
    Disputed       \* pairs of a directory and a unit the user may put a file at

Dates == 1 .. LastDate
NoDate == 0
NoTarget == "none"

\* The unit files in the order they are written and removed.
Units == <<"service", "timer", "catchUp">>
UnitNames == {Units[i] : i \in DOMAIN Units}
FileStates == {"absent", "owned", "foreign"}

Ops == {"none", "setup", "update", "resume", "pause", "uninstall", "run"}
Labels == {"idle", "preflight", "write", "replace", "host", "record", "setupFinish",
           "toggleHost", "toggleRecord", "toggleSave", "dropHost", "drop", "remove",
           "dropRecord", "dropSave", "running", "success"}

ASSUME DatesAssumption == LastDate \in Nat /\ FirstDate \in Dates
ASSUME WorkdaysAssumption == Workdays \subseteq Dates
ASSUME CatchUpAssumption == CatchUpDays \in Nat
ASSUME TargetsAssumption == HostTarget \in Targets /\ NoTarget \notin Targets
ASSUME DisputedAssumption == Disputed \subseteq Targets \X UnitNames

VARIABLES
    cfg,        \* config.json
    sch,        \* scheduler.json
    units,      \* the unit files of each directory
    timerOn,    \* the host scheduler has the units enabled
    today,
    pc, job,    \* the command that holds the state lock, and its local state
    completed,  \* history: dates of which a scheduled run has completed
    stopped,    \* history: paused or uninstalled, and not resumed since
    crashed     \* history: a command has been interrupted, or an operation on a file failed

files == <<cfg, sch, units, timerOn>>
history == <<completed, stopped, crashed>>
vars == <<files, today, pc, job, history>>

\* "late" is history: the user has put a file of his own in the place of the unit in
\* hand after the command had checked that unit.
NoJob == [op |-> "none", target |-> NoTarget, unit |-> 1, mutated |-> FALSE, date |-> NoDate,
          late |-> FALSE]

\* TrackingConfig::default, and a directory without scheduler.json.
Init ==
    /\ cfg = [exists |-> FALSE, installed |-> FALSE, active |-> FALSE, target |-> NoTarget]
    /\ sch = [exists |-> FALSE, enabled |-> FALSE, files |-> NoTarget, keys |-> {},
              succeeded |-> {}, last |-> NoDate]
    /\ units = [t \in Targets |-> [u \in UnitNames |-> "absent"]]
    /\ timerOn = FALSE
    /\ today = FirstDate
    /\ pc = "idle"
    /\ job = NoJob
    /\ completed = {}
    /\ stopped = FALSE
    /\ crashed = FALSE

-----------------------------------------------------------------------------
\* The command ends, with or without an error.
End == pc' = "idle" /\ job' = NoJob

Begin(label, op, t) == pc' = label /\ job' = [NoJob EXCEPT !.op = op, !.target = t]

Goto(label) == pc' = label /\ UNCHANGED job

\* A unit file that is not there, or that carries the managed-by marker.
MayWrite(t, u) == units[t][u] # "foreign"

\* validate_owned_scheduler_files
OwnedAt(t) == \A u \in UnitNames : units[t][u] = "owned"

\* The file in the place of the unit in hand.
UnitInHand == units[job.target][Units[job.unit]]

PutUnit(s) == units' = [units EXCEPT ![job.target][Units[job.unit]] = s]

\* Back to the head of a loop for the next unit, or on to the label after it.
NextUnit(head, label) ==
    IF job.unit < Len(Units)
    THEN job' = [job EXCEPT !.unit = @ + 1, !.late = FALSE] /\ pc' = head
    ELSE job' = [job EXCEPT !.unit = 1, !.late = FALSE] /\ pc' = label

\* mutate_host_scheduler: nothing for another directory; systemctl else, which
\* refuses units it cannot find and may refuse for reasons of its own.
MutateHost(t, b, label) ==
    \/ /\ t # HostTarget
       /\ pc' = label
       /\ job' = [job EXCEPT !.mutated = FALSE]
       /\ UNCHANGED timerOn
    \/ /\ t = HostTarget
       /\ units[t]["timer"] # "absent" /\ units[t]["catchUp"] # "absent"
       /\ pc' = label
       /\ job' = [job EXCEPT !.mutated = TRUE]
       /\ timerOn' = b
    \/ t = HostTarget /\ End /\ UNCHANGED timerOn

-----------------------------------------------------------------------------
(* Setup and the update of the schedule: both install the scheduler files.  *)

\* setup_tracking: the configuration is saved as not installed first.
Setup(t) ==
    /\ pc = "idle"
    /\ cfg' = [exists |-> TRUE, installed |-> FALSE, active |-> FALSE,
               target |-> IF t = NoTarget THEN cfg.target ELSE t]
    /\ Begin(IF t = NoTarget THEN "setupFinish" ELSE "preflight", "setup", t)
    /\ UNCHANGED <<sch, units, timerOn, today, history>>

\* update_schedule
Update ==
    /\ pc = "idle"
    /\ cfg.installed
    /\ cfg.target # NoTarget
    /\ Begin("preflight", "update", cfg.target)
    /\ UNCHANGED <<files, today, history>>

\* preflight_scheduler_destinations: nothing is written if one file is foreign.  Its
\* reads are one step: a file put at a unit after its turn is one put after them all.
Preflight ==
    /\ pc = "preflight"
    /\ IF \A u \in UnitNames : MayWrite(job.target, u) THEN Goto("write") ELSE End
    /\ UNCHANGED <<files, today, history>>

\* Deviation: the preflight is trusted.
TrustPreflight ==
    /\ pc = "write"
    /\ Goto("replace")
    /\ UNCHANGED <<files, today, history>>

\* write_owned_file looks at the file that is there ...
CheckUnit ==
    /\ pc = "write"
    /\ IF MayWrite(job.target, Units[job.unit]) THEN Goto("replace") ELSE End
    /\ UNCHANGED <<files, today, history>>

\* ... and renames the new one over whatever is there by then.
ReplaceUnit ==
    /\ pc = "replace"
    /\ PutUnit("owned")
    /\ NextUnit("write", "host")
    /\ UNCHANGED <<cfg, sch, timerOn, today, history>>

\* Deviation: an installation always enables.
AlwaysEnabled == TRUE

\* An earlier pause, or an earlier uninstall, survives an installation.
DesiredEnabled == sch.exists => sch.enabled

\* Every file is read for its hash first: one that is gone ends the command.
InstallHost ==
    /\ pc = "host"
    /\ IF \A u \in UnitNames : units[job.target][u] # "absent"
       THEN MutateHost(job.target, DesiredEnabled, "record")
       ELSE End /\ UNCHANGED timerOn
    /\ UNCHANGED <<cfg, sch, units, today, history>>

\* Deviation: files the host scheduler does not read count as enabled.
EnabledAnywhere(b, t) == [sch EXCEPT !.exists = TRUE, !.enabled = DesiredEnabled, !.files = t]

\* The fields that an installation writes; the others are kept.
InstalledState(b, t) == [sch EXCEPT !.exists = TRUE, !.enabled = b, !.files = t]

InstallRecord ==
    /\ pc = "record"
    /\ sch' = InstalledState(DesiredEnabled /\ job.mutated, job.target)
    /\ IF job.op = "setup" THEN Goto("setupFinish") ELSE End
    /\ UNCHANGED <<cfg, units, timerOn, today, history>>

SetupFinish ==
    /\ pc = "setupFinish"
    /\ cfg' = [cfg EXCEPT !.installed = TRUE, !.active = cfg.target # NoTarget /\ sch.enabled]
    /\ End
    /\ UNCHANGED <<sch, units, timerOn, today, history>>

\* The hooks cannot be installed or removed, or the sources are not valid any more.
LastStepFails ==
    /\ pc \in {"setupFinish", "dropSave"}
    /\ End
    /\ UNCHANGED <<files, today, history>>

-----------------------------------------------------------------------------
(* set_tracking_active and set_scheduler_enabled_state.                    *)

Toggle(op) ==
    /\ pc = "idle"
    /\ cfg.installed
    /\ op = "resume" => cfg.target # NoTarget
    /\ Begin(IF cfg.target = NoTarget THEN "toggleSave" ELSE "toggleHost", op, cfg.target)
    /\ UNCHANGED <<files, today, history>>

\* The validation and the host's part are one step: the host does not look at the marker,
\* and a unit that goes missing in between is one of the reasons it may refuse for.
ToggleHost ==
    /\ pc = "toggleHost"
    /\ IF sch.files = NoTarget
       THEN Goto("toggleRecord") /\ UNCHANGED timerOn
       ELSE IF OwnedAt(sch.files)
            THEN MutateHost(sch.files, job.op = "resume", "toggleRecord")
            ELSE End /\ UNCHANGED timerOn
    /\ UNCHANGED <<cfg, sch, units, today, history>>

ToggleRecord ==
    /\ pc = "toggleRecord"
    /\ LET b == job.op = "resume" /\ (sch.files = NoTarget \/ job.mutated)
       IN  /\ sch' = [sch EXCEPT !.exists = TRUE, !.enabled = b]
           /\ stopped' = IF job.op = "pause" THEN TRUE ELSE stopped /\ ~b
    /\ Goto("toggleSave")
    /\ UNCHANGED <<cfg, units, timerOn, today, completed, crashed>>

\* A resumption that the host did not carry out is an error.
ToggleSave ==
    /\ pc = "toggleSave"
    /\ cfg' = IF job.op = "resume" /\ ~job.mutated
              THEN cfg ELSE [cfg EXCEPT !.active = job.op = "resume"]
    /\ End
    /\ UNCHANGED <<sch, units, timerOn, today, history>>

-----------------------------------------------------------------------------
(* uninstall_tracking and uninstall_scheduler_files.                       *)

Uninstall ==
    /\ pc = "idle"
    /\ cfg.exists
    /\ Begin(IF cfg.target = NoTarget THEN "dropSave" ELSE "dropHost", "uninstall", cfg.target)
    /\ UNCHANGED <<files, today, history>>

DropHost ==
    /\ pc = "dropHost"
    /\ MutateHost(job.target, FALSE, "drop")
    /\ UNCHANGED <<cfg, sch, units, today, history>>

\* A file without the marker is left alone ...
CheckDrop ==
    /\ pc = "drop"
    /\ IF UnitInHand = "owned" THEN Goto("remove") ELSE NextUnit("drop", "dropRecord")
    /\ UNCHANGED <<files, today, history>>

\* ... and whatever is in the place of one that had it is removed.  A file that is gone
\* by then is an operation that fails, see Crash.
RemoveUnit ==
    /\ pc = "remove"
    /\ UnitInHand # "absent"
    /\ PutUnit("absent")
    /\ NextUnit("drop", "dropRecord")
    /\ UNCHANGED <<cfg, sch, timerOn, today, history>>

\* Only the operation keys are carried over.
DropRecord ==
    /\ pc = "dropRecord"
    /\ sch' = [exists |-> TRUE, enabled |-> FALSE, files |-> NoTarget, keys |-> sch.keys,
               succeeded |-> {}, last |-> NoDate]
    /\ stopped' = TRUE
    /\ Goto("dropSave")
    /\ UNCHANGED <<cfg, units, timerOn, today, completed, crashed>>

DropSave ==
    /\ pc = "dropSave"
    /\ cfg' = [cfg EXCEPT !.installed = FALSE, !.active = FALSE, !.target = NoTarget]
    /\ End
    /\ UNCHANGED <<sch, units, timerOn, today, history>>

-----------------------------------------------------------------------------
(* scheduler_run_date and scheduler_catch_up, started by the host.         *)

\* The scheduled units are live.
HostStarts == pc = "idle" /\ timerOn

\* scheduler_run_date up to the run: the operation key is durable before it.  A
\* trigger that is turned away, also by a kill switch, writes nothing: no step.
RunDate(d) ==
    /\ sch.enabled
    /\ d \notin sch.keys \cap sch.succeeded
    /\ sch' = [sch EXCEPT !.keys = @ \cup {d}]
    /\ pc' = "running"
    /\ job' = [NoJob EXCEPT !.op = "run", !.date = d]

TimerFires ==
    /\ HostStarts
    /\ RunDate(today)
    /\ UNCHANGED <<cfg, units, timerOn, today, history>>

\* Deviation: the last day of the window is left out.
MissedInside(last) == {d \in Workdays : d < today /\ d > today - CatchUpDays /\ d > last}

\* latest_eligible_missed_workday: the candidates of the loop ...
Missed(last) == {d \in Workdays : d < today /\ d >= today - CatchUpDays /\ d > last}

\* ... the first of which, counted back from yesterday, is selected.
Selected == {d \in Missed(sch.last) : \A e \in Missed(sch.last) : e <= d}

CatchUp ==
    /\ HostStarts
    /\ \E d \in Selected : RunDate(d)
    /\ UNCHANGED <<cfg, units, timerOn, today, history>>

\* Deviation: a run is a success however it ends.
EveryRunSucceeds ==
    /\ pc = "running"
    /\ Goto("success")
    /\ UNCHANGED <<files, today, history>>

RunCompletes ==
    /\ pc = "running"
    /\ completed' = completed \cup {job.date}
    /\ Goto("success")
    /\ UNCHANGED <<files, today, stopped, crashed>>

\* The run errs, or reports a status other than completed.
RunFails ==
    /\ pc = "running"
    /\ End
    /\ UNCHANGED <<files, today, history>>

\* Deviation: the date of the last success is not recorded.
SucceededKeyOnly(d) == [sch EXCEPT !.succeeded = @ \cup {d}]

Succeeded(d) == [sch EXCEPT !.succeeded = @ \cup {d}, !.last = d]

RecordSuccess ==
    /\ pc = "success"
    /\ sch' = Succeeded(job.date)
    /\ End
    /\ UNCHANGED <<cfg, units, timerOn, today, history>>

-----------------------------------------------------------------------------
(* The environment.                                                        *)

\* A command is interrupted, or an operation on a file fails.
Crash ==
    /\ pc # "idle"
    /\ End
    /\ crashed' = TRUE
    /\ UNCHANGED <<files, today, completed, stopped>>

NextDay ==
    /\ today < LastDate
    /\ today' = today + 1
    /\ UNCHANGED <<files, pc, job, history>>

\* The unit has been checked and is about to be replaced or removed.
InHand(t, u) == pc \in {"replace", "remove"} /\ t = job.target /\ u = Units[job.unit]

\* The user puts a file of his own in a unit's place, or takes it away.
UserFile(t, u, s) ==
    /\ units[t][u] # s
    /\ units' = [units EXCEPT ![t][u] = s]
    /\ job' = IF InHand(t, u) THEN [job EXCEPT !.late = s = "foreign"] ELSE job
    /\ UNCHANGED <<cfg, sch, timerOn, today, pc, history>>

Command ==
    \/ \E t \in Targets \cup {NoTarget} : Setup(t)
    \/ Update \/ Preflight \/ CheckUnit \/ ReplaceUnit \/ InstallHost \/ InstallRecord
    \/ SetupFinish \/ LastStepFails
    \/ \E op \in {"resume", "pause"} : Toggle(op)
    \/ ToggleHost \/ ToggleRecord \/ ToggleSave
    \/ Uninstall \/ DropHost \/ CheckDrop \/ RemoveUnit \/ DropRecord \/ DropSave
    \/ TimerFires \/ CatchUp \/ RunCompletes \/ RunFails \/ RecordSuccess

UserFiles == \E d \in Disputed : \E s \in {"absent", "foreign"} : UserFile(d[1], d[2], s)

Next == Command \/ Crash \/ NextDay \/ UserFiles

Spec == Init /\ [][Next]_vars

-----------------------------------------------------------------------------
(* Properties.                                                             *)

\* The type invariant of all of the state.
TypeOK ==
    /\ cfg \in [exists : BOOLEAN, installed : BOOLEAN, active : BOOLEAN,
                target : Targets \cup {NoTarget}]
    /\ sch \in [exists : BOOLEAN, enabled : BOOLEAN, files : Targets \cup {NoTarget},
                keys : SUBSET Dates, succeeded : SUBSET Dates, last : Dates \cup {NoDate}]
    /\ units \in [Targets -> [UnitNames -> FileStates]]
    /\ timerOn \in BOOLEAN
    /\ today \in Dates
    /\ pc \in Labels
    /\ job \in [op : Ops, target : Targets \cup {NoTarget}, unit : DOMAIN Units,
                mutated : BOOLEAN, date : Dates \cup {NoDate}, late : BOOLEAN]
    /\ completed \in SUBSET Dates
    /\ stopped \in BOOLEAN
    /\ crashed \in BOOLEAN

\* A paused or uninstalled tracking stays so, whatever is set up, retargeted,
\* updated, refused or interrupted afterwards, until a resumption succeeds.
StoppedUntilResumed == stopped => ~sch.enabled

\* Catch-up selects the last weekday before today, if it is at most CatchUpDays old and
\* neither it nor a later date is recorded as successful, and no other date: an earlier
\* miss is not made up for.  A date is recorded only after a run of it has completed,
\* under a key of its own.
CatchUpSelectsMissed ==
    /\ sch.succeeded \subseteq completed \cap sch.keys
    /\ Selected = {d \in Workdays \cap (today - CatchUpDays .. today - 1) :
                      /\ Workdays \cap (d + 1 .. today - 1) = {}
                      /\ \A e \in sch.succeeded : e < d}

\* Only uninstalling forgets that a date has succeeded.
SuccessIsKept ==
    [][sch.succeeded \subseteq sch'.succeeded \/ job.op = "uninstall"]_vars

\* A file of the user's that is in a unit's place when a command looks there is touched
\* by the user only.  One that he puts there between the look at that very unit and its
\* replacement or removal is lost, although architecture.md:214 calls both commands
\* non-destructive: "late" is this window and nothing else.
ForeignUntouched ==
    [][\A t \in Targets, u \in UnitNames :
         units[t][u] = "foreign" /\ units'[t][u] # "foreign" =>
             UserFiles \/ (InHand(t, u) /\ job.late)]_vars

\* Between commands, installed unit files that the scheduler state calls enabled are
\* enabled at the host, unless a command was interrupted or could not remove a file.
EnabledIsScheduled ==
    pc = "idle" /\ ~crashed /\ sch.enabled /\ sch.files # NoTarget => timerOn

\* What the safety invariants rest on: the state that a stop has left, and the date a
\* scheduled run works on.
StopInv == stopped => sch.exists /\ ~sch.enabled

RunInv ==
    /\ pc \in {"running", "success"} =>
           job.date \in sch.keys /\ job.date >= sch.last /\ job.date <= today
    /\ pc = "success" => job.date \in completed
    /\ sch.last <= today
    /\ sch.last # NoDate => sch.last \in sch.succeeded
    /\ \A d \in sch.succeeded : d <= sch.last /\ d \in completed /\ d \in sch.keys

\* A unit in hand that is foreign has become so late.
LateInv ==
    pc \in {"replace", "remove"} /\ job.target \in Targets /\ ~job.late => UnitInHand # "foreign"

\* The inductive invariant of the lifecycle.
Inv == TypeOK /\ StopInv /\ RunInv /\ LateInv

=============================================================================
