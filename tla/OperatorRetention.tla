------------------------- MODULE OperatorRetention -------------------------
(***************************************************************************)
(* What retention and purge may forget: the ledger, the coordinated runs   *)
(* and their phases, the proposals and the run files of each date, beside  *)
(* the commands that write them.  A date has one proposal here and so one  *)
(* operation; a command that finds the state lock taken ends, and reports  *)
(* share it among themselves only, so nothing runs beside a command.       *)
(***************************************************************************)
EXTENDS Integers, Sequences

CONSTANTS
  LocalDates,       \* the dates that are tracked
  PhaseNames,       \* the phases of a run in their order, "submitting" among them
  LastDay,          \* bound: the last day on which anything happens
  NormalizedDays,   \* DRAG_TRACKING_RETENTION_NORMALIZED_DAYS
  ReportDays        \* DRAG_TRACKING_RETENTION_REPORT_LEDGER_DAYS

VARIABLES
  operation,     \* mutation_operations
  held,          \* daily_bundles and proposals
  run, phases,   \* coordinated_runs and run_phases
  runFile,       \* runs/DATE.json
  sentinel,      \* .drag-companion-owned
  today,
  command,       \* the command that holds the state lock
  flying,        \* requests of `drag log` that Tempo has not answered
  worklogs       \* Tempo's worklogs of the operation of each date

tables == <<operation, held, run, phases>>
remote == <<flying, worklogs>>
vars == <<tables, runFile, sentinel, today, command, remote>>

Phases == {PhaseNames[i] : i \in DOMAIN PhaseNames}
NoPhases == [p \in Phases |-> "none"]

Open == {"submitting", "uncertain"}
Closed == {"confirmed", "failed"}

Idle == [kind |-> "none", step |-> "none"]

\* The user has acknowledged that the ledger is lost: nothing is promised after that.
Lost == [kind |-> "lost", step |-> "none"]

Init ==
  /\ operation = [d \in LocalDates |-> "none"]
  /\ held = [d \in LocalDates |-> "none"]
  /\ run = [d \in LocalDates |-> "none"]
  /\ phases = [d \in LocalDates |-> NoPhases]
  /\ runFile = [d \in LocalDates |-> "none"]
  /\ sentinel = FALSE
  /\ today = 0
  /\ command = Idle
  /\ flying = [d \in LocalDates |-> 0]
  /\ worklogs = [d \in LocalDates |-> 0]

-----------------------------------------------------------------------------
At(kind, step) == command.kind = kind /\ command.step = step
Goto(step) == command' = [command EXCEPT !.step = step]

\* A tracking run remembers its date, whether it may submit, whether it found a
\* run file, and the status it will write: "uncertain" protects the file, any other
\* is "settled".
Running(step) == At("run", step)
Report(status, step) == command' = [command EXCEPT !.status = status, !.step = step]

RunTracking(d, allowed) ==
  /\ command = Idle
  /\ command' = [kind |-> "run", step |-> "audit", date |-> d, allowed |-> allowed,
                 resumed |-> runFile[d] # "none", status |-> "settled"]
  /\ UNCHANGED <<tables, runFile, sentinel, today, remote>>

\* The provider and the audit: what they leave of the date's proposals.  Here the
\* run may also fail, or lack a source or a provider.
Decisions(d) ==
  CASE held[d] = "none" -> {"none", "bundle", "approved", "rejected"}
    [] held[d] = "bundle" -> {"bundle", "approved", "rejected"}
    [] OTHER -> {"approved", "rejected"}

Audit ==
  /\ Running("audit")
  /\ \E decision \in Decisions(command.date) :
       held' = [held EXCEPT ![command.date] = decision]
  /\ Goto("store") \/ Goto("write")
  /\ UNCHANGED <<operation, run, phases, runFile, sentinel, today, remote>>

-----------------------------------------------------------------------------
(* enforce_retention, alone and twice in a run: the store in a transaction, *)
(* then the run files.                                                      *)

Retain ==
  /\ command = Idle
  /\ command' = [kind |-> "retain", step |-> "store"]
  /\ UNCHANGED <<tables, runFile, sentinel, today, remote>>

\* protected_retention_dates
Protected(d) ==
  \/ held[d] \in {"bundle", "proposed", "approved"}
  \/ operation[d] \in Open
  \/ run[d] = "running"
  \/ \E p \in Phases : phases[d][p] = "running"

Older(d, days) == d < today - days

\* Deviation: the ledger expires by its date alone.
ExpiredByDate(d) == IF Older(d, ReportDays) THEN "none" ELSE operation[d]

\* Only an operation whose outcome is known expires.
KeptOperation(d) ==
  IF Older(d, ReportDays) /\ operation[d] \in Closed THEN "none" ELSE operation[d]

\* delete_normalized_date
KeptProposal(d) ==
  IF Older(d, NormalizedDays) /\ ~Protected(d) THEN "none" ELSE held[d]

KeptRun(d) ==
  IF Older(d, ReportDays) /\ run[d] = "completed" THEN "none" ELSE run[d]

KeptPhases(d) ==
  [p \in Phases |->
     IF Older(d, ReportDays) /\ phases[d][p] = "completed" THEN "none" ELSE phases[d][p]]

AfterFiles == IF command.kind = "run" /\ command.step = "files" THEN "lease" ELSE "write"

CompactStore ==
  /\ command.kind \in {"run", "retain"} /\ command.step \in {"store", "last store"}
  /\ operation' = [d \in LocalDates |-> KeptOperation(d)]
  /\ held' = [d \in LocalDates |-> KeptProposal(d)]
  /\ run' = [d \in LocalDates |-> KeptRun(d)]
  /\ phases' = [d \in LocalDates |-> KeptPhases(d)]
  /\ Goto(IF command.step = "store" THEN "files" ELSE "last files")
  /\ UNCHANGED <<runFile, sentinel, today, remote>>

\* run_file_is_protected
RunFileProtected(d) == runFile[d] = "uncertain"

CompactRunFiles ==
  /\ command.kind \in {"run", "retain"} /\ command.step \in {"files", "last files"}
  /\ runFile' = [d \in LocalDates |->
       IF Older(d, ReportDays) /\ ~RunFileProtected(d) THEN "none" ELSE runFile[d]]
  /\ IF command.kind = "retain" THEN command' = Idle ELSE Goto(AfterFiles)
  /\ UNCHANGED <<tables, sentinel, today, remote>>

-----------------------------------------------------------------------------
(* coordinated_run_with_submission                                         *)

\* reconcile_complete_day_and_ledger: what is in doubt and in the day is confirmed.
Reconciled(d) ==
  IF operation[d] \in Open /\ worklogs[d] > 0 THEN "confirmed" ELSE operation[d]

\* terminal_run_status and acquire_sqlite_lease
Lease ==
  /\ Running("lease")
  /\ LET d == command.date
     IN  /\ operation' = [operation EXCEPT ![d] = IF command.resumed THEN Reconciled(d) ELSE @]
         /\ run' = [run EXCEPT ![d] = IF @ = "none" THEN "running" ELSE @]
         /\ Goto(IF run[d] = "completed" THEN "execute" ELSE "phases")
  /\ sentinel' = TRUE
  /\ UNCHANGED <<held, phases, runFile, today, remote>>

\* The phases of this run that are not recorded as completed, in their order.
Pending ==
  SelectSeq(PhaseNames, LAMBDA p : /\ p = "submitting" => command.allowed
                                   /\ phases[command.date][p] # "completed")

\* persist_phase_start leaves the row of an interrupted phase as it is.
StartPhase ==
  /\ Running("phases") /\ Pending # <<>>
  /\ phases[command.date][Head(Pending)] = "none"
  /\ phases' = [phases EXCEPT ![command.date][Head(Pending)] = "running"]
  /\ UNCHANGED <<operation, held, run, runFile, sentinel, today, command, remote>>

FinishPhase ==
  /\ Running("phases") /\ Pending # <<>>
  /\ phases[command.date][Head(Pending)] = "running"
  /\ phases' = [phases EXCEPT ![command.date][Head(Pending)] = "completed"]
  /\ UNCHANGED <<operation, held, run, runFile, sentinel, today, command, remote>>

FinishRun ==
  /\ Running("phases") /\ Pending = <<>>
  /\ run' = [run EXCEPT ![command.date] = "completed"]
  /\ Goto("terminal")
  /\ UNCHANGED <<operation, held, phases, runFile, sentinel, today, remote>>

\* persist_result
PersistTerminal ==
  /\ Running("terminal")
  /\ runFile' = [runFile EXCEPT ![command.date] = "settled"]
  /\ Goto("execute")
  /\ UNCHANGED <<tables, sentinel, today, remote>>

-----------------------------------------------------------------------------
(* The execution, in a run or by `internal execute`: that one reconciles,   *)
(* unless a gate ends it before.                                           *)

Execute(d) ==
  /\ command = Idle
  /\ operation' = [operation EXCEPT ![d] = Reconciled(d)] \/ UNCHANGED operation
  /\ command' = [kind |-> "execute", step |-> "execute", date |-> d, allowed |-> TRUE,
                 resumed |-> FALSE, status |-> "settled"]
  /\ UNCHANGED <<held, run, phases, runFile, sentinel, today, remote>>

Executing(step) == command.kind \in {"run", "execute"} /\ command.step = step

\* How an execution ends: a run goes on to its second retention.
Executed(status) ==
  IF command.kind = "run" THEN Report(status, "last store") ELSE command' = Idle

\* Draft, a closed gate, an operation in doubt.
Gated ==
  /\ Executing("execute")
  /\ Executed(command.status)
  /\ UNCHANGED <<tables, runFile, sentinel, today, remote>>

\* Nothing is approved, or the ledger knows it.
Skip ==
  /\ Executing("execute") /\ command.allowed
  /\ operation[command.date] \in Closed \/ held[command.date] # "approved"
  /\ operation[command.date] \notin Open
  /\ Executed(command.status)
  /\ UNCHANGED <<tables, runFile, sentinel, today, remote>>

Submittable(d) ==
  /\ Executing("execute") /\ command.allowed
  /\ held[d] = "approved" /\ operation[d] = "none"

\* The day is read again: what is there already is recorded as confirmed.
Adopt ==
  LET d == command.date
  IN  /\ Executing("execute") /\ Submittable(d)
      /\ worklogs[d] > 0
      /\ operation' = [operation EXCEPT ![d] = "confirmed"]
      /\ Executed(command.status)
      /\ UNCHANGED <<held, run, phases, runFile, sentinel, today, remote>>

\* The intent is durable before the child starts.
Submit ==
  LET d == command.date
  IN  /\ Executing("execute") /\ Submittable(d)
      /\ worklogs[d] = 0
      /\ operation' = [operation EXCEPT ![d] = "submitting"]
      /\ flying' = [flying EXCEPT ![d] = @ + 1]
      /\ Goto("answer")
      /\ UNCHANGED <<held, run, phases, runFile, sentinel, today, worklogs>>

Answered ==
  LET d == command.date
  IN  /\ Executing("answer")
      /\ flying[d] = 0 /\ worklogs[d] > 0
      /\ operation' = [operation EXCEPT ![d] = "confirmed"]
      /\ Executed(command.status)
      /\ UNCHANGED <<held, run, phases, runFile, sentinel, today, remote>>

Unanswered ==
  /\ Executing("answer")
  /\ operation' = [operation EXCEPT ![command.date] = "uncertain"]
  /\ Executed("uncertain")
  /\ UNCHANGED <<held, run, phases, runFile, sentinel, today, remote>>

\* The child posted nothing; the run errs and skips its second retention.
Refused ==
  LET d == command.date
  IN  /\ Executing("answer")
      /\ flying[d] > 0
      /\ flying' = [flying EXCEPT ![d] = @ - 1]
      /\ operation' = [operation EXCEPT ![d] = "failed"]
      /\ IF command.kind = "run" THEN Goto("write") ELSE command' = Idle
      /\ UNCHANGED <<held, run, phases, runFile, sentinel, today, worklogs>>

\* persist_tracking_run
WriteRunFile ==
  /\ command.kind = "run" /\ command.step = "write"
  /\ runFile' = [runFile EXCEPT ![command.date] = command.status]
  /\ command' = Idle
  /\ UNCHANGED <<tables, sentinel, today, remote>>

-----------------------------------------------------------------------------
(* Reports, which share the lock, and purges, only where the sentinel is.   *)

\* tracking status
Status ==
  /\ command = Idle
  /\ ~sentinel
  /\ sentinel' = TRUE
  /\ UNCHANGED <<tables, runFile, today, command, remote>>

\* heal_terminal_run_file
Heal(d) ==
  /\ command = Idle
  /\ runFile[d] = "none" /\ run[d] = "completed"
  /\ runFile' = [runFile EXCEPT ![d] = "settled"]
  /\ UNCHANGED <<tables, sentinel, today, command, remote>>

Purge(kind) ==
  /\ command = Idle
  /\ sentinel
  /\ command' = [kind |-> kind, step |-> IF kind = "purge" THEN "tables" ELSE "files"]
  /\ UNCHANGED <<tables, runFile, sentinel, today, remote>>

\* Deviation: an ordinary purge empties the ledger too.
NoOperation == [d \in LocalDates |-> "none"]

\* The ledger that an ordinary purge leaves.
LedgerKept == operation

PurgeTables ==
  /\ At("purge", "tables")
  /\ operation' = LedgerKept
  /\ held' = [d \in LocalDates |-> "none"]
  /\ run' = [d \in LocalDates |-> "none"]
  /\ phases' = [d \in LocalDates |-> NoPhases]
  /\ Goto("files")
  /\ UNCHANGED <<runFile, sentinel, today, remote>>

\* purge_allowlisted_paths
PurgeFiles ==
  /\ command.kind \in {"purge", "forget"} /\ command.step = "files"
  /\ runFile' = [d \in LocalDates |-> "none"]
  /\ IF command.kind = "purge" THEN command' = Idle ELSE Goto("database")
  /\ UNCHANGED <<tables, sentinel, today, remote>>

PurgeDatabase ==
  /\ At("forget", "database")
  /\ operation' = [d \in LocalDates |-> "none"]
  /\ held' = [d \in LocalDates |-> "none"]
  /\ run' = [d \in LocalDates |-> "none"]
  /\ phases' = [d \in LocalDates |-> NoPhases]
  /\ sentinel' = FALSE
  /\ command' = Lost
  /\ UNCHANGED <<runFile, today, remote>>

-----------------------------------------------------------------------------
(* The environment.                                                        *)

Crash ==
  /\ command \notin {Idle, Lost}
  /\ command' = Idle
  /\ UNCHANGED <<tables, runFile, sentinel, today, remote>>

NextDay ==
  /\ today < LastDay
  /\ today' = today + 1
  /\ UNCHANGED <<tables, runFile, sentinel, command, remote>>

\* A request arrives at any later time, or never.
Arrive(d) ==
  /\ flying[d] > 0
  /\ flying' = [flying EXCEPT ![d] = @ - 1]
  /\ worklogs' \in {worklogs, [worklogs EXCEPT ![d] = @ + 1]}
  /\ UNCHANGED <<tables, runFile, sentinel, today, command>>

Next ==
  \/ \E d \in LocalDates :
       \/ \E allowed \in BOOLEAN : RunTracking(d, allowed)
       \/ Execute(d) \/ Heal(d) \/ Arrive(d)
  \/ Audit \/ Retain \/ CompactStore \/ CompactRunFiles
  \/ Lease \/ StartPhase \/ FinishPhase \/ FinishRun \/ PersistTerminal
  \/ Gated \/ Skip \/ Adopt \/ Submit \/ Answered \/ Unanswered \/ Refused \/ WriteRunFile
  \/ Status \/ \E kind \in {"purge", "forget"} : Purge(kind)
  \/ PurgeTables \/ PurgeFiles \/ PurgeDatabase
  \/ Crash \/ NextDay

Spec == Init /\ [][Next]_vars

-----------------------------------------------------------------------------
Steps ==
  {"none", "audit", "store", "files", "lease", "phases", "terminal", "execute", "answer",
   "last store", "last files", "write", "tables", "database"}

\* The type invariant of all of the state.
TypeOK ==
  /\ operation \in [LocalDates -> {"none"} \cup Open \cup Closed]
  /\ held \in [LocalDates -> {"none", "bundle", "proposed", "approved", "rejected"}]
  /\ run \in [LocalDates -> {"none", "running", "completed"}]
  /\ phases \in [LocalDates -> [Phases -> {"none", "running", "completed"}]]
  /\ runFile \in [LocalDates -> {"none", "settled", "uncertain"}]
  /\ sentinel \in BOOLEAN
  /\ command \in
       {Idle, Lost} \cup [kind : {"retain", "purge", "forget"}, step : Steps]
       \cup [kind : {"run", "execute"}, step : Steps, date : LocalDates, allowed : BOOLEAN,
             resumed : BOOLEAN, status : {"settled", "uncertain"}]
  /\ flying \in [LocalDates -> Nat]
  /\ worklogs \in [LocalDates -> Nat]

\* A request that has not been answered is remembered as in doubt.
DoubtRemembered(d) == flying[d] > 0 /\ command # Lost => operation[d] \in Open

\* The inductive invariant: a date has one request or worklog at most, and what is
\* under way is in the ledger.
Inv ==
  /\ TypeOK
  /\ \A d \in LocalDates : flying[d] + worklogs[d] <= 1 /\ DoubtRemembered(d)

\* Retention and an ordinary purge forget nothing that keeps a proposal from being
\* submitted again: whatever is interrupted, expires, is purged or arrives late, Tempo
\* gets its worklog once (operator_retention.rs, compact_store and purge_state).
OneWorklogPerOperation == \A d \in LocalDates : worklogs[d] <= 1

=============================================================================
