----------------------- MODULE TrackingLifecycleProofs -----------------------
(***************************************************************************)
(* Proofs about TrackingLifecycle for every number of dates, every set of  *)
(* weekdays, every catch-up window and every set of directories.           *)
(***************************************************************************)
EXTENDS TrackingLifecycle, TLAPS

\* The units are the three names of the sequence.
LEMMA UnitFacts ==
  /\ Len(Units) = 3 /\ DOMAIN Units = 1 .. 3
  /\ UnitNames = {"service", "timer", "catchUp"}
  /\ \A i \in 1 .. 3 : Units[i] \in UnitNames
  <1>1. Len(Units) = 3 /\ DOMAIN Units = 1 .. 3
    BY DEF Units
  <1>2. Units[1] = "service" /\ Units[2] = "timer" /\ Units[3] = "catchUp"
    BY DEF Units
  <1>3. UnitNames = {"service", "timer", "catchUp"}
    BY <1>1, <1>2 DEF UnitNames
  <1> QED BY <1>1, <1>2, <1>3

\* The local state of a command, by its fields.
JobType == [op : Ops, target : Targets \cup {NoTarget}, unit : 1 .. 3, mutated : BOOLEAN,
            date : Dates \cup {NoDate}, late : BOOLEAN]

\* Every beginning, end and continuation of a command keeps the type of its local state.
LEMMA JobSteps ==
  ASSUME job \in JobType
  PROVE  /\ NoJob \in JobType
         /\ \A op \in Ops, t \in Targets \cup {NoTarget} :
                [NoJob EXCEPT !.op = op, !.target = t] \in JobType
         /\ \A d \in Dates : [NoJob EXCEPT !.op = "run", !.date = d] \in JobType
         /\ [job EXCEPT !.unit = 1, !.late = FALSE] \in JobType
         /\ job.unit < 3 => [job EXCEPT !.unit = @ + 1, !.late = FALSE] \in JobType
         /\ \A b \in BOOLEAN : [job EXCEPT !.late = b] \in JobType
         /\ [job EXCEPT !.mutated = FALSE] \in JobType
         /\ [job EXCEPT !.mutated = TRUE] \in JobType
  <1>1. NoJob \in JobType
    BY DEF NoJob, JobType, Ops
  <1>2. \A op \in Ops, t \in Targets \cup {NoTarget} :
            [NoJob EXCEPT !.op = op, !.target = t] \in JobType
    BY <1>1 DEF JobType
  <1>3. \A d \in Dates : [NoJob EXCEPT !.op = "run", !.date = d] \in JobType
    BY <1>1 DEF JobType, Ops
  <1>8. \A j \in JobType : [j EXCEPT !.late = FALSE] \in JobType
    BY DEF JobType
  <1>4. [job EXCEPT !.unit = 1, !.late = FALSE] \in JobType
    <2>1. [job EXCEPT !.unit = 1] \in JobType
      BY DEF JobType
    <2> QED BY <2>1, <1>8
  <1>5. job.unit < 3 => [job EXCEPT !.unit = @ + 1, !.late = FALSE] \in JobType
    <2>1. job.unit < 3 => [job EXCEPT !.unit = @ + 1] \in JobType
      BY DEF JobType
    <2> QED BY <2>1, <1>8
  <1>7. \A b \in BOOLEAN : [job EXCEPT !.late = b] \in JobType
    BY DEF JobType
  <1>6. [job EXCEPT !.mutated = FALSE] \in JobType /\ [job EXCEPT !.mutated = TRUE] \in JobType
    BY DEF JobType
  <1> QED BY <1>1, <1>2, <1>3, <1>4, <1>5, <1>6, <1>7

\* The initial state is well typed.
LEMMA TypeInit == Init => TypeOK
  <1> SUFFICES ASSUME Init PROVE TypeOK
    OBVIOUS
  <1>1. job \in [op : Ops, target : Targets \cup {NoTarget}, unit : DOMAIN Units,
                 mutated : BOOLEAN, date : Dates \cup {NoDate}, late : BOOLEAN]
    BY UnitFacts DEF Init, NoJob, Ops
  <1>2. units \in [Targets -> [UnitNames -> FileStates]]
    BY DEF Init, FileStates
  <1>3. cfg \in [exists : BOOLEAN, installed : BOOLEAN, active : BOOLEAN,
                target : Targets \cup {NoTarget}]
    BY DEF Init
  <1>4. sch \in [exists : BOOLEAN, enabled : BOOLEAN, files : Targets \cup {NoTarget},
                keys : SUBSET Dates, succeeded : SUBSET Dates, last : Dates \cup {NoDate}]
    BY DEF Init
  <1>5. today \in Dates /\ pc \in Labels /\ completed \in SUBSET Dates
    BY DatesAssumption DEF Init, Labels, Dates
  <1> QED BY <1>1, <1>2, <1>3, <1>4, <1>5 DEF Init, TypeOK

\* Every step keeps the types: first the commands that install and toggle.
LEMMA TypeInstall ==
  ASSUME TypeOK,
         \/ \E t \in Targets \cup {NoTarget} : Setup(t)
         \/ Update \/ Preflight \/ CheckUnit \/ ReplaceUnit \/ InstallHost \/ InstallRecord
         \/ SetupFinish \/ LastStepFails
  PROVE  TypeOK'
  <1> USE UnitFacts DEF TypeOK, files, history
  <1>0. job \in JobType
    BY DEF JobType
  <1>j. \A j : j \in JobType => j \in [op : Ops, target : Targets \cup {NoTarget},
                 unit : DOMAIN Units, mutated : BOOLEAN, date : Dates \cup {NoDate}, late : BOOLEAN]
    BY DEF JobType
  <1>1. CASE \E t \in Targets \cup {NoTarget} : Setup(t)
    <2> PICK t \in Targets \cup {NoTarget} : Setup(t)
      BY <1>1
    <2>1. cfg' \in [exists : BOOLEAN, installed : BOOLEAN, active : BOOLEAN,
                    target : Targets \cup {NoTarget}]
      BY DEF Setup
    <2>2. job' \in JobType /\ pc' \in Labels
      BY <1>0, JobSteps DEF Setup, Begin, Labels, Ops
    <2> QED BY <2>1, <2>2, <1>j DEF Setup
  <1>2. CASE Update
    <2>1. job' \in JobType /\ pc' \in Labels
      BY <1>0, <1>2, JobSteps DEF Update, Begin, Labels, Ops
    <2> QED BY <2>1, <1>2, <1>j DEF Update
  <1>3. CASE Preflight
    <2>1. job' \in JobType /\ pc' \in Labels
      BY <1>0, <1>3, JobSteps DEF Preflight, Goto, End, Labels
    <2> QED BY <2>1, <1>3, <1>j DEF Preflight
  <1>4. CASE ReplaceUnit
    <2>1. units' \in [Targets -> [UnitNames -> FileStates]]
      BY <1>4 DEF ReplaceUnit, PutUnit, FileStates
    <2>2. job' \in JobType /\ pc' \in Labels
      BY <1>0, <1>4, JobSteps DEF ReplaceUnit, NextUnit, Labels
    <2> QED BY <2>1, <2>2, <1>4, <1>j DEF ReplaceUnit
  <1>9. CASE CheckUnit
    <2>1. job' \in JobType /\ pc' \in Labels
      BY <1>0, <1>9, JobSteps DEF CheckUnit, Goto, End, Labels
    <2> QED BY <2>1, <1>9, <1>j DEF CheckUnit
  <1>5. CASE InstallHost
    <2>1. DesiredEnabled \in BOOLEAN
      BY DEF DesiredEnabled
    <2>2. timerOn' \in BOOLEAN /\ job' \in JobType /\ pc' \in Labels
      BY <1>0, <1>5, <2>1, JobSteps DEF InstallHost, MutateHost, End, Labels
    <2> QED BY <2>2, <1>5, <1>j DEF InstallHost
  <1>6. CASE InstallRecord
    <2>1. sch' \in [exists : BOOLEAN, enabled : BOOLEAN, files : Targets \cup {NoTarget},
                    keys : SUBSET Dates, succeeded : SUBSET Dates,
                    last : Dates \cup {NoDate}]
      BY <1>6 DEF InstallRecord, InstalledState, DesiredEnabled
    <2>2. job' \in JobType /\ pc' \in Labels
      BY <1>0, <1>6, JobSteps DEF InstallRecord, Goto, End, Labels
    <2> QED BY <2>1, <2>2, <1>6, <1>j DEF InstallRecord
  <1>7. CASE SetupFinish
    <2>1. cfg' \in [exists : BOOLEAN, installed : BOOLEAN, active : BOOLEAN,
                    target : Targets \cup {NoTarget}]
      BY <1>7 DEF SetupFinish
    <2>2. job' \in JobType /\ pc' \in Labels
      BY <1>0, <1>7, JobSteps DEF SetupFinish, End, Labels
    <2> QED BY <2>1, <2>2, <1>7, <1>j DEF SetupFinish
  <1>8. CASE LastStepFails
    <2>1. job' \in JobType /\ pc' \in Labels
      BY <1>0, <1>8, JobSteps DEF LastStepFails, End, Labels
    <2> QED BY <2>1, <1>8, <1>j DEF LastStepFails
  <1> QED BY <1>1, <1>2, <1>3, <1>4, <1>5, <1>6, <1>7, <1>8, <1>9

\* Pausing, resuming and uninstalling keep the types.
LEMMA TypeToggle ==
  ASSUME TypeOK,
         \/ \E op \in {"resume", "pause"} : Toggle(op)
         \/ ToggleHost \/ ToggleRecord \/ ToggleSave
         \/ Uninstall \/ DropHost \/ CheckDrop \/ RemoveUnit \/ DropRecord \/ DropSave
  PROVE  TypeOK'
  <1> USE UnitFacts DEF TypeOK, files, history
  <1>0. job \in JobType
    BY DEF JobType
  <1>j. \A j : j \in JobType => j \in [op : Ops, target : Targets \cup {NoTarget},
                 unit : DOMAIN Units, mutated : BOOLEAN, date : Dates \cup {NoDate}, late : BOOLEAN]
    BY DEF JobType
  <1>1. CASE \E op \in {"resume", "pause"} : Toggle(op)
    <2> PICK op \in {"resume", "pause"} : Toggle(op)
      BY <1>1
    <2>0. op \in Ops
      BY DEF Ops
    <2>1. job' \in JobType /\ pc' \in Labels
      BY <1>0, <2>0, JobSteps DEF Toggle, Begin, Labels
    <2> QED BY <2>1, <1>j DEF Toggle
  <1>2. CASE ToggleHost
    <2>1. timerOn' \in BOOLEAN /\ job' \in JobType /\ pc' \in Labels
      BY <1>0, <1>2, JobSteps DEF ToggleHost, MutateHost, Goto, End, Labels
    <2> QED BY <2>1, <1>2, <1>j DEF ToggleHost
  <1>3. CASE ToggleRecord
    <2>1. sch' \in [exists : BOOLEAN, enabled : BOOLEAN, files : Targets \cup {NoTarget},
                    keys : SUBSET Dates, succeeded : SUBSET Dates,
                    last : Dates \cup {NoDate}] /\ stopped' \in BOOLEAN
      BY <1>3 DEF ToggleRecord
    <2>2. job' \in JobType /\ pc' \in Labels
      BY <1>0, <1>3, JobSteps DEF ToggleRecord, Goto, Labels
    <2> QED BY <2>1, <2>2, <1>3, <1>j DEF ToggleRecord
  <1>4. CASE ToggleSave
    <2>1. cfg' \in [exists : BOOLEAN, installed : BOOLEAN, active : BOOLEAN,
                    target : Targets \cup {NoTarget}]
      BY <1>4 DEF ToggleSave
    <2>2. job' \in JobType /\ pc' \in Labels
      BY <1>0, <1>4, JobSteps DEF ToggleSave, End, Labels
    <2> QED BY <2>1, <2>2, <1>4, <1>j DEF ToggleSave
  <1>5. CASE Uninstall
    <2>1. job' \in JobType /\ pc' \in Labels
      BY <1>0, <1>5, JobSteps DEF Uninstall, Begin, Labels, Ops
    <2> QED BY <2>1, <1>5, <1>j DEF Uninstall
  <1>6. CASE DropHost
    <2>1. timerOn' \in BOOLEAN /\ pc' \in Labels
      BY <1>6 DEF DropHost, MutateHost, End, Labels
    <2>2. job' \in JobType
      <3>1. \/ job' = [job EXCEPT !.mutated = FALSE] \/ job' = [job EXCEPT !.mutated = TRUE]
            \/ job' = NoJob
        BY <1>6 DEF DropHost, MutateHost, End
      <3>2. /\ [job EXCEPT !.mutated = FALSE] \in JobType
            /\ [job EXCEPT !.mutated = TRUE] \in JobType /\ NoJob \in JobType
        BY <1>0, JobSteps
      <3> QED BY <3>1, <3>2, Zenon
    <2> QED BY <2>1, <2>2, <1>6, <1>j DEF DropHost
  <1>7. CASE RemoveUnit
    <2>1. units' \in [Targets -> [UnitNames -> FileStates]]
      BY <1>7 DEF RemoveUnit, PutUnit, FileStates
    <2>2. job' \in JobType /\ pc' \in Labels
      BY <1>0, <1>7, JobSteps DEF RemoveUnit, NextUnit, Labels
    <2> QED BY <2>1, <2>2, <1>7, <1>j DEF RemoveUnit
  <1>10. CASE CheckDrop
    <2>1. job' \in JobType /\ pc' \in Labels
      BY <1>0, <1>10, JobSteps DEF CheckDrop, NextUnit, Goto, Labels
    <2> QED BY <2>1, <1>10, <1>j DEF CheckDrop
  <1>8. CASE DropRecord
    <2>1. sch' \in [exists : BOOLEAN, enabled : BOOLEAN, files : Targets \cup {NoTarget},
                    keys : SUBSET Dates, succeeded : SUBSET Dates,
                    last : Dates \cup {NoDate}]
      BY <1>8 DEF DropRecord
    <2>2. job' \in JobType /\ pc' \in Labels
      BY <1>0, <1>8, JobSteps DEF DropRecord, Goto, Labels
    <2> QED BY <2>1, <2>2, <1>8, <1>j DEF DropRecord
  <1>9. CASE DropSave
    <2>1. cfg' \in [exists : BOOLEAN, installed : BOOLEAN, active : BOOLEAN,
                    target : Targets \cup {NoTarget}]
      BY <1>9 DEF DropSave
    <2>2. job' \in JobType /\ pc' \in Labels
      BY <1>0, <1>9, JobSteps DEF DropSave, End, Labels
    <2> QED BY <2>1, <2>2, <1>9, <1>j DEF DropSave
  <1> QED BY <1>1, <1>2, <1>3, <1>4, <1>5, <1>6, <1>7, <1>8, <1>9, <1>10

\* Scheduled runs, crashes, days and the user's files keep the types.
LEMMA TypeRun ==
  ASSUME TypeOK, RunInv,
         \/ TimerFires \/ CatchUp \/ RunCompletes \/ RunFails \/ RecordSuccess
         \/ Crash \/ NextDay \/ UserFiles
  PROVE  TypeOK'
  <1> USE UnitFacts DEF TypeOK, files, history
  <1>0. job \in JobType
    BY DEF JobType
  <1>j. \A j : j \in JobType => j \in [op : Ops, target : Targets \cup {NoTarget},
                 unit : DOMAIN Units, mutated : BOOLEAN, date : Dates \cup {NoDate}, late : BOOLEAN]
    BY DEF JobType
  <1>d. ASSUME NEW d \in Dates, RunDate(d)
        PROVE  /\ sch' \in [exists : BOOLEAN, enabled : BOOLEAN,
                            files : Targets \cup {NoTarget}, keys : SUBSET Dates,
                            succeeded : SUBSET Dates, last : Dates \cup {NoDate}]
               /\ job' \in JobType /\ pc' \in Labels
    <2>1. sch' \in [exists : BOOLEAN, enabled : BOOLEAN,
                    files : Targets \cup {NoTarget}, keys : SUBSET Dates,
                    succeeded : SUBSET Dates, last : Dates \cup {NoDate}]
      BY <1>d DEF RunDate
    <2> QED BY <2>1, <1>d, <1>0, JobSteps DEF RunDate, Labels
  <1>1. CASE TimerFires
    BY <1>1, <1>d, <1>j DEF TimerFires
  <1>2. CASE CatchUp
    <2>1. PICK d \in Missed(sch.last) : RunDate(d)
      BY <1>2 DEF CatchUp, Selected
    <2>2. d \in Dates
      BY <2>1, WorkdaysAssumption DEF Missed
    <2> QED BY <1>2, <2>1, <2>2, <1>d, <1>j DEF CatchUp
  <1>c. pc \in {"running", "success"} => job.date \in Dates
    BY DEF RunInv
  <1>6. CASE RunCompletes
    BY <1>6, <1>c DEF RunCompletes, Goto, Labels
  <1>7. CASE RecordSuccess
    <2>1. sch' \in [exists : BOOLEAN, enabled : BOOLEAN, files : Targets \cup {NoTarget},
                    keys : SUBSET Dates, succeeded : SUBSET Dates,
                    last : Dates \cup {NoDate}]
      BY <1>7, <1>c DEF RecordSuccess, Succeeded
    <2>2. job' \in JobType /\ pc' \in Labels
      BY <1>0, <1>7, JobSteps DEF RecordSuccess, End, Labels
    <2> QED BY <2>1, <2>2, <1>7, <1>j DEF RecordSuccess
  <1>3. CASE RunFails \/ Crash
    <2>1. job' \in JobType /\ pc' \in Labels
      BY <1>0, <1>3, JobSteps DEF RunFails, Crash, End, Labels
    <2>2. CASE RunFails
      BY <2>1, <2>2, <1>j DEF RunFails
    <2>3. CASE Crash
      BY <2>1, <2>3, <1>j DEF Crash
    <2> QED BY <2>2, <2>3, <1>3
  <1>4. CASE NextDay
    <2>1. today' \in Dates
      BY <1>4, DatesAssumption DEF NextDay, Dates
    <2> QED BY <2>1, <1>4 DEF NextDay
  <1>5. CASE UserFiles
    <2>1. PICK d \in Disputed, s \in {"absent", "foreign"} : UserFile(d[1], d[2], s)
      BY <1>5 DEF UserFiles
    <2>2. units' \in [Targets -> [UnitNames -> FileStates]]
      BY <2>1, DisputedAssumption DEF UserFile, FileStates
    <2>3. job' \in JobType
      BY <2>1, <1>0, JobSteps DEF UserFile
    <2> QED BY <2>1, <2>2, <2>3, <1>j DEF UserFile
  <1> QED BY <1>1, <1>2, <1>3, <1>4, <1>5, <1>6, <1>7
-----------------------------------------------------------------------------
(* The invariants of the scheduler state.                                  *)

\* An installation asks the host for what the last stop left.
LEMMA StopStep ==
  ASSUME TypeOK, StopInv, [Next]_vars
  PROVE  StopInv'
  <1> USE DEF StopInv, files, history
  <1>1. CASE InstallRecord
    BY <1>1 DEF InstallRecord, InstalledState, DesiredEnabled, TypeOK
  <1>2. CASE ToggleRecord
    BY <1>2 DEF ToggleRecord, TypeOK
  <1>3. CASE DropRecord
    BY <1>3 DEF DropRecord
  <1>4. CASE TimerFires \/ CatchUp
    BY <1>4 DEF TimerFires, CatchUp, RunDate, TypeOK
  <1>5. CASE RecordSuccess
    BY <1>5 DEF RecordSuccess, Succeeded, TypeOK
  <1>6. CASE UNCHANGED <<sch, stopped>>
    BY <1>6
  <1>7. \/ InstallRecord \/ ToggleRecord \/ DropRecord \/ TimerFires \/ CatchUp
        \/ RecordSuccess \/ UNCHANGED <<sch, stopped>>
    BY DEF Next, Command, Setup, Update, Preflight, CheckUnit, ReplaceUnit, InstallHost,
           SetupFinish, LastStepFails, Toggle, ToggleHost, ToggleSave, Uninstall, DropHost,
           CheckDrop, RemoveUnit, DropSave, RunCompletes, RunFails, Crash, NextDay, UserFiles, UserFile, vars
  <1> QED BY <1>1, <1>2, <1>3, <1>4, <1>5, <1>6, <1>7

\* The date in hand is newer than the last success, and has its key.
LEMMA RunStep ==
  ASSUME TypeOK, RunInv, [Next]_vars
  PROVE  RunInv'
  <1> USE DEF RunInv, files, history
  <1>0. /\ today \in Int /\ sch.last \in Int /\ NoDate <= today
        /\ \A d \in Dates : d \in Int /\ NoDate <= d
    BY DatesAssumption DEF TypeOK, Dates, NoDate
  <1>1. CASE InstallRecord
    BY <1>1 DEF InstallRecord, InstalledState, Goto, End, TypeOK
  <1>2. CASE ToggleRecord
    BY <1>2 DEF ToggleRecord, Goto, TypeOK
  <1>3. CASE DropRecord
    BY <1>0, <1>3 DEF DropRecord, Goto
  <1>4. CASE TimerFires
    BY <1>0, <1>4 DEF TimerFires, RunDate, TypeOK
  <1>5. CASE CatchUp
    <2>1. PICK d \in Missed(sch.last) : RunDate(d)
      BY <1>5 DEF CatchUp, Selected
    <2>2. d > sch.last /\ d < today
      BY <2>1 DEF Missed
    <2>3. d \in Dates
      BY <2>1, WorkdaysAssumption DEF Missed
    <2>4. UNCHANGED <<today, completed>>
      BY <1>5 DEF CatchUp
    <2> QED BY <1>0, <2>1, <2>2, <2>3, <2>4 DEF RunDate, TypeOK, NoJob, Ops
  <1>6. CASE RunCompletes
    BY <1>6 DEF RunCompletes, Goto, TypeOK
  <1>7. CASE RecordSuccess
    <2>1. job.date \in Dates
      BY <1>7 DEF RecordSuccess, TypeOK
    <2> QED BY <1>0, <1>7, <2>1 DEF RecordSuccess, Succeeded, End, TypeOK
  <1>8. CASE NextDay
    <2>1. pc \in {"running", "success"} => job.date \in Dates
      BY DEF TypeOK
    <2> QED BY <1>0, <1>8, <2>1 DEF NextDay
  <1>9. CASE UNCHANGED <<sch, completed, today>> /\
             (pc' \notin {"running", "success"} \/ UNCHANGED <<pc, job.date>>)
    BY <1>9
  <1>10. \/ InstallRecord \/ ToggleRecord \/ DropRecord \/ TimerFires \/ CatchUp
         \/ RunCompletes \/ RecordSuccess \/ NextDay
         \/ UNCHANGED <<sch, completed, today>> /\
            (pc' \notin {"running", "success"} \/ UNCHANGED <<pc, job.date>>)
    <2>1. CASE \/ \E t \in Targets \cup {NoTarget} : Setup(t)
               \/ Update \/ Preflight \/ CheckUnit \/ ReplaceUnit \/ InstallHost
               \/ SetupFinish \/ LastStepFails
      BY <2>1 DEF Setup, Update, Preflight, CheckUnit, ReplaceUnit, InstallHost, SetupFinish,
                  LastStepFails, Begin, Goto, End, MutateHost, NextUnit
    <2>2. CASE \/ \E op \in {"resume", "pause"} : Toggle(op)
               \/ ToggleHost \/ ToggleSave
      BY <2>2 DEF Toggle, ToggleHost, ToggleSave, Begin, Goto, End, MutateHost
    <2>3. CASE Uninstall \/ DropHost \/ CheckDrop \/ RemoveUnit \/ DropSave
      BY <2>3 DEF Uninstall, DropHost, CheckDrop, RemoveUnit, DropSave, Begin, Goto, End,
                  MutateHost, NextUnit
    <2>4. CASE RunFails \/ Crash
      BY <2>4 DEF RunFails, Crash, End
    <2>6. CASE UserFiles
      BY <2>6 DEF UserFiles, UserFile, TypeOK
    <2>5. CASE UNCHANGED vars
      BY <2>5 DEF vars
    <2> QED BY <2>1, <2>2, <2>3, <2>4, <2>5, <2>6 DEF Next, Command
  <1> QED BY <1>1, <1>2, <1>3, <1>4, <1>5, <1>6, <1>7, <1>8, <1>9, <1>10

\* A file that is found in a unit's place is one the command may replace or remove: it can
\* become foreign only by the user's doing, and only late.
LEMMA LateStep ==
  ASSUME TypeOK, LateInv, [Next]_vars
  PROVE  LateInv'
  <1> USE DEF LateInv, UnitInHand, files, history
  <1>1. CASE CheckUnit
    BY <1>1 DEF CheckUnit, MayWrite, Goto, End
  <1>2. CASE CheckDrop
    BY <1>2 DEF CheckDrop, NextUnit, Goto
  <1>3. CASE UserFiles
    <2>1. PICK d \in Disputed, s \in {"absent", "foreign"} : UserFile(d[1], d[2], s)
      BY <1>3 DEF UserFiles
    <2>2. d[1] \in Targets /\ d[2] \in UnitNames
      BY DisputedAssumption
    <2>3. CASE InHand(d[1], d[2])
      <3>1. pc' = pc /\ job'.target = job.target /\ job'.unit = job.unit
        BY <2>1, <2>3 DEF UserFile, TypeOK
      <3>2. units' = [units EXCEPT ![d[1]][d[2]] = s] /\ job'.late = (s = "foreign")
        BY <2>1, <2>3 DEF UserFile, TypeOK
      <3>3. d[1] = job.target /\ d[2] = Units[job.unit]
        BY <2>3 DEF InHand
      <3>4. units'[job.target][Units[job.unit]] = s
        BY <2>2, <3>2, <3>3 DEF TypeOK
      <3> QED BY <3>1, <3>2, <3>4
    <2>4. CASE ~InHand(d[1], d[2])
      <3>1. job' = job /\ pc' = pc
        BY <2>1, <2>4 DEF UserFile
      <3>2. ASSUME pc \in {"replace", "remove"}, job.target \in Targets
            PROVE  units'[job.target][Units[job.unit]] = units[job.target][Units[job.unit]]
        <4>1. Units[job.unit] \in UnitNames
          BY UnitFacts DEF TypeOK
        <4> QED BY <2>1, <2>2, <2>4, <3>2, <4>1 DEF UserFile, InHand, TypeOK
      <3> QED BY <3>1, <3>2
    <2> QED BY <2>3, <2>4
  <1>4. CASE pc' \notin {"replace", "remove"}
    BY <1>4
  <1>5. CASE UNCHANGED <<units, pc, job>>
    BY <1>5
  <1>6. \/ CheckUnit \/ CheckDrop \/ UserFiles \/ pc' \notin {"replace", "remove"}
        \/ UNCHANGED <<units, pc, job>>
    <2>1. CASE \/ \E t \in Targets \cup {NoTarget} : Setup(t)
               \/ Update \/ Preflight \/ ReplaceUnit \/ InstallHost \/ InstallRecord
               \/ SetupFinish \/ LastStepFails
      BY <2>1 DEF Setup, Update, Preflight, ReplaceUnit, InstallHost, InstallRecord,
                  SetupFinish, LastStepFails, Begin, Goto, End, MutateHost, NextUnit
    <2>2. CASE \/ \E op \in {"resume", "pause"} : Toggle(op)
               \/ ToggleHost \/ ToggleRecord \/ ToggleSave
      BY <2>2 DEF Toggle, ToggleHost, ToggleRecord, ToggleSave, Begin, Goto, End, MutateHost
    <2>3. CASE Uninstall \/ DropHost \/ RemoveUnit \/ DropRecord \/ DropSave
      BY <2>3 DEF Uninstall, DropHost, RemoveUnit, DropRecord, DropSave, Begin, Goto, End,
                  MutateHost, NextUnit
    <2>4. CASE \/ TimerFires \/ CatchUp \/ RunCompletes \/ RunFails \/ RecordSuccess
               \/ Crash \/ NextDay \/ UNCHANGED vars
      BY <2>4 DEF TimerFires, CatchUp, RunDate, RunCompletes, RunFails, RecordSuccess, Crash,
                  NextDay, Goto, End, vars
    <2> QED BY <2>1, <2>2, <2>3, <2>4 DEF Next, Command
  <1> QED BY <1>1, <1>2, <1>3, <1>4, <1>5, <1>6

\* The invariant holds initially.
LEMMA InvInit == Init => Inv
  <1> SUFFICES ASSUME Init PROVE Inv
    OBVIOUS
  <1>1. TypeOK
    BY TypeInit
  <1>2. StopInv /\ RunInv /\ LateInv
    BY DatesAssumption DEF Init, StopInv, RunInv, LateInv, NoDate, Dates
  <1> QED BY <1>1, <1>2 DEF Inv

\* Every step keeps the invariant.
LEMMA InvStep ==
  ASSUME Inv, [Next]_vars
  PROVE  Inv'
  <1>1. TypeOK'
    <2> USE DEF Inv
    <2>1. CASE UNCHANGED vars
      BY <2>1 DEF TypeOK, vars, files, history
    <2> QED BY <2>1, TypeInstall, TypeToggle, TypeRun DEF Next, Command
  <1>2. StopInv'
    BY StopStep DEF Inv
  <1>3. RunInv'
    BY RunStep DEF Inv
  <1>4. LateInv'
    BY LateStep DEF Inv
  <1> QED BY <1>1, <1>2, <1>3, <1>4 DEF Inv

-----------------------------------------------------------------------------
(* The theorems.                                                           *)

\* Inv is an invariant: types, what a stop has left, and the date in hand of a run.
THEOREM LifecycleInvCorrect == Spec => []Inv
  BY InvInit, InvStep, PTL DEF Spec

\* However setup, update, resumption, pause and uninstallation follow one another and are
\* interrupted, tracking that was stopped stays disabled until a resumption succeeds.
THEOREM StoppedUntilResumedCorrect == Spec => []StoppedUntilResumed
  <1>1. Inv => StoppedUntilResumed
    BY DEF Inv, StopInv, StoppedUntilResumed
  <1> QED BY <1>1, LifecycleInvCorrect, PTL

\* Catch-up selects the last weekday before today and no other date, and selects it
\* exactly when the window reaches it and no date from it on has succeeded: the last
\* success is the newest one.  What is recorded as successful has completed under its key.
THEOREM CatchUpSelectsMissedCorrect == Spec => []CatchUpSelectsMissed
  <1>1. ASSUME Inv PROVE CatchUpSelectsMissed
    <2> DEFINE Exact == {d \in Workdays \cap (today - CatchUpDays .. today - 1) :
                           /\ Workdays \cap (d + 1 .. today - 1) = {}
                           /\ \A e \in sch.succeeded : e < d}
    <2>1. sch.succeeded \subseteq completed \cap sch.keys
      BY <1>1 DEF Inv, RunInv
    <2>2. /\ today \in Int /\ CatchUpDays \in Int /\ sch.last \in Int
          /\ \A d \in Workdays : d \in Int /\ d > NoDate
          /\ \A e \in sch.succeeded : e \in Int /\ e <= sch.last
          /\ sch.last # NoDate => sch.last \in sch.succeeded
      BY <1>1, WorkdaysAssumption, CatchUpAssumption
      DEF Inv, TypeOK, RunInv, Dates, NoDate
    <2>3. ASSUME NEW d \in Workdays
          PROVE  d \in Missed(sch.last) <=> /\ d \in today - CatchUpDays .. today - 1
                                            /\ \A e \in sch.succeeded : e < d
      BY <2>2, <2>3 DEF Missed, NoDate
    <2>4. ASSUME NEW d \in Missed(sch.last)
          PROVE  (\A e \in Missed(sch.last) : e <= d) <=>
                     Workdays \cap (d + 1 .. today - 1) = {}
      <3>1. d \in Workdays /\ d >= today - CatchUpDays /\ d > sch.last
        BY <2>4 DEF Missed
      <3>2. ASSUME NEW e \in Workdays, e \in d + 1 .. today - 1 PROVE e \in Missed(sch.last)
        BY <2>2, <3>1, <3>2 DEF Missed
      <3>3. ASSUME NEW e \in Missed(sch.last), ~(e <= d)
            PROVE  e \in Workdays /\ e \in d + 1 .. today - 1
        BY <2>2, <3>1, <3>3 DEF Missed
      <3>4. \A e \in d + 1 .. today - 1 : ~(e <= d)
        BY <2>2, <3>1
      <3> QED BY <3>2, <3>3, <3>4
    <2>5. Missed(sch.last) \subseteq Workdays
      BY DEF Missed
    <2>6. Selected = Exact
      BY <2>3, <2>4, <2>5 DEF Selected
    <2> QED BY <2>1, <2>6 DEF CatchUpSelectsMissed
  <1> QED BY <1>1, LifecycleInvCorrect, PTL

-----------------------------------------------------------------------------
(* What the host has enabled, and what no command forgets or touches.      *)

\* What the host was last asked for reaches the scheduler state in the steps that follow.
ScheduledInv ==
    ~crashed =>
        /\ /\ pc \notin {"record", "toggleRecord", "drop", "remove", "dropRecord"}
           /\ sch.enabled /\ sch.files # NoTarget
           => timerOn
        /\ pc = "record" /\ job.mutated /\ DesiredEnabled => timerOn
        /\ pc = "toggleRecord" /\ job.mutated /\ job.op = "resume" => timerOn \/ sch.files = NoTarget

\* An uninstallation is the only command that drops.
DropInv == pc \in {"dropHost", "drop", "remove", "dropRecord"} => job.op = "uninstall"

\* A refusal by the host ends a command before it records anything.
LEMMA ScheduledStep ==
  ASSUME TypeOK, ScheduledInv, [Next]_vars
  PROVE  ScheduledInv'
  <1> USE DEF ScheduledInv, DesiredEnabled, files, history
  <1>1. CASE \/ \E t \in Targets \cup {NoTarget} : Setup(t)
             \/ Update \/ Preflight \/ CheckUnit \/ ReplaceUnit \/ SetupFinish \/ LastStepFails
    <2>1. UNCHANGED <<sch, timerOn, crashed>>
      BY <1>1 DEF Setup, Update, Preflight, CheckUnit, ReplaceUnit, SetupFinish, LastStepFails
    <2>2. pc' \notin {"record", "toggleRecord"}
      BY <1>1 DEF Setup, Update, Preflight, CheckUnit, ReplaceUnit, SetupFinish,
         LastStepFails, Begin, Goto, End, NextUnit
    <2>3. pc \notin {"record", "toggleRecord", "drop", "remove", "dropRecord"}
      BY <1>1 DEF Setup, Update, Preflight, CheckUnit, ReplaceUnit, SetupFinish, LastStepFails
    <2> QED BY <2>1, <2>2, <2>3
  <1>2. CASE InstallHost
    BY <1>2 DEF InstallHost, MutateHost, End, TypeOK
  <1>3. CASE InstallRecord
    BY <1>3 DEF InstallRecord, InstalledState, Goto, End, TypeOK
  <1>4. CASE (\E op \in {"resume", "pause"} : Toggle(op)) \/ ToggleSave
    BY <1>4 DEF Toggle, ToggleSave, Begin, End, TypeOK
  <1>5. CASE ToggleHost
    BY <1>5 DEF ToggleHost, MutateHost, Goto, End, TypeOK
  <1>6. CASE ToggleRecord
    BY <1>6 DEF ToggleRecord, Goto, TypeOK
  <1>7. CASE Uninstall \/ CheckDrop \/ RemoveUnit \/ DropSave
    BY <1>7 DEF Uninstall, CheckDrop, RemoveUnit, DropSave, Begin, Goto, NextUnit, End, TypeOK
  <1>8. CASE DropHost
    BY <1>8 DEF DropHost, MutateHost, End, TypeOK
  <1>9. CASE DropRecord
    BY <1>9 DEF DropRecord, Goto, TypeOK
  <1>10. CASE TimerFires \/ CatchUp
    BY <1>10 DEF TimerFires, CatchUp, RunDate, HostStarts, TypeOK
  <1>11. CASE RunCompletes \/ RunFails \/ RecordSuccess
    BY <1>11 DEF RunCompletes, RunFails, RecordSuccess, Succeeded, Goto, End, TypeOK
  <1>12. CASE Crash \/ NextDay \/ UNCHANGED vars
    BY <1>12 DEF Crash, NextDay, vars
  <1>13. CASE UserFiles
    BY <1>13 DEF UserFiles, UserFile, TypeOK
  <1> QED
    BY <1>1, <1>2, <1>3, <1>4, <1>5, <1>6, <1>7, <1>8, <1>9, <1>10, <1>11, <1>12, <1>13
    DEF Next, Command

\* A command keeps its name while it drops.
LEMMA DropStep ==
  ASSUME TypeOK, DropInv, [Next]_vars
  PROVE  DropInv'
  <1> USE DEF DropInv
  <1> DEFINE Dropping == {"dropHost", "drop", "remove", "dropRecord"}
  <1>1. CASE Uninstall \/ DropHost \/ CheckDrop \/ RemoveUnit
    BY <1>1 DEF Uninstall, DropHost, CheckDrop, RemoveUnit, Begin, Goto, MutateHost, NextUnit,
                End, NoJob, TypeOK
  <1>2. CASE pc' \notin Dropping \/ UNCHANGED <<pc, job.op>>
    BY <1>2
  <1>3. \/ Uninstall \/ DropHost \/ CheckDrop \/ RemoveUnit
        \/ pc' \notin Dropping \/ UNCHANGED <<pc, job.op>>
    <2>1. CASE \/ \E t \in Targets \cup {NoTarget} : Setup(t)
               \/ Update \/ Preflight \/ CheckUnit \/ ReplaceUnit \/ InstallHost
               \/ InstallRecord \/ SetupFinish \/ LastStepFails
      BY <2>1 DEF Setup, Update, Preflight, CheckUnit, ReplaceUnit, InstallHost,
         InstallRecord, SetupFinish, LastStepFails, Begin, Goto, End, MutateHost, NextUnit
    <2>2. CASE \/ \E op \in {"resume", "pause"} : Toggle(op)
               \/ ToggleHost \/ ToggleRecord \/ ToggleSave
      BY <2>2 DEF Toggle, ToggleHost, ToggleRecord, ToggleSave, Begin, Goto, End, MutateHost
    <2>3. CASE DropRecord \/ DropSave \/ Crash \/ NextDay
      BY <2>3 DEF DropRecord, DropSave, Goto, Crash, End, NextDay
    <2>6. CASE UserFiles
      BY <2>6 DEF UserFiles, UserFile, TypeOK
    <2>4. CASE TimerFires \/ CatchUp \/ RunCompletes \/ RunFails \/ RecordSuccess
      BY <2>4 DEF TimerFires, CatchUp, RunDate, RunCompletes, RunFails, RecordSuccess, Goto, End
    <2>5. CASE UNCHANGED vars
      BY <2>5 DEF vars
    <2> QED BY <2>1, <2>2, <2>3, <2>4, <2>5, <2>6 DEF Next, Command
  <1> QED BY <1>1, <1>2, <1>3

\* Scheduler files that are recorded as enabled are enabled at the host, whenever no
\* command is under way and none was interrupted, refusals included.
THEOREM EnabledIsScheduledCorrect == Spec => []EnabledIsScheduled
  <1>1. Init => ScheduledInv
    BY DEF Init, ScheduledInv
  <1>2. Inv /\ ScheduledInv /\ [Next]_vars => ScheduledInv'
    BY ScheduledStep DEF Inv
  <1>3. ScheduledInv => EnabledIsScheduled
    BY DEF ScheduledInv, EnabledIsScheduled
  <1> QED BY <1>1, <1>2, <1>3, LifecycleInvCorrect, PTL DEF Spec

\* No command but an uninstallation forgets that a date has succeeded.
THEOREM SuccessIsKeptCorrect == Spec => SuccessIsKept
  <1>1. Init => DropInv
    BY DEF Init, DropInv
  <1>2. Inv /\ DropInv /\ [Next]_vars => DropInv'
    BY DropStep DEF Inv
  <1>3. ASSUME Inv, DropInv, [Next]_vars
        PROVE  [sch.succeeded \subseteq sch'.succeeded \/ job.op = "uninstall"]_vars
    <2> USE <1>3 DEF Inv, TypeOK, files, history
    <2>1. CASE InstallRecord \/ ToggleRecord
      BY <2>1 DEF InstallRecord, InstalledState, ToggleRecord
    <2>2. CASE DropRecord
      BY <2>2 DEF DropRecord, DropInv
    <2>3. CASE TimerFires \/ CatchUp
      <3>1. sch'.succeeded = sch.succeeded
        BY <2>3 DEF TimerFires, CatchUp, RunDate
      <3> QED BY <3>1
    <2>5. CASE RecordSuccess
      <3>1. sch.succeeded \subseteq sch'.succeeded
        BY <2>5 DEF RecordSuccess, Succeeded
      <3> QED BY <3>1
    <2>4. \/ InstallRecord \/ ToggleRecord \/ DropRecord \/ TimerFires \/ CatchUp
          \/ RecordSuccess \/ UNCHANGED sch
      BY DEF Next, Command, Setup, Update, Preflight, CheckUnit, ReplaceUnit, InstallHost,
         SetupFinish, LastStepFails, Toggle, ToggleHost, ToggleSave, Uninstall, DropHost,
         CheckDrop, RemoveUnit, DropSave, RunCompletes, RunFails, Crash, NextDay, UserFiles, UserFile, vars
    <2> QED BY <2>1, <2>2, <2>3, <2>4, <2>5
  <1> QED BY <1>1, <1>2, <1>3, LifecycleInvCorrect, PTL DEF Spec, SuccessIsKept

\* No command overwrites or removes a file of the user's, but for one that he puts in a
\* unit's place after the command has looked at that very unit.
THEOREM ForeignUntouchedCorrect == Spec => ForeignUntouched
  <1> DEFINE Untouched == \A t \in Targets, u \in UnitNames :
                            units[t][u] = "foreign" /\ units'[t][u] # "foreign" =>
                                UserFiles \/ (InHand(t, u) /\ job.late)
  <1>1. ASSUME Inv, [Next]_vars PROVE [Untouched]_vars
    <2> USE <1>1 DEF Inv, TypeOK
    <2>1. CASE ReplaceUnit \/ RemoveUnit
      <3> SUFFICES ASSUME NEW t \in Targets, NEW u \in UnitNames,
                          units[t][u] = "foreign", units'[t][u] # "foreign"
                   PROVE  InHand(t, u) /\ job.late
        OBVIOUS
      <3>1. t = job.target /\ u = Units[job.unit]
        BY <2>1 DEF ReplaceUnit, RemoveUnit, PutUnit
      <3>2. InHand(t, u)
        BY <2>1, <3>1 DEF ReplaceUnit, RemoveUnit, InHand
      <3>3. job.late
        BY <3>1, <3>2 DEF InHand, LateInv, UnitInHand
      <3> QED BY <3>2, <3>3
    <2>3. CASE UserFiles
      BY <2>3
    <2>4. CASE UNCHANGED units
      BY <2>4
    <2>5. ReplaceUnit \/ RemoveUnit \/ UserFiles \/ UNCHANGED units
      BY DEF Next, Command, Setup, Update, Preflight, CheckUnit, InstallHost, InstallRecord,
         SetupFinish, LastStepFails, Toggle, ToggleHost, ToggleRecord, ToggleSave, Uninstall,
         DropHost, CheckDrop, DropRecord, DropSave, TimerFires, CatchUp, RunCompletes,
         RunFails, RecordSuccess, Crash, NextDay, files, vars
    <2> QED BY <2>1, <2>3, <2>4, <2>5
  <1> QED BY <1>1, LifecycleInvCorrect, PTL DEF Spec, ForeignUntouched
=============================================================================
