-------------------------- MODULE ComponentsProofs --------------------------
(***************************************************************************)
(* What is proved of the components in Components: of each alone, whatever *)
(* the constants, and of the composition that the runs check, where the    *)
(* component's part moves or none of its variables does.                   *)
(***************************************************************************)
EXTENDS Components, FiniteSetTheorems, WellFoundedInduction, TLAPS

-----------------------------------------------------------------------------
(* Rollout. For all thresholds and any number of processes: no stage of    *)
(* the rollout stands on a gate that was reset under it, and live mutation *)
(* is allowed only on evidence younger than the last incident.             *)

(* A gate that is passed meets its threshold.                              *)
PassedMeets(s) == \A g \in Evidence : s.gates[g].passed => GatePassed(g, s.gates[g])

StandsOnEvidence(s) == \A g \in Evidence : g < s.stage => Backed(s, g)

(* The restricted gate holds what was given for it since the last incident.*)
Agrees(s, e) ==
    /\ s.gates[Restricted].days = e.days
    /\ s.gates[Restricted].volume = e.volume
    /\ s.gates[Restricted].spoiled = e.spoiled

RolloutIInv ==
    /\ Inv
    /\ PassedMeets(file)
    /\ StandsOnEvidence(file)
    /\ Agrees(file, earned)

AddedTo(e, days, volume, spoiled) ==
    [e EXCEPT !.days = UpTo(NeedDays[Restricted], @ + days),
              !.volume = UpTo(NeedVolume[Restricted], @ + volume),
              !.spoiled = @ \/ spoiled]

LEMMA StagesAreNumbers ==
    /\ Stages \subseteq Int /\ Evidence \subseteq Stages
    /\ Restricted \in Evidence /\ Fixture \in Stages
    /\ \A g \in Evidence : g + 1 \in Stages
    /\ \A g \in Stages : g \in Evidence \/ g = General
BY DEF Stages, Evidence, Fixture, Restricted, General

LEMMA UpToBounds ==
    ASSUME NEW n \in Nat, NEW x \in Nat
    PROVE  /\ UpTo(n, x) \in Nat
           /\ UpTo(n, x) <= n /\ UpTo(n, x) <= x
           /\ x >= n => UpTo(n, x) = n
           /\ x < n => UpTo(n, x) = x
BY DEF UpTo

LEMMA AddedIsGate ==
    ASSUME NEW e \in Gate, NEW days \in 0 .. 1, NEW volume \in 0 .. 1, NEW spoiled \in BOOLEAN
    PROVE  AddedTo(e, days, volume, spoiled) \in Gate
<1>1. /\ e.days + days \in Nat /\ e.volume + volume \in Nat
      /\ NeedDays[Restricted] \in Nat /\ NeedVolume[Restricted] \in Nat
      /\ (e.spoiled \/ spoiled) \in BOOLEAN
  BY NeedsAssumption, StagesAreNumbers DEF Gate
<1>2. /\ UpTo(NeedDays[Restricted], e.days + days) \in Nat
      /\ UpTo(NeedVolume[Restricted], e.volume + volume) \in Nat
  BY <1>1, UpToBounds
<1> QED
  BY <1>1, <1>2 DEF AddedTo, Gate

(* Evidence for one gate leaves the others as they were, and a gate that   *)
(* had reached its threshold keeps it.                                     *)
LEMMA EvidenceKeeps ==
    ASSUME NEW s \in State, NEW e \in Gate, PassedMeets(s), StandsOnEvidence(s), Agrees(s, e),
           NEW g \in Evidence, NEW days \in 0 .. 1, NEW volume \in 0 .. 1,
           NEW spoiled \in BOOLEAN,
           NEW t, t = WithEvidence(s, g, days, volume, spoiled)
    PROVE  /\ t \in State /\ PassedMeets(t) /\ StandsOnEvidence(t)
           /\ g = Restricted => Agrees(t, AddedTo(e, days, volume, spoiled))
           /\ g # Restricted => Agrees(t, e)
<1> DEFINE sum == [s.gates[g] EXCEPT !.days = UpTo(NeedDays[g], @ + days),
                                     !.volume = UpTo(NeedVolume[g], @ + volume),
                                     !.spoiled = @ \/ spoiled]
           new == [sum EXCEPT !.passed = GatePassed(g, sum)]
<1>1. /\ NeedDays[g] \in Nat /\ NeedVolume[g] \in Nat
      /\ s.gates[g] \in Gate
      /\ s.gates[g].days \in Nat /\ s.gates[g].volume \in Nat
      /\ s.gates[g].spoiled \in BOOLEAN
  BY NeedsAssumption DEF State, Gate
<1>2. /\ UpTo(NeedDays[g], s.gates[g].days + days) \in Nat
      /\ UpTo(NeedVolume[g], s.gates[g].volume + volume) \in Nat
  BY <1>1 DEF UpTo
<1>3. /\ sum \in Gate
      /\ sum.days = UpTo(NeedDays[g], s.gates[g].days + days)
      /\ sum.volume = UpTo(NeedVolume[g], s.gates[g].volume + volume)
      /\ sum.spoiled = (s.gates[g].spoiled \/ spoiled)
  BY <1>1, <1>2 DEF Gate
<1>4. /\ new \in Gate
      /\ new.days = sum.days /\ new.volume = sum.volume /\ new.spoiled = sum.spoiled
      /\ new.passed = GatePassed(g, sum)
  BY <1>3 DEF Gate, GatePassed
<1>5. /\ t.stage = s.stage
      /\ t.gates = [s.gates EXCEPT ![g] = new]
      /\ t \in State
  BY <1>4 DEF WithEvidence, State
<1>6. /\ t.gates[g] = new
      /\ \A h \in Evidence : h # g => t.gates[h] = s.gates[h]
  BY <1>5 DEF State
<1>7. GatePassed(g, new) <=> GatePassed(g, sum)
  BY <1>4 DEF GatePassed
<1>8. PassedMeets(t)
  BY <1>4, <1>6, <1>7 DEF PassedMeets
<1>9. ASSUME Backed(s, g) PROVE Backed(t, g)
  <2>1. /\ s.gates[g].days >= NeedDays[g] /\ s.gates[g].volume >= NeedVolume[g]
    BY <1>9 DEF Backed
  <2>2. /\ sum.days >= NeedDays[g] /\ sum.volume >= NeedVolume[g]
    BY <1>1, <1>3, <2>1 DEF UpTo
  <2>3. new.passed \/ new.spoiled
    BY <2>2, <1>3, <1>4 DEF GatePassed
  <2> QED
    BY <2>2, <2>3, <1>4, <1>6 DEF Backed
<1>10. \A h \in Evidence : h # g /\ Backed(s, h) => Backed(t, h)
  BY <1>6 DEF Backed
<1>11. StandsOnEvidence(t)
  BY <1>5, <1>9, <1>10 DEF StandsOnEvidence
<1>12. CASE g = Restricted
  <2> DEFINE a == AddedTo(e, days, volume, spoiled)
  <2>1. /\ a.days = UpTo(NeedDays[g], e.days + days)
        /\ a.volume = UpTo(NeedVolume[g], e.volume + volume)
    BY <1>12 DEF AddedTo, Gate
  <2>2. a.spoiled = (e.spoiled \/ spoiled)
    BY <1>12 DEF AddedTo, Gate
  <2>3. t.gates[Restricted] = new
    BY <1>6, <1>12
  <2>4. /\ s.gates[g].days = e.days /\ s.gates[g].volume = e.volume
        /\ s.gates[g].spoiled = e.spoiled
    BY <1>12 DEF Agrees
  <2> HIDE DEF a, new, sum
  <2>5. new.days = a.days /\ new.volume = a.volume
    BY <2>1, <2>4, <1>3, <1>4
  <2>6. new.spoiled = a.spoiled
    BY <2>2, <2>4, <1>3, <1>4, Zenon
  <2>7. Agrees(t, a)
    BY <2>3, <2>5, <2>6, Zenon DEF Agrees
  <2> QED
    BY <2>7, <1>5, <1>8, <1>11, <1>12, Zenon DEF a
<1>13. CASE g # Restricted
  BY <1>13, <1>5, <1>6, <1>8, <1>11, StagesAreNumbers DEF Agrees
<1> QED
  BY <1>12, <1>13

(* After an incident the stage is not beyond the gate that was reset, so   *)
(* every gate below it is one the reset left alone.                        *)
LEMMA IncidentKeeps ==
    ASSUME NEW s \in State, PassedMeets(s), StandsOnEvidence(s), NEW g \in Stages
    PROVE  /\ AfterIncident(s, g) \in State
           /\ PassedMeets(AfterIncident(s, g))
           /\ StandsOnEvidence(AfterIncident(s, g))
           /\ Agrees(AfterIncident(s, g), EmptyGate)
<1> DEFINE t == AfterIncident(s, g)
<1>1. EmptyGate \in Gate
  BY DEF EmptyGate, Gate
<1>2. /\ s.stage \in 0 .. 5 /\ g \in 0 .. 5
      /\ s.gates \in [Evidence -> Gate]
  BY DEF State, Stages, Fixture, General
<1>3. /\ t.stage \in Stages /\ t.stage <= s.stage
      /\ t.stage <= UpTo(Restricted, g)
  BY <1>2 DEF AfterIncident, Demoted, UpTo, Shadow, Restricted, Stages, Fixture, General
<1>4. \A h \in Evidence :
         t.gates[h] = IF UpTo(Restricted, g) <= h THEN EmptyGate ELSE s.gates[h]
  BY DEF AfterIncident, ResetGateAndDownstream
<1>5. t \in State
  BY <1>1, <1>2, <1>3 DEF AfterIncident, ResetGateAndDownstream, State
<1>6. PassedMeets(t)
  BY <1>4 DEF PassedMeets, EmptyGate
<1>7. \A h \in Evidence : h < t.stage => h < s.stage /\ t.gates[h] = s.gates[h]
  BY <1>2, <1>3, <1>4 DEF Evidence, Fixture, Restricted, UpTo, Stages, General
<1>8. StandsOnEvidence(t)
  BY <1>7 DEF StandsOnEvidence, Backed
<1>9. t.gates[Restricted] = EmptyGate
  BY <1>2, <1>4, StagesAreNumbers DEF UpTo, Restricted
<1> QED
  BY <1>5, <1>6, <1>8, <1>9 DEF Agrees

LEMMA PromotionKeeps ==
    ASSUME NEW s \in State, NEW e \in Gate, PassedMeets(s), StandsOnEvidence(s), Agrees(s, e)
    PROVE  /\ Promoted(s) \in State
           /\ PassedMeets(Promoted(s))
           /\ StandsOnEvidence(Promoted(s))
           /\ Agrees(Promoted(s), e)
<1>1. CASE s.stage \in Evidence /\ s.gates[s.stage].passed
  <2>1. /\ Promoted(s).stage = s.stage + 1
        /\ Promoted(s).gates = s.gates
        /\ Promoted(s) \in State
    BY <1>1, StagesAreNumbers DEF Promoted, State
  <2>2. Backed(s, s.stage)
    BY <1>1 DEF PassedMeets, GatePassed, Backed
  <2>3. \A g \in Evidence : g < s.stage + 1 => g = s.stage \/ g < s.stage
    BY <1>1 DEF Evidence, Fixture, Restricted
  <2> QED
    BY <2>1, <2>2, <2>3 DEF PassedMeets, StandsOnEvidence, Backed, Agrees
<1>2. CASE ~(s.stage \in Evidence /\ s.gates[s.stage].passed)
  BY <1>2 DEF Promoted
<1> QED
  BY <1>1, <1>2

(* The inductive invariant.                                                *)
LEMMA RolloutInductive == Spec => []RolloutIInv
<1>1. Init => RolloutIInv
  <2> SUFFICES ASSUME Init PROVE RolloutIInv
    OBVIOUS
  <2>1. EmptyGate \in Gate /\ EmptyState \in State
    BY DEF EmptyGate, Gate, EmptyState, State, Stages, Fixture, General
  <2>2. Inv
    BY <2>1 DEF Init, Inv
  <2>3. PassedMeets(EmptyState)
    BY DEF PassedMeets, EmptyState, EmptyGate
  <2>4. StandsOnEvidence(EmptyState)
    BY DEF StandsOnEvidence, EmptyState, Evidence, Fixture, Restricted
  <2>5. Agrees(EmptyState, EmptyGate)
    BY StagesAreNumbers DEF Agrees, EmptyState
  <2> QED
    BY <2>2, <2>3, <2>4, <2>5 DEF RolloutIInv, Init
<1>2. RolloutIInv /\ [Next]_vars => RolloutIInv'
  <2> SUFFICES ASSUME RolloutIInv, [Next]_vars PROVE RolloutIInv'
    OBVIOUS
  <2> USE DEF RolloutIInv
  <2>a. EmptyState \in State /\ EmptyGate \in Gate
    BY DEF EmptyGate, Gate, EmptyState, State, Stages, Fixture, General
  <2>1. ASSUME NEW p \in Procs, NEW s, p \in lock, s \in State, Save(p, s), earned' \in Gate
        PROVE  Inv'
    BY <2>1, <2>a DEF Inv, Save
  <2>2. ASSUME NEW p \in Procs, Load(p) PROVE RolloutIInv'
    <3>1. Inv'
      BY <2>2 DEF Inv, Load, LockFree
    <3> QED
      BY <3>1, <2>2 DEF Load, PassedMeets, StandsOnEvidence, Agrees
  <2>3. ASSUME NEW p \in Procs, RecordEvidence(p) PROVE RolloutIInv'
    <3>1. PICK g \in Evidence, days \in 0 .. 1, volume \in 0 .. 1, spoiled \in BOOLEAN :
             /\ Save(p, WithEvidence(copy[p], g, days, volume, spoiled))
             /\ earned' = IF g = Restricted THEN AddedTo(earned, days, volume, spoiled)
                                            ELSE earned
      BY <2>3 DEF RecordEvidence, AddedTo
    <3>2. p \in lock /\ copy[p] = file /\ file \in State /\ earned \in Gate
      BY <3>1 DEF Save, Inv
    <3>9. file' = WithEvidence(file, g, days, volume, spoiled)
      BY <3>1, <3>2 DEF Save
    <3>3. file' \in State /\ PassedMeets(file') /\ StandsOnEvidence(file')
          /\ Agrees(file', earned')
      BY <3>1, <3>2, <3>9, EvidenceKeeps
    <3>4. earned' \in Gate
      BY <3>1, <3>2, AddedIsGate
    <3>6. Inv'
      BY <2>1, <3>1, <3>2, <3>3, <3>4, <3>9
    <3> QED
      BY <3>3, <3>9, <3>6 DEF PassedMeets, StandsOnEvidence, Agrees, Backed, GatePassed
  <2>4. ASSUME NEW p \in Procs, RecordIncident(p) PROVE RolloutIInv'
    <3>1. PICK g \in Stages : Save(p, AfterIncident(copy[p], g)) /\ earned' = EmptyGate
      BY <2>4 DEF RecordIncident
    <3>2. p \in lock /\ copy[p] = file /\ file \in State
      BY <3>1 DEF Save, Inv
    <3>3. /\ AfterIncident(file, g) \in State /\ PassedMeets(AfterIncident(file, g))
          /\ StandsOnEvidence(AfterIncident(file, g))
          /\ Agrees(AfterIncident(file, g), EmptyGate)
      BY <3>2, IncidentKeeps
    <3>4. file' = AfterIncident(file, g)
      BY <3>1, <3>2 DEF Save
    <3>5. Inv'
      BY <2>1, <2>a, <3>1, <3>2, <3>3
    <3> QED
      BY <3>1, <3>3, <3>4, <3>5 DEF PassedMeets, StandsOnEvidence, Agrees, Backed, GatePassed
  <2>5. ASSUME NEW p \in Procs, Promote(p) PROVE RolloutIInv'
    <3>1. p \in lock /\ copy[p] = file /\ file \in State /\ earned \in Gate
      BY <2>5 DEF Promote, Save, Inv
    <3>2. /\ Promoted(file) \in State /\ PassedMeets(Promoted(file))
          /\ StandsOnEvidence(Promoted(file)) /\ Agrees(Promoted(file), earned)
      BY <3>1, PromotionKeeps
    <3>3. file' = Promoted(file) /\ earned' = earned
      BY <2>5, <3>1 DEF Promote, Save
    <3>4. Inv'
      BY <2>1, <2>5, <3>1, <3>2, <3>3 DEF Promote
    <3> QED
      BY <3>2, <3>3, <3>4 DEF PassedMeets, StandsOnEvidence, Agrees, Backed, GatePassed
  <2>6. ASSUME NEW p \in Procs, EndUnchanged(p) PROVE RolloutIInv'
    <3>1. Inv'
      BY <2>6, <2>a DEF Inv, EndUnchanged
    <3> QED
      BY <3>1, <2>6 DEF EndUnchanged, PassedMeets, StandsOnEvidence, Agrees
  <2>7. CASE UNCHANGED vars
    BY <2>7 DEF vars, Inv, PassedMeets, StandsOnEvidence, Agrees
  <2> QED
    BY <2>2, <2>3, <2>4, <2>5, <2>6, <2>7 DEF Next
<1> QED
  BY <1>1, <1>2, PTL DEF Spec

(* Load, change and save are one step to every other command.              *)
THEOREM OneCommandAtATime == Spec => []Inv
BY RolloutInductive, PTL DEF RolloutIInv

(* No stage stands on a gate that was reset under it.                      *)
THEOREM StageBacked == Spec => []StageIsBacked
<1>1. RolloutIInv => StageIsBacked
  BY DEF RolloutIInv, StandsOnEvidence, StageIsBacked
<1> QED
  BY <1>1, RolloutInductive, PTL

(* Live mutation is allowed only on complete and unspoiled evidence that   *)
(* is younger than the last incident.                                      *)
THEOREM LiveEarned == Spec => []LiveIsEarned
<1>1. RolloutIInv => LiveIsEarned
  BY StagesAreNumbers
     DEF RolloutIInv, PassedMeets, GatePassed, Agrees, LiveIsEarned, Live, Spoilable,
         Restricted, Replay, Shadow
<1> QED
  BY <1>1, RolloutInductive, PTL

-----------------------------------------------------------------------------
(* OperatorRetention. For any dates, phases and retention periods: what    *)
(* retention and purge forget is not submitted again.                      *)

LongRetention ==
  [kind : {"run", "execute"}, step : Ret!Steps, date : LocalDates, allowed : BOOLEAN,
   resumed : BOOLEAN, status : {"settled", "uncertain"}]

ShortRetention == [kind : {"retain", "purge", "forget"}, step : Ret!Steps]

LEMMA CommandType ==
  Ret!TypeOK => command \in {Ret!Idle, Ret!Lost} \cup ShortRetention \cup LongRetention
BY DEF Ret!TypeOK, ShortRetention, LongRetention

LEMMA IdleAndLost ==
  /\ Ret!Idle # Ret!Lost
  /\ Ret!Idle \notin ShortRetention \cup LongRetention
  /\ Ret!Lost \notin ShortRetention \cup LongRetention
BY DEF Ret!Idle, Ret!Lost, ShortRetention, LongRetention

\* A command under way is one of the two sorts, by its kind.
LEMMA CommandByKind ==
  ASSUME Ret!TypeOK
  PROVE  /\ command.kind \in {"run", "execute"} => command \in LongRetention
         /\ command.kind \in {"retain", "purge", "forget"} => command \in ShortRetention
BY CommandType DEF Ret!Idle, Ret!Lost, ShortRetention, LongRetention

\* A command goes on with another step, or with another status too.
LEMMA GoesOn ==
  ASSUME Ret!TypeOK, command \in ShortRetention \cup LongRetention,
         NEW step \in Ret!Steps, Ret!Goto(step)
  PROVE  command' \in ShortRetention \cup LongRetention
<1>1. CASE command \in ShortRetention
  BY <1>1 DEF Ret!Goto, ShortRetention
<1>2. CASE command \in LongRetention
  BY <1>2 DEF Ret!Goto, LongRetention
<1> QED BY <1>1, <1>2

LEMMA Reported ==
  ASSUME command \in LongRetention,
         NEW step \in Ret!Steps, NEW status \in {"settled", "uncertain"},
         Ret!Report(status, step)
  PROVE  command' \in LongRetention
BY DEF Ret!Report, LongRetention

LEMMA ExecutedType ==
  ASSUME Ret!TypeOK, command \in LongRetention, NEW status \in {"settled", "uncertain"},
         Ret!Executed(status)
  PROVE  command' \in {Ret!Idle} \cup LongRetention
BY Reported DEF Ret!Executed, Ret!Steps

\* The initial state: nothing is stored and nothing is under way.
LEMMA RetentionStart == Ret!Init => Ret!Inv
<1> SUFFICES ASSUME Ret!Init PROVE Ret!Inv
  OBVIOUS
<1>1. phases \in [LocalDates -> [Ret!Phases -> {"none", "running", "completed"}]]
  BY DEF Ret!Init, Ret!NoPhases
<1>2. Ret!TypeOK
  BY <1>1 DEF Ret!Init, Ret!TypeOK
<1>3. \A d \in LocalDates : flying[d] = 0 /\ worklogs[d] = 0
  BY DEF Ret!Init
<1> QED BY <1>2, <1>3 DEF Ret!Inv, Ret!DoubtRemembered

\* The four tables keep their types when a date's rows change.
LEMMA KeptTypes ==
  ASSUME Ret!TypeOK
  PROVE  /\ [d \in LocalDates |-> Ret!KeptOperation(d)]
              \in [LocalDates -> {"none"} \cup Ret!Open \cup Ret!Closed]
         /\ [d \in LocalDates |-> Ret!KeptProposal(d)]
              \in [LocalDates -> {"none", "bundle", "proposed", "approved", "rejected"}]
         /\ [d \in LocalDates |-> Ret!KeptRun(d)]
              \in [LocalDates -> {"none", "running", "completed"}]
         /\ [d \in LocalDates |-> Ret!KeptPhases(d)]
              \in [LocalDates -> [Ret!Phases -> {"none", "running", "completed"}]]
         /\ Ret!NoPhases \in [Ret!Phases -> {"none", "running", "completed"}]
BY DEF Ret!TypeOK, Ret!KeptOperation, Ret!KeptProposal, Ret!KeptRun, Ret!KeptPhases,
       Ret!NoPhases

\* Only an acknowledged purge ends in Lost, and nothing leads out of it.
LEMMA CommandNext ==
  ASSUME Ret!TypeOK, [Ret!Next]_(Ret!vars)
  PROVE  /\ command' \in {Ret!Idle, Ret!Lost} \cup ShortRetention \cup LongRetention
         /\ command = Ret!Lost => command' = Ret!Lost
         /\ command' = Ret!Lost => command = Ret!Lost \/ Ret!PurgeDatabase
<1> USE CommandType, IdleAndLost
<1>1. ASSUME NEW d \in LocalDates, NEW may \in BOOLEAN, Ret!RunTracking(d, may)
      PROVE  command = Ret!Idle /\ command' \in LongRetention
  BY <1>1 DEF Ret!RunTracking, LongRetention, Ret!Steps
<1>2. ASSUME NEW d \in LocalDates, Ret!Execute(d)
      PROVE  command = Ret!Idle /\ command' \in LongRetention
  BY <1>2 DEF Ret!Execute, LongRetention, Ret!Steps
<1>3. ASSUME Ret!Retain PROVE command = Ret!Idle /\ command' \in ShortRetention
  BY <1>3 DEF Ret!Retain, ShortRetention, Ret!Steps
<1>4. ASSUME NEW kind \in {"purge", "forget"}, Ret!Purge(kind)
      PROVE  command = Ret!Idle /\ command' \in ShortRetention
  BY <1>4 DEF Ret!Purge, ShortRetention, Ret!Steps
<1>5. ASSUME Ret!Audit \/ Ret!Lease \/ Ret!FinishRun \/ Ret!PersistTerminal
      PROVE  command \in LongRetention /\ command' \in ShortRetention \cup LongRetention
  BY <1>5, CommandByKind, GoesOn
     DEF Ret!Audit, Ret!Lease, Ret!FinishRun, Ret!PersistTerminal, Ret!Running, Ret!At,
         Ret!Steps
<1>6. ASSUME Ret!CompactStore \/ Ret!CompactRunFiles \/ Ret!PurgeTables \/ Ret!PurgeFiles
      PROVE  /\ command \in ShortRetention \cup LongRetention
             /\ command' \in {Ret!Idle} \cup ShortRetention \cup LongRetention
  BY <1>6, CommandByKind, GoesOn
     DEF Ret!CompactStore, Ret!CompactRunFiles, Ret!PurgeTables, Ret!PurgeFiles, Ret!At,
         Ret!AfterFiles, Ret!Steps
<1>7. ASSUME Ret!Gated \/ Ret!Skip \/ Ret!Adopt \/ Ret!Answered \/ Ret!Unanswered
      PROVE  command \in LongRetention /\ command' \in {Ret!Idle} \cup LongRetention
  <2>1. command \in LongRetention /\ command.status \in {"settled", "uncertain"}
    BY <1>7, CommandByKind
       DEF Ret!Gated, Ret!Skip, Ret!Adopt, Ret!Answered, Ret!Unanswered, Ret!Executing,
           LongRetention
  <2>2. Ret!Executed(command.status) \/ Ret!Executed("uncertain")
    BY <1>7 DEF Ret!Gated, Ret!Skip, Ret!Adopt, Ret!Answered, Ret!Unanswered
  <2> QED BY <2>1, <2>2, ExecutedType
<1>8. ASSUME Ret!Submit \/ Ret!Refused
      PROVE  /\ command \in LongRetention
             /\ command' \in {Ret!Idle} \cup ShortRetention \cup LongRetention
  BY <1>8, CommandByKind, GoesOn DEF Ret!Submit, Ret!Refused, Ret!Executing, Ret!Steps
<1>9. ASSUME Ret!WriteRunFile \/ Ret!Crash
      PROVE  command # Ret!Lost /\ command' = Ret!Idle
  BY <1>9, CommandByKind DEF Ret!WriteRunFile, Ret!Crash
<1>10. ASSUME Ret!PurgeDatabase PROVE command # Ret!Lost /\ command' = Ret!Lost
  BY <1>10, CommandByKind DEF Ret!PurgeDatabase, Ret!At
<1>11. ASSUME \/ Ret!StartPhase \/ Ret!FinishPhase \/ Ret!Status \/ Ret!NextDay
              \/ UNCHANGED Ret!vars
              \/ \E d \in LocalDates : Ret!Heal(d) \/ Ret!Arrive(d)
       PROVE  UNCHANGED command
  BY <1>11
     DEF Ret!StartPhase, Ret!FinishPhase, Ret!Status, Ret!NextDay, Ret!vars, Ret!Heal,
         Ret!Arrive
<1> QED
  BY <1>1, <1>2, <1>3, <1>4, <1>5, <1>6, <1>7, <1>8, <1>9, <1>10, <1>11 DEF Ret!Next

\* A long command has a date.
LEMMA CommandDate ==
  ASSUME Ret!TypeOK, command.kind \in {"run", "execute"}
  PROVE  command.date \in LocalDates
BY CommandByKind DEF LongRetention

LEMMA RetentionTypeStep ==
  ASSUME Ret!TypeOK, [Ret!Next]_(Ret!vars)
  PROVE  Ret!TypeOK'
<1>1. command' \in {Ret!Idle, Ret!Lost} \cup ShortRetention \cup LongRetention
  BY CommandNext
<1>2. operation' \in [LocalDates -> {"none"} \cup Ret!Open \cup Ret!Closed]
  <2>1. CASE Ret!CompactStore
    BY <2>1, KeptTypes DEF Ret!CompactStore
  <2>4. CASE Ret!PurgeDatabase
    BY <2>4 DEF Ret!PurgeDatabase
  <2>2. CASE \/ Ret!Lease \/ Ret!Adopt \/ Ret!Submit
             \/ Ret!Answered \/ Ret!Unanswered \/ Ret!Refused
    BY <2>2, CommandDate
       DEF Ret!Lease, Ret!Adopt, Ret!Submit, Ret!Answered, Ret!Unanswered, Ret!Refused,
           Ret!Executing, Ret!Running, Ret!At, Ret!Reconciled, Ret!TypeOK, Ret!Open,
           Ret!Closed
  <2>5. ASSUME NEW d \in LocalDates, Ret!Execute(d)
        PROVE  operation' \in [LocalDates -> {"none"} \cup Ret!Open \cup Ret!Closed]
    BY <2>5 DEF Ret!Execute, Ret!Reconciled, Ret!TypeOK, Ret!Open, Ret!Closed
  <2>3. CASE UNCHANGED operation
    BY <2>3 DEF Ret!TypeOK
  <2> QED
    BY <2>1, <2>2, <2>3, <2>4, <2>5
       DEF Ret!Next, Ret!vars, Ret!tables, Ret!RunTracking, Ret!Heal, Ret!Arrive, Ret!Audit,
           Ret!Retain, Ret!CompactRunFiles, Ret!StartPhase, Ret!FinishPhase, Ret!FinishRun,
           Ret!PersistTerminal, Ret!Gated, Ret!Skip, Ret!WriteRunFile, Ret!Status, Ret!Purge,
           Ret!PurgeTables, Ret!LedgerKept, Ret!PurgeFiles, Ret!Crash, Ret!NextDay
<1>3. held' \in [LocalDates -> {"none", "bundle", "proposed", "approved", "rejected"}]
  <2>1. CASE Ret!CompactStore \/ Ret!PurgeTables \/ Ret!PurgeDatabase
    BY <2>1, KeptTypes DEF Ret!CompactStore, Ret!PurgeTables, Ret!PurgeDatabase
  <2>2. CASE Ret!Audit
    BY <2>2, CommandDate DEF Ret!Audit, Ret!Running, Ret!At, Ret!Decisions, Ret!TypeOK
  <2>3. CASE UNCHANGED held
    BY <2>3 DEF Ret!TypeOK
  <2> QED
    BY <2>1, <2>2, <2>3
       DEF Ret!Next, Ret!vars, Ret!tables, Ret!RunTracking, Ret!Heal, Ret!Arrive, Ret!Execute,
           Ret!Retain, Ret!CompactRunFiles, Ret!Lease, Ret!StartPhase, Ret!FinishPhase,
           Ret!FinishRun, Ret!PersistTerminal, Ret!Gated, Ret!Skip, Ret!Adopt, Ret!Submit,
           Ret!Answered, Ret!Unanswered, Ret!Refused, Ret!WriteRunFile, Ret!Status, Ret!Purge,
           Ret!PurgeFiles, Ret!Crash, Ret!NextDay
<1>4. run' \in [LocalDates -> {"none", "running", "completed"}]
  <2>1. CASE Ret!CompactStore \/ Ret!PurgeTables \/ Ret!PurgeDatabase
    BY <2>1, KeptTypes DEF Ret!CompactStore, Ret!PurgeTables, Ret!PurgeDatabase
  <2>2. CASE Ret!Lease \/ Ret!FinishRun
    BY <2>2, CommandDate DEF Ret!Lease, Ret!FinishRun, Ret!Running, Ret!At, Ret!TypeOK
  <2>3. CASE UNCHANGED run
    BY <2>3 DEF Ret!TypeOK
  <2> QED
    BY <2>1, <2>2, <2>3
       DEF Ret!Next, Ret!vars, Ret!tables, Ret!RunTracking, Ret!Heal, Ret!Arrive, Ret!Execute,
           Ret!Audit, Ret!Retain, Ret!CompactRunFiles, Ret!StartPhase, Ret!FinishPhase,
           Ret!PersistTerminal, Ret!Gated, Ret!Skip, Ret!Adopt, Ret!Submit, Ret!Answered,
           Ret!Unanswered, Ret!Refused, Ret!WriteRunFile, Ret!Status, Ret!Purge,
           Ret!PurgeFiles, Ret!Crash, Ret!NextDay
<1>5. phases' \in [LocalDates -> [Ret!Phases -> {"none", "running", "completed"}]]
  <2>1. CASE Ret!CompactStore \/ Ret!PurgeTables \/ Ret!PurgeDatabase
    BY <2>1, KeptTypes DEF Ret!CompactStore, Ret!PurgeTables, Ret!PurgeDatabase
  <2>2. CASE Ret!StartPhase \/ Ret!FinishPhase
    <3> DEFINE p == Head(Ret!Pending)
               v == IF Ret!StartPhase THEN "running" ELSE "completed"
    <3>1. phases' = [phases EXCEPT ![command.date] = [phases[command.date] EXCEPT ![p] = v]]
      BY <2>2 DEF Ret!StartPhase, Ret!FinishPhase
    <3>2. phases[command.date] \in [Ret!Phases -> {"none", "running", "completed"}]
      BY <2>2, CommandDate DEF Ret!StartPhase, Ret!FinishPhase, Ret!Running, Ret!At, Ret!TypeOK
    <3> HIDE DEF p
    <3>3. [phases[command.date] EXCEPT ![p] = v]
            \in [Ret!Phases -> {"none", "running", "completed"}]
      BY <3>2
    <3> HIDE DEF v
    <3> QED BY <3>1, <3>3 DEF Ret!TypeOK
  <2>3. CASE UNCHANGED phases
    BY <2>3 DEF Ret!TypeOK
  <2> QED
    BY <2>1, <2>2, <2>3
       DEF Ret!Next, Ret!vars, Ret!tables, Ret!RunTracking, Ret!Heal, Ret!Arrive, Ret!Execute,
           Ret!Audit, Ret!Retain, Ret!CompactRunFiles, Ret!Lease, Ret!FinishRun,
           Ret!PersistTerminal, Ret!Gated, Ret!Skip, Ret!Adopt, Ret!Submit, Ret!Answered,
           Ret!Unanswered, Ret!Refused, Ret!WriteRunFile, Ret!Status, Ret!Purge,
           Ret!PurgeFiles, Ret!Crash, Ret!NextDay
<1>6. runFile' \in [LocalDates -> {"none", "settled", "uncertain"}] /\ sentinel' \in BOOLEAN
  <2>1. CASE Ret!CompactRunFiles \/ Ret!PurgeFiles
    <3>1. UNCHANGED sentinel
      BY <2>1 DEF Ret!CompactRunFiles, Ret!PurgeFiles
    <3>2. \/ runFile' = [d \in LocalDates |-> "none"]
          \/ runFile' = [d \in LocalDates |->
                 IF Ret!Older(d, ReportDays) /\ ~Ret!RunFileProtected(d) THEN "none"
                 ELSE runFile[d]]
      BY <2>1 DEF Ret!CompactRunFiles, Ret!PurgeFiles
    <3>3. runFile' \in [LocalDates -> {"none", "settled", "uncertain"}]
      BY <3>2 DEF Ret!TypeOK
    <3> QED BY <3>1, <3>3 DEF Ret!TypeOK
  <2>5. CASE Ret!PersistTerminal \/ \E d \in LocalDates : Ret!Heal(d)
    BY <2>5 DEF Ret!PersistTerminal, Ret!Heal, Ret!TypeOK
  <2>2. CASE Ret!WriteRunFile
    BY <2>2, CommandByKind DEF Ret!WriteRunFile, LongRetention, Ret!TypeOK
  <2>3. CASE Ret!Lease \/ Ret!Status \/ Ret!PurgeDatabase
    BY <2>3 DEF Ret!Lease, Ret!Status, Ret!PurgeDatabase, Ret!TypeOK
  <2>4. CASE UNCHANGED <<runFile, sentinel>>
    BY <2>4 DEF Ret!TypeOK
  <2> QED
    BY <2>1, <2>2, <2>3, <2>4, <2>5
       DEF Ret!Next, Ret!vars, Ret!RunTracking, Ret!Arrive, Ret!Execute, Ret!Audit,
           Ret!Retain, Ret!CompactStore, Ret!StartPhase, Ret!FinishPhase, Ret!FinishRun,
           Ret!Gated, Ret!Skip, Ret!Adopt, Ret!Submit, Ret!Answered, Ret!Unanswered,
           Ret!Refused, Ret!Purge, Ret!PurgeTables, Ret!Crash, Ret!NextDay
<1>7. flying' \in [LocalDates -> Nat] /\ worklogs' \in [LocalDates -> Nat]
  <2>1. CASE \/ Ret!Submit \/ Ret!Refused \/ \E d \in LocalDates : Ret!Arrive(d)
    BY <2>1 DEF Ret!Submit, Ret!Refused, Ret!Arrive, Ret!TypeOK
  <2>2. CASE UNCHANGED Ret!remote
    BY <2>2 DEF Ret!remote, Ret!TypeOK
  <2> QED
    BY <2>1, <2>2
       DEF Ret!Next, Ret!vars, Ret!RunTracking, Ret!Heal, Ret!Execute, Ret!Audit, Ret!Retain,
           Ret!CompactStore, Ret!CompactRunFiles, Ret!Lease, Ret!StartPhase, Ret!FinishPhase,
           Ret!FinishRun, Ret!PersistTerminal, Ret!Gated, Ret!Skip, Ret!Adopt, Ret!Answered,
           Ret!Unanswered, Ret!WriteRunFile, Ret!Status, Ret!Purge, Ret!PurgeTables,
           Ret!PurgeFiles, Ret!PurgeDatabase, Ret!Crash, Ret!NextDay
<1> QED
  BY <1>1, <1>2, <1>3, <1>4, <1>5, <1>6, <1>7 DEF Ret!TypeOK, ShortRetention, LongRetention

-----------------------------------------------------------------------------
\* A step that sends and receives nothing keeps the invariant, if what is in doubt and
\* under way stays in doubt.
LEMMA RetentionRecorded ==
  ASSUME Ret!Inv, Ret!TypeOK', UNCHANGED Ret!remote, command = Ret!Lost => command' = Ret!Lost,
         \A d \in LocalDates :
            flying[d] > 0 /\ operation[d] \in Ret!Open => operation'[d] \in Ret!Open
  PROVE  Ret!Inv'
BY DEF Ret!Inv, Ret!DoubtRemembered, Ret!remote

\* Every step keeps the invariant.
LEMMA RetentionStep == Ret!Inv /\ [Ret!Next]_(Ret!vars) => Ret!Inv'
<1> SUFFICES ASSUME Ret!Inv, [Ret!Next]_(Ret!vars) PROVE Ret!Inv'
  OBVIOUS
<1>1. Ret!TypeOK /\ Ret!TypeOK' /\ (command = Ret!Lost => command' = Ret!Lost)
  BY RetentionTypeStep, CommandNext DEF Ret!Inv
<1>2. \A d \in LocalDates :
        /\ flying[d] \in Nat /\ worklogs[d] \in Nat /\ flying[d] + worklogs[d] <= 1
        /\ Ret!DoubtRemembered(d)
  BY <1>1 DEF Ret!Inv, Ret!TypeOK
<1>3. \A d \in LocalDates : flying[d] > 0 => Ret!Reconciled(d) = operation[d]
  BY <1>2 DEF Ret!Reconciled
<1>4. CASE UNCHANGED <<operation, Ret!remote>>
  BY <1>1, <1>4, RetentionRecorded
<1>5. CASE Ret!CompactStore
  BY <1>1, <1>5, RetentionRecorded DEF Ret!CompactStore, Ret!KeptOperation, Ret!Open, Ret!Closed
<1>6. CASE Ret!PurgeTables
  BY <1>1, <1>6, RetentionRecorded DEF Ret!PurgeTables, Ret!LedgerKept
<1>7. CASE Ret!Lease
  BY <1>1, <1>3, <1>7, RetentionRecorded DEF Ret!Lease, Ret!TypeOK
<1>8. CASE \E d \in LocalDates : Ret!Execute(d)
  BY <1>1, <1>3, <1>8, RetentionRecorded DEF Ret!Execute, Ret!TypeOK
<1>9. CASE Ret!Adopt \/ Ret!Answered \/ Ret!Unanswered
  <2>1. \A d \in LocalDates :
           flying[d] > 0 /\ operation[d] \in Ret!Open => operation'[d] \in Ret!Open
    BY <1>1, <1>2, <1>9 DEF Ret!Adopt, Ret!Answered, Ret!Unanswered, Ret!TypeOK, Ret!Open
  <2> QED BY <1>1, <1>9, <2>1, RetentionRecorded DEF Ret!Adopt, Ret!Answered, Ret!Unanswered
<1>10. CASE Ret!PurgeDatabase
  BY <1>1, <1>2, <1>10 DEF Ret!PurgeDatabase, Ret!Inv, Ret!DoubtRemembered, Ret!remote
<1>11. CASE Ret!Submit
  <2>1. command.date \in LocalDates /\ command # Ret!Lost
    BY <1>1, <1>11, CommandDate, CommandByKind, IdleAndLost DEF Ret!Submit, Ret!Executing
  <2>2. flying[command.date] = 0 /\ worklogs[command.date] = 0
    BY <1>2, <1>11, <2>1 DEF Ret!Submit, Ret!Submittable, Ret!DoubtRemembered, Ret!Open
  <2>3. \A d \in LocalDates :
          /\ flying'[d] = IF d = command.date THEN 1 ELSE flying[d]
          /\ worklogs'[d] = worklogs[d]
          /\ operation'[d] = IF d = command.date THEN "submitting" ELSE operation[d]
    BY <1>1, <1>11, <2>2 DEF Ret!Submit, Ret!TypeOK
  <2> QED BY <1>1, <1>2, <2>1, <2>2, <2>3 DEF Ret!Inv, Ret!DoubtRemembered, Ret!Open
<1>12. CASE Ret!Refused
  <2>1. command.date \in LocalDates /\ command # Ret!Lost
    BY <1>1, <1>12, CommandDate, CommandByKind, IdleAndLost DEF Ret!Refused, Ret!Executing
  <2>2. flying[command.date] = 1 /\ worklogs[command.date] = 0
    BY <1>2, <1>12, <2>1 DEF Ret!Refused
  <2>3. \A d \in LocalDates :
          /\ flying'[d] = IF d = command.date THEN 0 ELSE flying[d]
          /\ worklogs'[d] = worklogs[d]
          /\ d # command.date => operation'[d] = operation[d]
    BY <1>1, <1>12, <2>2 DEF Ret!Refused, Ret!TypeOK
  <2> QED BY <1>1, <1>2, <2>1, <2>2, <2>3 DEF Ret!Inv, Ret!DoubtRemembered
<1>13. ASSUME NEW e \in LocalDates, Ret!Arrive(e) PROVE Ret!Inv'
  <2>1. flying[e] = 1 /\ worklogs[e] = 0
    BY <1>2, <1>13 DEF Ret!Arrive
  <2>2. /\ flying'[e] = 0 /\ worklogs'[e] \in {0, 1}
        /\ \A d \in LocalDates : d # e => flying'[d] = flying[d] /\ worklogs'[d] = worklogs[d]
    BY <1>1, <1>13, <2>1 DEF Ret!Arrive, Ret!TypeOK
  <2>3. ASSUME NEW d \in LocalDates PROVE flying'[d] + worklogs'[d] <= 1
    <3>1. CASE d = e
      BY <2>2, <3>1
    <3>2. CASE d # e
      BY <1>2, <2>2, <3>2
    <3> QED BY <3>1, <3>2
  <2>4. UNCHANGED <<operation, command>>
    BY <1>13 DEF Ret!Arrive, Ret!tables
  <2>5. ASSUME NEW d \in LocalDates PROVE Ret!DoubtRemembered(d)'
    BY <1>2, <2>2, <2>4 DEF Ret!DoubtRemembered
  <2> QED BY <1>1, <2>3, <2>5 DEF Ret!Inv
<1> QED
  BY <1>4, <1>5, <1>6, <1>7, <1>8, <1>9, <1>10, <1>11, <1>12, <1>13
     DEF Ret!Next, Ret!vars, Ret!tables, Ret!RunTracking, Ret!Heal, Ret!Audit, Ret!Retain,
         Ret!CompactRunFiles, Ret!StartPhase, Ret!FinishPhase, Ret!FinishRun,
         Ret!PersistTerminal, Ret!Gated, Ret!Skip, Ret!WriteRunFile, Ret!Status, Ret!Purge,
         Ret!PurgeFiles, Ret!Crash, Ret!NextDay

\* Type correctness, and that what is under way is in the ledger, for any constants
\* (operator_retention.rs, execution.rs).
THEOREM RetentionInv == Ret!Spec => []Ret!Inv
BY RetentionStart, RetentionStep, PTL DEF Ret!Spec

\* Tempo gets an operation's worklog once, whatever expires, is purged, is interrupted or
\* arrives late (operator_retention.rs, compact_store and purge_state).
THEOREM OneWorklogPerOperationHolds == Ret!Spec => []Ret!OneWorklogPerOperation
<1>1. ASSUME Ret!Inv PROVE Ret!OneWorklogPerOperation
  <2>1. ASSUME NEW d \in LocalDates PROVE worklogs[d] <= 1
    <3>1. flying[d] \in Nat /\ worklogs[d] \in Nat /\ flying[d] + worklogs[d] <= 1
      BY <1>1 DEF Ret!Inv, Ret!TypeOK
    <3> QED BY <3>1
  <2> QED BY <2>1 DEF Ret!OneWorklogPerOperation
<1> QED BY <1>1, RetentionInv, PTL

-----------------------------------------------------------------------------
(* ReviewedRuns. For any proposals, policy and number of processes: a run  *)
(* submits only what the user has agreed to in the configuration as it is. *)

(* What a run knows of the state it is alone with. Beyond Bind its         *)
(* authorization stands.                                                   *)
AuthorizedRun == submission = "automatic" \/ (submission = "review" /\ approval = proposed)

BoundRun(p) ==
    running[p] # Runs!Idle /\ running[p].command = "run" =>
        /\ running[p].mode = submission
        /\ running[p].at \in {"execute", "load", "submit"} => AuthorizedRun
        /\ running[p].queue \subseteq proposed

RunsIInv == Runs!Inv /\ \A p \in Procs : BoundRun(p)

LEMMA IdleIsNoCommand == Runs!Idle \notin Runs!LongCommand
  BY DEF Runs!Idle, Runs!LongCommand

LEMMA BatchesArePart == \A e \in DOMAIN Batches : Batches[e] \subseteq Runs!Proposals
  BY DEF Runs!Proposals

LEMMA DecidedTyped ==
    ASSUME NEW authorized, verdict \in [Runs!Proposals -> Runs!Decisions]
    PROVE  Runs!Decided(authorized) \in [Runs!Proposals -> Runs!Decisions]
  BY DEF Runs!Decided, Runs!Decisions

(* A command that is one step runs only when no other is under way.        *)
LEMMA AloneInTheLock ==
    ASSUME Runs!Inv, NEW name, Runs!Exclusive(name), Runs!MayStart(name)
    PROVE  holders = {} /\ \A p \in Procs : running[p] = Runs!Idle
  BY DEF Runs!Inv, Runs!MayStart

LEMMA CommandsAreExclusive ==
    \A name \in {"setup", "run", "approve", "propose", "preview", "audit", "execute"} :
        Runs!Exclusive(name)
  BY DEF Runs!Exclusive

(* The steps of a long command that leave it with a record.                *)
LEMMA GotoKeeps ==
    ASSUME RunsIInv, NEW p \in Procs, NEW r \in Runs!LongCommand, running[p] # Runs!Idle,
           Runs!Goto(p, r), r.command = running[p].command, r.mode = running[p].mode,
           submission' = submission, proposed' \in SUBSET Runs!Proposals,
           complete' \in SUBSET Runs!Proposals,
           complete \subseteq complete', verdict' \in [Runs!Proposals -> Runs!Decisions],
           logged' \in SUBSET Runs!Proposals,
           allowed' \in BOOLEAN, shown' = shown, approval' = approval,
           r.command = "run" =>
              /\ r.at \in {"execute", "load", "submit"} => AuthorizedRun'
              /\ r.queue \subseteq proposed'
    PROVE  RunsIInv'
<1>1. holders = {p} /\ holders' = {p} /\ ended' = ended
      /\ running' = [running EXCEPT ![p] = r] /\ r # Runs!Idle
  BY IdleIsNoCommand DEF Runs!Goto, RunsIInv, Runs!Inv
<1>2. \A q \in Procs : q # p => running[q] = Runs!Idle
  BY <1>1 DEF RunsIInv, Runs!Inv
<1>3. running' \in [Procs -> {Runs!Idle} \cup Runs!LongCommand]
  BY <1>1 DEF RunsIInv, Runs!Inv
<1>4. \A q \in Procs : running'[q] = IF q = p THEN r ELSE Runs!Idle
  BY <1>1, <1>2 DEF RunsIInv, Runs!Inv
<1>5. Runs!Inv'
  BY <1>1, <1>3, <1>4 DEF RunsIInv, Runs!Inv
<1>6. \A q \in Procs : BoundRun(q)'
  <2> SUFFICES ASSUME NEW q \in Procs PROVE BoundRun(q)'
    OBVIOUS
  <2>1. CASE q = p
    BY <2>1, <1>1, <1>4 DEF BoundRun, RunsIInv, AuthorizedRun
  <2>2. CASE q # p
    BY <2>2, <1>4 DEF BoundRun
  <2> QED
    BY <2>1, <2>2
<1> QED
  BY <1>5, <1>6 DEF RunsIInv

(* The steps that end one.                                                 *)
LEMMA EndKeeps ==
    ASSUME RunsIInv, NEW p \in Procs, NEW how \in {"completed", "gated", "failed", "outage"},
           Runs!End(p, how), \A q \in Procs \ {p} : running[q] = Runs!Idle,
           submission' \in Runs!Modes, allowed' \in BOOLEAN, shown' = shown,
           proposed' \in SUBSET Runs!Proposals,
           complete' \in SUBSET Runs!Proposals,
           complete \subseteq complete', verdict' \in [Runs!Proposals -> Runs!Decisions],
           logged' \in SUBSET Runs!Proposals, approval' = approval
    PROVE  RunsIInv'
<1>1. \A q \in Procs : running'[q] = Runs!Idle
  BY DEF Runs!End, RunsIInv, Runs!Inv
<1>2. holders' = {}
  BY DEF Runs!End, RunsIInv, Runs!Inv
<1>3. Runs!Inv'
  BY <1>1, <1>2 DEF Runs!End, RunsIInv, Runs!Inv
<1> QED
  BY <1>1, <1>3 DEF RunsIInv, BoundRun

(* The steps between commands: nobody is under way, before or after.       *)
LEMMA QuietKeeps ==
    ASSUME RunsIInv, \A p \in Procs : running[p] = Runs!Idle, running' = running,
           holders' = holders, ended' = ended,
           submission' \in Runs!Modes, allowed' = allowed, shown' = shown, logged' = logged,
           proposed' \in SUBSET Runs!Proposals,
           complete' \in SUBSET Runs!Proposals,
           verdict' \in [Runs!Proposals -> Runs!Decisions],
           approval' \in SUBSET Runs!Proposals, approval' \subseteq complete'
    PROVE  RunsIInv'
<1>1. Runs!Inv'
  BY DEF RunsIInv, Runs!Inv
<1> QED
  BY <1>1 DEF RunsIInv, BoundRun

(* A record in the hands of p tells where p is.                            *)
LEMMA UnderWay ==
    ASSUME RunsIInv, NEW p \in Procs, running[p].at # "idle"
    PROVE  /\ running[p] \in Runs!LongCommand /\ running[p] # Runs!Idle
           /\ \A q \in Procs \ {p} : running[q] = Runs!Idle
<1>1. running[p] # Runs!Idle
  BY DEF Runs!Idle
<1> QED
  BY <1>1 DEF RunsIInv, Runs!Inv

LEMMA ApprovedArePart == Runs!Approved \subseteq proposed
  BY DEF Runs!Approved

(* The inductive invariant.                                                *)
LEMMA RunsInductive == Runs!Spec => []RunsIInv
<1>1. Runs!Init => RunsIInv
  BY DEF Runs!Init, RunsIInv, Runs!Inv, BoundRun, Runs!Modes, Runs!Decisions, Runs!Idle
<1>2. RunsIInv /\ [Runs!Next]_(Runs!vars) => RunsIInv'
  <2> SUFFICES ASSUME RunsIInv, [Runs!Next]_(Runs!vars) PROVE RunsIInv'
    OBVIOUS
  <2>a. /\ submission \in Runs!Modes /\ allowed \in BOOLEAN /\ shown \in DOMAIN Batches
        /\ proposed \subseteq Runs!Proposals /\ complete \subseteq Runs!Proposals
        /\ verdict \in [Runs!Proposals -> Runs!Decisions]
        /\ approval \subseteq Runs!Proposals /\ logged \subseteq Runs!Proposals
        /\ approval \subseteq complete
    BY DEF RunsIInv, Runs!Inv
  <2>b. \A authorized : Runs!Decided(authorized) \in [Runs!Proposals -> Runs!Decisions]
    BY <2>a, DecidedTyped
  <2>1. CASE Runs!Capture
    BY <2>1 DEF Runs!Capture, RunsIInv, Runs!Inv, BoundRun, Runs!store, AuthorizedRun
  <2>2. CASE Runs!OpenOrClose
    BY <2>2 DEF Runs!OpenOrClose, RunsIInv, Runs!Inv, BoundRun, Runs!store, AuthorizedRun
  <2>3. ASSUME NEW m \in Runs!Modes, Runs!Setup(m) PROVE RunsIInv'
    <3>1. \A p \in Procs : running[p] = Runs!Idle
      BY <2>3, CommandsAreExclusive, AloneInTheLock DEF Runs!Setup, RunsIInv
    <3> QED
      BY <2>3, <2>a, <3>1, QuietKeeps DEF Runs!Setup, Runs!store
  <2>4. CASE Runs!Approve
    <3>1. \A p \in Procs : running[p] = Runs!Idle
      BY <2>4, CommandsAreExclusive, AloneInTheLock DEF Runs!Approve, RunsIInv
    <3> QED
      BY <2>4, <2>a, <3>1, QuietKeeps DEF Runs!Approve, Runs!store, Runs!Readable
  <2>5. CASE Runs!Propose
    <3>1. \A p \in Procs : running[p] = Runs!Idle
      BY <2>5, CommandsAreExclusive, AloneInTheLock DEF Runs!Propose, RunsIInv
    <3> QED
      BY <2>5, <2>a, <3>1, BatchesArePart, QuietKeeps DEF Runs!Propose
  <2>6. CASE Runs!Preview
    <3>1. \A p \in Procs : running[p] = Runs!Idle
      BY <2>6, CommandsAreExclusive, AloneInTheLock DEF Runs!Preview, RunsIInv
    <3> QED
      BY <2>6, <2>a, <3>1, QuietKeeps DEF Runs!Preview
  <2>7. ASSUME NEW authorized \in BOOLEAN, Runs!Audit(authorized) PROVE RunsIInv'
    <3>1. \A p \in Procs : running[p] = Runs!Idle
      BY <2>7, CommandsAreExclusive, AloneInTheLock DEF Runs!Audit, RunsIInv
    <3> QED
      BY <2>7, <2>a, <2>b, <3>1, QuietKeeps DEF Runs!Audit
  <2>8. ASSUME NEW p \in Procs, Runs!StartRun(p) PROVE RunsIInv'
    <3>1. \A q \in Procs : running[q] = Runs!Idle
      BY <2>8, CommandsAreExclusive, AloneInTheLock DEF Runs!StartRun, RunsIInv
    <3>2. CASE submission = "review" \/ (submission = "automatic" /\ allowed) => Runs!Readable
      <4> DEFINE r == [at |-> "collect", command |-> "run", mode |-> submission,
                       digest |-> {}, selection |-> {}, queue |-> {}]
      <4>1. r \in Runs!LongCommand /\ r # Runs!Idle
        BY <2>a, IdleIsNoCommand DEF Runs!LongCommand
      <4>2. /\ running' = [running EXCEPT ![p] = r] /\ holders' = holders \cup {p}
            /\ ended' = ended
        BY <2>8, <3>2 DEF Runs!StartRun
      <4>3. \A q \in Procs : running'[q] = IF q = p THEN r ELSE Runs!Idle
        BY <3>1, <4>2 DEF RunsIInv, Runs!Inv
      <4>4. holders' = {p}
        BY <3>1, <4>2 DEF RunsIInv, Runs!Inv
      <4>5. running' \in [Procs -> {Runs!Idle} \cup Runs!LongCommand]
        BY <4>1, <4>2 DEF RunsIInv, Runs!Inv
      <4>6. Runs!Inv'
        BY <2>8, <4>1, <4>2, <4>3, <4>4, <4>5 DEF Runs!StartRun, Runs!store, RunsIInv, Runs!Inv
      <4>7. submission' = submission
        BY <2>8 DEF Runs!StartRun
      <4>8. \A q \in Procs : BoundRun(q)'
        BY <4>3, <4>7 DEF BoundRun
      <4> QED
        BY <4>6, <4>8 DEF RunsIInv
    <3>3. CASE ~(submission = "review" \/ (submission = "automatic" /\ allowed) => Runs!Readable)
      BY <2>8, <2>a, <3>1, <3>3, EndKeeps DEF Runs!StartRun, Runs!store
    <3> QED
      BY <3>2, <3>3
  <2>9. ASSUME NEW p \in Procs, Runs!StartExecute(p) PROVE RunsIInv'
    <3>1. \A q \in Procs : running[q] = Runs!Idle
      BY <2>9, CommandsAreExclusive, AloneInTheLock DEF Runs!StartExecute, RunsIInv
    <3>2. CASE allowed /\ Runs!Readable
      <4> DEFINE r == [at |-> "load", command |-> "execute", mode |-> submission,
                       digest |-> {}, selection |-> {}, queue |-> {}]
      <4>1. r \in Runs!LongCommand /\ r # Runs!Idle
        BY <2>a, IdleIsNoCommand DEF Runs!LongCommand
      <4>2. /\ running' = [running EXCEPT ![p] = r] /\ holders' = holders \cup {p}
            /\ ended' = ended
        BY <2>9, <3>2 DEF Runs!StartExecute
      <4>3. \A q \in Procs : running'[q] = IF q = p THEN r ELSE Runs!Idle
        BY <3>1, <4>2 DEF RunsIInv, Runs!Inv
      <4>4. holders' = {p}
        BY <3>1, <4>2 DEF RunsIInv, Runs!Inv
      <4>5. running' \in [Procs -> {Runs!Idle} \cup Runs!LongCommand]
        BY <4>1, <4>2 DEF RunsIInv, Runs!Inv
      <4>6. Runs!Inv'
        BY <2>9, <4>1, <4>2, <4>3, <4>4, <4>5
           DEF Runs!StartExecute, Runs!store, RunsIInv, Runs!Inv
      <4>8. \A q \in Procs : BoundRun(q)'
        BY <4>3 DEF BoundRun
      <4> QED
        BY <4>6, <4>8 DEF RunsIInv
    <3>3. CASE ~(allowed /\ Runs!Readable)
      BY <2>9, <2>a, <3>1, <3>3, EndKeeps DEF Runs!StartExecute, Runs!store
    <3> QED
      BY <3>2, <3>3
  <2>c. ASSUME NEW p \in Procs, running[p].at # "idle"
        PROVE  /\ running[p] \in Runs!LongCommand /\ running[p] # Runs!Idle /\ BoundRun(p)
               /\ \A q \in Procs \ {p} : running[q] = Runs!Idle
    BY <2>c, UnderWay DEF RunsIInv
  <2>10. ASSUME NEW p \in Procs, Runs!Collect(p) PROVE RunsIInv'
    <3>1. /\ running[p] \in Runs!LongCommand /\ running[p] # Runs!Idle /\ BoundRun(p)
          /\ running[p].command = "run"
      BY <2>10, <2>c DEF Runs!Collect, Runs!At
    <3>2. proposed' \in SUBSET Runs!Proposals /\ proposed \subseteq proposed'
      BY <2>10, <2>a, BatchesArePart DEF Runs!Collect
    <3> DEFINE r == [running[p] EXCEPT !.at = "audit"]
    <3>3. r \in Runs!LongCommand /\ r.at = "audit" /\ r.command = running[p].command
          /\ r.mode = running[p].mode /\ r.queue = running[p].queue
      BY <3>1 DEF Runs!LongCommand
    <3>4. r.queue \subseteq proposed'
      BY <3>1, <3>2, <3>3 DEF BoundRun
    <3>5. Runs!Goto(p, r)
      BY <2>10 DEF Runs!Collect
    <3> HIDE DEF r
    <3> QED
      BY <2>10, <2>a, <3>1, <3>2, <3>3, <3>4, <3>5, GotoKeeps DEF Runs!Collect
  <2>11. ASSUME NEW p \in Procs, Runs!AuditInRun(p) PROVE RunsIInv'
    <3>1. /\ running[p] \in Runs!LongCommand /\ running[p] # Runs!Idle /\ BoundRun(p)
          /\ running[p].command = "run" /\ \A q \in Procs \ {p} : running[q] = Runs!Idle
      BY <2>11, <2>c DEF Runs!AuditInRun, Runs!At
    <3>2. CASE running[p].mode = "review" => Runs!Readable
      <4> DEFINE r == [running[p] EXCEPT !.at = "digest"]
      <4>1. r \in Runs!LongCommand /\ r.at = "digest" /\ r.command = running[p].command
            /\ r.mode = running[p].mode /\ r.queue = running[p].queue
        BY <3>1 DEF Runs!LongCommand
      <4>2. r.queue \subseteq proposed
        BY <3>1, <4>1 DEF BoundRun
      <4>3. /\ Runs!Goto(p, r) /\ complete' = complete \cup proposed
            /\ verdict' \in [Runs!Proposals -> Runs!Decisions]
        BY <2>11, <2>b, <3>2 DEF Runs!AuditInRun
      <4> HIDE DEF r
      <4> QED
        BY <2>11, <2>a, <3>1, <4>1, <4>2, <4>3, GotoKeeps DEF Runs!AuditInRun
    <3>3. CASE ~(running[p].mode = "review" => Runs!Readable)
      BY <2>11, <2>a, <3>1, <3>3, EndKeeps DEF Runs!AuditInRun
    <3> QED
      BY <3>2, <3>3
  <2>12. ASSUME NEW p \in Procs, Runs!Bind(p) PROVE RunsIInv'
    <3>1. /\ running[p] \in Runs!LongCommand /\ running[p] # Runs!Idle /\ BoundRun(p)
          /\ running[p].command = "run" /\ \A q \in Procs \ {p} : running[q] = Runs!Idle
      BY <2>12, <2>c DEF Runs!Bind, Runs!At
    <3> DEFINE digest == IF running[p].mode = "review" /\ Runs!Matches(proposed)
                         THEN proposed ELSE {}
               authorized == running[p].mode = "automatic" \/ digest # {}
               r == [running[p] EXCEPT !.at = "execute", !.digest = digest,
                                   !.selection = Runs!Approved]
    <3>2. CASE ~Runs!Readable \/ ~authorized
      BY <2>12, <2>a, <3>1, <3>2, EndKeeps DEF Runs!Bind, Runs!store
    <3>3. CASE Runs!Readable /\ authorized
      <4>1. r \in Runs!LongCommand /\ r.at = "execute" /\ r.command = running[p].command
            /\ r.mode = running[p].mode /\ r.queue = running[p].queue
        BY <2>a, <3>1, ApprovedArePart DEF Runs!LongCommand
      <4>2. r.queue \subseteq proposed /\ running[p].mode = submission
        BY <3>1, <4>1 DEF BoundRun
      <4>3. AuthorizedRun
        BY <3>3, <4>2 DEF AuthorizedRun, Runs!Matches
      <4>4. Runs!Goto(p, r) /\ UNCHANGED <<submission, allowed, shown, Runs!store, approval,
                                                 logged>>
        BY <2>12, <3>3 DEF Runs!Bind
      <4>5. AuthorizedRun'
        BY <4>3, <4>4 DEF AuthorizedRun, Runs!store
      <4> HIDE DEF r, digest, authorized
      <4> QED
        BY <2>a, <3>1, <4>1, <4>2, <4>4, <4>5, GotoKeeps DEF Runs!store
    <3> QED
      BY <3>2, <3>3
  <2>13. ASSUME NEW p \in Procs, Runs!Check(p) PROVE RunsIInv'
    <3>1. /\ running[p] \in Runs!LongCommand /\ running[p] # Runs!Idle /\ BoundRun(p)
          /\ running[p].command = "run" /\ running[p].at = "execute"
          /\ \A q \in Procs \ {p} : running[q] = Runs!Idle
      BY <2>13, <2>c DEF Runs!Check, Runs!At
    <3> DEFINE r == [running[p] EXCEPT !.at = "load"]
    <3>2. CASE Runs!Goto(p, r)
      <4>1. r \in Runs!LongCommand /\ r.at = "load" /\ r.command = running[p].command
            /\ r.mode = running[p].mode /\ r.queue = running[p].queue
        BY <3>1 DEF Runs!LongCommand
      <4>2. r.queue \subseteq proposed /\ AuthorizedRun
        BY <3>1, <4>1 DEF BoundRun
      <4>3. UNCHANGED <<submission, allowed, shown, Runs!store, approval,
                                                 logged>>
        BY <2>13 DEF Runs!Check
      <4>4. AuthorizedRun'
        BY <4>2, <4>3 DEF AuthorizedRun, Runs!store
      <4> HIDE DEF r
      <4> QED
        BY <2>a, <3>1, <3>2, <4>1, <4>2, <4>3, <4>4, GotoKeeps DEF Runs!store
    <3>3. CASE Runs!End(p, "failed") \/ Runs!End(p, "gated")
      BY <2>13, <2>a, <3>1, <3>3, EndKeeps DEF Runs!Check, Runs!store
    <3> QED
      BY <2>13, <3>2, <3>3 DEF Runs!Check
  <2>14. ASSUME NEW p \in Procs, Runs!LoadPayloads(p) PROVE RunsIInv'
    <3>1. /\ running[p] \in Runs!LongCommand /\ running[p] # Runs!Idle /\ BoundRun(p)
          /\ running[p].at = "load" /\ \A q \in Procs \ {p} : running[q] = Runs!Idle
      BY <2>14, <2>c DEF Runs!LoadPayloads
    <3> DEFINE r == [running[p] EXCEPT !.at = "submit", !.queue = Runs!Approved]
    <3>2. CASE Runs!Goto(p, r)
      <4>1. r \in Runs!LongCommand /\ r.command = running[p].command
            /\ r.mode = running[p].mode /\ r.queue = Runs!Approved
        BY <2>a, <3>1, ApprovedArePart DEF Runs!LongCommand
      <4>2. r.queue \subseteq proposed
        BY <4>1, ApprovedArePart
      <4>3. UNCHANGED <<submission, allowed, shown, Runs!store, approval,
                                                 logged>>
        BY <2>14 DEF Runs!LoadPayloads
      <4>4. running[p].command = "run" => AuthorizedRun'
        BY <3>1, <4>3 DEF BoundRun, AuthorizedRun, Runs!store
      <4> HIDE DEF r
      <4> QED
        BY <2>a, <3>1, <3>2, <4>1, <4>2, <4>3, <4>4, GotoKeeps DEF Runs!store
    <3>3. CASE Runs!End(p, "failed")
      BY <2>14, <2>a, <3>1, <3>3, EndKeeps DEF Runs!LoadPayloads, Runs!store
    <3> QED
      BY <2>14, <3>2, <3>3 DEF Runs!LoadPayloads
  <2>15. ASSUME NEW p \in Procs, Runs!Submit(p) PROVE RunsIInv'
    <3>1. /\ running[p] \in Runs!LongCommand /\ running[p] # Runs!Idle /\ BoundRun(p)
          /\ running[p].at = "submit"
      BY <2>15, <2>c DEF Runs!Submit
    <3>2. PICK x \in running[p].queue : /\ Runs!Goto(p, [running[p] EXCEPT !.queue = @ \ {x}])
                                    /\ logged' \in {logged, logged \cup {x}}
      BY <2>15 DEF Runs!Submit
    <3> DEFINE r == [running[p] EXCEPT !.queue = @ \ {x}]
    <3>3. r \in Runs!LongCommand /\ r.command = running[p].command /\ r.at = running[p].at
          /\ r.mode = running[p].mode /\ r.queue = running[p].queue \ {x}
      BY <3>1 DEF Runs!LongCommand
    <3>4. UNCHANGED <<submission, allowed, shown, Runs!store, approval>>
      BY <2>15 DEF Runs!Submit
    <3>5. running[p].command = "run" => AuthorizedRun' /\ r.queue \subseteq proposed'
      BY <3>1, <3>3, <3>4 DEF BoundRun, AuthorizedRun, Runs!store
    <3>6. x \in Runs!Proposals
      BY <3>1 DEF Runs!LongCommand
    <3>7. logged' \in SUBSET Runs!Proposals
      BY <2>a, <3>2, <3>6
    <3>8. Runs!Goto(p, r)
      BY <3>2
    <3> HIDE DEF r
    <3> QED
      BY <2>a, <3>1, <3>3, <3>4, <3>5, <3>7, <3>8, GotoKeeps DEF Runs!store
  <2>16. ASSUME NEW p \in Procs, Runs!FinishExecution(p) PROVE RunsIInv'
    <3>1. \A q \in Procs \ {p} : running[q] = Runs!Idle
      BY <2>16, <2>c DEF Runs!FinishExecution
    <3> QED
      BY <2>16, <2>a, <3>1, EndKeeps DEF Runs!FinishExecution, Runs!store
  <2>17. ASSUME NEW p \in Procs, Runs!BreakOff(p) PROVE RunsIInv'
    <3>1. \A q \in Procs \ {p} : running[q] = Runs!Idle
      BY <2>17 DEF Runs!BreakOff, RunsIInv, Runs!Inv
    <3> QED
      BY <2>17, <2>a, <3>1, EndKeeps DEF Runs!BreakOff, Runs!store
  <2>18. ASSUME NEW p \in Procs, Runs!ResolveAndBreakOff(p) PROVE RunsIInv'
    <3>1. \A q \in Procs \ {p} : running[q] = Runs!Idle
      BY <2>18, <2>c DEF Runs!ResolveAndBreakOff, Runs!At
    <3> QED
      BY <2>18, <2>a, <3>1, EndKeeps DEF Runs!ResolveAndBreakOff
  <2>19. CASE UNCHANGED Runs!vars
    BY <2>19 DEF Runs!vars, Runs!store, RunsIInv, Runs!Inv, BoundRun, AuthorizedRun
  <2> QED
    BY <2>1, <2>2, <2>3, <2>4, <2>5, <2>6, <2>7, <2>8, <2>9, <2>10, <2>11, <2>12, <2>13,
       <2>14, <2>15, <2>16, <2>17, <2>18, <2>19 DEF Runs!Next, Runs!RunStep
<1> QED
  BY <1>1, <1>2, PTL DEF Runs!Spec

(* Every run is alone with the state, and what was approved is readable.   *)
THEOREM RunsAreAlone == Runs!Spec => []Runs!Inv
BY RunsInductive, PTL DEF RunsIInv

(* Nothing leaves in a run that the user has not agreed to in the          *)
(* configuration as it is at that moment.                                  *)
THEOREM OnlyConsented == Runs!Spec => Runs!SubmitsOnlyConsented
<1>1. RunsIInv => Runs!ConsentedStep
  BY DEF RunsIInv, BoundRun, AuthorizedRun, Runs!Consented, Runs!ConsentedStep
<1> QED
  BY <1>1, RunsInductive, PTL DEF Runs!SubmitsOnlyConsented

-----------------------------------------------------------------------------
(* TrackingSetup. For any sources, times, plans and flags: what is         *)
(* configured and installed is what the user chose.                        *)

Configs ==
    [exists : BOOLEAN, installed : BOOLEAN, repos : SUBSET Repos, calendars : SUBSET Calendars,
     claude : BOOLEAN, at : Times, mode : Setup!Modes, authorized : BOOLEAN,
     target : BOOLEAN, hooks : BOOLEAN]

SetupCommands == [at : {"scheduler", "hooks", "own", "finish"}, args : Answers]
OtherCommands == [at : {"update"}, when : Times] \cup [at : {"unhook", "drop"}]

(* What each step of a command may count on.                               *)
CommandKnows ==
    /\ setupCommand.at = "scheduler" => setupConfig.target
    /\ setupCommand.at = "scheduler" /\ setupCommand.args.hooks => chosen.hooks
    /\ setupCommand.at \in {"hooks", "own"} => chosen.hooks
    /\ setupCommand.at \in {"unhook", "drop"} => timer = NotSet
    /\ setupCommand.at = "update" /\ setupConfig.target => timer = setupCommand.when

(* What was asked for covers what the configuration says is installed, and *)
(* a timer is there only under a configuration that says so.               *)
ChosenCovers ==
    /\ setupConfig.hooks => chosen.hooks
    /\ setupConfig.target => chosen.scheduler
    /\ timer # NotSet => setupConfig.target

(* Between the two halves of a change of the schedule the timer is ahead.  *)
TimerAgrees ==
    timer # NotSet /\ ~apart /\ setupCommand.at \notin {"scheduler", "update"} =>
        timer = setupConfig.at

SetupTyped ==
    /\ session # NotSet => session.plan \in Answers
    /\ setupConfig \in Configs
    /\ setupCommand \in {Setup!Idle} \cup SetupCommands \cup OtherCommands
    /\ chosen \in [repos : SUBSET Repos, calendars : SUBSET Calendars, automatic : BOOLEAN,
                   hooks : BOOLEAN, scheduler : BOOLEAN]
    /\ hook \in BOOLEAN /\ apart \in BOOLEAN

SetupIInv == SetupTyped /\ CommandKnows /\ ChosenCovers /\ TimerAgrees /\ Setup!ChoicesKept

LEMMA SaidIsUpdated ==
    ASSUME NEW sources, NEW s \in Sourced(sources), NEW old \in SUBSET sources
    PROVE  /\ Setup!Said(s, old) = Setup!Updated(s, old)
           /\ Setup!Updated(s, old) \in SUBSET sources
<1>1. s = [list |-> s.list, clear |-> s.clear] /\ s.clear \in BOOLEAN /\ s.list \in Seq(sources)
  BY DEF Sourced
<1>2. s = Setup!Unselected <=> s.list = <<>> /\ ~s.clear
  BY <1>1 DEF Setup!Unselected, Setup!Selection
<1>3. Setup!Elements(s.list) \in SUBSET sources
  BY <1>1 DEF Setup!Elements
<1> QED
  BY <1>2, <1>3, <1>1 DEF Setup!Said, Setup!Updated

LEMMA SetupStart == Setup!Init => SetupIInv
<1> SUFFICES ASSUME Setup!Init PROVE SetupIInv
  OBVIOUS
<1> DEFINE ChosenTyped ==
             chosen \in [repos : SUBSET Repos, calendars : SUBSET Calendars,
                        automatic : BOOLEAN, hooks : BOOLEAN, scheduler : BOOLEAN]
           Covered ==
             /\ setupConfig.repos = chosen.repos /\ setupConfig.calendars = chosen.calendars
             /\ setupConfig.mode = "automatic" => setupConfig.authorized /\ chosen.automatic
             /\ setupConfig.hooks => chosen.hooks
             /\ setupConfig.target => chosen.scheduler
             /\ hook \in BOOLEAN /\ (hook => chosen.hooks)
             /\ timer # NotSet => setupConfig.target /\ timer = setupConfig.at
           Said == setupConfig \in Configs /\ ChosenTyped /\ Covered
<1>1. /\ Setup!Default \in Configs
      /\ Setup!Default.repos = {} /\ Setup!Default.calendars = {}
      /\ Setup!Default.mode = "draft" /\ Setup!Default.hooks = FALSE
      /\ Setup!Default.target = FALSE
  BY AnswersAssumption DEF Setup!Default, Configs, Setup!Modes
<1>2. ASSUME setupConfig = Setup!Default, timer = NotSet, hook = FALSE,
             chosen = [repos |-> {}, calendars |-> {}, automatic |-> FALSE,
                       hooks |-> FALSE, scheduler |-> FALSE]
      PROVE  Said
  <2>1. ChosenTyped
    BY <1>2
  <2> QED
    BY <1>1, <1>2, <2>1
<1>3. ASSUME setupConfig = [Setup!Default EXCEPT !.exists = TRUE, !.installed = TRUE,
                 !.repos = Repos, !.claude = TRUE, !.mode = "automatic",
                 !.authorized = TRUE, !.target = TRUE, !.hooks = TRUE],
             timer = setupConfig.at, hook = TRUE,
             chosen = [repos |-> Repos, calendars |-> {}, automatic |-> TRUE,
                       hooks |-> TRUE, scheduler |-> TRUE]
      PROVE  Said
  <2>1. ChosenTyped
    BY <1>3
  <2>2. /\ setupConfig \in Configs
        /\ setupConfig.repos = Repos /\ setupConfig.calendars = {}
        /\ setupConfig.authorized = TRUE /\ setupConfig.target = TRUE
    BY <1>1, <1>3 DEF Configs, Setup!Modes
  <2> QED
    BY <1>3, <2>1, <2>2
<1>4. /\ Said
      /\ session = NotSet /\ setupCommand = Setup!Idle /\ apart = FALSE
  BY <1>2, <1>3 DEF Setup!Init
<1> HIDE DEF ChosenTyped
<1>5. SetupTyped
  BY <1>4 DEF SetupTyped, ChosenTyped
<1>6. CommandKnows /\ ChosenCovers /\ TimerAgrees /\ Setup!ChoicesKept
  BY <1>4 DEF CommandKnows, ChosenCovers, TimerAgrees, Setup!ChoicesKept, Setup!Idle
<1> QED
  BY <1>5, <1>6 DEF SetupIInv

(* A setup that is handed over with any answers.                           *)
LEMMA DelegateKeeps ==
    ASSUME SetupIInv, NEW args \in Answers, Setup!Delegate(args),
           UNCHANGED <<timer, hook>>, session' # NotSet => session'.plan \in Answers
    PROVE  SetupIInv'
<1> DEFINE newMode == Setup!Or(args.mode, setupConfig.mode)
           newAt == Setup!Or(args.at, setupConfig.at)
           newRepos == Setup!Updated(args.repos, setupConfig.repos)
           newCalendars == Setup!Updated(args.calendars, setupConfig.calendars)
           newAuthorized == newMode = "automatic" /\ (args.authorize \/ setupConfig.authorized)
           newTarget == setupConfig.target \/ args.scheduler
<1>1. CASE UNCHANGED <<setupConfig, setupCommand, chosen, apart>>
  BY <1>1 DEF SetupIInv, SetupTyped, CommandKnows, ChosenCovers, TimerAgrees, Setup!ChoicesKept
<1>2. CASE ~UNCHANGED <<setupConfig, setupCommand, chosen, apart>>
  <2>1. /\ setupCommand = Setup!Idle /\ newAt \in Times /\ Setup!Agreed(args, newMode)
        /\ setupConfig' = [setupConfig EXCEPT
              !.exists = TRUE, !.installed = FALSE, !.repos = newRepos,
              !.calendars = newCalendars, !.at = newAt, !.mode = newMode,
              !.authorized = newMode = "automatic" /\ (args.authorize \/ @),
              !.target = @ \/ args.scheduler]
        /\ setupCommand' = [at |-> Setup!After("save", args), args |-> args]
        /\ chosen' = [repos |-> Setup!Said(args.repos, chosen.repos),
                      calendars |-> Setup!Said(args.calendars, chosen.calendars),
                      automatic |-> newMode = "automatic"
                                       /\ (args.authorize \/ chosen.automatic),
                      hooks |-> args.hooks \/ chosen.hooks,
                      scheduler |-> args.scheduler \/ chosen.scheduler]
        /\ apart' = (apart \/ (~args.scheduler /\ newAt # setupConfig.at))
    BY <1>2 DEF Setup!Delegate, Setup!Setup
  <2>2. /\ args.mode \in Setup!Modes \cup {NotSet} /\ args.authorize \in BOOLEAN
        /\ args.scheduler \in BOOLEAN /\ args.hooks \in BOOLEAN
        /\ args.repos \in Sourced(Repos) /\ args.calendars \in Sourced(Calendars)
    BY DEF Answers
  <2>3. /\ setupConfig \in Configs
        /\ chosen \in [repos : SUBSET Repos, calendars : SUBSET Calendars,
                       automatic : BOOLEAN, hooks : BOOLEAN, scheduler : BOOLEAN]
        /\ setupConfig.repos = chosen.repos /\ setupConfig.calendars = chosen.calendars
        /\ hook \in BOOLEAN /\ apart \in BOOLEAN
    BY DEF SetupIInv, SetupTyped, Setup!ChoicesKept
  <2>4. setupConfig.repos \in SUBSET Repos /\ setupConfig.calendars \in SUBSET Calendars
    BY <2>3 DEF Configs
  <2>5. /\ Setup!Said(args.repos, chosen.repos) = newRepos /\ newRepos \in SUBSET Repos
        /\ Setup!Said(args.calendars, chosen.calendars) = newCalendars
        /\ newCalendars \in SUBSET Calendars
    BY <2>2, <2>3, <2>4, SaidIsUpdated
  <2>6. newMode \in Setup!Modes
    BY <2>2, <2>3 DEF Setup!Or, Configs
  <2>6a. newAuthorized \in BOOLEAN /\ newTarget \in BOOLEAN
    OBVIOUS
  <2>6b. setupConfig' = [setupConfig EXCEPT
              !.exists = TRUE, !.installed = FALSE, !.repos = newRepos,
              !.calendars = newCalendars, !.at = newAt, !.mode = newMode,
              !.authorized = newAuthorized, !.target = newTarget]
    BY <2>1
  <2>6c. setupConfig' \in Configs
    <3> HIDE DEF newRepos, newCalendars, newMode, newAt, newAuthorized, newTarget
    <3> QED
      BY <2>1, <2>3, <2>5, <2>6, <2>6a, <2>6b DEF Configs
  <2> HIDE DEF newRepos, newCalendars, newMode, newAt
  <2>7. /\ setupConfig'.exists = TRUE /\ setupConfig'.installed = FALSE
        /\ setupConfig'.repos = newRepos /\ setupConfig'.calendars = newCalendars
        /\ setupConfig'.at = newAt /\ setupConfig'.mode = newMode
        /\ setupConfig'.authorized =
              (newMode = "automatic" /\ (args.authorize \/ setupConfig.authorized))
        /\ setupConfig'.target = (setupConfig.target \/ args.scheduler)
        /\ setupConfig'.hooks = setupConfig.hooks
    BY <2>1, <2>3 DEF Configs
  <2>9. /\ chosen'.repos = newRepos /\ chosen'.calendars = newCalendars
        /\ chosen'.automatic = (newMode = "automatic" /\ (args.authorize \/ chosen.automatic))
        /\ chosen'.hooks = (args.hooks \/ chosen.hooks)
        /\ chosen'.scheduler = (args.scheduler \/ chosen.scheduler)
    BY <2>1, <2>5
  <2>10. chosen' \in [repos : SUBSET Repos, calendars : SUBSET Calendars,
                      automatic : BOOLEAN, hooks : BOOLEAN, scheduler : BOOLEAN]
    BY <2>1, <2>2, <2>3, <2>5
  <2>11. /\ setupCommand'.at = Setup!After("save", args) /\ setupCommand'.args = args
         /\ setupCommand' \in SetupCommands
         /\ setupCommand'.at # "update"
         /\ setupCommand'.at = "scheduler" <=> args.scheduler
         /\ setupCommand'.at \in {"hooks", "own"} => args.hooks
    BY <2>1 DEF Setup!After, SetupCommands
  <2>12. SetupTyped'
    BY <2>1, <2>2, <2>3, <2>6c, <2>10, <2>11 DEF SetupTyped
  <2>13. CommandKnows'
    BY <2>7, <2>9, <2>11 DEF CommandKnows, SetupIInv, Setup!After
  <2>14. ChosenCovers'
    BY <2>7, <2>9 DEF ChosenCovers, SetupIInv
  <2>15. TimerAgrees'
    BY <2>1, <2>7, <2>9, <2>11 DEF TimerAgrees, SetupIInv, Setup!Idle
  <2>16. newMode = "automatic" => /\ args.authorize \/ setupConfig.authorized
                                  /\ args.authorize \/ chosen.automatic
    BY <2>1 DEF Setup!Agreed, SetupIInv, Setup!ChoicesKept
  <2>17. Setup!ChoicesKept'
    BY <2>7, <2>9, <2>16 DEF Setup!ChoicesKept, SetupIInv
  <2> QED
    BY <2>12, <2>13, <2>14, <2>15, <2>17 DEF SetupIInv
<1> QED
  BY <1>1, <1>2

(* The steps that leave configuration, command, timer and hooks alone.     *)
LEMMA QuestionKeeps ==
    ASSUME SetupIInv, UNCHANGED <<setupConfig, setupCommand, timer, hook, chosen, apart>>,
           session' # NotSet => session'.plan \in Answers
    PROVE  SetupIInv'
BY DEF SetupIInv, SetupTyped, CommandKnows, ChosenCovers, TimerAgrees, Setup!ChoicesKept

(* A record stays one of its kind when a field is replaced.                *)
LEMMA PlanWith ==
    ASSUME NEW plan \in Answers
    PROVE  /\ \A b \in BOOLEAN : [plan EXCEPT !.authorize = b] \in Answers
           /\ \A m \in Setup!Modes : [plan EXCEPT !.mode = m] \in Answers
BY DEF Answers

LEMMA CommandKinds ==
    ASSUME SetupTyped
    PROVE  /\ setupCommand.at \in {"scheduler", "hooks", "own", "finish"} =>
                 setupCommand \in SetupCommands
           /\ setupCommand.at = "update" => setupCommand.when \in Times
BY DEF SetupTyped, SetupCommands, OtherCommands, Setup!Idle

LEMMA SetupStep == SetupIInv /\ [Setup!Next]_(Setup!vars) => SetupIInv'
<1> SUFFICES ASSUME SetupIInv, [Setup!Next]_(Setup!vars) PROVE SetupIInv'
  OBVIOUS
<1>a. SetupTyped /\ CommandKnows /\ ChosenCovers /\ TimerAgrees /\ Setup!ChoicesKept
  BY DEF SetupIInv
<1>b. session # NotSet => session.plan \in Answers
  BY <1>a DEF SetupTyped
<1>c. setupConfig \in Configs
  BY <1>a DEF SetupTyped
<1>1. CASE Setup!StartSession
  BY <1>1, AnswersAssumption, QuestionKeeps DEF Setup!StartSession, Setup!effects
<1>2. CASE Setup!Leave
  BY <1>2, QuestionKeeps DEF Setup!Leave, Setup!effects
<1>3. CASE Setup!AnswerRepos
  BY <1>3, <1>b, QuestionKeeps DEF Setup!AnswerRepos, Setup!GoOn, Setup!effects, Setup!Ask
<1>4. CASE Setup!AnswerCalendars
  BY <1>4, <1>b, QuestionKeeps DEF Setup!AnswerCalendars, Setup!GoOn, Setup!effects, Setup!Ask
<1>5. CASE Setup!AnswerRest
  BY <1>5, <1>b, QuestionKeeps DEF Setup!AnswerRest, Setup!GoOn, Setup!effects, Setup!Ask
<1>c1. ASSUME session # NotSet, Setup!Conclude PROVE SetupIInv'
  <2>1. [session.plan EXCEPT !.authorize = session.at = "authorize"] \in Answers
    BY <1>c1, <1>b, PlanWith
  <2> QED
    BY <1>c1, <2>1, DelegateKeeps DEF Setup!Conclude, Setup!effects
<1>6. CASE Setup!AnswerMode
  <2>1. CASE Setup!Conclude
    BY <1>6, <2>1, <1>c1 DEF Setup!AnswerMode, Setup!Ask
  <2>2. CASE Setup!GoOn([session EXCEPT !.at = "authorize"])
    BY <1>6, <2>2, <1>b, QuestionKeeps
       DEF Setup!AnswerMode, Setup!GoOn, Setup!effects, Setup!Ask
  <2> QED
    BY <1>6, <2>1, <2>2 DEF Setup!AnswerMode
<1>7. CASE Setup!AnswerAuthorize
  <2>1. CASE Setup!Conclude
    BY <1>7, <2>1, <1>c1 DEF Setup!AnswerAuthorize, Setup!Ask
  <2>2. ASSUME NEW m \in Setup!Modes \ {"automatic"},
               Setup!GoOn([at |-> "mode", plan |-> [session.plan EXCEPT !.mode = m]])
        PROVE  SetupIInv'
    <3>1. [session.plan EXCEPT !.mode = m] \in Answers
      BY <1>7, <2>2, <1>b, PlanWith DEF Setup!AnswerAuthorize, Setup!Ask
    <3> QED
      BY <2>2, <3>1, QuestionKeeps DEF Setup!GoOn, Setup!effects
  <2> QED
    BY <1>7, <2>1, <2>2 DEF Setup!AnswerAuthorize
<1>8. ASSUME NEW args \in Flags, Setup!SetupCommand(args) PROVE SetupIInv'
  BY <1>8, <1>b, AnswersAssumption, DelegateKeeps DEF Setup!SetupCommand, Setup!effects
<1>9. CASE Setup!InstallScheduler
  <2>1. setupCommand \in SetupCommands /\ setupCommand.at = "scheduler"
    BY <1>9, <1>a, CommandKinds DEF Setup!InstallScheduler
  <2>2. /\ setupCommand' \in SetupCommands
        /\ setupCommand'.at \in {"hooks", "finish"}
        /\ setupCommand'.at = "hooks" => setupCommand.args.hooks
    BY <1>9, <2>1 DEF Setup!InstallScheduler, Setup!After, SetupCommands
  <2>3. SetupTyped'
    BY <1>9, <1>a, <2>2 DEF Setup!InstallScheduler, SetupTyped
  <2> QED
    BY <1>9, <1>a, <2>1, <2>2, <2>3
       DEF Setup!InstallScheduler, SetupIInv, CommandKnows, ChosenCovers, TimerAgrees,
           Setup!ChoicesKept
<1>10. CASE Setup!InstallHooks
  <2>1. setupCommand \in SetupCommands /\ setupCommand.at = "hooks"
    BY <1>10, <1>a, CommandKinds DEF Setup!InstallHooks
  <2>2. setupCommand' \in SetupCommands /\ setupCommand'.at = "own"
    BY <1>10, <2>1 DEF Setup!InstallHooks, SetupCommands
  <2>3. SetupTyped'
    BY <1>10, <1>a, <2>2 DEF Setup!InstallHooks, SetupTyped
  <2> QED
    BY <1>10, <1>a, <2>1, <2>2, <2>3
       DEF Setup!InstallHooks, SetupIInv, CommandKnows, ChosenCovers, TimerAgrees,
           Setup!ChoicesKept, Setup!Idle
<1>11. CASE Setup!OwnHooks
  <2>1. setupCommand \in SetupCommands /\ setupCommand.at = "own"
    BY <1>11, <1>a, CommandKinds DEF Setup!OwnHooks
  <2>2. setupCommand' \in SetupCommands /\ setupCommand'.at = "finish"
    BY <1>11, <2>1 DEF Setup!OwnHooks, SetupCommands
  <2>3. setupConfig' \in Configs
    BY <1>11, <1>c DEF Setup!OwnHooks, Configs
  <2>4. SetupTyped'
    BY <1>11, <1>a, <2>2, <2>3 DEF Setup!OwnHooks, Setup!effects, SetupTyped
  <2>5. /\ setupConfig'.repos = setupConfig.repos
        /\ setupConfig'.calendars = setupConfig.calendars
        /\ setupConfig'.mode = setupConfig.mode /\ setupConfig'.at = setupConfig.at
        /\ setupConfig'.authorized = setupConfig.authorized
        /\ setupConfig'.target = setupConfig.target
    BY <1>11, <1>c DEF Setup!OwnHooks, Configs
  <2> QED
    BY <1>11, <1>a, <2>1, <2>2, <2>4, <2>5
       DEF Setup!OwnHooks, Setup!effects, SetupIInv, CommandKnows, ChosenCovers, TimerAgrees,
           Setup!ChoicesKept, Setup!Idle
<1>12. CASE Setup!FinishSetup
  <2>1. setupCommand.at = "finish" /\ setupCommand'.at = "idle"
    BY <1>12 DEF Setup!FinishSetup, Setup!Idle
  <2>2. setupConfig' \in Configs
    BY <1>12, <1>c DEF Setup!FinishSetup, Configs
  <2>3. SetupTyped'
    BY <1>12, <1>a, <2>2 DEF Setup!FinishSetup, Setup!effects, SetupTyped
  <2>4. /\ setupConfig'.repos = setupConfig.repos
        /\ setupConfig'.calendars = setupConfig.calendars
        /\ setupConfig'.mode = setupConfig.mode /\ setupConfig'.at = setupConfig.at
        /\ setupConfig'.authorized = setupConfig.authorized
        /\ setupConfig'.target = setupConfig.target /\ setupConfig'.hooks = setupConfig.hooks
    BY <1>12, <1>c DEF Setup!FinishSetup, Configs
  <2> QED
    BY <1>12, <1>a, <2>1, <2>3, <2>4
       DEF Setup!FinishSetup, Setup!effects, SetupIInv, CommandKnows, ChosenCovers, TimerAgrees,
           Setup!ChoicesKept
<1>13. ASSUME NEW t \in Times, Setup!UpdateSchedule(t) PROVE SetupIInv'
  <2>1. /\ setupCommand' = [at |-> "update", when |-> t]
        /\ setupCommand' \in OtherCommands
    BY <1>13 DEF Setup!UpdateSchedule, OtherCommands
  <2>2. SetupTyped'
    BY <1>13, <1>a, <2>1 DEF Setup!UpdateSchedule, SetupTyped
  <2> QED
    BY <1>13, <1>a, <2>1, <2>2
       DEF Setup!UpdateSchedule, SetupIInv, CommandKnows, ChosenCovers, TimerAgrees,
           Setup!ChoicesKept, Setup!Idle
<1>14. CASE Setup!SaveSchedule
  <2>1. /\ setupCommand.at = "update" /\ setupCommand.when \in Times
        /\ setupCommand'.at = "idle"
    BY <1>14, <1>a, CommandKinds DEF Setup!SaveSchedule, Setup!Idle
  <2>2. setupConfig' \in Configs
    BY <1>14, <1>c, <2>1 DEF Setup!SaveSchedule, Configs
  <2>3. apart' \in BOOLEAN
    BY <1>14 DEF Setup!SaveSchedule
  <2>4. SetupTyped'
    BY <1>14, <1>a, <2>2, <2>3 DEF Setup!SaveSchedule, Setup!effects, SetupTyped
  <2>5. /\ setupConfig'.repos = setupConfig.repos
        /\ setupConfig'.calendars = setupConfig.calendars
        /\ setupConfig'.mode = setupConfig.mode /\ setupConfig'.at = setupCommand.when
        /\ setupConfig'.authorized = setupConfig.authorized
        /\ setupConfig'.target = setupConfig.target /\ setupConfig'.hooks = setupConfig.hooks
    BY <1>14, <1>c DEF Setup!SaveSchedule, Configs
  <2> QED
    BY <1>14, <1>a, <2>1, <2>4, <2>5
       DEF Setup!SaveSchedule, Setup!effects, SetupIInv, CommandKnows, ChosenCovers,
           TimerAgrees, Setup!ChoicesKept
<1>15. ASSUME NEW args \in Flags, NEW c \in BOOLEAN \cup {NotSet},
              Setup!ConfigureSources(args.repos, args.calendars, c)
       PROVE  SetupIInv'
  <2>1. args.repos \in Sourced(Repos) /\ args.calendars \in Sourced(Calendars)
    BY AnswersAssumption DEF Answers
  <2> DEFINE newRepos == Setup!Updated(args.repos, setupConfig.repos)
             newCalendars == Setup!Updated(args.calendars, setupConfig.calendars)
  <2>2. /\ setupConfig.repos \in SUBSET Repos /\ setupConfig.calendars \in SUBSET Calendars
        /\ setupConfig.repos = chosen.repos /\ setupConfig.calendars = chosen.calendars
    BY <1>a, <1>c DEF Configs, Setup!ChoicesKept
  <2>3. /\ Setup!Said(args.repos, chosen.repos) = newRepos /\ newRepos \in SUBSET Repos
        /\ Setup!Said(args.calendars, chosen.calendars) = newCalendars
        /\ newCalendars \in SUBSET Calendars
    BY <2>1, <2>2, SaidIsUpdated
  <2>4. Setup!Or(c, setupConfig.claude) \in BOOLEAN
    BY <1>c DEF Setup!Or, Configs
  <2>5. /\ setupConfig' = [setupConfig EXCEPT !.repos = newRepos, !.calendars = newCalendars,
                                              !.claude = Setup!Or(c, @)]
        /\ chosen' = [chosen EXCEPT !.repos = newRepos, !.calendars = newCalendars]
        /\ UNCHANGED <<session, setupCommand, timer, hook, apart>>
    BY <1>15, <2>3 DEF Setup!ConfigureSources, Setup!effects
  <2> HIDE DEF newRepos, newCalendars
  <2>6. setupConfig' \in Configs
    BY <1>c, <2>3, <2>4, <2>5 DEF Configs
  <2>7. /\ chosen' \in [repos : SUBSET Repos, calendars : SUBSET Calendars,
                        automatic : BOOLEAN, hooks : BOOLEAN, scheduler : BOOLEAN]
        /\ chosen'.repos = newRepos /\ chosen'.calendars = newCalendars
        /\ chosen'.hooks = chosen.hooks /\ chosen'.scheduler = chosen.scheduler
        /\ chosen'.automatic = chosen.automatic
    BY <1>a, <2>3, <2>5 DEF SetupTyped
  <2>8. SetupTyped'
    BY <1>a, <2>5, <2>6, <2>7 DEF SetupTyped
  <2>9. /\ setupConfig'.repos = newRepos /\ setupConfig'.calendars = newCalendars
        /\ setupConfig'.mode = setupConfig.mode /\ setupConfig'.at = setupConfig.at
        /\ setupConfig'.authorized = setupConfig.authorized
        /\ setupConfig'.installed = setupConfig.installed
        /\ setupConfig'.target = setupConfig.target /\ setupConfig'.hooks = setupConfig.hooks
    BY <1>c, <2>5 DEF Configs
  <2> QED
    BY <1>a, <2>5, <2>7, <2>8, <2>9
       DEF SetupIInv, CommandKnows, ChosenCovers, TimerAgrees, Setup!ChoicesKept
<1>16. CASE Setup!Uninstall
  <2>1. setupCommand = Setup!Idle /\ setupCommand' = [at |-> "unhook"]
    BY <1>16 DEF Setup!Uninstall
  <2>2. SetupTyped'
    BY <1>16, <1>a, <2>1 DEF Setup!Uninstall, SetupTyped, OtherCommands
  <2> QED
    BY <1>16, <1>a, <2>1, <2>2
       DEF Setup!Uninstall, SetupIInv, CommandKnows, ChosenCovers, TimerAgrees,
           Setup!ChoicesKept, Setup!Idle
<1>17. CASE Setup!RemoveHooks
  <2>1. setupCommand.at = "unhook" /\ setupCommand' = [at |-> "drop"]
    BY <1>17 DEF Setup!RemoveHooks
  <2>2. hook' \in BOOLEAN /\ (hook' => hook)
    BY <1>17, <1>a DEF Setup!RemoveHooks, SetupTyped
  <2>3. SetupTyped'
    BY <1>17, <1>a, <2>1, <2>2 DEF Setup!RemoveHooks, SetupTyped, OtherCommands
  <2> QED
    BY <1>17, <1>a, <2>1, <2>2, <2>3
       DEF Setup!RemoveHooks, SetupIInv, CommandKnows, ChosenCovers, TimerAgrees,
           Setup!ChoicesKept, Setup!Idle
<1>18. CASE Setup!DropConfiguration
  <2>1. setupCommand.at = "drop" /\ setupCommand'.at = "idle" /\ timer = NotSet
    BY <1>18, <1>a DEF Setup!DropConfiguration, Setup!Idle, CommandKnows
  <2>2. setupConfig' \in Configs /\ setupConfig'.mode = "draft"
    BY <1>18, <1>c DEF Setup!DropConfiguration, Setup!Dropped, Configs, Setup!Modes
  <2>3. /\ setupConfig'.repos = setupConfig.repos
        /\ setupConfig'.calendars = setupConfig.calendars
        /\ setupConfig'.target = FALSE /\ setupConfig'.hooks = FALSE
    BY <1>18, <1>c DEF Setup!DropConfiguration, Setup!Dropped, Configs
  <2>4. /\ chosen' \in [repos : SUBSET Repos, calendars : SUBSET Calendars,
                        automatic : BOOLEAN, hooks : BOOLEAN, scheduler : BOOLEAN]
        /\ chosen'.repos = chosen.repos /\ chosen'.calendars = chosen.calendars
        /\ chosen'.hooks = chosen.hooks /\ chosen'.scheduler = chosen.scheduler
    BY <1>18, <1>a DEF Setup!DropConfiguration, SetupTyped
  <2>5. SetupTyped'
    BY <1>18, <1>a, <2>2, <2>4 DEF Setup!DropConfiguration, Setup!effects, SetupTyped
  <2> QED
    BY <1>18, <1>a, <2>1, <2>2, <2>3, <2>4, <2>5
       DEF Setup!DropConfiguration, Setup!effects, SetupIInv, CommandKnows, ChosenCovers,
           TimerAgrees, Setup!ChoicesKept
<1>19. CASE Setup!BreakOff
  <2>1. setupCommand'.at = "idle" /\ setupCommand' = Setup!Idle
    BY <1>19 DEF Setup!BreakOff, Setup!Idle
  <2> QED
    BY <1>19, <1>a, <2>1
       DEF Setup!BreakOff, Setup!effects, SetupIInv, SetupTyped, CommandKnows, ChosenCovers,
           TimerAgrees, Setup!ChoicesKept
<1>20. CASE Setup!Reinstall
  BY <1>20, <1>b, QuestionKeeps DEF Setup!Reinstall, Setup!effects
<1>21. ASSUME NEW x \in Repos \cup Calendars, Setup!Change(x) PROVE SetupIInv'
  BY <1>21, <1>b, QuestionKeeps DEF Setup!Change, Setup!effects
<1>22. CASE UNCHANGED Setup!vars
  BY <1>22, <1>b, QuestionKeeps DEF Setup!vars, Setup!effects
<1> QED
  BY <1>1, <1>2, <1>3, <1>4, <1>5, <1>6, <1>7, <1>8, <1>9, <1>10, <1>11, <1>12, <1>13, <1>14,
     <1>15, <1>16, <1>17, <1>18, <1>19, <1>20, <1>21, <1>22 DEF Setup!Next

(* Sources, submission, hooks and timer are the ones the user asked for.   *)
THEOREM ChoicesAreKept == Setup!Spec => []Setup!ChoicesKept
<1>1. SetupIInv => Setup!ChoicesKept
  BY DEF SetupIInv
<1> QED
  BY <1>1, SetupStart, SetupStep, PTL DEF Setup!Spec

-----------------------------------------------------------------------------
(* ReplayCorpus. A report that says "passed" of a corpus as it is has been *)
(* made of one without a failure; whatever a day expects, it must be what  *)
(* the harness found in it, so a day that holds is clean.                  *)

ReplayIInv ==
    /\ corpus \in [Files -> Fixtures \cup {NotSet}]
    /\ current =>
          /\ report.status = "passed" => ~Corpus!Failures
          /\ report.metrics = Corpus!Metrics

LEMMA Counted == \A S : Corpus!Cardinality(S) = Cardinality(S)
BY DEF Corpus!Cardinality, Cardinality

(* No id is used twice.                                                    *)
LEMMA NoDuplicates ==
    ASSUME NEW n \in Nat, NEW ids, DOMAIN ids = 1 .. n,
           \A i, j \in 1 .. n : i # j => ids[i] # ids[j]
    PROVE  Cardinality({ids[i] : i \in 1 .. n}) = n
<1> DEFINE S == {ids[i] : i \in 1 .. n}
           f == [i \in 1 .. n |-> ids[i]]
<1>1. f \in Bijection(1 .. n, S)
  BY DEF Bijection, Injection, Surjection, IsInjective
<1>2. IsFiniteSet(1 .. n) /\ Cardinality(1 .. n) = n
  BY FS_Interval
<1> HIDE DEF f, S
<1> QED
  BY <1>1, <1>2, FS_Bijection DEF ExistsBijection, S

LEMMA NothingToSum ==
    ASSUME NEW count, \A n \in Corpus!Days : Corpus!Actual(corpus[n])[count] = 0
    PROVE  Corpus!Sum(count) = 0
<1>1. UNION {{n} \X (1 .. Corpus!Actual(corpus[n])[count]) : n \in Corpus!Days} = {}
  OBVIOUS
<1> QED
  BY <1>1, FS_EmptySet, Counted DEF Corpus!Sum

(* A day that holds is clean.                                              *)
LEMMA HoldsIsClean ==
    ASSUME NEW f \in Fixtures, Corpus!Holds(f)
    PROVE  LET ps == f.model.proposals
           IN  /\ ps # <<>> => f.collector.events # <<>>
               /\ \A i, j \in DOMAIN ps :
                     i # j => ps[i].id # ps[j].id /\ ps[i].issue # ps[j].issue
               /\ \A i \in DOMAIN ps : ps[i].issue \notin Corpus!Range(f.drag.worklogs)
               /\ f.mutation.attempted => f.mutation.ledger
               /\ Corpus!Actual(f).schemaValid
               /\ Corpus!Actual(f).duplicateProposals = 0
               /\ Corpus!Actual(f).unsafeRetries = 0
<1> DEFINE ps == f.model.proposals
           refs == IF f.collector.events = <<>> THEN {} ELSE {f.collector.events[1].id}
<1>1. Corpus!Parsed(f) /\ Corpus!SchemaValid(f)
  BY DEF Corpus!Holds
<1>2. ps \in Seq({ps[i] : i \in DOMAIN ps})
  BY <1>1, CorpusAssumption DEF Corpus!Parsed, IsASequence
<1>3. Len(ps) \in Nat /\ DOMAIN ps = 1 .. Len(ps)
  <2> HIDE DEF ps
  <2> QED
    BY <1>2
<1>4. DOMAIN Corpus!Response(f) = DOMAIN ps
  BY DEF Corpus!Response
<1>5. \A i \in DOMAIN ps : /\ Corpus!Response(f)[i].refs = refs
                           /\ Corpus!Response(f)[i].id = ps[i].id
                           /\ Corpus!Response(f)[i].issue = ps[i].issue
  BY DEF Corpus!Response
<1>6. Corpus!ValidResponse(f) /\ Corpus!AllApproved(f) /\ (f.mutation.attempted => f.mutation.ledger)
  BY <1>1 DEF Corpus!SchemaValid, Corpus!Executes
<1>7. ps # <<>> => f.collector.events # <<>>
  <2> SUFFICES ASSUME ps # <<>>, f.collector.events = <<>> PROVE FALSE
    OBVIOUS
  <2>1. 1 \in DOMAIN ps
    <3> HIDE DEF ps
    <3> QED
      BY <1>2, <1>3
  <2> QED
    BY <2>1, <1>4, <1>5, <1>6 DEF Corpus!ValidResponse
<1>8. \A i, j \in DOMAIN ps : i # j => ps[i].id # ps[j].id
  <2> HIDE DEF ps, refs
  <2> QED
    BY <1>4, <1>5, <1>6 DEF Corpus!ValidResponse
<1>9. \A i, j \in DOMAIN ps : i # j => ps[i].issue # ps[j].issue
  <2> HIDE DEF ps, refs
  <2> QED
    BY <1>4, <1>5, <1>6 DEF Corpus!AllApproved
<1>10. \A i \in DOMAIN ps : ps[i].issue \notin Corpus!Range(f.drag.worklogs)
  <2> HIDE DEF ps, refs
  <2> QED
    BY <1>4, <1>5, <1>6 DEF Corpus!AllApproved, Corpus!Range
<1>11. Corpus!DuplicateCount([i \in DOMAIN ps |-> ps[i].id]) = 0
  <2> DEFINE ids == [i \in DOMAIN ps |-> ps[i].id]
  <2>1. DOMAIN ids = 1 .. Len(ps) /\ \A i, j \in 1 .. Len(ps) : i # j => ids[i] # ids[j]
    <3> HIDE DEF ps
    <3> QED
      BY <1>3, <1>8
  <2>2. Corpus!Range(ids) = {ids[i] : i \in 1 .. Len(ps)}
    BY <2>1 DEF Corpus!Range
  <2>3. Len(ids) = Len(ps)
    <3> HIDE DEF ps
    <3> QED
      BY <1>3
  <2> HIDE DEF ids, ps
  <2>4. Cardinality({ids[i] : i \in 1 .. Len(ps)}) = Len(ps)
    BY <2>1, <1>3, NoDuplicates
  <2>5. Corpus!DuplicateCount(ids) = 0
    BY <2>2, <2>3, <2>4, <1>3, Counted DEF Corpus!DuplicateCount
  <2> QED
    BY <2>5 DEF ids
<1>12. Corpus!Actual(f).schemaValid
  BY <1>1 DEF Corpus!Actual
<1>13. Corpus!Actual(f).duplicateProposals = 0
  BY <1>1, <1>11 DEF Corpus!Actual
<1>14. Corpus!Actual(f).unsafeRetries = 0
  BY <1>1, <1>6 DEF Corpus!Actual, Corpus!Count
<1> QED
  BY <1>6, <1>7, <1>8, <1>9, <1>10, <1>12, <1>13, <1>14

LEMMA ReplayInductive == Corpus!Spec => []ReplayIInv
<1>1. Corpus!Init => ReplayIInv
  BY DEF Corpus!Init, ReplayIInv
<1>2. ReplayIInv /\ [Corpus!Next]_(Corpus!vars) => ReplayIInv'
  <2> SUFFICES ASSUME ReplayIInv, [Corpus!Next]_(Corpus!vars)
               PROVE  ReplayIInv'
    OBVIOUS
  <2>1. ASSUME NEW n \in Files, Corpus!Record(n)
        PROVE  ReplayIInv'
    BY <2>1 DEF ReplayIInv, Corpus!Record
  <2>2. CASE Corpus!Run
    <3>1. UNCHANGED corpus
      BY <2>2 DEF Corpus!Run
    <3>2. Corpus!Failures' = Corpus!Failures /\ Corpus!Metrics' = Corpus!Metrics
      BY <3>1 DEF Corpus!Failures, Corpus!Metrics, Corpus!Days, Corpus!Sum,
             Corpus!Marked
    <3>3. report' = [status |-> IF Corpus!Failures THEN "failed" ELSE "passed",
                     metrics |-> Corpus!Metrics]
      BY <2>2 DEF Corpus!Run
    <3>4. report'.metrics = Corpus!Metrics /\ (report'.status = "passed" => ~Corpus!Failures)
      BY <3>3
    <3> QED
      BY <3>1, <3>2, <3>4 DEF ReplayIInv
  <2>3. CASE UNCHANGED Corpus!vars
    <3>1. Corpus!Failures' = Corpus!Failures /\ Corpus!Metrics' = Corpus!Metrics
      BY <2>3 DEF Corpus!vars, Corpus!Failures, Corpus!Metrics, Corpus!Days, Corpus!Sum,
             Corpus!Marked
    <3> QED
      BY <2>3, <3>1 DEF Corpus!vars, ReplayIInv
  <2> QED
    BY <2>1, <2>2, <2>3 DEF Corpus!Next
<1> QED
  BY <1>1, <1>2, PTL DEF Corpus!Spec

(* A corpus that passed is whole and clean, whatever its days expect       *)
(* (replay.rs, run_replay).                                                *)
THEOREM PassedIsWhole == Corpus!Spec => []Corpus!PassedIsClean
<1>1. ReplayIInv => Corpus!PassedIsClean
  <2> SUFFICES ASSUME ReplayIInv, current, report.status = "passed"
               PROVE  Corpus!PassedIsClean
    BY DEF Corpus!PassedIsClean
  <2>1. ~Corpus!Failures /\ report.metrics = Corpus!Metrics
    BY DEF ReplayIInv
  <2>2. Corpus!Days \subseteq Files /\ \A n \in Corpus!Days : corpus[n] \in Fixtures
    BY DEF ReplayIInv, Corpus!Days
  <2>3. Cardinality(Corpus!Days) \in Nat
    BY <2>2, CorpusAssumption, FS_Subset, FS_CardinalityType
  <2>4. Cardinality(Corpus!Days) >= MinimumDays
    BY <2>1, <2>3, CorpusAssumption, Counted DEF Corpus!Failures
  <2>5. \A tag \in RequiredTags : \E n \in Corpus!Days : tag \in corpus[n].tags
    BY <2>1 DEF Corpus!Failures
  <2>6. \A n \in Corpus!Days : corpus[n] \in Fixtures /\ Corpus!Holds(corpus[n])
    BY <2>1, <2>2 DEF Corpus!Failures
  <2>7. \A n \in Corpus!Days :
          LET f == corpus[n]
              ps == f.model.proposals
          IN  /\ ps # <<>> => f.collector.events # <<>>
              /\ \A i, j \in DOMAIN ps :
                    i # j => ps[i].id # ps[j].id /\ ps[i].issue # ps[j].issue
              /\ \A i \in DOMAIN ps : ps[i].issue \notin Corpus!Range(f.drag.worklogs)
              /\ f.mutation.attempted => f.mutation.ledger
    BY <2>6, HoldsIsClean
  <2>8. \A n \in Corpus!Days : /\ Corpus!Actual(corpus[n]).schemaValid
                               /\ Corpus!Actual(corpus[n]).duplicateProposals = 0
                               /\ Corpus!Actual(corpus[n]).unsafeRetries = 0
    BY <2>6, HoldsIsClean
  <2>9. Corpus!Marked("schemaValid") = Cardinality(Corpus!Days)
    <3>1. {n \in Corpus!Days : Corpus!Actual(corpus[n])["schemaValid"]} = Corpus!Days
      BY <2>8
    <3> QED
      BY <3>1, Counted DEF Corpus!Marked
  <2>10. Corpus!Sum("duplicateProposals") = 0 /\ Corpus!Sum("unsafeRetries") = 0
    BY <2>8, NothingToSum
  <2>11. /\ Corpus!Metrics.schemaValid = Corpus!Marked("schemaValid")
         /\ Corpus!Metrics.duplicateProposals = Corpus!Sum("duplicateProposals")
         /\ Corpus!Metrics.unsafeRetries = Corpus!Sum("unsafeRetries")
    BY DEF Corpus!Metrics
  <2> QED
    BY <2>1, <2>4, <2>5, <2>7, <2>9, <2>10, <2>11, Counted DEF Corpus!PassedIsClean
<1> QED
  BY <1>1, ReplayInductive, PTL

-----------------------------------------------------------------------------
(* ListProjection. A path is wanted if the mask names it or one above or   *)
(* below it. The report prints exactly what is wanted, and the stream has  *)
(* printed what is wanted of the worklogs it is past; a key is asked for   *)
(* once, and by a stream only if it prints it.                             *)

MaskRead == typed = NotSet \/ Mask!Range(typed) \subseteq Mask!ListField
Wanted(p) == typed = NotSet \/ \E f \in Mask!Range(typed) : Mask!Related(p, f)

(* What the stream prints of a worklog.                                    *)
Streamed(i) == IF Mask!SelectsWorklogs THEN Mask!WorklogNodes(i) ELSE {}

MaskIInv ==
  /\ IsASequence(day) /\ at \in Nat
  /\ mode \in {NotSet, "report", "stream"}
  /\ mode = NotSet => at = 0 /\ output = {} /\ calls = <<>>
  /\ mode # NotSet => MaskRead
  /\ mode = "report" => \/ at = 0 /\ output = {}
                        \/ output = Mask!ProjectListResult
  /\ mode = "stream" =>
       /\ output = (IF at > Len(day) THEN Mask!Frame ELSE {})
                     \cup UNION {Streamed(i) : i \in {j \in DOMAIN day : j <= at}}
       /\ calls # <<>> =>
            at > 0 /\ day # <<>> /\ Mask!SelectsWorklogs /\ Mask!RequiresIssueKey
  /\ mode # "report" \/ at = 0 => keys = Mask!Range(calls) /\ IsASequence(calls)
  /\ Mask!IsInjective(calls)

LEMMA FieldSets ==
  /\ "date" \notin Mask!WorklogFields \cup Mask!ClockFields \cup Mask!ScheduleFields
                     \cup Mask!PaginationFields
  /\ "worklogs" \notin Mask!WorklogFields \cup Mask!ClockFields \cup Mask!ScheduleFields
                     \cup Mask!PaginationFields
  /\ "schedule" \notin Mask!WorklogFields \cup Mask!ClockFields \cup Mask!ScheduleFields
                     \cup Mask!PaginationFields
  /\ "pagination" \notin Mask!WorklogFields \cup Mask!ClockFields \cup Mask!ScheduleFields
                     \cup Mask!PaginationFields
  /\ Mask!WorklogFields \cap Mask!ClockFields = {}
  /\ Mask!WorklogFields \cap Mask!ScheduleFields = {}
  /\ Mask!WorklogFields \cap Mask!PaginationFields = {}
  /\ Mask!ClockFields \cap Mask!ScheduleFields = {}
  /\ Mask!ClockFields \cap Mask!PaginationFields = {}
  /\ Mask!ScheduleFields \cap Mask!PaginationFields = {}
  /\ "worklogs.interval" \in Mask!WorklogFields
  /\ Mask!Roots = {"date", "worklogs", "schedule", "pagination"}
  /\ NotSet \notin Mask!Roots \cup Mask!WorklogFields \cup Mask!ClockFields
                     \cup Mask!ScheduleFields \cup Mask!PaginationFields
<1>1. NotSet \notin Mask!Roots \cup Mask!WorklogFields \cup Mask!ClockFields
                     \cup Mask!ScheduleFields \cup Mask!PaginationFields
  BY MaskAssumption DEF Mask!ListField
<1> QED
  BY <1>1 DEF Mask!Roots, Mask!WorklogFields, Mask!ClockFields, Mask!ScheduleFields,
         Mask!PaginationFields

(* Each field with those above it.                                         *)
LEMMA Lines ==
  /\ \A f \in Mask!Roots : Mask!Line(f) = {f, NotSet}
  /\ \A f \in Mask!WorklogFields : Mask!Line(f) = {f, "worklogs", NotSet}
  /\ \A f \in Mask!ClockFields : Mask!Line(f) = {f, "worklogs.interval", "worklogs"}
  /\ \A f \in Mask!ScheduleFields : Mask!Line(f) = {f, "schedule", NotSet}
  /\ \A f \in Mask!PaginationFields : Mask!Line(f) = {f, "pagination", NotSet}
<1>1. \A f \in Mask!Roots : Mask!Parent(f) = NotSet
  BY FieldSets DEF Mask!Parent
<1>2. \A f \in Mask!WorklogFields : Mask!Parent(f) = "worklogs"
  BY FieldSets DEF Mask!Parent
<1>3. \A f \in Mask!ClockFields : Mask!Parent(f) = "worklogs.interval"
  BY FieldSets DEF Mask!Parent
<1>4. \A f \in Mask!ScheduleFields : Mask!Parent(f) = "schedule"
  BY FieldSets DEF Mask!Parent
<1>5. \A f \in Mask!PaginationFields : Mask!Parent(f) = "pagination"
  BY FieldSets DEF Mask!Parent
<1> QED
  BY <1>1, <1>2, <1>3, <1>4, <1>5, FieldSets DEF Mask!Line

(* What is included, by the place of the path.                             *)
LEMMA IncludedBy ==
  ASSUME MaskRead, typed # NotSet
  PROVE  LET paths == Mask!Range(typed)
         IN  /\ paths \subseteq Mask!Roots \cup Mask!WorklogFields \cup Mask!ClockFields
                                  \cup Mask!ScheduleFields \cup Mask!PaginationFields
             /\ \A f \in Mask!Roots : Mask!Includes(f) <=> f \in paths
             /\ \A f \in Mask!WorklogFields : Mask!Includes(f) <=> {f, "worklogs"} \cap paths # {}
             /\ \A f \in Mask!ClockFields :
                  Mask!Includes(f) <=> {f, "worklogs.interval", "worklogs"} \cap paths # {}
             /\ \A f \in Mask!ScheduleFields :
                  Mask!Includes(f) <=> {f, "schedule"} \cap paths # {}
             /\ \A f \in Mask!PaginationFields :
                  Mask!Includes(f) <=> {f, "pagination"} \cap paths # {}
<1> DEFINE paths == Mask!Range(typed)
<1>1. paths \subseteq Mask!Roots \cup Mask!WorklogFields \cup Mask!ClockFields
                        \cup Mask!ScheduleFields \cup Mask!PaginationFields
  BY DEF MaskRead, Mask!ListField
<1>2. NotSet \notin paths
  BY <1>1, FieldSets
<1>3. \A f : Mask!Includes(f) <=> Mask!Line(f) \cap paths # {}
  BY DEF Mask!Includes
<1> HIDE DEF paths
<1>4. \A f \in Mask!Roots : Mask!Includes(f) <=> f \in paths
  BY <1>2, <1>3, Lines
<1>5. \A f \in Mask!WorklogFields : Mask!Includes(f) <=> {f, "worklogs"} \cap paths # {}
  BY <1>2, <1>3, Lines
<1>6. \A f \in Mask!ClockFields :
        Mask!Includes(f) <=> {f, "worklogs.interval", "worklogs"} \cap paths # {}
  BY <1>2, <1>3, Lines
<1>7. \A f \in Mask!ScheduleFields : Mask!Includes(f) <=> {f, "schedule"} \cap paths # {}
  BY <1>2, <1>3, Lines
<1>8. \A f \in Mask!PaginationFields : Mask!Includes(f) <=> {f, "pagination"} \cap paths # {}
  BY <1>2, <1>3, Lines
<1> QED
  BY <1>1, <1>4, <1>5, <1>6, <1>7, <1>8 DEF paths

(* The paths that no path is below.                                        *)
MaskLeaves ==
  {"date"} \cup (Mask!WorklogFields \ {"worklogs.interval"}) \cup Mask!ClockFields
    \cup Mask!ScheduleFields \cup Mask!PaginationFields

LEMMA Below ==
  ASSUME NEW f \in Mask!ListField
  PROVE  /\ \A p \in MaskLeaves : p \in Mask!Line(f) <=> p = f
         /\ "worklogs" \in Mask!Line(f) <=>
              f \in {"worklogs"} \cup Mask!WorklogFields \cup Mask!ClockFields
         /\ "worklogs.interval" \in Mask!Line(f) <=>
              f \in {"worklogs.interval"} \cup Mask!ClockFields
         /\ "schedule" \in Mask!Line(f) <=> f \in {"schedule"} \cup Mask!ScheduleFields
         /\ "pagination" \in Mask!Line(f) <=> f \in {"pagination"} \cup Mask!PaginationFields
<1> USE FieldSets
<1>1. NotSet \notin MaskLeaves /\ MaskLeaves \cap {"worklogs", "worklogs.interval",
                                       "schedule", "pagination"} = {}
  BY DEF MaskLeaves
<1>2. CASE f \in Mask!Roots
  <2>1. Mask!Line(f) = {f, NotSet} /\ f \in {"date", "worklogs", "schedule", "pagination"}
    BY <1>2, Lines
  <2> QED
    BY <1>1, <2>1
<1>3. CASE f \in Mask!WorklogFields
  <2>1. Mask!Line(f) = {f, "worklogs", NotSet}
    BY <1>3, Lines
  <2> QED
    BY <1>1, <1>3, <2>1
<1>4. CASE f \in Mask!ClockFields
  <2>1. Mask!Line(f) = {f, "worklogs.interval", "worklogs"}
    BY <1>4, Lines
  <2> QED
    BY <1>1, <1>4, <2>1
<1>5. CASE f \in Mask!ScheduleFields
  <2>1. Mask!Line(f) = {f, "schedule", NotSet}
    BY <1>5, Lines
  <2> QED
    BY <1>1, <1>5, <2>1
<1>6. CASE f \in Mask!PaginationFields
  <2>1. Mask!Line(f) = {f, "pagination", NotSet}
    BY <1>6, Lines
  <2> QED
    BY <1>1, <1>6, <2>1
<1> QED
  BY <1>2, <1>3, <1>4, <1>5, <1>6 DEF Mask!ListField

(* What is wanted, by the place of the path.                               *)
LEMMA WantedBy ==
  ASSUME MaskRead, typed # NotSet
  PROVE  LET paths == Mask!Range(typed)
         IN  /\ Wanted("worklogs") <=>
                  ({"worklogs"} \cup Mask!WorklogFields \cup Mask!ClockFields) \cap paths # {}
             /\ Wanted("schedule") <=> ({"schedule"} \cup Mask!ScheduleFields) \cap paths # {}
             /\ Wanted("pagination") <=>
                  ({"pagination"} \cup Mask!PaginationFields) \cap paths # {}
             /\ Wanted("worklogs.interval") <=>
                  ({"worklogs.interval", "worklogs"} \cup Mask!ClockFields) \cap paths # {}
             /\ \A f \in MaskLeaves : Wanted(f) <=> Mask!Includes(f)
<1> DEFINE paths == Mask!Range(typed)
<1>1. paths \subseteq Mask!ListField
  BY DEF MaskRead
<1>2. NotSet \notin paths
  BY <1>1, MaskAssumption
<1>3. \A p : Wanted(p) <=> \E f \in paths : p \in Mask!Line(f) \/ f \in Mask!Line(p)
  BY DEF Wanted, Mask!Related
<1>4. \A f : Mask!Includes(f) <=> Mask!Line(f) \cap paths # {}
  BY DEF Mask!Includes
<1> HIDE DEF paths
<1>5. /\ Mask!Line("worklogs") = {"worklogs", NotSet}
      /\ Mask!Line("schedule") = {"schedule", NotSet}
      /\ Mask!Line("pagination") = {"pagination", NotSet}
      /\ Mask!Line("worklogs.interval") = {"worklogs.interval", "worklogs", NotSet}
  BY Lines, FieldSets
<1>6. Wanted("worklogs") <=>
        ({"worklogs"} \cup Mask!WorklogFields \cup Mask!ClockFields) \cap paths # {}
  BY <1>1, <1>2, <1>3, <1>5, Below
<1>7. Wanted("schedule") <=> ({"schedule"} \cup Mask!ScheduleFields) \cap paths # {}
  BY <1>1, <1>2, <1>3, <1>5, Below
<1>8. Wanted("pagination") <=> ({"pagination"} \cup Mask!PaginationFields) \cap paths # {}
  BY <1>1, <1>2, <1>3, <1>5, Below
<1>9. Wanted("worklogs.interval") <=>
        ({"worklogs.interval", "worklogs"} \cup Mask!ClockFields) \cap paths # {}
  BY <1>1, <1>2, <1>3, <1>5, Below
<1>10. \A f \in MaskLeaves : Wanted(f) <=> Mask!Includes(f)
  <2>1. \A f : f \in Mask!Line(f)
    BY DEF Mask!Line
  <2>2. \A f \in MaskLeaves, g \in paths : f \in Mask!Line(g) => g = f
    BY <1>1, Below
  <2> QED
    BY <1>3, <1>4, <2>1, <2>2
<1> QED
  BY <1>6, <1>7, <1>8, <1>9, <1>10 DEF paths

LEMMA GroupsAreWanted ==
  ASSUME MaskRead
  PROVE  /\ Mask!Group("schedule", Mask!ScheduleFields) =
              {p \in {"schedule"} \cup Mask!ScheduleFields : Wanted(p)} \X {0}
         /\ Mask!Group("pagination", Mask!PaginationFields) =
              {p \in {"pagination"} \cup Mask!PaginationFields : Wanted(p)} \X {0}
         /\ Mask!Includes("date") <=> Wanted("date")
         /\ Mask!SelectsWorklogs <=> Wanted("worklogs")
<1>1. CASE typed = NotSet
  <2>1. \A p : Wanted(p) /\ Mask!Includes(p)
    BY <1>1 DEF Wanted, Mask!Includes
  <2> QED
    BY <2>1 DEF Mask!Group, Mask!AnyIncluded, Mask!SelectsWorklogs
<1>2. CASE typed # NotSet
  <2> DEFINE paths == Mask!Range(typed)
  <2>1. Mask!ScheduleFields \cup Mask!PaginationFields \cup {"date"} \subseteq MaskLeaves
    BY DEF MaskLeaves
  <2>2. \A f \in MaskLeaves : Wanted(f) <=> Mask!Includes(f)
    BY <1>2, WantedBy
  <2>3. Wanted("schedule") <=> Mask!AnyIncluded({"schedule"} \cup Mask!ScheduleFields)
    <3>1. Wanted("schedule") <=> ({"schedule"} \cup Mask!ScheduleFields) \cap paths # {}
      BY <1>2, WantedBy
    <3>2. /\ Mask!Includes("schedule") <=> "schedule" \in paths
          /\ \A f \in Mask!ScheduleFields : Mask!Includes(f) <=> {f, "schedule"} \cap paths # {}
      BY <1>2, IncludedBy, FieldSets
    <3> HIDE DEF paths
    <3> QED
      BY <3>1, <3>2 DEF Mask!AnyIncluded
  <2>4. Wanted("pagination") <=> Mask!AnyIncluded({"pagination"} \cup Mask!PaginationFields)
    <3>1. Wanted("pagination") <=> ({"pagination"} \cup Mask!PaginationFields) \cap paths # {}
      BY <1>2, WantedBy
    <3>2. /\ Mask!Includes("pagination") <=> "pagination" \in paths
          /\ \A f \in Mask!PaginationFields :
               Mask!Includes(f) <=> {f, "pagination"} \cap paths # {}
      BY <1>2, IncludedBy, FieldSets
    <3> HIDE DEF paths
    <3> QED
      BY <3>1, <3>2 DEF Mask!AnyIncluded
  <2>5. Wanted("worklogs") <=> Mask!SelectsWorklogs
    <3>1. Wanted("worklogs") <=>
            ({"worklogs"} \cup Mask!WorklogFields \cup Mask!ClockFields) \cap paths # {}
      BY <1>2, WantedBy
    <3>2. /\ Mask!Includes("worklogs") <=> "worklogs" \in paths
          /\ \A f \in Mask!WorklogFields : Mask!Includes(f) <=> {f, "worklogs"} \cap paths # {}
          /\ \A f \in Mask!ClockFields :
               Mask!Includes(f) <=> {f, "worklogs.interval", "worklogs"} \cap paths # {}
          /\ "worklogs.interval" \in Mask!WorklogFields
      BY <1>2, IncludedBy, FieldSets
    <3> HIDE DEF paths
    <3>3. Wanted("worklogs") => Mask!SelectsWorklogs
      <4> SUFFICES ASSUME NEW f \in paths,
                          f \in {"worklogs"} \cup Mask!WorklogFields \cup Mask!ClockFields
                   PROVE  Mask!AnyIncluded({"worklogs"} \cup Mask!WorklogFields
                                             \cup Mask!ClockFields)
        BY <3>1 DEF Mask!SelectsWorklogs
      <4>1. Mask!Includes(f)
        BY <3>2
      <4> QED
        BY <4>1 DEF Mask!AnyIncluded
    <3>4. Mask!SelectsWorklogs => Wanted("worklogs")
      <4> SUFFICES ASSUME NEW f \in {"worklogs"} \cup Mask!WorklogFields \cup Mask!ClockFields,
                          Mask!Includes(f)
                   PROVE  Wanted("worklogs")
        BY DEF Mask!SelectsWorklogs, Mask!AnyIncluded
      <4> QED
        BY <3>1, <3>2
    <3> QED
      BY <3>3, <3>4
  <2>6. Mask!Group("schedule", Mask!ScheduleFields) =
          {p \in {"schedule"} \cup Mask!ScheduleFields : Wanted(p)} \X {0}
    <3>1. (\E f \in Mask!ScheduleFields : Wanted(f)) => Wanted("schedule")
      BY <2>1, <2>2, <2>3 DEF Mask!AnyIncluded
    <3> QED
      BY <2>1, <2>2, <2>3, <3>1 DEF Mask!Group
  <2>7. Mask!Group("pagination", Mask!PaginationFields) =
          {p \in {"pagination"} \cup Mask!PaginationFields : Wanted(p)} \X {0}
    <3>1. (\E f \in Mask!PaginationFields : Wanted(f)) => Wanted("pagination")
      BY <2>1, <2>2, <2>4 DEF Mask!AnyIncluded
    <3> QED
      BY <2>1, <2>2, <2>4, <3>1 DEF Mask!Group
  <2> QED
    BY <2>1, <2>2, <2>5, <2>6, <2>7
<1> QED
  BY <1>1, <1>2

(* The frame is what is wanted beside the worklogs.                        *)
LEMMA FrameIsWanted ==
  ASSUME MaskRead
  PROVE  Mask!Frame = {p \in {"date", "schedule", "pagination"} \cup Mask!ScheduleFields
                              \cup Mask!PaginationFields : Wanted(p)} \X {0}
BY GroupsAreWanted DEF Mask!Frame

(* A worklog is printed with what is wanted of it, but for `attributes`,   *)
(* which may be printed empty.                                             *)
LEMMA WorklogIsWanted ==
  ASSUME MaskRead, NEW i \in DOMAIN day
  PROVE  LET whole == {p \in Mask!CompleteWorklog(day[i]) : Wanted(p)}
             printed == IF Mask!SelectsWorklogs
                        THEN IF typed = NotSet THEN Mask!CompleteWorklog(day[i])
                             ELSE Mask!ProjectWorklog(day[i])
                        ELSE {}
         IN  /\ Streamed(i) = printed \X {i}
             /\ whole \subseteq printed
             /\ printed \subseteq whole \cup {"worklogs.attributes"}
<1> DEFINE w == day[i]
           whole == {p \in Mask!CompleteWorklog(w) : Wanted(p)}
           printed == IF Mask!SelectsWorklogs
                      THEN IF typed = NotSet THEN Mask!CompleteWorklog(w)
                           ELSE Mask!ProjectWorklog(w)
                      ELSE {}
<1>1. Streamed(i) = printed \X {i}
  BY DEF Streamed, Mask!WorklogNodes
<1>2. CASE typed = NotSet
  <2>1. \A p : Wanted(p) /\ Mask!Includes(p)
    BY <1>2 DEF Wanted, Mask!Includes
  <2>2. Mask!SelectsWorklogs
    BY <2>1 DEF Mask!AnyIncluded, Mask!SelectsWorklogs
  <2>3. whole = printed
    BY <1>2, <2>1, <2>2
  <2> QED
    BY <1>1, <2>3
<1>3. CASE typed # NotSet
  <2> DEFINE paths == Mask!Range(typed)
  <2>1. \A f \in (Mask!WorklogFields \ {"worklogs.interval"}) \cup Mask!ClockFields :
          Wanted(f) <=> Mask!Includes(f)
    BY <1>3, WantedBy DEF MaskLeaves
  <2>2. Wanted("worklogs.interval") <=> Mask!Includes("worklogs.interval") \/ Mask!RequiresInterval
    <3>1. Wanted("worklogs.interval") <=>
            ({"worklogs.interval", "worklogs"} \cup Mask!ClockFields) \cap paths # {}
      BY <1>3, WantedBy
    <3>2. /\ Mask!Includes("worklogs.interval") <=> {"worklogs.interval", "worklogs"} \cap paths # {}
          /\ \A f \in Mask!ClockFields :
               Mask!Includes(f) <=> {f, "worklogs.interval", "worklogs"} \cap paths # {}
      BY <1>3, IncludedBy, FieldSets
    <3> HIDE DEF paths
    <3> QED
      BY <3>1, <3>2 DEF Mask!RequiresInterval, Mask!AnyIncluded
  <2>3. Mask!ProjectWorklog(w) =
          {f \in Mask!WorklogFields : Wanted(f)}
            \cup (IF w.clock THEN {f \in Mask!ClockFields : Wanted(f)} ELSE {})
    BY <2>1, <2>2, FieldSets DEF Mask!ProjectWorklog, Mask!Clocks
  <2>4. Mask!CompleteWorklog(w) =
          (Mask!WorklogFields \ IF w.attributes THEN {} ELSE {"worklogs.attributes"})
            \cup (IF w.clock THEN Mask!ClockFields ELSE {})
    BY DEF Mask!CompleteWorklog
  <2>5. whole \subseteq Mask!ProjectWorklog(w)
    BY <2>3, <2>4
  <2>6. Mask!ProjectWorklog(w) \subseteq whole \cup {"worklogs.attributes"}
    BY <2>3, <2>4
  <2>7. \A f \in Mask!WorklogFields \cup Mask!ClockFields : Wanted(f) => Mask!SelectsWorklogs
    <3>1. \A f \in (Mask!WorklogFields \ {"worklogs.interval"}) \cup Mask!ClockFields :
            Wanted(f) => Mask!SelectsWorklogs
      BY <2>1 DEF Mask!SelectsWorklogs, Mask!AnyIncluded
    <3>2. Wanted("worklogs.interval") => Mask!SelectsWorklogs
      BY <2>2, FieldSets DEF Mask!SelectsWorklogs, Mask!AnyIncluded, Mask!RequiresInterval
    <3> QED
      BY <3>1, <3>2
  <2>8. ~Mask!SelectsWorklogs => whole = {}
    BY <2>4, <2>7
  <2> HIDE DEF whole, w
  <2> QED
    BY <1>1, <1>3, <2>5, <2>6, <2>8 DEF w, whole
<1> QED
  BY <1>2, <1>3

(* A whole result, printed either way, is what is wanted of everything.    *)
Selected == {n \in Mask!Everything : Wanted(n[1])}
Loose == ({"worklogs"} \X {0}) \cup ({"worklogs.attributes"} \X (1..Len(day)))

LEMMA WholeIsWanted ==
  ASSUME MaskRead, IsASequence(day), NEW out, NEW head \in SUBSET {<<"worklogs", 0>>},
         out = Mask!Frame \cup head \cup UNION {Streamed(i) : i \in DOMAIN day}
  PROVE  /\ out \ Loose = Selected \ Loose
         /\ head = {<<"worklogs", 0>>} \/ ~Wanted("worklogs") => Selected \cap Loose \subseteq out
<1> DEFINE framed == {p \in {"date", "schedule", "pagination"} \cup Mask!ScheduleFields
                            \cup Mask!PaginationFields : Wanted(p)}
           whole(i) == {p \in Mask!CompleteWorklog(day[i]) : Wanted(p)}
           printed(i) == IF Mask!SelectsWorklogs
                         THEN IF typed = NotSet THEN Mask!CompleteWorklog(day[i])
                              ELSE Mask!ProjectWorklog(day[i])
                         ELSE {}
<1>1. DOMAIN day = 1 .. Len(day)
  BY DEF IsASequence
<1>2. Mask!Frame = framed \X {0}
  BY FrameIsWanted
<1>3. \A i \in DOMAIN day : /\ Streamed(i) = printed(i) \X {i}
                            /\ whole(i) \subseteq printed(i)
                            /\ printed(i) \subseteq whole(i) \cup {"worklogs.attributes"}
  BY WorklogIsWanted
<1>4. Selected = (framed \X {0})
                   \cup (IF Wanted("worklogs") THEN {<<"worklogs", 0>>} ELSE {})
                   \cup UNION {whole(i) \X {i} : i \in DOMAIN day}
  <2>1. Mask!Everything =
          ((({"date", "schedule", "pagination"} \cup Mask!ScheduleFields
               \cup Mask!PaginationFields) \cup {"worklogs"}) \X {0})
            \cup UNION {Mask!CompleteWorklog(day[i]) \X {i} : i \in DOMAIN day}
    BY FieldSets DEF Mask!Everything
  <2> QED
    BY <2>1 DEF Selected
<1> HIDE DEF framed, whole, printed
<1>5. out \ Loose \subseteq Selected \ Loose
  BY <1>1, <1>2, <1>3, <1>4 DEF Loose
<1>6. Selected \ Loose \subseteq out \ Loose
  BY <1>1, <1>2, <1>3, <1>4 DEF Loose
<1>7. head = {<<"worklogs", 0>>} \/ ~Wanted("worklogs") => Selected \cap Loose \subseteq out
  BY <1>1, <1>2, <1>3, <1>4 DEF Loose
<1> QED
  BY <1>5, <1>6, <1>7

(* A key or a link that is asked for is printed.                           *)
LEMMA KeyIsPrinted ==
  ASSUME MaskRead, NEW i \in DOMAIN day, Mask!SelectsWorklogs, Mask!RequiresIssueKey
  PROVE  \E n \in Streamed(i) : n[1] \in {"worklogs.issueKey", "worklogs.link"}
<1>1. PICK f \in {"worklogs.issueKey", "worklogs.link"} : Mask!Includes(f)
  BY DEF Mask!RequiresIssueKey, Mask!AnyIncluded
<1>2. f \in Mask!WorklogFields /\ f # "worklogs.attributes" /\ f # "worklogs.interval"
  BY DEF Mask!WorklogFields
<1>3. f \in Mask!CompleteWorklog(day[i]) /\ f \in Mask!ProjectWorklog(day[i])
  BY <1>1, <1>2 DEF Mask!CompleteWorklog, Mask!ProjectWorklog
<1>4. <<f, i>> \in Streamed(i)
  BY <1>3 DEF Streamed, Mask!WorklogNodes
<1> QED
  BY <1>4

LEMMA AppendKeeps ==
  ASSUME NEW s, IsASequence(s), Mask!IsInjective(s), NEW e, e \notin Mask!Range(s)
  PROVE  /\ IsASequence(Append(s, e)) /\ Mask!IsInjective(Append(s, e))
         /\ Mask!Range(Append(s, e)) = Mask!Range(s) \cup {e}
         /\ Append(s, e) # <<>>
<1> DEFINE t == Append(s, e)
           S == {s[i] : i \in DOMAIN s}
<1>1. s \in Seq(S) /\ Len(s) \in Nat /\ DOMAIN s = 1 .. Len(s)
  BY DEF IsASequence
<1> HIDE DEF S
<1>2. /\ t \in Seq(S \cup {e}) /\ Len(t) = Len(s) + 1 /\ DOMAIN t = 1 .. Len(s) + 1
      /\ \A i \in 1 .. Len(s) : t[i] = s[i]
      /\ t[Len(s) + 1] = e
  BY <1>1
<1> HIDE DEF t
<1>3. Mask!Range(s) = {s[i] : i \in 1 .. Len(s)}
  BY <1>1 DEF Mask!Range
<1>4. Mask!Range(t) = Mask!Range(s) \cup {e}
  <2>1. Mask!Range(t) \subseteq Mask!Range(s) \cup {e}
    BY <1>1, <1>2, <1>3 DEF Mask!Range
  <2>2. Mask!Range(s) \subseteq Mask!Range(t) /\ e \in Mask!Range(t)
    BY <1>1, <1>2, <1>3 DEF Mask!Range
  <2> QED
    BY <2>1, <2>2
<1>5. Mask!IsInjective(t)
  <2> SUFFICES ASSUME NEW i \in 1 .. Len(s) + 1, NEW j \in 1 .. Len(s) + 1, t[i] = t[j]
               PROVE  i = j
    BY <1>2 DEF Mask!IsInjective
  <2>1. CASE i \in 1 .. Len(s) /\ j \in 1 .. Len(s)
    BY <1>1, <1>2, <2>1 DEF Mask!IsInjective
  <2>2. CASE i = Len(s) + 1 \/ j = Len(s) + 1
    <3>1. \A k \in 1 .. Len(s) : t[k] # e
      BY <1>2, <1>3
    <3> QED
      BY <1>1, <1>2, <2>2, <3>1
  <2> QED
    BY <1>1, <2>1, <2>2
<1>6. {t[i] : i \in DOMAIN t} = S \cup {e}
  BY <1>3, <1>4, <1>1 DEF Mask!Range, S
<1>7. t # <<>>
  BY <1>1, <1>2
<1> QED
  BY <1>2, <1>3, <1>4, <1>5, <1>6, <1>7 DEF IsASequence, t

(* What the mask decides does not change after the start.                  *)
LEMMA MaskStays ==
  ASSUME UNCHANGED <<typed, day>>
  PROVE  /\ MaskRead' <=> MaskRead
         /\ \A i : Streamed(i)' = Streamed(i)
         /\ Mask!Frame' = Mask!Frame
         /\ Mask!ProjectListResult' = Mask!ProjectListResult
         /\ Mask!SelectsWorklogs' <=> Mask!SelectsWorklogs
         /\ Mask!RequiresIssueKey' <=> Mask!RequiresIssueKey
<1>1. \A f : Mask!Includes(f)' <=> Mask!Includes(f)
  BY DEF Mask!Includes
<1>2. /\ Mask!SelectsWorklogs' <=> Mask!SelectsWorklogs
      /\ Mask!RequiresIssueKey' <=> Mask!RequiresIssueKey
      /\ Mask!RequiresInterval' <=> Mask!RequiresInterval
  BY <1>1 DEF Mask!SelectsWorklogs, Mask!RequiresIssueKey, Mask!RequiresInterval,
            Mask!AnyIncluded
<1>3. \A w : Mask!ProjectWorklog(w)' = Mask!ProjectWorklog(w)
  BY <1>1, <1>2 DEF Mask!ProjectWorklog, Mask!Clocks
<1>4. \A i : Mask!WorklogNodes(i)' = Mask!WorklogNodes(i)
  BY <1>3 DEF Mask!WorklogNodes
<1>5. \A i : Streamed(i)' = Streamed(i)
  BY <1>2, <1>4 DEF Streamed
<1>6. Mask!Frame' = Mask!Frame
  BY <1>1 DEF Mask!Frame, Mask!Group, Mask!AnyIncluded
<1>7. Mask!ProjectListResult' = Mask!ProjectListResult
  BY <1>2, <1>4, <1>6 DEF Mask!ProjectListResult
<1> QED
  BY <1>2, <1>5, <1>6, <1>7 DEF MaskRead

LEMMA MaskStep == MaskIInv /\ [Mask!Next]_(Mask!vars) => MaskIInv'
<1> SUFFICES ASSUME MaskIInv, [Mask!Next]_(Mask!vars)
             PROVE  MaskIInv'
  OBVIOUS
<1> DEFINE past == {j \in DOMAIN day : j <= at}
<1>1. DOMAIN day = 1 .. Len(day) /\ Len(day) \in Nat
  BY DEF MaskIInv, IsASequence
<1>2. ASSUME NEW m \in {"report", "stream"}, Mask!Start(m)
      PROVE  MaskIInv'
  <2>1. /\ mode = NotSet /\ mode' = m /\ (typed # NotSet => Mask!Parses(typed))
        /\ UNCHANGED <<typed, day, at, output, keys, calls>>
    BY <1>2 DEF Mask!Start
  <2>2. at = 0 /\ output = {} /\ calls = <<>>
    BY <2>1 DEF MaskIInv
  <2>3. mode # "report" /\ mode # "stream"
    BY <2>1, MaskAssumption
  <2>4. MaskRead'
    BY <2>1 DEF MaskRead, Mask!Parses
  <2>5. {j \in DOMAIN day : j <= 0} = {}
    BY <1>1
  <2>6. keys' = Mask!Range(calls') /\ IsASequence(calls') /\ Mask!IsInjective(calls')
    BY <2>1, <2>3 DEF MaskIInv
  <2>7. IsASequence(day') /\ at' = 0 /\ output' = {} /\ calls' = <<>>
    BY <2>1, <2>2 DEF MaskIInv
  <2>8. m # NotSet
    BY MaskAssumption
  <2> QED
    BY <1>1, <2>1, <2>4, <2>5, <2>6, <2>7, <2>8 DEF MaskIInv
<1>3. CASE Mask!Report
  <2>1. /\ mode = "report" /\ at = 0 /\ UNCHANGED <<typed, day, mode>>
        /\ calls' \in Mask!InSomeOrder(Mask!Issues(day))
        /\ output' = Mask!ProjectListResult /\ at' = Len(day) + 1
    BY <1>3 DEF Mask!Report
  <2>2. mode # NotSet
    BY <2>1, MaskAssumption
  <2>3. Mask!IsInjective(calls')
    BY <2>1 DEF Mask!InSomeOrder
  <2>4. MaskRead' /\ output' = Mask!ProjectListResult'
    BY <2>1, <2>2, MaskStays DEF MaskIInv
  <2>5. IsASequence(day') /\ at' \in Nat /\ at' # 0
    BY <1>1, <2>1 DEF MaskIInv
  <2> QED
    BY <2>1, <2>2, <2>3, <2>4, <2>5 DEF MaskIInv
<1>4. CASE Mask!StreamWorklog
  <2> DEFINE asks == Mask!SelectsWorklogs /\ Mask!RequiresIssueKey
                       /\ day[at + 1].issue \notin keys
  <2>1. /\ mode = "stream" /\ at < Len(day) /\ UNCHANGED <<typed, day, mode>>
        /\ output' = output \cup Streamed(at + 1) /\ at' = at + 1
        /\ IF asks THEN /\ calls' = Append(calls, day[at + 1].issue)
                        /\ keys' = keys \cup {day[at + 1].issue}
           ELSE UNCHANGED <<calls, keys>>
    BY <1>4 DEF Mask!StreamWorklog, Streamed
  <2>2. /\ at \in Nat /\ mode # NotSet /\ mode # "report"
        /\ keys = Mask!Range(calls) /\ IsASequence(calls) /\ Mask!IsInjective(calls)
    BY <2>1, MaskAssumption DEF MaskIInv
  <2>3. output = UNION {Streamed(i) : i \in past}
    BY <1>1, <2>1, <2>2 DEF MaskIInv
  <2>4. {j \in DOMAIN day : j <= at + 1} = past \cup {at + 1}
    BY <1>1, <2>1, <2>2
  <2>5. output' = UNION {Streamed(i) : i \in {j \in DOMAIN day : j <= at + 1}}
    <3> HIDE DEF past
    <3> QED
      BY <2>1, <2>3, <2>4
  <2>6. UNION {Streamed(i)' : i \in {j \in DOMAIN day' : j <= at'}}
          = UNION {Streamed(i) : i \in {j \in DOMAIN day : j <= at + 1}}
    BY <2>1, MaskStays
  <2>7. ~(at' > Len(day'))
    BY <1>1, <2>1, <2>2
  <2>8. keys' = Mask!Range(calls') /\ IsASequence(calls') /\ Mask!IsInjective(calls')
    <3> HIDE DEF MaskIInv
    <3> QED
      BY <2>1, <2>2, AppendKeeps
  <2>9. calls' # <<>> => Mask!SelectsWorklogs /\ Mask!RequiresIssueKey
    BY <2>1 DEF MaskIInv
  <2>10. day' # <<>> /\ at' > 0
    BY <1>1, <2>1, <2>2
  <2>11. MaskRead' /\ (Mask!SelectsWorklogs' <=> Mask!SelectsWorklogs)
           /\ (Mask!RequiresIssueKey' <=> Mask!RequiresIssueKey)
    BY <2>1, <2>2, MaskStays DEF MaskIInv
  <2>12. IsASequence(day') /\ at' \in Nat /\ mode' = "stream"
    BY <2>1, <2>2 DEF MaskIInv
  <2> HIDE DEF past
  <2> QED
    BY <2>2, <2>5, <2>6, <2>7, <2>8, <2>9, <2>10, <2>11, <2>12, MaskAssumption DEF MaskIInv
<1>5. CASE Mask!StreamEnd
  <2>1. /\ mode = "stream" /\ at = Len(day) /\ at' = at + 1
        /\ output' = output \cup Mask!Frame
        /\ UNCHANGED <<typed, day, mode, keys, calls>>
    BY <1>5 DEF Mask!StreamEnd
  <2>2. mode # NotSet /\ mode # "report" /\ at \in Nat
    BY <2>1, MaskAssumption DEF MaskIInv
  <2>3. output = UNION {Streamed(i) : i \in past}
    BY <1>1, <2>1, <2>2 DEF MaskIInv
  <2>4. {j \in DOMAIN day : j <= at + 1} = past
    BY <1>1, <2>1, <2>2
  <2>5. UNION {Streamed(i)' : i \in {j \in DOMAIN day' : j <= at'}}
          = UNION {Streamed(i) : i \in past}
    <3> HIDE DEF past
    <3> QED
      BY <2>1, <2>4, MaskStays
  <2>6. at' > Len(day') /\ at' \in Nat /\ at' > 0
    BY <1>1, <2>1, <2>2
  <2>7. /\ MaskRead' /\ Mask!Frame' = Mask!Frame
        /\ Mask!SelectsWorklogs' <=> Mask!SelectsWorklogs
        /\ Mask!RequiresIssueKey' <=> Mask!RequiresIssueKey
    BY <2>1, <2>2, MaskStays DEF MaskIInv
  <2>8. /\ keys' = Mask!Range(calls') /\ IsASequence(calls') /\ Mask!IsInjective(calls')
        /\ calls' # <<>> => day' # <<>> /\ Mask!SelectsWorklogs /\ Mask!RequiresIssueKey
        /\ IsASequence(day') /\ mode' = "stream"
    BY <2>1, <2>2 DEF MaskIInv
  <2>9. output' = (IF at' > Len(day') THEN Mask!Frame' ELSE {})
                    \cup UNION {Streamed(i)' : i \in {j \in DOMAIN day' : j <= at'}}
    <3> HIDE DEF past
    <3> QED
      BY <2>1, <2>3, <2>5, <2>6, <2>7
  <2> HIDE DEF past
  <2> QED
    BY <2>2, <2>6, <2>7, <2>8, <2>9, MaskAssumption DEF MaskIInv
<1>6. CASE UNCHANGED Mask!vars
  <2>1. UNCHANGED <<typed, day, mode, at, output, keys, calls>>
    BY <1>6 DEF Mask!vars
  <2> QED
    BY <2>1, MaskStays DEF MaskIInv
<1> QED
  BY <1>2, <1>3, <1>4, <1>5, <1>6 DEF Mask!Next

(* What is printed, either way, is the complete result cut down to the     *)
(* mask (field_selection.rs, list.rs).                                     *)
THEOREM MaskedAsSelected == Mask!Spec => []Mask!PrintedAsSelected
<1>1. Mask!Init => MaskIInv
  <2> SUFFICES ASSUME Mask!Init
               PROVE  MaskIInv
    OBVIOUS
  <2>1. /\ day \in Listed /\ mode = NotSet /\ at = 0 /\ output = {}
        /\ keys = {} /\ calls = <<>>
    BY DEF Mask!Init
  <2>2. Mask!Range(calls) = {} /\ Mask!IsInjective(calls) /\ IsASequence(calls)
    BY <2>1 DEF Mask!Range, Mask!IsInjective, IsASequence
  <2> QED
    BY <2>1, <2>2, MaskAssumption DEF MaskIInv
<1>2. MaskIInv => Mask!PrintedAsSelected
  <2> SUFFICES ASSUME MaskIInv
               PROVE  Mask!PrintedAsSelected
    OBVIOUS
  <2>1. DOMAIN day = 1 .. Len(day) /\ Len(day) \in Nat
    BY DEF MaskIInv, IsASequence
  <2>2. Selected = {n \in Mask!Everything :
                      typed = NotSet \/ \E f \in Mask!Range(typed) : Mask!Related(n[1], f)}
    BY DEF Selected, Wanted
  <2>3. ASSUME at > Len(day)
        PROVE  /\ output \ Loose = Selected \ Loose
               /\ mode = "report" => Selected \cap Loose \subseteq output
    <3>1. MaskRead /\ IsASequence(day) /\ mode \in {"report", "stream"} /\ at # 0
      BY <2>1, <2>3 DEF MaskIInv
    <3>2. {j \in DOMAIN day : j <= at} = DOMAIN day
      BY <2>1, <2>3 DEF MaskIInv
    <3> DEFINE head == IF mode = "report" /\ Mask!SelectsWorklogs
                       THEN {<<"worklogs", 0>>} ELSE {}
    <3>3. output = Mask!Frame \cup head \cup UNION {Streamed(i) : i \in DOMAIN day}
      <4>1. CASE mode = "report"
        <5>1. output = Mask!ProjectListResult
          BY <3>1, <4>1 DEF MaskIInv
        <5> QED
          BY <4>1, <5>1 DEF Mask!ProjectListResult, Streamed
      <4>2. CASE mode = "stream"
        <5>1. output = (IF at > Len(day) THEN Mask!Frame ELSE {})
                          \cup UNION {Streamed(i) : i \in {j \in DOMAIN day : j <= at}}
          BY <4>2 DEF MaskIInv
        <5>2. head = {}
          BY <4>2
        <5> HIDE DEF head
        <5> QED
          BY <2>3, <3>2, <5>1, <5>2
      <4> QED
        BY <3>1, <4>1, <4>2
    <3>4. head \in SUBSET {<<"worklogs", 0>>}
      OBVIOUS
    <3>5. mode = "report" => head = {<<"worklogs", 0>>} \/ ~Wanted("worklogs")
      BY <3>1, GroupsAreWanted
    <3> HIDE DEF head
    <3>6. /\ output \ Loose = Selected \ Loose
          /\ head = {<<"worklogs", 0>>} \/ ~Wanted("worklogs") =>
               Selected \cap Loose \subseteq output
      BY <3>1, <3>3, <3>4, WholeIsWanted
    <3> QED
      BY <3>5, <3>6
  <2>4. Mask!IsInjective(calls)
    BY DEF MaskIInv
  <2>5. ASSUME mode = "stream", calls # <<>>
        PROVE  \E n \in output : n[1] \in {"worklogs.issueKey", "worklogs.link"}
    <3>1. /\ MaskRead /\ at \in Nat /\ at > 0 /\ day # <<>>
          /\ Mask!SelectsWorklogs /\ Mask!RequiresIssueKey
          /\ output = (IF at > Len(day) THEN Mask!Frame ELSE {})
                        \cup UNION {Streamed(i) : i \in {j \in DOMAIN day : j <= at}}
      BY <2>5, MaskAssumption DEF MaskIInv
    <3>2. 1 \in DOMAIN day /\ 1 <= at
      BY <2>1, <3>1 DEF MaskIInv, IsASequence
    <3>3. Streamed(1) \subseteq output
      BY <3>1, <3>2
    <3> QED
      BY <3>1, <3>2, <3>3, KeyIsPrinted
  <2> QED
    BY <2>2, <2>3, <2>4, <2>5 DEF Mask!PrintedAsSelected, Loose
<1> QED
  BY <1>1, <1>2, MaskStep, PTL DEF Mask!Spec

-----------------------------------------------------------------------------
(* ClaudeHooks. Every edit that does not overwrite another changes the     *)
(* places of each command in a list in a way that can be told: the user's  *)
(* stay, the program's own are renamed, emptied, or one is added.          *)

HooksCounted == \A S : Hooks!Cardinality(S) = Cardinality(S)
LEMMA HooksCount == HooksCounted
BY DEF HooksCounted, Hooks!Cardinality, Cardinality

LEMMA PlaceOf ==
  ASSUME NEW list, NEW c
  PROVE  \A i, j : <<i, j>> \in Hooks!Places(list, c) <=>
           i \in DOMAIN list /\ j \in DOMAIN list[i] /\ list[i][j] = c
BY DEF Hooks!Places

LEMMA PlacesArePairs ==
  ASSUME NEW list, NEW c, NEW p \in Hooks!Places(list, c)
  PROVE  p = <<p[1], p[2]>>
BY DEF Hooks!Places

LEMMA ListShape ==
  ASSUME NEW list \in HookLists
  PROVE  /\ Len(list) \in Nat /\ DOMAIN list = 1 .. Len(list)
         /\ \A i \in DOMAIN list : /\ list[i] \in Seq(HookCommands)
                                   /\ Len(list[i]) \in Nat
                                   /\ DOMAIN list[i] = 1 .. Len(list[i])
<1>1. \A i \in DOMAIN list : list[i] \in Seq(HookCommands)
  BY DEF HookLists
<1>2. Len(list) \in Nat /\ DOMAIN list = 1 .. Len(list)
  BY DEF HookLists
<1>3. ASSUME NEW s \in Seq(HookCommands)
      PROVE  Len(s) \in Nat /\ DOMAIN s = 1 .. Len(s)
  OBVIOUS
<1> QED
  BY <1>1, <1>2, <1>3

LEMMA PlacesAreFinite ==
  ASSUME NEW list \in HookLists, NEW c
  PROVE  /\ IsFiniteSet(Hooks!Places(list, c))
         /\ Cardinality(Hooks!Places(list, c)) \in Nat
<1> DEFINE row == [i \in DOMAIN list |-> {i} \X DOMAIN list[i]]
           rows == {row[i] : i \in DOMAIN list}
<1>1. IsFiniteSet(DOMAIN list)
  BY ListShape, FS_Interval
<1>2. row \in Surjection(DOMAIN list, rows)
  BY DEF Surjection
<1>3. ASSUME NEW i \in DOMAIN list
      PROVE  IsFiniteSet(row[i])
  <2>1. IsFiniteSet(DOMAIN list[i])
    BY ListShape, FS_Interval
  <2>2. IsFiniteSet({i})
    BY FS_Singleton
  <2> QED
    BY <2>1, <2>2, FS_Product
<1>4. UNION rows = UNION {{i} \X DOMAIN list[i] : i \in DOMAIN list}
  OBVIOUS
<1> HIDE DEF row
<1>5. IsFiniteSet(rows)
  <2> HIDE DEF rows
  <2> QED
    BY <1>1, <1>2, FS_Surjection
<1>6. IsFiniteSet(UNION rows)
  <2>1. \A r \in rows : IsFiniteSet(r)
    BY <1>3
  <2> HIDE DEF rows
  <2> QED
    BY <1>5, <2>1, FS_UNION
<1>7. Hooks!Places(list, c) \subseteq UNION rows
  BY <1>4 DEF Hooks!Places
<1> QED
  BY <1>6, <1>7, FS_Subset, FS_CardinalityType

(* A new entry is one more place of its command.                           *)
LEMMA EntryAdded ==
  ASSUME NEW list \in HookLists, NEW x \in HookCommands, NEW c
  PROVE  /\ Append(list, <<x>>) \in HookLists
         /\ Hooks!Places(Append(list, <<x>>), c) =
              Hooks!Places(list, c) \cup (IF x = c THEN {<<Len(list) + 1, 1>>} ELSE {})
         /\ <<Len(list) + 1, 1>> \notin Hooks!Places(list, c)
<1> DEFINE l == Append(list, <<x>>)
<1>1. l \in HookLists
  BY DEF HookLists
<1>2. /\ DOMAIN l = 1 .. Len(list) + 1 /\ Len(list) \in Nat /\ DOMAIN list = 1 .. Len(list)
      /\ \A i \in DOMAIN list : l[i] = list[i]
      /\ l[Len(list) + 1] = <<x>>
  BY ListShape DEF HookLists
<1>3. DOMAIN <<x>> = {1} /\ <<x>>[1] = x
  OBVIOUS
<1> HIDE DEF l
<1>4. Hooks!Places(l, c) = Hooks!Places(list, c) \cup
                             (IF x = c THEN {<<Len(list) + 1, 1>>} ELSE {})
  <2>1. \A i, j : <<i, j>> \in Hooks!Places(l, c) <=>
          \/ <<i, j>> \in Hooks!Places(list, c)
          \/ x = c /\ i = Len(list) + 1 /\ j = 1
    <3>1. \A i, j : <<i, j>> \in Hooks!Places(l, c) <=>
            i \in DOMAIN l /\ j \in DOMAIN l[i] /\ l[i][j] = c
      BY PlaceOf
    <3>2. \A i, j : <<i, j>> \in Hooks!Places(list, c) <=>
            i \in DOMAIN list /\ j \in DOMAIN list[i] /\ list[i][j] = c
      BY PlaceOf
    <3>3. DOMAIN l = DOMAIN list \cup {Len(list) + 1} /\ Len(list) + 1 \notin DOMAIN list
      BY <1>2
    <3> HIDE DEF l
    <3>4. \A i : i \in DOMAIN list => i # Len(list) + 1 /\ l[i] = list[i]
      BY <1>2, <3>3
    <3>5. \A j : j \in DOMAIN <<x>> <=> j = 1
      BY <1>3
    <3>6. <<x>>[1] = x /\ l[Len(list) + 1] = <<x>>
      BY <1>2, <1>3
    <3> TAKE i, j
    <3>7. CASE i = Len(list) + 1
      <4>1. <<i, j>> \notin Hooks!Places(list, c)
        BY <3>2, <3>3, <3>7
      <4>2. i \in DOMAIN l /\ l[i] = <<x>>
        BY <3>3, <3>6, <3>7
      <4>3. <<i, j>> \in Hooks!Places(l, c) <=> j = 1 /\ <<x>>[j] = c
        BY <3>1, <3>5, <4>2
      <4> QED
        BY <3>6, <3>7, <4>1, <4>3
    <3>8. CASE i # Len(list) + 1
      BY <3>1, <3>2, <3>3, <3>4, <3>8
    <3> QED
      BY <3>7, <3>8
  <2>2. Hooks!Places(l, c) \subseteq Hooks!Places(list, c) \cup
                             (IF x = c THEN {<<Len(list) + 1, 1>>} ELSE {})
    BY <2>1, PlacesArePairs
  <2>3. Hooks!Places(list, c) \cup (IF x = c THEN {<<Len(list) + 1, 1>>} ELSE {})
          \subseteq Hooks!Places(l, c)
    BY <2>1, PlacesArePairs
  <2> QED
    BY <2>2, <2>3
<1>5. <<Len(list) + 1, 1>> \notin Hooks!Places(list, c)
  BY <1>2, PlaceOf
<1> QED
  BY <1>1, <1>4, <1>5 DEF l

(* So is a command that is added to an entry.                              *)
LEMMA CommandAdded ==
  ASSUME NEW list \in HookLists, NEW k \in DOMAIN list, NEW x \in HookCommands, NEW c
  PROVE  LET l == [list EXCEPT ![k] = Append(@, x)]
             place == <<k, Len(list[k]) + 1>>
         IN  /\ l \in HookLists
             /\ Hooks!Places(l, c) =
                  Hooks!Places(list, c) \cup (IF x = c THEN {place} ELSE {})
             /\ place \notin Hooks!Places(list, c)
<1> DEFINE e == Append(list[k], x)
           l == [list EXCEPT ![k] = e]
           place == <<k, Len(list[k]) + 1>>
<1>1. list[k] \in Seq(HookCommands) /\ Len(list[k]) \in Nat
  BY ListShape
<1>2. /\ e \in Seq(HookCommands) /\ DOMAIN e = 1 .. Len(list[k]) + 1
      /\ \A j \in 1 .. Len(list[k]) : e[j] = list[k][j]
      /\ e[Len(list[k]) + 1] = x
  BY <1>1
<1> HIDE DEF e
<1>3. l \in HookLists
  BY <1>2 DEF HookLists
<1>4. DOMAIN l = DOMAIN list /\ l[k] = e /\ \A i \in DOMAIN list : i # k => l[i] = list[i]
  OBVIOUS
<1>5. DOMAIN list[k] = 1 .. Len(list[k])
  BY ListShape
<1> HIDE DEF l
<1>6. \A i, j : <<i, j>> \in Hooks!Places(l, c) <=>
          \/ <<i, j>> \in Hooks!Places(list, c)
          \/ x = c /\ i = k /\ j = Len(list[k]) + 1
  <2> SUFFICES ASSUME NEW i, NEW j
               PROVE  <<i, j>> \in Hooks!Places(l, c) <=>
                        \/ <<i, j>> \in Hooks!Places(list, c)
                        \/ x = c /\ i = k /\ j = Len(list[k]) + 1
    OBVIOUS
  <2>1. CASE i = k
    BY <1>1, <1>2, <1>4, <1>5, <2>1, PlaceOf
  <2>2. CASE i # k
    BY <1>4, <2>2, PlaceOf
  <2> QED
    BY <2>1, <2>2
<1>7. Hooks!Places(l, c) = Hooks!Places(list, c) \cup (IF x = c THEN {place} ELSE {})
  <2>1. Hooks!Places(l, c) \subseteq Hooks!Places(list, c) \cup (IF x = c THEN {place} ELSE {})
    BY <1>6, PlacesArePairs
  <2>2. Hooks!Places(list, c) \cup (IF x = c THEN {place} ELSE {}) \subseteq Hooks!Places(l, c)
    BY <1>6, PlacesArePairs
  <2> QED
    BY <2>1, <2>2
<1>8. place \notin Hooks!Places(list, c)
  BY <1>1, <1>5, PlaceOf
<1> QED
  BY <1>3, <1>7, <1>8 DEF l, e

(* A program's own commands are renamed, or emptied, where they are.       *)
LEMMA CommandsReplaced ==
  ASSUME NEW list \in HookLists, NEW program, NEW x \in HookCommands
  PROVE  LET l == Hooks!Replaced(list, program, x)
             own == UNION {Hooks!Places(list, r) : r \in Hooks!Recognised(program)}
         IN  /\ l \in HookLists
             /\ \A c : Hooks!Places(l, c) =
                  IF c = x THEN Hooks!Places(list, x) \cup own
                  ELSE IF c \in Hooks!Recognised(program) THEN {} ELSE Hooks!Places(list, c)
<1> DEFINE R == Hooks!Recognised(program)
           row(i) == [j \in DOMAIN list[i] |-> IF list[i][j] \in R THEN x ELSE list[i][j]]
           l == [i \in DOMAIN list |-> row(i)]
           own == UNION {Hooks!Places(list, r) : r \in R}
<1>1. l = Hooks!Replaced(list, program, x)
  BY DEF Hooks!Replaced
<1>2. \A i \in DOMAIN list : row(i) \in Seq(HookCommands)
  <2> SUFFICES ASSUME NEW i \in DOMAIN list
               PROVE  row(i) \in Seq(HookCommands)
    OBVIOUS
  <2>1. list[i] \in Seq(HookCommands)
    BY ListShape
  <2> QED
    BY <2>1
<1>3. l \in HookLists
  <2> HIDE DEF row
  <2> QED
    BY <1>2 DEF HookLists
<1>4. /\ DOMAIN l = DOMAIN list
      /\ \A i \in DOMAIN list : DOMAIN l[i] = DOMAIN list[i]
      /\ \A i \in DOMAIN list : \A j \in DOMAIN list[i] :
           l[i][j] = IF list[i][j] \in R THEN x ELSE list[i][j]
  OBVIOUS
<1> HIDE DEF l, R
<1>5. \A i, j : <<i, j>> \in own <=>
        i \in DOMAIN list /\ j \in DOMAIN list[i] /\ list[i][j] \in R
  <2>1. \A r : \A i, j : <<i, j>> \in Hooks!Places(list, r) <=>
          i \in DOMAIN list /\ j \in DOMAIN list[i] /\ list[i][j] = r
    BY PlaceOf
  <2>2. \A p : p \in own <=> \E r \in R : p \in Hooks!Places(list, r)
    OBVIOUS
  <2> HIDE DEF own
  <2> TAKE i, j
  <2>3. \A r : <<i, j>> \in Hooks!Places(list, r) <=>
          i \in DOMAIN list /\ j \in DOMAIN list[i] /\ list[i][j] = r
    BY <2>1
  <2>4. <<i, j>> \in own <=> \E r \in R : <<i, j>> \in Hooks!Places(list, r)
    BY <2>2
  <2> QED
    BY <2>3, <2>4
<1>6. ASSUME NEW c
      PROVE  Hooks!Places(l, c) =
               IF c = x THEN Hooks!Places(list, x) \cup own
               ELSE IF c \in R THEN {} ELSE Hooks!Places(list, c)
  <2>1. \A i, j : <<i, j>> \in Hooks!Places(l, c) <=>
          i \in DOMAIN list /\ j \in DOMAIN list[i]
            /\ (IF list[i][j] \in R THEN x ELSE list[i][j]) = c
    <3>1. \A i, j : <<i, j>> \in Hooks!Places(l, c) <=>
            i \in DOMAIN l /\ j \in DOMAIN l[i] /\ l[i][j] = c
      BY PlaceOf
    <3> HIDE DEF own
    <3> QED
      BY <1>4, <3>1
  <2>2. \A p \in own : p = <<p[1], p[2]>>
    BY PlacesArePairs
  <2> HIDE DEF own
  <2>3. CASE c = x
    <3>1. \A i, j : <<i, j>> \in Hooks!Places(l, c) <=>
            <<i, j>> \in Hooks!Places(list, x) \/ <<i, j>> \in own
      <4>1. \A i, j : <<i, j>> \in Hooks!Places(list, x) <=>
              i \in DOMAIN list /\ j \in DOMAIN list[i] /\ list[i][j] = x
        BY PlaceOf
      <4> QED
        BY <1>5, <2>1, <2>3, <4>1
    <3>2. Hooks!Places(l, c) \subseteq Hooks!Places(list, x) \cup own
      BY <3>1, PlacesArePairs
    <3>3. Hooks!Places(list, x) \cup own \subseteq Hooks!Places(l, c)
      BY <3>1, <2>2, PlacesArePairs
    <3> QED
      BY <2>3, <3>2, <3>3
  <2>4. CASE c # x /\ c \in R
    <3>1. \A i, j : <<i, j>> \notin Hooks!Places(l, c)
      BY <2>1, <2>4
    <3> QED
      BY <2>4, <3>1, PlacesArePairs
  <2>5. CASE c # x /\ c \notin R
    <3>1. \A i, j : <<i, j>> \in Hooks!Places(l, c) <=> <<i, j>> \in Hooks!Places(list, c)
      <4>1. \A i, j : <<i, j>> \in Hooks!Places(list, c) <=>
              i \in DOMAIN list /\ j \in DOMAIN list[i] /\ list[i][j] = c
        BY PlaceOf
      <4> TAKE i, j
      <4>2. (IF list[i][j] \in R THEN x ELSE list[i][j]) = c <=> list[i][j] = c
        BY <2>5
      <4> QED
        BY <2>1, <4>1, <4>2
    <3>2. Hooks!Places(l, c) \subseteq Hooks!Places(list, c)
      BY <3>1, PlacesArePairs
    <3>3. Hooks!Places(list, c) \subseteq Hooks!Places(l, c)
      BY <3>1, PlacesArePairs
    <3> QED
      BY <2>5, <3>2, <3>3
  <2> QED
    BY <2>3, <2>4, <2>5
<1> QED
  BY <1>1, <1>3, <1>6 DEF R

LEMMA HasPlaces ==
  ASSUME NEW list, NEW program
  PROVE  Hooks!Has(list, program) <=>
           \E c \in Hooks!Recognised(program) : Hooks!Places(list, c) # {}
<1>1. ASSUME Hooks!Has(list, program)
      PROVE  \E c \in Hooks!Recognised(program) : Hooks!Places(list, c) # {}
  <2>1. PICK i \in DOMAIN list : \E j \in DOMAIN list[i] :
          list[i][j] \in Hooks!Recognised(program)
    BY <1>1 DEF Hooks!Has
  <2>2. PICK j \in DOMAIN list[i] : list[i][j] \in Hooks!Recognised(program)
    BY <2>1
  <2>3. <<i, j>> \in Hooks!Places(list, list[i][j])
    BY PlaceOf
  <2> QED
    BY <2>2, <2>3
<1>2. ASSUME NEW c \in Hooks!Recognised(program), NEW p \in Hooks!Places(list, c)
      PROVE  Hooks!Has(list, program)
  BY <1>2 DEF Hooks!Has, Hooks!Places
<1> QED
  BY <1>1, <1>2

(* What the settings, an edit of them and a capture can be, and what holds *)
(* between them. The companion's commands are counted with those of its    *)
(* old version, which it takes for its own.                                *)
HookSettings == {NotSet} \cup [HookEvents -> HookLists]
TextOf(seen) == IF seen = NotSet THEN Hooks!NoHooks ELSE seen

Editing ==
  [at : {"idle", "setup", "uninstall", "own", "finish", "drop"}] \cup
  {[at |-> edit, seen |-> seen, text |-> TextOf(seen), then |-> then] :
     edit \in {"hook", "unhook"}, seen \in HookSettings, then \in {"idle", "own", "drop"}}

HooksTyped ==
  /\ claudeSettings \in HookSettings
  /\ quoted \in BOOLEAN /\ overwritten \in BOOLEAN /\ byHand \in BOOLEAN
  /\ mine \in [HookEvents -> Nat]
  /\ config \in [exists : BOOLEAN, installed : BOOLEAN, hooks : BOOLEAN, claude : BOOLEAN]
  /\ editing \in [{"drag", "companion"} -> Editing]

OwnPlaces(list) == Hooks!Places(list, "companion") \cup Hooks!Places(list, "legacy")

Tidy(list, n) ==
  /\ Cardinality(Hooks!Places(list, "user")) = n
  /\ Cardinality(Hooks!Places(list, "drag")) <= 1
  /\ ~quoted => Cardinality(OwnPlaces(list)) <= 1
AllTidy == ~overwritten => \A e \in HookEvents : Tidy(Hooks!Read[e], mine[e])

NoCompanion == \A e \in HookEvents : Hooks!Places(Hooks!Read[e], "companion") = {}
HooksTracked ==
  ~overwritten /\ ~byHand /\ ~quoted =>
    /\ NoCompanion \/ config.hooks \/ editing.companion.at = "own"
    /\ editing.companion.at = "drop" => NoCompanion
    /\ editing.companion.at = "hook" => editing.companion.then = "own"
    /\ editing.companion.at = "unhook" => editing.companion.then = "drop"

HookTimes == [HookEvents -> CaptureTimes \cup {NotSet}]
Saving(p) ==
  \E step \in {"write", "rename"}, e \in HookEvents, f \in HookTimes :
    /\ capture[p] = [at |-> step, event |-> e, events |-> f]
    /\ events[e] = NotSet
    /\ \A d \in HookEvents \ {e} : f[d] = events[d]
CapturesInv ==
  /\ events \in HookTimes /\ reported \in HookTimes
  /\ DOMAIN capture = Pids
  /\ \A p \in Pids : \/ capture[p] = Hooks!Idle
                     \/ \E e \in HookEvents, t \in CaptureTimes :
                          capture[p] = [at |-> "lock", event |-> e, time |-> t]
                     \/ Saving(p)
  /\ \A p, q \in Pids : Hooks!Unlocked(p) \/ Hooks!Unlocked(q) \/ p = q
  /\ Hooks!CapturedIsStored

HooksIInv == HooksTyped /\ AllTidy /\ HooksTracked /\ CapturesInv

LEMMA TwoAreFinite ==
  ASSUME NEW list \in HookLists
  PROVE  /\ IsFiniteSet(OwnPlaces(list))
         /\ Cardinality(OwnPlaces(list)) \in Nat
<1>1. IsFiniteSet(Hooks!Places(list, "companion")) /\ IsFiniteSet(Hooks!Places(list, "legacy"))
  BY PlacesAreFinite
<1>2. IsFiniteSet(OwnPlaces(list))
  BY <1>1, FS_Union DEF OwnPlaces
<1> QED
  BY <1>2, FS_CardinalityType

LEMMA NamesDiffer ==
  /\ HookCommands = {"user", "drag", "companion", "legacy", "gone"}
  /\ "user" # "drag" /\ "user" # "companion" /\ "user" # "legacy" /\ "user" # "gone"
  /\ "drag" # "companion" /\ "drag" # "legacy" /\ "drag" # "gone"
  /\ "companion" # "legacy" /\ "companion" # "gone" /\ "legacy" # "gone"
BY DEF HookCommands

(* An entry of a program that has none is its only command.                *)
LEMMA AppendedIsTidy ==
  ASSUME NEW list \in HookLists, NEW n, Tidy(list, n),
         NEW program \in {"drag", "companion"}, ~Hooks!Has(list, program)
  PROVE  /\ Tidy(Append(list, <<program>>), n)
         /\ program = "drag" =>
              Hooks!Places(Append(list, <<program>>), "companion") =
                Hooks!Places(list, "companion")
<1> DEFINE l == Append(list, <<program>>)
           place == <<Len(list) + 1, 1>>
<1>1. program \in HookCommands
  BY DEF HookCommands
<1>2. \A c : Hooks!Places(l, c) =
        Hooks!Places(list, c) \cup (IF program = c THEN {place} ELSE {})
  BY <1>1, EntryAdded
<1> HIDE DEF l, place
<1>3. \A c : program # c => Hooks!Places(l, c) = Hooks!Places(list, c)
  BY <1>2
<1>4. \A c \in Hooks!Recognised(program) : Hooks!Places(list, c) = {}
  BY HasPlaces
<1>5. Cardinality({place}) = 1
  BY FS_Singleton
<1>6. CASE program = "drag"
  <2>1. Hooks!Places(l, "drag") = {place}
    <3>1. Hooks!Places(list, "drag") = {}
      BY <1>4, <1>6 DEF Hooks!Recognised
    <3> QED
      BY <1>2, <1>6, <3>1
  <2>2. \A c \in {"user", "companion", "legacy"} : Hooks!Places(l, c) = Hooks!Places(list, c)
    BY <1>3, <1>6, NamesDiffer
  <2>3. Tidy(l, n)
    BY <1>5, <2>1, <2>2 DEF Tidy, OwnPlaces
  <2> QED
    BY <2>2, <2>3 DEF l
<1>7. CASE program = "companion"
  <2>1. \A c \in {"user", "drag", "legacy"} : Hooks!Places(l, c) = Hooks!Places(list, c)
    BY <1>3, <1>7, NamesDiffer
  <2>2. ASSUME ~quoted
        PROVE  OwnPlaces(l) = {place}
    <3>1. Hooks!Places(list, "companion") = {} /\ Hooks!Places(list, "legacy") = {}
      BY <1>4, <1>7, <2>2 DEF Hooks!Recognised
    <3>2. Hooks!Places(l, "companion") = {place}
      BY <1>2, <1>7, <3>1
    <3> QED
      BY <2>1, <3>1, <3>2 DEF OwnPlaces
  <2>3. Tidy(l, n)
    BY <1>5, <2>1, <2>2 DEF Tidy
  <2> QED
    BY <1>7, <2>3 DEF l
<1> QED
  BY <1>6, <1>7

(* Renaming its own commands or emptying them leaves the others'.          *)
LEMMA ReplacedIsTidy ==
  ASSUME NEW list \in HookLists, NEW n, Tidy(list, n),
         NEW program \in {"drag", "companion"}, NEW x \in {program, "gone"}
  PROVE  LET l == Hooks!Replaced(list, program, x)
         IN  /\ Tidy(l, n)
             /\ program = "drag" =>
                  Hooks!Places(l, "companion") = Hooks!Places(list, "companion")
             /\ program = "companion" /\ x = "gone" /\ ~quoted =>
                  Hooks!Places(l, "companion") = {}
<1> DEFINE l == Hooks!Replaced(list, program, x)
           own == UNION {Hooks!Places(list, r) : r \in Hooks!Recognised(program)}
<1>1. x \in HookCommands
  BY DEF HookCommands
<1>2. \A c : Hooks!Places(l, c) =
        IF c = x THEN Hooks!Places(list, x) \cup own
        ELSE IF c \in Hooks!Recognised(program) THEN {} ELSE Hooks!Places(list, c)
  BY <1>1, CommandsReplaced
<1> HIDE DEF l
<1>3. \A c : c # x /\ c \notin Hooks!Recognised(program) =>
        Hooks!Places(l, c) = Hooks!Places(list, c)
  BY <1>2
<1>4. \A c : c # x /\ c \in Hooks!Recognised(program) => Hooks!Places(l, c) = {}
  BY <1>2
<1>5. Hooks!Places(l, x) = Hooks!Places(list, x) \cup own
  BY <1>2
<1>6. Cardinality({}) = 0
  BY FS_EmptySet
<1>7. CASE program = "drag"
  <2>1. Hooks!Recognised(program) = {"drag"}
    BY <1>7 DEF Hooks!Recognised
  <2>2. \A c \in {"user", "companion", "legacy"} : Hooks!Places(l, c) = Hooks!Places(list, c)
    BY <1>3, <1>7, <2>1, NamesDiffer
  <2>3. Hooks!Places(l, "drag") \in {{}, Hooks!Places(list, "drag")}
    <3>1. own = Hooks!Places(list, "drag")
      BY <2>1
    <3> HIDE DEF own
    <3>2. CASE x = "drag"
      BY <1>5, <3>1, <3>2
    <3>3. CASE x = "gone"
      BY <1>4, <2>1, <3>3
    <3> QED
      BY <1>7, <3>2, <3>3
  <2>4. Tidy(l, n)
    BY <1>6, <2>2, <2>3 DEF Tidy, OwnPlaces
  <2> QED
    BY <1>7, <2>2, <2>4 DEF l
<1>8. CASE program = "companion"
  <2>1. \A c \in {"user", "drag"} : Hooks!Places(l, c) = Hooks!Places(list, c)
    <3>1. "user" \notin Hooks!Recognised(program) /\ "drag" \notin Hooks!Recognised(program)
      BY <1>8 DEF Hooks!Recognised
    <3> QED
      BY <1>3, <1>8, <3>1, NamesDiffer
  <2>2. ASSUME ~quoted
        PROVE  /\ OwnPlaces(l) \in {{}, OwnPlaces(list)}
               /\ x = "gone" => Hooks!Places(l, "companion") = {}
    <3>1. Hooks!Recognised(program) = {"legacy", "companion"}
      BY <1>8, <2>2 DEF Hooks!Recognised
    <3>2. own = OwnPlaces(list)
      BY <3>1 DEF OwnPlaces
    <3> HIDE DEF own
    <3>3. CASE x = "companion"
      <4>1. Hooks!Places(l, "legacy") = {}
        BY <1>4, <3>1, <3>3
      <4>2. Hooks!Places(l, "companion") = OwnPlaces(list)
        BY <1>5, <3>2, <3>3 DEF OwnPlaces
      <4> QED
        BY <3>3, <4>1, <4>2 DEF OwnPlaces
    <3>4. CASE x = "gone"
      <4>1. Hooks!Places(l, "legacy") = {} /\ Hooks!Places(l, "companion") = {}
        BY <1>4, <3>1, <3>4
      <4> QED
        BY <4>1 DEF OwnPlaces
    <3> QED
      BY <1>8, <3>3, <3>4
  <2>3. Tidy(l, n)
    BY <1>6, <2>1, <2>2 DEF Tidy
  <2> QED
    BY <1>8, <2>2, <2>3 DEF l
<1> QED
  BY <1>7, <1>8

LEMMA WrittenIsTidy ==
  ASSUME NEW list \in HookLists, NEW program \in {"drag", "companion"}
  PROVE  /\ Hooks!Hooked(list, program) \in HookLists
         /\ Hooks!Unhooked(list) \in HookLists
         /\ \A n : Tidy(list, n) =>
              /\ Tidy(Hooks!Hooked(list, program), n)
              /\ program = "drag" => Hooks!Places(Hooks!Hooked(list, program), "companion") =
                                       Hooks!Places(list, "companion")
              /\ Tidy(Hooks!Unhooked(list), n)
              /\ ~quoted => Hooks!Places(Hooks!Unhooked(list), "companion") = {}
<1>1. program \in HookCommands /\ "gone" \in HookCommands
  BY DEF HookCommands
<1>2. Hooks!Replaced(list, program, program) \in HookLists
  BY <1>1, CommandsReplaced
<1>3. Append(list, <<program>>) \in HookLists
  BY <1>1, EntryAdded
<1>4. Hooks!Unhooked(list) \in HookLists
  BY <1>1, CommandsReplaced DEF Hooks!Unhooked
<1>5. ASSUME NEW n, Tidy(list, n)
      PROVE  /\ Tidy(Hooks!Unhooked(list), n)
             /\ ~quoted => Hooks!Places(Hooks!Unhooked(list), "companion") = {}
  <2> DEFINE c == "companion"
  <2>1. c \in {"drag", "companion"} /\ "gone" \in {c, "gone"} /\ c = "companion"
    OBVIOUS
  <2> HIDE DEF c
  <2> QED
    BY <1>5, <2>1, ReplacedIsTidy DEF Hooks!Unhooked
<1>6. ASSUME NEW n, Tidy(list, n)
      PROVE  /\ Tidy(Hooks!Hooked(list, program), n)
             /\ program = "drag" => Hooks!Places(Hooks!Hooked(list, program), "companion") =
                                      Hooks!Places(list, "companion")
  <2>1. CASE Hooks!Has(list, program)
    <3>1. program \in {program, "gone"}
      OBVIOUS
    <3> QED
      BY <1>6, <2>1, <3>1, ReplacedIsTidy DEF Hooks!Hooked
  <2>2. CASE ~Hooks!Has(list, program)
    BY <1>6, <2>2, AppendedIsTidy DEF Hooks!Hooked
  <2> QED
    BY <2>1, <2>2
<1> QED
  BY <1>2, <1>3, <1>4, <1>5, <1>6 DEF Hooks!Hooked

(* A command of the user's, wherever it goes, is one more of them.         *)
LEMMA UsersPlaces ==
  ASSUME NEW list \in HookLists, NEW l, NEW place, NEW n \in Nat, Tidy(list, n),
         place \notin Hooks!Places(list, "user"),
         \A c : Hooks!Places(l, c) =
           Hooks!Places(list, c) \cup (IF "user" = c THEN {place} ELSE {})
  PROVE  /\ Tidy(l, n + 1)
         /\ Hooks!Places(l, "companion") = Hooks!Places(list, "companion")
<1>1. \A c \in {"drag", "companion", "legacy"} : Hooks!Places(l, c) = Hooks!Places(list, c)
  BY NamesDiffer
<1>2. Hooks!Places(l, "user") = Hooks!Places(list, "user") \cup {place}
  OBVIOUS
<1>3. Cardinality(Hooks!Places(l, "user")) = n + 1
  BY <1>2, PlacesAreFinite, FS_AddElement DEF Tidy
<1> QED
  BY <1>1, <1>3 DEF Tidy, OwnPlaces

LEMMA ReadIsTyped ==
  ASSUME NEW seen \in HookSettings
  PROVE  TextOf(seen) \in [HookEvents -> HookLists]
<1>1. Hooks!NoHooks \in [HookEvents -> HookLists]
  BY DEF Hooks!NoHooks, HookLists
<1> QED
  BY <1>1 DEF TextOf, HookSettings

LEMMA ReadIsText == Hooks!Read = TextOf(claudeSettings)
BY DEF Hooks!Read, TextOf

LEMMA HooksStart == Hooks!Init => HooksIInv
<1> SUFFICES ASSUME Hooks!Init
             PROVE  HooksIInv
  OBVIOUS
<1>1. claudeSettings \in HookSettings
  BY HooksAssumption DEF Hooks!Init, HookSettings
<1>2. Hooks!Read \in [HookEvents -> HookLists]
  BY <1>1, ReadIsTyped, ReadIsText
<1>3. ASSUME NEW e \in HookEvents
      PROVE  /\ Tidy(Hooks!Read[e], Cardinality(Hooks!Places(Hooks!Read[e], "user")))
             /\ Hooks!Places(Hooks!Read[e], "companion") = {}
  <2> DEFINE list == Hooks!Read[e]
  <2>1. list \in HookLists
    BY <1>2
  <2>2. /\ Cardinality(Hooks!Places(list, "companion")) = 0
        /\ Cardinality(Hooks!Places(list, "legacy")) <= 1
        /\ Cardinality(Hooks!Places(list, "drag")) <= 1
    <3>1. CASE claudeSettings = NotSet
      <4>1. list = <<>>
        BY <3>1 DEF Hooks!Read, Hooks!NoHooks
      <4>2. \A c : Hooks!Places(list, c) = {}
        BY <4>1 DEF Hooks!Places
      <4> HIDE DEF list
      <4> QED
        BY <4>2, FS_EmptySet
    <3>2. CASE claudeSettings # NotSet
      <4>1. list = claudeSettings[e] /\ claudeSettings \in InitialHooks \ {NotSet}
        BY <3>2 DEF Hooks!Read, Hooks!Init
      <4>2. /\ Hooks!Count(list, "companion") = 0 /\ Hooks!Count(list, "legacy") <= 1
            /\ Hooks!Count(list, "drag") <= 1
        BY <4>1, HooksAssumption
      <4> QED
        BY <4>2, HooksCount DEF Hooks!Count, HooksCounted
    <3> QED
      BY <3>1, <3>2
  <2> HIDE DEF list
  <2>3. Hooks!Places(list, "companion") = {}
    BY <2>1, <2>2, PlacesAreFinite, FS_EmptySet
  <2>4. OwnPlaces(list) = Hooks!Places(list, "legacy")
    BY <2>3 DEF OwnPlaces
  <2>5. Tidy(list, Cardinality(Hooks!Places(list, "user")))
    BY <2>2, <2>4 DEF Tidy
  <2> QED
    BY <2>3, <2>5 DEF list
<1>4. mine = [e \in HookEvents |-> Cardinality(Hooks!Places(Hooks!Read[e], "user"))]
  BY HooksCount DEF Hooks!Init, Hooks!Count, HooksCounted
<1>5. mine \in [HookEvents -> Nat]
  BY <1>2, <1>4, PlacesAreFinite
<1>6. HooksTyped
  <2>1. editing \in [{"drag", "companion"} -> Editing]
    <3>1. [at |-> "idle"] \in Editing
      BY DEF Editing
    <3> HIDE DEF Editing
    <3> QED
      BY <3>1 DEF Hooks!Init, Hooks!Idle
  <2> QED
    BY <1>1, <1>5, <2>1 DEF HooksTyped, Hooks!Init
<1>7. AllTidy
  BY <1>3, <1>4 DEF AllTidy
<1>8. HooksTracked
  BY <1>3 DEF HooksTracked, NoCompanion, Hooks!Init, Hooks!Idle
<1>9. CapturesInv
  BY DEF CapturesInv, HookTimes, Hooks!Init, Hooks!Idle, Hooks!Unlocked, Hooks!CapturedIsStored
<1> QED
  BY <1>6, <1>7, <1>8, <1>9 DEF HooksIInv

(* A program writes what it has made of the settings that it read.         *)
LEMMA HooksWritten ==
  ASSUME HooksTyped, AllTidy, HooksTracked,
         NEW program \in {"drag", "companion"}, Hooks!WriteHooks(program)
  PROVE  HooksTyped' /\ AllTidy' /\ HooksTracked'
<1>1. PICK edit \in {"hook", "unhook"}, seen \in HookSettings, then \in {"idle", "own", "drop"} :
        editing[program] = [at |-> edit, seen |-> seen, text |-> TextOf(seen), then |-> then]
  BY DEF HooksTyped, Editing, Hooks!WriteHooks
<1>2. /\ editing[program].at = edit /\ editing[program].seen = seen
      /\ editing[program].text = TextOf(seen) /\ editing[program].then = then
  BY <1>1
<1> DEFINE text == TextOf(seen)
           new == [e \in HookEvents |-> IF edit = "hook" THEN Hooks!Hooked(text[e], program)
                                        ELSE Hooks!Unhooked(text[e])]
           next == IF then = "idle" THEN Hooks!Idle ELSE [at |-> then]
<1>3. text \in [HookEvents -> HookLists]
  BY ReadIsTyped
<1>4. /\ claudeSettings' = new
      /\ overwritten' = (overwritten \/ claudeSettings # seen)
      /\ editing' = [editing EXCEPT ![program] = next]
      /\ UNCHANGED <<quoted, config, mine, byHand>>
  BY <1>2 DEF Hooks!WriteHooks, Hooks!Replace, Hooks!Goto
<1>5. new \in [HookEvents -> HookLists]
  <2> HIDE DEF text
  <2> QED
    BY <1>3, WrittenIsTidy
<1>6. next \in Editing
  BY DEF Editing, Hooks!Idle
<1>7. HooksTyped'
  <2>1. claudeSettings' \in HookSettings
    BY <1>4, <1>5 DEF HookSettings
  <2> HIDE DEF new, next
  <2> QED
    BY <1>4, <1>6, <2>1 DEF HooksTyped
<1>8. Hooks!Read' = new
  <2>1. new # NotSet
    BY <1>5, HooksAssumption
  <2> HIDE DEF new
  <2> QED
    BY <1>4, <2>1 DEF Hooks!Read
<1>9. ASSUME ~overwritten'
      PROVE  ~overwritten /\ text = Hooks!Read
  BY <1>4, <1>9, ReadIsText DEF HooksTyped
<1>10. ASSUME ~overwritten', NEW e \in HookEvents
       PROVE  /\ Tidy(new[e], mine[e])
              /\ edit = "hook" /\ program = "drag" =>
                   Hooks!Places(new[e], "companion") = Hooks!Places(Hooks!Read[e], "companion")
              /\ edit = "unhook" /\ ~quoted => Hooks!Places(new[e], "companion") = {}
  <2>1. Tidy(text[e], mine[e]) /\ text[e] = Hooks!Read[e]
    BY <1>9, <1>10 DEF AllTidy
  <2>2. text[e] \in HookLists
    BY <1>3
  <2>3. new[e] = IF edit = "hook" THEN Hooks!Hooked(text[e], program)
                 ELSE Hooks!Unhooked(text[e])
    OBVIOUS
  <2> HIDE DEF text, new
  <2> QED
    BY <2>1, <2>2, <2>3, WrittenIsTidy
<1> HIDE DEF text, new, next
<1>11. AllTidy'
  BY <1>4, <1>8, <1>10 DEF AllTidy, Tidy, OwnPlaces
<1>12. HooksTracked'
  <2> SUFFICES ASSUME ~overwritten', ~byHand', ~quoted'
               PROVE  /\ NoCompanion' \/ config'.hooks \/ editing'.companion.at = "own"
                      /\ editing'.companion.at = "drop" => NoCompanion'
                      /\ editing'.companion.at = "hook" => editing'.companion.then = "own"
                      /\ editing'.companion.at = "unhook" => editing'.companion.then = "drop"
    BY DEF HooksTracked
  <2>1. ~overwritten /\ ~byHand /\ ~quoted
    BY <1>4, <1>9
  <2>2. edit = "unhook" => NoCompanion'
    BY <1>8, <1>10, <2>1 DEF NoCompanion
  <2>3. CASE program = "drag"
    <3>1. editing'.companion = editing.companion
      BY <1>4, <2>3 DEF HooksTyped
    <3>2. edit = "hook" => (NoCompanion => NoCompanion')
      BY <1>8, <1>10, <2>3 DEF NoCompanion
    <3> QED
      BY <1>4, <2>1, <2>2, <3>1, <3>2 DEF HooksTracked
  <2>4. CASE program = "companion"
    <3>1. editing'.companion = next
      BY <1>4, <2>4 DEF HooksTyped
    <3>2. (edit = "hook" => then = "own") /\ (edit = "unhook" => then = "drop")
      BY <1>2, <2>1, <2>4 DEF HooksTracked
    <3>3. next.at = then
      BY DEF next, Hooks!Idle
    <3> QED
      BY <2>2, <3>1, <3>2, <3>3
  <2> QED
    BY <2>3, <2>4
<1> QED
  BY <1>7, <1>11, <1>12

(* The user adds a command to an entry, or an entry.                       *)
LEMMA UserEdited ==
  ASSUME HooksTyped, AllTidy, HooksTracked, NEW e \in HookEvents,
         Hooks!AddEntry(e) \/ Hooks!AddBeside(e)
  PROVE  HooksTyped' /\ AllTidy' /\ HooksTracked'
<1> DEFINE list == Hooks!Read[e]
<1>1. Hooks!Read \in [HookEvents -> HookLists] /\ list \in HookLists
  BY ReadIsTyped, ReadIsText DEF HooksTyped
<1>2. "user" \in HookCommands
  BY DEF HookCommands
<1>3. \E l \in HookLists : \E place :
        /\ Hooks!Edit(e, l, mine[e] + 1)
        /\ place \notin Hooks!Places(list, "user")
        /\ \A c : Hooks!Places(l, c) =
             Hooks!Places(list, c) \cup (IF "user" = c THEN {place} ELSE {})
  <2>1. CASE Hooks!AddEntry(e)
    <3> DEFINE l == Append(list, <<"user">>)
               place == <<Len(list) + 1, 1>>
    <3>1. Hooks!Edit(e, l, mine[e] + 1)
      BY <2>1 DEF Hooks!AddEntry
    <3>2. /\ l \in HookLists /\ place \notin Hooks!Places(list, "user")
          /\ \A c : Hooks!Places(l, c) =
               Hooks!Places(list, c) \cup (IF "user" = c THEN {place} ELSE {})
      <4> HIDE DEF list
      <4> QED
        BY <1>1, <1>2, EntryAdded
    <3> HIDE DEF l, place
    <3> QED
      BY <3>1, <3>2
  <2>2. CASE Hooks!AddBeside(e)
    <3>1. PICK k \in DOMAIN list :
            Hooks!Edit(e, [list EXCEPT ![k] = Append(@, "user")], mine[e] + 1)
      BY <2>2 DEF Hooks!AddBeside
    <3> DEFINE l == [list EXCEPT ![k] = Append(@, "user")]
               place == <<k, Len(list[k]) + 1>>
    <3>2. /\ l \in HookLists /\ place \notin Hooks!Places(list, "user")
          /\ \A c : Hooks!Places(l, c) =
               Hooks!Places(list, c) \cup (IF "user" = c THEN {place} ELSE {})
      <4>1. k \in DOMAIN list
        BY <3>1
      <4> HIDE DEF list
      <4>2. ASSUME NEW c
            PROVE  Hooks!Places(l, c) =
                     Hooks!Places(list, c) \cup (IF "user" = c THEN {place} ELSE {})
        <5> DEFINE u == "user"
        <5>1. u \in HookCommands
          BY <1>2
        <5> HIDE DEF u
        <5>2. Hooks!Places([list EXCEPT ![k] = Append(@, u)], c) =
                Hooks!Places(list, c) \cup (IF u = c THEN {place} ELSE {})
          <6>1. list \in HookLists /\ k \in DOMAIN list /\ u \in HookCommands
            BY <1>1, <4>1, <5>1
          <6> DEFINE m == [list EXCEPT ![k] = Append(@, u)]
                     there == <<k, Len(list[k]) + 1>>
          <6>2. /\ m \in HookLists
                /\ Hooks!Places(m, c) =
                     Hooks!Places(list, c) \cup (IF u = c THEN {there} ELSE {})
                /\ there \notin Hooks!Places(list, c)
            BY <6>1, CommandAdded, Zenon
          <6> QED
            BY <6>2
        <5> QED
          BY <5>2 DEF u
      <4>3. l \in HookLists /\ place \notin Hooks!Places(list, "user")
        BY <1>1, <1>2, <4>1, CommandAdded
      <4> QED
        BY <4>2, <4>3
    <3>3. Hooks!Edit(e, l, mine[e] + 1)
      BY <3>1
    <3> HIDE DEF l, place
    <3> QED
      BY <3>2, <3>3
  <2> QED
    BY <2>1, <2>2
<1>4. PICK l \in HookLists : \E place :
        /\ Hooks!Edit(e, l, mine[e] + 1)
        /\ place \notin Hooks!Places(list, "user")
        /\ \A c : Hooks!Places(l, c) =
             Hooks!Places(list, c) \cup (IF "user" = c THEN {place} ELSE {})
  <2> HIDE DEF list
  <2> QED
    BY <1>3
<1>5. /\ claudeSettings' = [Hooks!Read EXCEPT ![e] = l]
      /\ mine' = [mine EXCEPT ![e] = mine[e] + 1]
      /\ UNCHANGED <<quoted, config, editing, overwritten, byHand>>
  BY <1>4 DEF Hooks!Edit
<1>6. claudeSettings' \in [HookEvents -> HookLists]
  BY <1>1, <1>5
<1>7. mine[e] \in Nat
  BY DEF HooksTyped
<1>8. HooksTyped'
  BY <1>5, <1>6, <1>7 DEF HooksTyped, HookSettings
<1>9. Hooks!Read' = claudeSettings'
  BY <1>6, HooksAssumption DEF Hooks!Read
<1>10. /\ Hooks!Read'[e] = l
       /\ \A d \in HookEvents \ {e} : Hooks!Read'[d] = Hooks!Read[d]
  BY <1>1, <1>5, <1>9
<1>11. /\ mine'[e] = mine[e] + 1
       /\ \A d \in HookEvents \ {e} : mine'[d] = mine[d]
  BY <1>5 DEF HooksTyped
<1>12. Tidy(list, mine[e]) =>
         /\ Tidy(l, mine[e] + 1)
         /\ Hooks!Places(l, "companion") = Hooks!Places(list, "companion")
  <2> HIDE DEF list
  <2> QED
    BY <1>1, <1>4, <1>7, UsersPlaces
<1>13. AllTidy'
  <2>1. ASSUME ~overwritten', NEW d \in HookEvents
        PROVE  Tidy(Hooks!Read'[d], mine'[d])
    BY <1>5, <1>10, <1>11, <1>12, <2>1 DEF AllTidy
  <2> QED
    BY <1>5, <2>1 DEF AllTidy, Tidy, OwnPlaces
<1>14. HooksTracked'
  <2>1. ~overwritten => (NoCompanion => NoCompanion')
    BY <1>10, <1>12 DEF NoCompanion, AllTidy
  <2> QED
    BY <1>5, <2>1 DEF HooksTracked
<1> QED
  BY <1>8, <1>13, <1>14

(* A command goes on without writing.                                      *)
LEMMA HooksUnwritten ==
  ASSUME AllTidy, UNCHANGED <<claudeSettings, quoted, mine, overwritten>>
  PROVE  /\ AllTidy'
         /\ NoCompanion' <=> NoCompanion
<1>1. Hooks!Read' = Hooks!Read
  BY DEF Hooks!Read
<1> QED
  BY <1>1 DEF AllTidy, NoCompanion, Tidy, OwnPlaces

LEMMA ReadingIsTyped ==
  ASSUME HooksTyped, NEW edit \in {"hook", "unhook"}, NEW then \in {"idle", "own", "drop"}
  PROVE  /\ Hooks!Reading(edit, then) \in Editing
         /\ Hooks!Reading(edit, then).at = edit /\ Hooks!Reading(edit, then).then = then
<1>1. claudeSettings \in HookSettings
  BY DEF HooksTyped
<1> QED
  BY <1>1, ReadIsText DEF Hooks!Reading, Editing

(* A step of a program that changes its command and what is configured.    *)
LEMMA HooksMoved ==
  ASSUME HooksTyped, AllTidy, HooksTracked,
         UNCHANGED <<claudeSettings, quoted, mine, overwritten>>, byHand' \in BOOLEAN,
         NEW program \in {"drag", "companion"}, NEW next \in Editing,
         editing' = [editing EXCEPT ![program] = next],
         config' \in [exists : BOOLEAN, installed : BOOLEAN, hooks : BOOLEAN, claude : BOOLEAN],
         ~byHand' => ~byHand,
         ~byHand' /\ program = "drag" => config' = config,
         ~overwritten /\ ~byHand' /\ ~quoted /\ program = "companion" =>
           /\ NoCompanion \/ config'.hooks \/ next.at = "own"
           /\ next.at = "drop" => NoCompanion
           /\ next.at = "hook" => next.then = "own"
           /\ next.at = "unhook" => next.then = "drop"
  PROVE  HooksTyped' /\ AllTidy' /\ HooksTracked'
<1>1. AllTidy' /\ (NoCompanion' <=> NoCompanion)
  BY HooksUnwritten
<1>2. HooksTyped'
  BY DEF HooksTyped
<1>3. CASE program = "companion"
  <2>1. editing'.companion = next
    BY <1>3 DEF HooksTyped
  <2> QED
    BY <1>1, <1>2, <1>3, <2>1 DEF HooksTracked
<1>4. CASE program = "drag"
  <2>1. editing'.companion = editing.companion
    BY <1>4 DEF HooksTyped
  <2> QED
    BY <1>1, <1>2, <1>4, <2>1 DEF HooksTracked
<1> QED
  BY <1>3, <1>4

LEMMA HooksCommanded ==
  ASSUME HooksTyped, AllTidy, HooksTracked,
         \/ Hooks!DragInstall
         \/ \E program \in {"drag", "companion"} : Hooks!Interrupt(program)
         \/ \E b \in BOOLEAN : Hooks!Setup(b)
         \/ Hooks!ReadSettings \/ Hooks!OwnHooks \/ Hooks!FinishSetup
         \/ Hooks!Uninstall \/ Hooks!DropHooks
         \/ \E edit \in {"hook", "unhook"} : Hooks!ClaudeHook(edit)
  PROVE  HooksTyped' /\ AllTidy' /\ HooksTracked'
<1> DEFINE Config == [exists : BOOLEAN, installed : BOOLEAN, hooks : BOOLEAN, claude : BOOLEAN]
<1>1. /\ config \in Config /\ byHand \in BOOLEAN
      /\ config.hooks \in BOOLEAN /\ config.claude \in BOOLEAN
  BY DEF HooksTyped
<1>2. ASSUME NEW a \in {"idle", "setup", "uninstall", "own", "finish", "drop"}
      PROVE  [at |-> a] \in Editing
  BY DEF Editing
<1>3. ASSUME ~overwritten, ~byHand, ~quoted
      PROVE  /\ NoCompanion \/ config.hooks \/ editing.companion.at = "own"
             /\ editing.companion.at = "drop" => NoCompanion
  BY <1>3 DEF HooksTracked
<1>4. ASSUME Hooks!DragInstall
      PROVE  HooksTyped' /\ AllTidy' /\ HooksTracked'
  BY <1>1, <1>4, ReadingIsTyped, HooksMoved DEF Hooks!DragInstall, Hooks!Start, Hooks!history
<1>5. ASSUME NEW program \in {"drag", "companion"}, Hooks!Interrupt(program)
      PROVE  HooksTyped' /\ AllTidy' /\ HooksTracked'
  BY <1>1, <1>2, <1>5, HooksMoved DEF Hooks!Interrupt, Hooks!Goto, Hooks!Idle
<1>6. ASSUME NEW b \in BOOLEAN, Hooks!Setup(b)
      PROVE  HooksTyped' /\ AllTidy' /\ HooksTracked'
  <2> DEFINE next == [at |-> IF b THEN "setup" ELSE "finish"]
  <2>1. next \in Editing /\ next.at \in {"setup", "finish"}
    BY <1>2
  <2>2. /\ editing.companion = Hooks!Idle
        /\ editing' = [editing EXCEPT !["companion"] = next]
        /\ config' = [config EXCEPT !.exists = TRUE, !.installed = FALSE]
        /\ UNCHANGED <<claudeSettings, quoted, mine, overwritten, byHand>>
    BY <1>6 DEF Hooks!Setup, Hooks!Start, Hooks!history
  <2>3. config' \in Config /\ config'.hooks = config.hooks
    BY <1>1, <2>2
  <2>4. editing.companion.at = "idle"
    BY <2>2 DEF Hooks!Idle
  <2> HIDE DEF next
  <2> QED
    BY <1>1, <1>3, <2>1, <2>2, <2>3, <2>4, HooksMoved
<1>7. ASSUME Hooks!ReadSettings
      PROVE  HooksTyped' /\ AllTidy' /\ HooksTracked'
  <2> DEFINE next == IF editing.companion.at = "setup" THEN Hooks!Reading("hook", "own")
                     ELSE Hooks!Reading("unhook", "drop")
  <2>1. /\ next \in Editing
        /\ next.at \in {"hook", "unhook"}
        /\ (next.at = "hook" => next.then = "own") /\ (next.at = "unhook" => next.then = "drop")
    BY ReadingIsTyped
  <2>2. /\ editing.companion.at \in {"setup", "uninstall"}
        /\ editing' = [editing EXCEPT !["companion"] = next]
        /\ UNCHANGED <<claudeSettings, quoted, config, mine, overwritten, byHand>>
    BY <1>7 DEF Hooks!ReadSettings, Hooks!Goto, Hooks!history
  <2> HIDE DEF next
  <2> QED
    BY <1>1, <1>3, <2>1, <2>2, HooksMoved
<1>8. ASSUME Hooks!OwnHooks
      PROVE  HooksTyped' /\ AllTidy' /\ HooksTracked'
  <2> DEFINE next == [at |-> "finish"]
  <2>1. next \in Editing /\ next.at = "finish"
    BY <1>2
  <2>2. /\ editing' = [editing EXCEPT !["companion"] = next]
        /\ config' = [config EXCEPT !.hooks = TRUE]
        /\ UNCHANGED <<claudeSettings, quoted, mine, overwritten, byHand>>
    BY <1>8 DEF Hooks!OwnHooks, Hooks!Goto, Hooks!history
  <2>3. config' \in Config /\ config'.hooks
    BY <1>1, <2>2
  <2> HIDE DEF next
  <2> QED
    BY <1>1, <2>1, <2>2, <2>3, HooksMoved
<1>9. ASSUME Hooks!FinishSetup
      PROVE  HooksTyped' /\ AllTidy' /\ HooksTracked'
  <2> DEFINE next == [at |-> "idle"]
  <2>1. next \in Editing /\ next.at = "idle"
    BY <1>2
  <2>2. /\ editing.companion.at = "finish"
        /\ editing' = [editing EXCEPT !["companion"] = next]
        /\ \/ config' = config
           \/ config' = [config EXCEPT !.installed = TRUE,
                                       !.claude = config.hooks \/ config.claude]
        /\ UNCHANGED <<claudeSettings, quoted, mine, overwritten, byHand>>
    BY <1>9 DEF Hooks!FinishSetup, Hooks!Goto, Hooks!history, Hooks!Idle
  <2> DEFINE either == config.hooks \/ config.claude
  <2>3. either \in BOOLEAN
    OBVIOUS
  <2> HIDE DEF either
  <2>4. config' \in Config /\ config'.hooks = config.hooks
    BY <1>1, <2>2, <2>3 DEF either
  <2> HIDE DEF next
  <2> QED
    BY <1>1, <1>3, <2>1, <2>2, <2>4, HooksMoved
<1>10. ASSUME Hooks!Uninstall
       PROVE  HooksTyped' /\ AllTidy' /\ HooksTracked'
  <2> DEFINE next == [at |-> IF config.hooks THEN "uninstall" ELSE "drop"]
  <2>1. next \in Editing /\ next.at = IF config.hooks THEN "uninstall" ELSE "drop"
    BY <1>2
  <2>2. /\ editing.companion = Hooks!Idle
        /\ editing' = [editing EXCEPT !["companion"] = next]
        /\ UNCHANGED <<claudeSettings, quoted, config, mine, overwritten, byHand>>
    BY <1>10 DEF Hooks!Uninstall, Hooks!Start, Hooks!history
  <2>3. editing.companion.at = "idle"
    BY <2>2 DEF Hooks!Idle
  <2> HIDE DEF next
  <2> QED
    BY <1>1, <1>3, <2>1, <2>2, <2>3, HooksMoved
<1>11. ASSUME Hooks!DropHooks
       PROVE  HooksTyped' /\ AllTidy' /\ HooksTracked'
  <2> DEFINE next == [at |-> "idle"]
  <2>1. next \in Editing /\ next.at = "idle"
    BY <1>2
  <2>2. /\ editing.companion.at = "drop"
        /\ editing' = [editing EXCEPT !["companion"] = next]
        /\ config' = [config EXCEPT !.installed = FALSE, !.hooks = FALSE]
        /\ UNCHANGED <<claudeSettings, quoted, mine, overwritten, byHand>>
    BY <1>11 DEF Hooks!DropHooks, Hooks!Goto, Hooks!history, Hooks!Idle
  <2>3. config' \in Config
    BY <1>1, <2>2
  <2> HIDE DEF next
  <2> QED
    BY <1>1, <1>3, <2>1, <2>2, <2>3, HooksMoved
<1>12. ASSUME NEW edit \in {"hook", "unhook"}, Hooks!ClaudeHook(edit)
       PROVE  HooksTyped' /\ AllTidy' /\ HooksTracked'
  <2>1. /\ editing' = [editing EXCEPT !["companion"] = Hooks!Reading(edit, "idle")]
        /\ byHand' = TRUE
        /\ UNCHANGED <<claudeSettings, quoted, config, mine, overwritten>>
    BY <1>12 DEF Hooks!ClaudeHook, Hooks!Start
  <2>2. Hooks!Reading(edit, "idle") \in Editing
    BY ReadingIsTyped
  <2> QED
    BY <1>1, <2>1, <2>2, HooksMoved
<1> QED
  BY <1>4, <1>5, <1>6, <1>7, <1>8, <1>9, <1>10, <1>11, <1>12

(* At most one capture has events.lock, and it has read events.json.       *)
LEMMA CaptureIsOne ==
  ASSUME CapturesInv, NEW p \in Pids
  PROVE  /\ capture[p].at = "lock" =>
              \E e \in HookEvents, t \in CaptureTimes :
                capture[p] = [at |-> "lock", event |-> e, time |-> t]
         /\ capture[p].at \in {"write", "rename"} => Saving(p)
         /\ Saving(p) <=> ~Hooks!Unlocked(p)
         /\ Saving(p) => capture[p].at \in {"write", "rename"}
<1>1. Saving(p) => capture[p].at \in {"write", "rename"}
  BY DEF Saving
<1>2. capture[p] = Hooks!Idle => capture[p].at = "idle"
  BY DEF Hooks!Idle
<1>3. (\E e \in HookEvents, t \in CaptureTimes :
         capture[p] = [at |-> "lock", event |-> e, time |-> t]) => capture[p].at = "lock"
  OBVIOUS
<1> QED
  BY <1>1, <1>2, <1>3 DEF CapturesInv, Hooks!Unlocked

LEMMA SavingStays ==
  ASSUME NEW p, Saving(p), capture'[p] = capture[p], events' = events
  PROVE  Saving(p)'
<1>1. PICK step \in {"write", "rename"}, e \in HookEvents, f \in HookTimes :
        /\ capture[p] = [at |-> step, event |-> e, events |-> f]
        /\ events[e] = NotSet
        /\ \A d \in HookEvents \ {e} : f[d] = events[d]
  BY DEF Saving
<1>2. /\ capture'[p] = [at |-> step, event |-> e, events |-> f]
      /\ events'[e] = NotSet
      /\ \A d \in HookEvents \ {e} : f[d] = events'[d]
  BY <1>1
<1> QED
  BY <1>2 DEF Saving

(* One capture moves and events.json stays.                                *)
LEMMA CaptureMoves ==
  ASSUME CapturesInv, NEW p \in Pids, NEW x, capture' = [capture EXCEPT ![p] = x],
         events' = events, reported' \in HookTimes,
         \A e \in HookEvents : reported'[e] # NotSet => events[e] = reported'[e],
         \/ x = Hooks!Idle
         \/ \E e \in HookEvents, t \in CaptureTimes :
              x = [at |-> "lock", event |-> e, time |-> t]
         \/ Saving(p)' /\ \A q \in Pids : q = p \/ Hooks!Unlocked(q)
  PROVE  CapturesInv'
<1>1. /\ DOMAIN capture' = Pids /\ capture'[p] = x
      /\ \A q \in Pids : q # p => capture'[q] = capture[q]
  BY DEF CapturesInv
<1>2. \A q \in Pids : q # p => /\ Saving(q)' <=> Saving(q)
                              /\ Hooks!Unlocked(q)' <=> Hooks!Unlocked(q)
  BY <1>1 DEF Saving, Hooks!Unlocked
<1>3. x = Hooks!Idle \/ (\E e \in HookEvents, t \in CaptureTimes :
                           x = [at |-> "lock", event |-> e, time |-> t])
        => Hooks!Unlocked(p)'
  BY <1>1 DEF Hooks!Unlocked, Hooks!Idle
<1>4. \A q, r \in Pids : Hooks!Unlocked(q)' \/ Hooks!Unlocked(r)' \/ q = r
  BY <1>2, <1>3 DEF CapturesInv
<1>5. ASSUME NEW q \in Pids
      PROVE  \/ capture'[q] = Hooks!Idle
             \/ \E e \in HookEvents, t \in CaptureTimes :
                  capture'[q] = [at |-> "lock", event |-> e, time |-> t]
             \/ Saving(q)'
  <2>1. CASE q = p
    BY <1>1, <2>1
  <2>2. CASE q # p
    <3>1. \/ capture[q] = Hooks!Idle
          \/ \E e \in HookEvents, t \in CaptureTimes :
               capture[q] = [at |-> "lock", event |-> e, time |-> t]
          \/ Saving(q)
      BY DEF CapturesInv
    <3>2. capture'[q] = capture[q]
      BY <1>1, <2>2
    <3>3. Saving(q) => Saving(q)'
      BY <3>2, SavingStays
    <3> QED
      BY <3>1, <3>2, <3>3, Zenon
  <2> QED
    BY <2>1, <2>2
<1> QED
  BY <1>1, <1>4, <1>5 DEF CapturesInv, Hooks!CapturedIsStored

LEMMA HooksCaptured ==
  ASSUME CapturesInv, NEW p \in Pids,
         \/ \E e \in HookEvents, t \in CaptureTimes : Hooks!Capture(p, e, t)
         \/ Hooks!LockAndRead(p) \/ Hooks!CreateTemporary(p) \/ Hooks!RenameTemporary(p)
         \/ Hooks!Die(p)
  PROVE  CapturesInv'
<1>1. /\ events \in HookTimes /\ reported \in HookTimes
      /\ \A e \in HookEvents : reported[e] # NotSet => events[e] = reported[e]
  BY DEF CapturesInv, Hooks!CapturedIsStored
<1>2. ASSUME NEW e \in HookEvents, NEW t \in CaptureTimes, Hooks!Capture(p, e, t)
      PROVE  CapturesInv'
  BY <1>1, <1>2, CaptureMoves DEF Hooks!Capture
<1>3. ASSUME Hooks!LockAndRead(p)
      PROVE  CapturesInv'
  <2>1. PICK e \in HookEvents, t \in CaptureTimes :
          capture[p] = [at |-> "lock", event |-> e, time |-> t]
    BY <1>3, CaptureIsOne DEF Hooks!LockAndRead
  <2>2. capture[p].event = e /\ capture[p].time = t
    BY <2>1
  <2>3. events' = events
    BY <1>3 DEF Hooks!LockAndRead
  <2>4. CASE events[e] # NotSet
    <3>1. /\ capture' = [capture EXCEPT ![p] = Hooks!Idle]
          /\ reported' = [reported EXCEPT ![e] = IF @ = NotSet THEN events[e] ELSE @]
      BY <1>3, <2>2, <2>4 DEF Hooks!LockAndRead, Hooks!Answer
    <3>2. /\ reported' \in HookTimes
          /\ \A d \in HookEvents : reported'[d] # NotSet => events[d] = reported'[d]
      BY <1>1, <3>1 DEF HookTimes
    <3> QED
      BY <2>3, <3>1, <3>2, CaptureMoves
  <2>5. CASE events[e] = NotSet
    <3> DEFINE f == [events EXCEPT ![e] = t]
               x == [at |-> "write", event |-> e, events |-> f]
    <3>1. capture' = [capture EXCEPT ![p] = x] /\ reported' = reported
      BY <1>3, <2>2, <2>5 DEF Hooks!LockAndRead
    <3>2. \A q \in Pids : Hooks!Unlocked(q)
      BY <1>3 DEF Hooks!LockAndRead
    <3>3. f \in HookTimes /\ \A d \in HookEvents \ {e} : f[d] = events[d]
      BY <1>1 DEF HookTimes
    <3>4. DOMAIN capture = Pids
      BY DEF CapturesInv
    <3>5. capture'[p] = x
      BY <3>1, <3>4
    <3> HIDE DEF f
    <3>6. Saving(p)'
      BY <2>3, <2>5, <3>3, <3>5 DEF Saving
    <3> HIDE DEF x
    <3> QED
      BY <1>1, <2>3, <3>1, <3>2, <3>6, CaptureMoves
  <2> QED
    BY <2>4, <2>5
<1>4. ASSUME Hooks!CreateTemporary(p)
      PROVE  CapturesInv'
  <2>1. /\ capture[p].at = "write" /\ events' = events /\ reported' = reported
        /\ capture' = [capture EXCEPT ![p] = IF p \in temporaries THEN Hooks!Idle
                                             ELSE [@ EXCEPT !.at = "rename"]]
    BY <1>4 DEF Hooks!CreateTemporary
  <2>2. Saving(p)
    BY <2>1, CaptureIsOne
  <2>3. CASE p \in temporaries
    BY <1>1, <2>1, <2>3, CaptureMoves
  <2>4. CASE p \notin temporaries
    <3>1. PICK a \in {"write", "rename"}, e \in HookEvents, f \in HookTimes :
            /\ capture[p] = [at |-> a, event |-> e, events |-> f]
            /\ events[e] = NotSet
            /\ \A d \in HookEvents \ {e} : f[d] = events[d]
      BY <2>2 DEF Saving
    <3> DEFINE x == [at |-> "rename", event |-> e, events |-> f]
    <3>2. capture' = [capture EXCEPT ![p] = x]
      <4>1. [capture[p] EXCEPT !.at = "rename"] = x
        BY <3>1
      <4> HIDE DEF x
      <4> QED
        BY <2>1, <2>4, <4>1
    <3>3. DOMAIN capture = Pids
      BY DEF CapturesInv
    <3>4. capture'[p] = x
      BY <3>2, <3>3
    <3>5. Saving(p)'
      BY <2>1, <3>1, <3>4 DEF Saving
    <3>6. \A q \in Pids : q = p \/ Hooks!Unlocked(q)
      BY <2>2, CaptureIsOne DEF CapturesInv
    <3> HIDE DEF x
    <3> QED
      BY <1>1, <2>1, <3>2, <3>5, <3>6, CaptureMoves
  <2> QED
    BY <2>3, <2>4
<1>5. ASSUME Hooks!RenameTemporary(p)
      PROVE  CapturesInv'
  <2>1. Saving(p)
    BY <1>5, CaptureIsOne DEF Hooks!RenameTemporary
  <2>2. PICK a \in {"write", "rename"}, e \in HookEvents, f \in HookTimes :
          /\ capture[p] = [at |-> a, event |-> e, events |-> f]
          /\ events[e] = NotSet
          /\ \A d \in HookEvents \ {e} : f[d] = events[d]
    BY <2>1 DEF Saving
  <2>3. capture[p].event = e /\ capture[p].events = f
    BY <2>2
  <2>4. /\ events' = f /\ capture' = [capture EXCEPT ![p] = Hooks!Idle]
        /\ reported' = [reported EXCEPT ![e] = IF @ = NotSet THEN f[e] ELSE @]
    BY <1>5, <2>3 DEF Hooks!RenameTemporary, Hooks!Answer
  <2>5. /\ events' \in HookTimes /\ reported' \in HookTimes
        /\ \A d \in HookEvents : reported'[d] # NotSet => events'[d] = reported'[d]
    BY <1>1, <2>2, <2>4 DEF HookTimes
  <2>6. \A q \in Pids \ {p} : Hooks!Unlocked(q)
    BY <2>1, CaptureIsOne DEF CapturesInv
  <2>7. /\ DOMAIN capture' = Pids /\ capture'[p] = Hooks!Idle
        /\ \A q \in Pids : q # p => capture'[q] = capture[q]
    BY <2>4 DEF CapturesInv
  <2>8. \A q \in Pids : Hooks!Unlocked(q)'
    BY <2>6, <2>7 DEF Hooks!Unlocked, Hooks!Idle
  <2>9. ASSUME NEW q \in Pids
        PROVE  \/ capture'[q] = Hooks!Idle
               \/ \E d \in HookEvents, t \in CaptureTimes :
                    capture'[q] = [at |-> "lock", event |-> d, time |-> t]
    <3>1. CASE q = p
      BY <2>7, <3>1
    <3>2. CASE q # p
      <4>1. capture'[q] = capture[q] /\ ~Saving(q)
        BY <2>6, <2>7, <3>2, CaptureIsOne
      <4>2. \/ capture[q] = Hooks!Idle
            \/ \E d \in HookEvents, t \in CaptureTimes :
                 capture[q] = [at |-> "lock", event |-> d, time |-> t]
            \/ Saving(q)
        BY DEF CapturesInv
      <4> QED
        BY <4>1, <4>2, Zenon
    <3> QED
      BY <3>1, <3>2
  <2> QED
    BY <2>5, <2>7, <2>8, <2>9 DEF CapturesInv, Hooks!CapturedIsStored
<1>6. ASSUME Hooks!Die(p)
      PROVE  CapturesInv'
  BY <1>1, <1>6, CaptureMoves DEF Hooks!Die
<1> QED
  BY <1>2, <1>3, <1>4, <1>5, <1>6

LEMMA CapturesStay ==
  ASSUME CapturesInv, UNCHANGED <<capture, events, reported>>
  PROVE  CapturesInv'
BY DEF CapturesInv, Saving, Hooks!Unlocked, Hooks!CapturedIsStored

LEMMA HooksStep == HooksIInv /\ [Hooks!Next]_(Hooks!vars) => HooksIInv'
<1> SUFFICES ASSUME HooksTyped, AllTidy, HooksTracked, CapturesInv,
                    [Hooks!Next]_(Hooks!vars)
             PROVE  HooksTyped' /\ AllTidy' /\ HooksTracked' /\ CapturesInv'
  BY DEF HooksIInv
<1> DEFINE Kept == HooksTyped' /\ AllTidy' /\ HooksTracked'
<1>1. ASSUME UNCHANGED <<claudeSettings, quoted, config, editing, mine, overwritten, byHand>>
      PROVE  Kept
  <2>1. AllTidy' /\ (NoCompanion' <=> NoCompanion)
    BY <1>1, HooksUnwritten
  <2> QED
    BY <1>1, <2>1 DEF HooksTyped, HooksTracked
<1>2. ASSUME NEW p \in Pids,
             \/ \E e \in HookEvents, t \in CaptureTimes : Hooks!Capture(p, e, t)
             \/ Hooks!LockAndRead(p) \/ Hooks!CreateTemporary(p)
             \/ Hooks!RenameTemporary(p) \/ Hooks!Die(p)
      PROVE  Kept /\ CapturesInv'
  <2>1. UNCHANGED <<claudeSettings, quoted, config, editing, mine, overwritten, byHand>>
    BY <1>2 DEF Hooks!Capture, Hooks!LockAndRead, Hooks!CreateTemporary,
         Hooks!RenameTemporary, Hooks!Die, Hooks!history
  <2> QED
    BY <1>1, <1>2, <2>1, HooksCaptured
<1>3. ASSUME NEW program \in {"drag", "companion"}, Hooks!WriteHooks(program)
      PROVE  Kept /\ CapturesInv'
  <2>1. UNCHANGED <<capture, events, reported>>
    BY <1>3 DEF Hooks!WriteHooks, Hooks!store
  <2> QED
    BY <1>3, <2>1, HooksWritten, CapturesStay
<1>4. ASSUME NEW e \in HookEvents, Hooks!AddEntry(e) \/ Hooks!AddBeside(e)
      PROVE  Kept /\ CapturesInv'
  <2>1. UNCHANGED <<capture, events, reported>>
    BY <1>4 DEF Hooks!AddEntry, Hooks!AddBeside, Hooks!Edit, Hooks!store
  <2> QED
    BY <1>4, <2>1, UserEdited, CapturesStay
<1>5. ASSUME NEW b \in BOOLEAN, Hooks!ConfigureSources(b)
      PROVE  Kept /\ CapturesInv'
  <2>1. /\ config' = [config EXCEPT !.claude = b]
        /\ UNCHANGED <<claudeSettings, quoted, editing, mine, overwritten, byHand>>
        /\ UNCHANGED <<capture, events, reported>>
    BY <1>5 DEF Hooks!ConfigureSources, Hooks!store, Hooks!history
  <2>2. AllTidy' /\ (NoCompanion' <=> NoCompanion)
    BY <2>1, HooksUnwritten
  <2>3. HooksTyped' /\ config'.hooks = config.hooks
    BY <2>1 DEF HooksTyped
  <2> QED
    BY <2>1, <2>2, <2>3, CapturesStay DEF HooksTracked
<1>6. ASSUME \/ Hooks!DragInstall
             \/ \E program \in {"drag", "companion"} : Hooks!Interrupt(program)
             \/ \E b \in BOOLEAN : Hooks!Setup(b)
             \/ Hooks!ReadSettings \/ Hooks!OwnHooks \/ Hooks!FinishSetup
             \/ Hooks!Uninstall \/ Hooks!DropHooks
             \/ \E edit \in {"hook", "unhook"} : Hooks!ClaudeHook(edit)
      PROVE  Kept /\ CapturesInv'
  <2>1. UNCHANGED <<capture, events, reported>>
    BY <1>6 DEF Hooks!DragInstall, Hooks!Interrupt, Hooks!Setup, Hooks!ReadSettings,
         Hooks!OwnHooks, Hooks!FinishSetup, Hooks!Uninstall, Hooks!DropHooks,
         Hooks!ClaudeHook, Hooks!store
  <2> QED
    BY <1>6, <2>1, HooksCommanded, CapturesStay
<1>7. CASE UNCHANGED Hooks!vars
  <2>1. /\ UNCHANGED <<claudeSettings, quoted, config, editing, mine, overwritten, byHand>>
        /\ UNCHANGED <<capture, events, reported>>
    BY <1>7 DEF Hooks!vars, Hooks!store, Hooks!history
  <2> QED
    BY <1>1, <2>1, CapturesStay
<1>8. CASE Hooks!Next
  BY <1>2, <1>3, <1>4, <1>5, <1>6, <1>8 DEF Hooks!Next
<1> QED
  BY <1>7, <1>8

(* While no edit overwrites another, the user's hooks stay, a program has  *)
(* at most one for an event, an uninstall leaves none of the companion's,  *)
(* and a captured event stays as it was reported (claude_tracking.rs,      *)
(* collectors.rs).                                                         *)
THEOREM HooksAreKept == Hooks!Spec => []Hooks!Inv
<1>1. HooksIInv => Hooks!Inv
  <2> SUFFICES ASSUME HooksIInv
               PROVE  Hooks!Inv
    OBVIOUS
  <2>1. \A e \in HookEvents : Hooks!Read[e] \in HookLists
    BY ReadIsTyped, ReadIsText DEF HooksIInv, HooksTyped
  <2>2. ASSUME NEW list \in HookLists, NEW n, Tidy(list, n)
        PROVE  /\ Cardinality(Hooks!Places(list, "user")) = n
               /\ Cardinality(Hooks!Places(list, "drag")) <= 1
               /\ ~quoted => Cardinality(Hooks!Places(list, "companion")) <= 1
    <3>1. Cardinality(Hooks!Places(list, "companion")) <= Cardinality(OwnPlaces(list))
      BY TwoAreFinite, FS_Subset DEF OwnPlaces
    <3>2. /\ Cardinality(Hooks!Places(list, "companion")) \in Nat
          /\ Cardinality(OwnPlaces(list)) \in Nat
      BY PlacesAreFinite, TwoAreFinite
    <3> QED
      BY <2>2, <3>1, <3>2 DEF Tidy
  <2>3. Hooks!HooksKept
    BY <2>1, <2>2, HooksCount
       DEF HooksIInv, AllTidy, Hooks!HooksKept, Hooks!Count, HooksCounted
  <2>4. Hooks!NoneLeft
    <3>1. editing.companion = Hooks!Idle => editing.companion.at = "idle"
      BY DEF Hooks!Idle
    <3>2. Cardinality({}) = 0
      BY FS_EmptySet
    <3> QED
      BY <3>1, <3>2, HooksCount
         DEF HooksIInv, HooksTracked, NoCompanion, Hooks!NoneLeft, Hooks!Count, HooksCounted
  <2> QED
    BY <2>3, <2>4 DEF HooksIInv, CapturesInv, Hooks!Inv
<1> QED
  BY <1>1, HooksStart, HooksStep, PTL DEF Hooks!Spec

-----------------------------------------------------------------------------
(* WorkDay. What is logged and what is listed are the same minutes of the  *)
(* day, by the arithmetic of clocks and of a zone's one change of offset.  *)

LEMMA Division ==
  ASSUME NEW a \in Int, NEW d \in Nat \ {0}
  PROVE  /\ a \div d \in Int /\ a % d \in 0 .. d - 1
         /\ a = d * (a \div d) + (a % d)
OBVIOUS

LEMMA NoMultipleBetween ==
  ASSUME NEW k \in Int, NEW d \in Nat \ {0}, -d < k * d, k * d < d
  PROVE  k = 0
<1>1. k >= 1 => k * d >= d
  OBVIOUS
<1>2. k <= -1 => k * d <= -d
  OBVIOUS
<1> QED
  BY <1>1, <1>2

LEMMA Remainder ==
  ASSUME NEW q \in Int, NEW d \in Nat \ {0}, NEW r \in 0 .. d - 1
  PROVE  (q * d + r) % d = r /\ (q * d + r) \div d = q
<1> DEFINE a == q * d + r
           p == a \div d
           s == a % d
<1>1. a \in Int /\ p \in Int /\ s \in 0 .. d - 1 /\ a = d * p + s
  <2>1. a \in Int
    OBVIOUS
  <2> HIDE DEF a
  <2> QED
    BY <2>1, Division
<1>2. (q - p) * d = s - r
  <2>1. a = q * d + r
    OBVIOUS
  <2> HIDE DEF a, p, s
  <2> QED
    BY <1>1, <2>1
<1> HIDE DEF p, s
<1>3. q - p = 0
  BY <1>1, <1>2, NoMultipleBetween
<1>4. q = p /\ s = r
  BY <1>1, <1>2, <1>3
<1> QED
  BY <1>4 DEF p, s

LEMMA Multiple ==
  ASSUME NEW x \in Int, NEW d \in Nat \ {0}
  PROVE  x % d = 0 <=> \E k \in Int : x = k * d
<1>1. ASSUME x % d = 0
      PROVE  \E k \in Int : x = k * d
  <2>1. x \div d \in Int /\ x = (x \div d) * d
    BY <1>1, Division
  <2> QED
    BY <2>1
<1>2. ASSUME NEW k \in Int, x = k * d
      PROVE  x % d = 0
  <2>1. (k * d + 0) % d = 0
    BY Remainder
  <2>2. k * d + 0 = x
    BY <1>2
  <2> QED
    BY <2>1, <2>2
<1> QED
  BY <1>1, <1>2

LEMMA Multiples ==
  ASSUME NEW x \in Int, NEW y \in Int, NEW k \in Int, NEW d \in Nat \ {0},
         x % d = 0, y % d = 0
  PROVE  (x + y) % d = 0 /\ (x - y) % d = 0 /\ (k * x) % d = 0 /\ (k * d) % d = 0
<1>1. PICK i \in Int : x = i * d
  BY Multiple
<1>2. PICK j \in Int : y = j * d
  BY Multiple
<1>3. /\ i + j \in Int /\ x + y \in Int /\ x + y = (i + j) * d
      /\ i - j \in Int /\ x - y \in Int /\ x - y = (i - j) * d
  BY <1>1, <1>2
<1>4. k * i \in Int /\ k * x \in Int /\ k * x = (k * i) * d
  BY <1>1
<1>5. k * d \in Int
  OBVIOUS
<1> QED
  BY <1>3, <1>4, <1>5, Multiple

LEMMA Units ==
  /\ Minute \in Nat \ {0} /\ Hour \in Nat \ {0} /\ Day \in Nat \ {0}
  /\ Hour % Minute = 0 /\ Day % Minute = 0
BY WorkAssumption

(* A remainder does not see multiples.                                     *)
LEMMA SameRemainder ==
  ASSUME NEW x \in Int, NEW y \in Int, NEW d \in Nat \ {0}, x % d = 0
  PROVE  (x + y) % d = y % d
<1>1. PICK k \in Int : x = k * d
  BY Multiple
<1>2. y \div d \in Int /\ y % d \in 0 .. d - 1 /\ y = d * (y \div d) + (y % d)
  BY Division
<1> DEFINE q == y \div d
           r == y % d
<1> HIDE DEF q, r
<1>3. q \in Int /\ r \in 0 .. d - 1 /\ y = d * q + r
  BY <1>2 DEF q, r
<1>4. k + q \in Int /\ x + y = (k + q) * d + r
  BY <1>1, <1>3
<1>5. ((k + q) * d + r) % d = r
  BY <1>3, <1>4, Remainder
<1> QED
  BY <1>4, <1>5 DEF r

(* The clock of a local time on a date, or past its midnight, in minutes.  *)
LEMMA ClockOfAt ==
  ASSUME NEW d \in Int, NEW c \in Clocks
  PROVE  /\ Work!At(d, c) \in Int /\ Work!At(d, c) % Minute = c % Minute
         /\ Work!Clock(Work!At(d, c)) = c - (c % Minute)
         /\ c - (c % Minute) \in Clocks /\ (c - (c % Minute)) % Minute = 0
<1>1. c \in Int /\ d * Day \in Int /\ 0 <= c /\ c < Day
  BY Units DEF Clocks
<1>2. (d * Day + c) % Day = c
  BY <1>1, Units, Remainder DEF Clocks
<1>3. (d * Day) % Minute = 0
  <2>1. Day \in Int /\ Day % Minute = 0 /\ Minute \in Nat \ {0}
    BY Units
  <2> QED
    BY <2>1, Multiples
<1>4. (d * Day + c) % Minute = c % Minute
  BY <1>1, <1>3, Units, SameRemainder
<1>5. /\ c % Minute \in 0 .. Minute - 1 /\ c \div Minute \in Int
      /\ c = Minute * (c \div Minute) + (c % Minute)
  BY <1>1, Units, Division
<1> DEFINE q == c \div Minute
           r == c % Minute
<1> HIDE DEF q, r
<1>6. r \in 0 .. Minute - 1 /\ q \in Int /\ c = Minute * q + r
  BY <1>5 DEF q, r
<1>7. c - r = q * Minute /\ c - r \in Int
  BY <1>1, <1>6, Units
<1>8. (c - r) % Minute = 0
  BY <1>6, <1>7, Units, Multiple
<1>9. q >= 0
  <2>1. q <= -1 => Minute * q <= -Minute
    BY <1>6, Units
  <2> QED
    BY <1>1, <1>6, <2>1, Units
<1>10. c - r >= 0
  BY <1>6, <1>7, <1>9, Units
<1>11. (d * Day + c) % Minute = r /\ c - r \in Clocks
  BY <1>1, <1>4, <1>6, <1>7, <1>10, Units DEF Clocks, r
<1>12. Work!At(d, c) = d * Day + c
  BY DEF Work!At
<1>13. Work!Clock(Work!At(d, c)) = c - r
  BY <1>2, <1>11, <1>12 DEF Work!Clock
<1>14. Work!At(d, c) \in Int
  BY <1>1, <1>12
<1> QED
  BY <1>8, <1>11, <1>12, <1>13, <1>14 DEF r

LEMMA LeastOfTwo ==
  ASSUME NEW a \in Int, NEW b \in Int, NEW S \in SUBSET {a, b}, S # {}
  PROVE  Work!Min(S) \in S
<1>1. \E x \in S : \A y \in S : x <= y
  <2>1. CASE a \in S /\ (b \in S => a <= b)
    BY <2>1
  <2>2. CASE b \in S /\ (a \in S => b <= a)
    BY <2>2
  <2>3. a \in S \/ b \in S
    OBVIOUS
  <2>4. a <= b \/ b <= a
    OBVIOUS
  <2> QED
    BY <2>1, <2>2, <2>3, <2>4
<1> QED
  BY <1>1 DEF Work!Min

(* A local time is resolved to an instant that shows it, where one does.   *)
LEMMA ResolvedShows ==
  ASSUME zone \in Zones, NEW l \in Int
  PROVE  /\ Work!Resolve(l) \in Int
         /\ Work!Shown(zone, l) => Work!Show(Work!Resolve(l)) = l
         /\ l % Minute = 0 => Work!Resolve(l) % Minute = 0
<1>1. /\ zone.before \in Int /\ zone.after \in Int
      /\ zone.before % Minute = 0 /\ zone.after % Minute = 0
  BY WorkAssumption
<1> DEFINE a == l - zone.before
           b == l - zone.after
           S == Work!Instants(zone, l)
<1>2. a \in Int /\ b \in Int
  BY <1>1
<1>3. S \in SUBSET {a, b} /\ \A i \in S : Work!Wall(zone, i) = l
  BY DEF Work!Instants
<1>4. Work!Resolve(l) = IF S # {} THEN Work!Min(S) ELSE a
  BY DEF Work!Resolve, Work!ResolveLocal, Work!Shown
<1>5. l % Minute = 0 => a % Minute = 0 /\ b % Minute = 0
  BY <1>1, Units, Multiples
<1> HIDE DEF a, b, S
<1>6. S # {} => Work!Min(S) \in S
  BY <1>2, <1>3, LeastOfTwo
<1>7. Work!Resolve(l) \in {a, b} /\ (S # {} => Work!Resolve(l) \in S)
  BY <1>3, <1>4, <1>6
<1>8. Work!Shown(zone, l) => S # {}
  BY DEF Work!Shown, S
<1> QED
  BY <1>2, <1>3, <1>5, <1>7, <1>8 DEF Work!Show

\* What is known of a worklog on Tempo and of the text it was logged with.
LoggedWith(w, text) ==
  /\ w.date \in Int /\ w.start \in Clocks
  /\ w.seconds \in Nat \ {0} /\ w.seconds % Minute = 0
  /\ Work!IsInterval(text) =>
       /\ text \in Intervals /\ text.from % Minute = 0 /\ text.to % Minute = 0
       /\ w.start = text.from /\ w.seconds = Work!IntervalSeconds(text, w.date)

LEMMA IntervalEnds ==
  ASSUME zone \in Zones, NEW text \in Intervals, NEW d \in Int,
         text.from % Minute = 0, text.to % Minute = 0
  PROVE  LET s == Work!IntervalSeconds(text, d)
         IN  /\ s \in Int /\ s % Minute = 0
             /\ \E e \in {Work!At(d, text.to), Work!At(d + 1, text.to)} :
                  Work!Resolve(Work!At(d, text.from)) + s = Work!Resolve(e)
<1> DEFINE from == Work!Resolve(Work!At(d, text.from))
           same == Work!Resolve(Work!At(d, text.to))
           next == Work!Resolve(Work!At(d + 1, text.to))
           s == Work!IntervalSeconds(text, d)
<1>1. text.from \in Clocks /\ text.to \in Clocks /\ d + 1 \in Int
  BY DEF Intervals
<1>2. /\ Work!At(d, text.from) \in Int /\ Work!At(d, text.from) % Minute = 0
      /\ Work!At(d, text.to) \in Int /\ Work!At(d, text.to) % Minute = 0
      /\ Work!At(d + 1, text.to) \in Int /\ Work!At(d + 1, text.to) % Minute = 0
  BY <1>1, ClockOfAt
<1>3. /\ from \in Int /\ from % Minute = 0 /\ same \in Int /\ same % Minute = 0
      /\ next \in Int /\ next % Minute = 0
  BY <1>2, ResolvedShows
<1>4. s = (IF same > from THEN same ELSE next) - from
  BY DEF Work!IntervalSeconds
<1> HIDE DEF from, same, next, s
<1>5. (same - from) % Minute = 0 /\ (next - from) % Minute = 0
  BY <1>3, Units, Multiples
<1>6. s \in Int /\ s % Minute = 0 /\ from + s \in {same, next}
  BY <1>3, <1>4, <1>5
<1> QED
  BY <1>6 DEF from, same, next, s

(* An interval that was typed is listed as it was typed.                   *)
LEMMA TypedIsListed ==
  ASSUME zone \in Zones, NEW w, NEW text, LoggedWith(w, text), Work!IsInterval(text),
         \A e \in {Work!At(w.date, text.from), Work!At(w.date, text.to),
                   Work!At(w.date + 1, text.to)} : Work!Shown(zone, e)
  PROVE  Work!ClockInterval(w) = text
<1>1. /\ w.date \in Int /\ text \in Intervals
      /\ text.from % Minute = 0 /\ text.to % Minute = 0
      /\ w.start = text.from /\ w.seconds = Work!IntervalSeconds(text, w.date)
  BY DEF LoggedWith
<1>2. text.from \in Clocks /\ text.to \in Clocks /\ w.date + 1 \in Int
      /\ text = [from |-> text.from, to |-> text.to]
  BY <1>1 DEF Intervals
<1> DEFINE begin == Work!At(w.date, text.from)
<1>3. begin \in Int /\ Work!Clock(begin) = text.from
  <2>1. begin \in Int /\ Work!Clock(begin) = text.from - 0
    BY <1>1, <1>2, ClockOfAt
  <2>2. text.from \in Int
    BY <1>2, Units DEF Clocks
  <2> QED
    BY <2>1, <2>2
<1>4. ASSUME NEW e \in {Work!At(w.date, text.to), Work!At(w.date + 1, text.to)}
      PROVE  e \in Int /\ Work!Clock(e) = text.to
  <2>1. e \in Int /\ Work!Clock(e) = text.to - 0
    BY <1>1, <1>2, ClockOfAt
  <2>2. text.to \in Int
    BY <1>2, Units DEF Clocks
  <2> QED
    BY <2>1, <2>2
<1>5. PICK e \in {Work!At(w.date, text.to), Work!At(w.date + 1, text.to)} :
        Work!Resolve(begin) + w.seconds = Work!Resolve(e)
  BY <1>1, IntervalEnds
<1>6. Work!Show(Work!Resolve(begin)) = begin /\ Work!Show(Work!Resolve(e)) = e
  BY <1>3, <1>4, ResolvedShows
<1>7. Work!ClockInterval(w) =
        [from |-> Work!Clock(Work!Show(Work!Resolve(begin))),
         to |-> Work!Clock(Work!Show(Work!Resolve(begin) + w.seconds))]
  BY <1>1 DEF Work!ClockInterval
<1> HIDE DEF begin
<1> QED
  BY <1>2, <1>3, <1>4, <1>5, <1>6, <1>7

LEMMA ListedIsTyped ==
  ASSUME NEW s \in Nat, s % Minute = 0
  PROVE  Work!ParseDuration(Work!FormatDuration(s)) = s
<1> DEFINE h == s \div Hour
           r == s % Hour
           m == r \div Minute
<1>1. h \in Int /\ r \in 0 .. Hour - 1 /\ s = Hour * h + r
  BY Units, Division
<1> HIDE DEF h, r
<1>2. r \in Int
  BY <1>1, Units
<1>3. m \in Int /\ r % Minute \in 0 .. Minute - 1 /\ r = Minute * m + (r % Minute)
  BY <1>2, Units, Division
<1>4. r % Minute = 0
  <2>1. (h * Hour) % Minute = 0
    <3>1. Hour \in Int /\ Hour % Minute = 0 /\ Minute \in Nat \ {0}
      BY Units
    <3> QED
      BY <1>1, <3>1, Multiples
  <2>2. h * Hour \in Int /\ s \in Int /\ r = s - h * Hour
    BY <1>1, <1>2, Units
  <2>3. (s - h * Hour) % Minute = 0
    BY <2>1, <2>2, Units, Multiples
  <2> QED
    BY <2>2, <2>3
<1> HIDE DEF m
<1>5. h * Hour + m * Minute = s
  BY <1>1, <1>2, <1>3, <1>4, Units
<1>6. Work!FormatDuration(s) = [hours |-> h, minutes |-> m]
  BY DEF Work!FormatDuration, h, r, m
<1> QED
  BY <1>5, <1>6 DEF Work!ParseDuration

(* A worklog the zone's change does not fall into is read back, to the     *)
(* minute, where it is.                                                    *)
LEMMA SteadyIsRead ==
  ASSUME zone \in Zones, NEW w, w.date \in Int, w.start \in Clocks,
         w.seconds \in Nat \ {0}, w.seconds % Minute = 0,
         Work!Steady(w.date, w.start, w.seconds)
  PROVE  Work!CanonicalWallInterval(Work!ClockInterval(w)) =
           [from |-> w.start - (w.start % Minute),
            to |-> w.start - (w.start % Minute) + w.seconds]
<1> DEFINE d == w.date
           b == w.start
           s == w.seconds
           r == b % Minute
           begin == Work!At(d, b)
<1>1. d \in Int /\ b \in Clocks /\ s \in Nat \ {0} /\ s % Minute = 0
  OBVIOUS
<1>2. /\ Work!Shown(zone, begin) /\ s <= Day
      /\ Work!Show(Work!Resolve(begin) + s) = begin + s
  BY DEF Work!Steady
<1>3. Work!ClockInterval(w) = [from |-> Work!Clock(Work!Show(Work!Resolve(begin))),
                               to |-> Work!Clock(Work!Show(Work!Resolve(begin) + s))]
  BY DEF Work!ClockInterval
<1> HIDE DEF d, b, s
<1>4. /\ begin \in Int /\ Work!Clock(begin) = b - r /\ b - r \in Clocks
  BY <1>1, ClockOfAt
<1>5. Work!Show(Work!Resolve(begin)) = begin
  BY <1>2, <1>4, ResolvedShows
<1>6. r \in 0 .. Minute - 1 /\ b \in Int /\ 0 <= b /\ b < Day /\ b + s \in Int
  <2>1. b \in Int /\ 0 <= b /\ b < Day
    BY <1>1, Units DEF Clocks
  <2> QED
    BY <1>1, <2>1, Units, Division
<1>7. (b + s) % Minute = r
  <2>1. s + b = b + s
    BY <1>1, <1>6
  <2>2. s \in Int /\ b \in Int /\ Minute \in Nat \ {0}
    BY <1>1, <1>6, Units
  <2>3. (s + b) % Minute = b % Minute
    BY <1>1, <2>2, SameRemainder
  <2> QED
    BY <2>1, <2>3
<1>8. Work!Clock(begin + s) = IF b - r + s < Day THEN b - r + s ELSE b - r + s - Day
  <2>1. begin = d * Day + b
    BY DEF Work!At
  <2>2. d * Day \in Int
    BY <1>1, Units
  <2> HIDE DEF begin, r
  <2>3. CASE b + s < Day
    <3>1. b + s \in Clocks
      BY <1>1, <1>6, <2>3, Units DEF Clocks
    <3>2. Work!At(d, b + s) = begin + s
      BY <1>1, <1>6, <2>1, <2>2 DEF Work!At
    <3>3. Work!Clock(begin + s) = b + s - r
      <4> DEFINE c == b + s
      <4> HIDE DEF c
      <4>1. Work!Clock(Work!At(d, c)) = c - (c % Minute)
        BY <1>1, <3>1, ClockOfAt DEF c
      <4> QED
        <5>1. c = b + s /\ c % Minute = r /\ Work!At(d, c) = begin + s
          BY <1>7, <3>2 DEF c
        <5> QED
          BY <1>1, <1>4, <1>6, <4>1, <5>1
    <3> QED
      BY <1>1, <1>6, <2>3, <3>3, Units
  <2>4. CASE ~(b + s < Day)
    <3> DEFINE c == b + s - Day
    <3>1. c \in Int /\ c \in Clocks
      BY <1>1, <1>2, <1>6, <2>4, Units DEF Clocks
    <3>2. Work!At(d + 1, c) = begin + s
      <4>1. (d + 1) * Day = d * Day + Day
        BY <1>1, Units
      <4> QED
        BY <1>1, <1>6, <2>1, <2>2, <4>1, Units DEF Work!At
    <3>3. c % Minute = r
      <4>1. Day \in Int /\ Day % Minute = 0 /\ Day + c = b + s
        BY <1>1, <1>6, Units
      <4> HIDE DEF c
      <4>2. (Day + c) % Minute = c % Minute
        BY <3>1, <4>1, Units, SameRemainder
      <4> QED
        BY <1>7, <4>1, <4>2
    <3>4. /\ Work!Clock(begin + s) = c - r /\ c - r \in Clocks
      <4>1. d + 1 \in Int
        BY <1>1
      <4> HIDE DEF c
      <4> QED
        BY <3>1, <3>2, <3>3, <4>1, ClockOfAt
    <3>5. c - r >= 0
      BY <3>4, Units DEF Clocks
    <3> QED
      BY <1>1, <1>6, <3>4, <3>5, Units
  <2> QED
    BY <2>3, <2>4
<1>9. b - r \in Int /\ 0 <= b - r /\ b - r < Day
  BY <1>4, Units DEF Clocks
<1> HIDE DEF r
<1>10. Work!ClockInterval(w) =
         [from |-> b - r, to |-> IF b - r + s < Day THEN b - r + s ELSE b - r + s - Day]
  BY <1>2, <1>3, <1>4, <1>5, <1>8
<1>11. Work!CanonicalWallInterval(Work!ClockInterval(w)) = [from |-> b - r, to |-> b - r + s]
  BY <1>1, <1>2, <1>9, <1>10, Units DEF Work!CanonicalWallInterval
<1> QED
  BY <1>11 DEF b, r, s

LEMMA Longer ==
  ASSUME NEW s, IsASequence(s), NEW e
  PROVE  /\ IsASequence(Append(s, e))
         /\ Len(s) \in Nat /\ DOMAIN s = 1 .. Len(s)
         /\ Len(Append(s, e)) = Len(s) + 1
         /\ DOMAIN Append(s, e) = 1 .. Len(s) + 1
         /\ \A i \in DOMAIN s : Append(s, e)[i] = s[i]
         /\ Append(s, e)[Len(s) + 1] = e
<1> DEFINE S == {s[i] : i \in DOMAIN s}
           T == S \cup {e}
           t == Append(s, e)
           U == {t[i] : i \in DOMAIN t}
<1>1. s \in Seq(S)
  BY DEF IsASequence
<1>2. s \in Seq(T) /\ e \in T
  <2>1. Len(s) \in Nat /\ DOMAIN s = 1 .. Len(s) /\ \A i \in 1 .. Len(s) : s[i] \in S
    BY <1>1
  <2> QED
    BY <1>1, <2>1
<1> HIDE DEF S, T
<1>3. /\ t \in Seq(T) /\ Len(t) = Len(s) + 1 /\ DOMAIN t = 1 .. Len(s) + 1
      /\ Len(s) \in Nat /\ DOMAIN s = 1 .. Len(s)
      /\ \A i \in DOMAIN s : t[i] = s[i]
      /\ t[Len(s) + 1] = e
  BY <1>2
<1>4. t \in Seq(U)
  <2> HIDE DEF t
  <2>1. \A i \in 1 .. Len(t) : t[i] \in U
    BY <1>3
  <2> HIDE DEF U
  <2> QED
    BY <1>3, <2>1
<1> HIDE DEF t, U
<1>5. IsASequence(t)
  BY <1>4 DEF IsASequence, U
<1> QED
  BY <1>3, <1>5 DEF t

\* The worklog that a proposal is submitted as.
OwnWorklog(p) ==
  [issue |-> Work!Period(p).issue, date |-> 0, start |-> Work!StartOf(p),
   seconds |-> Work!Length(p), text |-> Work!Period(p).facts, attributes |-> resolved[p]]

TempoTyped ==
  /\ zone \in Zones
  /\ IsASequence(tempo) /\ IsASequence(asked) /\ Len(tempo) = Len(asked)
  /\ \A i \in DOMAIN tempo : LoggedWith(tempo[i], asked[i])
ProposalsTyped ==
  /\ IsASequence(proposals)
  /\ \A n \in DOMAIN proposals : proposals[n] \in Responses
OwnAreLogged ==
  /\ DOMAIN decision \subseteq DOMAIN resolved /\ DOMAIN resolved \subseteq Work!Stored
  /\ submitted \subseteq DOMAIN resolved
  /\ \A p \in submitted : /\ Work!PayloadReady(p)
                          /\ \E i \in DOMAIN tempo : tempo[i] = OwnWorklog(p)
WorkIInv == TempoTyped /\ ProposalsTyped /\ OwnAreLogged

LEMMA StoredIsTyped ==
  ASSUME ProposalsTyped, NEW p \in Work!Stored
  PROVE  {Work!Period(p).from, Work!Period(p).to, Work!Period(p).offset} \subseteq Int
<1>1. PICK n \in DOMAIN proposals : \E i \in DOMAIN proposals[n] :
        p = <<n, i>> /\ proposals[n][i].kind = "worklog"
  BY DEF Work!Stored
<1>2. PICK i \in DOMAIN proposals[n] : p = <<n, i>> /\ proposals[n][i].kind = "worklog"
  BY <1>1
<1>3. Work!Period(p) = proposals[n][i]
  BY <1>2 DEF Work!Period
<1>4. proposals[n] \in Responses
  BY DEF ProposalsTyped
<1> QED
  BY <1>2, <1>3, <1>4, WorkAssumption

(* A request by hand is what was typed, on a date, at a time of day.       *)
LEMMA SelectedIsTyped ==
  ASSUME NEW when \in Selections \cup {NotSet}
  PROVE  Work!SelectDate(when).date \in Int /\ Work!SelectDate(when).clock \in Clocks
<1>1. 0 \in Clocks /\ Now.date \in Int /\ Now.clock \in Clocks
  BY WorkAssumption, Units DEF Clocks
<1>2. CASE when = NotSet
  BY <1>1, <1>2 DEF Work!SelectDate
<1>3. CASE when \in [kind : {"offset"}, days : Int]
  <2>1. when # NotSet /\ when.kind = "offset" /\ when.days \in Int
    BY <1>3, WorkAssumption DEF Selections
  <2>2. Work!SelectDate(when) = [date |-> Now.date + when.days, clock |-> 0]
    BY <2>1 DEF Work!SelectDate
  <2> QED
    BY <1>1, <2>1, <2>2
<1>4. CASE when \in [kind : {"date"}, date : Int]
  <2>1. when # NotSet /\ when.kind = "date" /\ when.date \in Int
    BY <1>4, WorkAssumption DEF Selections
  <2>2. Work!SelectDate(when) = [date |-> when.date, clock |-> 0]
    BY <2>1 DEF Work!SelectDate
  <2> QED
    BY <1>1, <2>1, <2>2
<1> QED
  BY <1>2, <1>3, <1>4 DEF Selections

LEMMA TextIsOne ==
  ASSUME NEW text \in Durations \cup Intervals \cup {NotSet}
  PROVE  /\ Work!IsDuration(text) => text \in Durations /\ ~Work!IsInterval(text)
         /\ Work!IsInterval(text) => text \in Intervals
<1>1. text \in Durations => DOMAIN text = {"hours", "minutes"}
  BY DEF Durations
<1>2. text \in Intervals => DOMAIN text = {"from", "to"}
  BY DEF Intervals
<1>3. {"hours", "minutes"} # {"from", "to"}
  OBVIOUS
<1> QED
  BY <1>1, <1>2, <1>3 DEF Work!IsDuration, Work!IsInterval

LEMMA DurationIsMinutes ==
  ASSUME NEW text \in Durations
  PROVE  Work!ParseDuration(text) \in Nat /\ Work!ParseDuration(text) % Minute = 0
<1>1. text.hours \in Nat /\ text.minutes \in Nat
  BY DEF Durations
<1>2. /\ text.hours * Hour \in Nat /\ text.minutes * Minute \in Nat
      /\ Hour \in Int /\ Minute \in Int
  BY <1>1, Units
<1> DEFINE h == text.hours
           m == text.minutes
<1> HIDE DEF h, m
<1>3. (h * Hour) % Minute = 0 /\ (m * Minute) % Minute = 0
  <2>1. h \in Int /\ m \in Int
    BY <1>1 DEF h, m
  <2>2. Hour \in Int /\ Hour % Minute = 0 /\ Minute \in Nat \ {0}
    BY Units
  <2>3. (h * Hour) % Minute = 0
    BY <2>1, <2>2, Multiples
  <2>4. (m * Minute) % Minute = 0
    BY <2>1, <2>2, Multiples
  <2> QED
    BY <2>3, <2>4
<1>4. (h * Hour + m * Minute) % Minute = 0
  <2> DEFINE x == h * Hour
             y == m * Minute
  <2>1. x \in Int /\ y \in Int /\ x % Minute = 0 /\ y % Minute = 0
    BY <1>2, <1>3 DEF h, m
  <2> HIDE DEF x, y
  <2>2. (x + y) % Minute = 0
    BY <2>1, Units, Multiples
  <2> QED
    BY <2>2 DEF x, y
<1> QED
  BY <1>2, <1>4 DEF Work!ParseDuration, h, m

LEMMA RequestIsLogged ==
  ASSUME zone \in Zones, NEW r \in Requests, Work!Acceptable(r)
  PROVE  LoggedWith(Work!BuildLogRequest(r), r.text)
<1> DEFINE d == Work!SelectDate(r.when).date
           w == Work!BuildLogRequest(r)
<1>1. /\ r.text \in Durations \cup Intervals \cup {NotSet}
      /\ r.text \in Intervals => r.text.from % Minute = 0 /\ r.text.to % Minute = 0
      /\ r.when \in Selections \cup {NotSet} /\ r.start \in Clocks \cup {NotSet}
  BY WorkAssumption
<1>2. d \in Int /\ Work!SelectDate(r.when).clock \in Clocks
  BY <1>1, SelectedIsTyped
<1>3. w.date = d /\ w.start = Work!StartClock(r) /\ w.seconds = Work!Seconds(r.text, d)
  BY DEF Work!BuildLogRequest
<1>4. w.seconds > 0 /\ (Work!IsDuration(r.text) \/ Work!IsInterval(r.text))
  BY <1>3 DEF Work!Acceptable
<1> HIDE DEF d, w
<1>5. CASE Work!IsDuration(r.text)
  <2>1. r.text \in Durations /\ ~Work!IsInterval(r.text)
    BY <1>1, <1>5, TextIsOne
  <2>2. w.seconds \in Nat /\ w.seconds % Minute = 0
    BY <1>3, <1>5, <2>1, DurationIsMinutes DEF Work!Seconds
  <2>3. w.start \in Clocks
    BY <1>1, <1>2, <1>3, <2>1 DEF Work!StartClock
  <2> QED
    BY <1>2, <1>3, <1>4, <2>1, <2>2, <2>3 DEF LoggedWith, w
<1>6. CASE ~Work!IsDuration(r.text) /\ Work!IsInterval(r.text)
  <2>1. r.text \in Intervals /\ r.text.from % Minute = 0 /\ r.text.to % Minute = 0
    BY <1>1, <1>6, TextIsOne
  <2>2. w.seconds = Work!IntervalSeconds(r.text, d)
    BY <1>3, <1>6 DEF Work!Seconds
  <2>3. w.seconds \in Int /\ w.seconds % Minute = 0
    BY <1>2, <2>1, <2>2, IntervalEnds
  <2>4. w.start = r.text.from
    BY <1>3, <1>6 DEF Work!StartClock
  <2>5. r.text.from \in Clocks
    BY <2>1 DEF Intervals
  <2> QED
    BY <1>2, <1>3, <1>4, <2>1, <2>2, <2>3, <2>4, <2>5 DEF LoggedWith, w
<1> QED
  BY <1>4, <1>5, <1>6

LEMMA PayloadIsLogged ==
  ASSUME ProposalsTyped, NEW p \in Work!Stored, Work!PayloadReady(p), NEW rs
  PROVE  /\ Work!BuildLogRequest(Work!Payload(p, rs)) =
              [issue |-> Work!Period(p).issue, date |-> 0, start |-> Work!StartOf(p),
               seconds |-> Work!Length(p), text |-> Work!Period(p).facts,
               attributes |-> rs[p]]
         /\ Work!StartOf(p) \in Clocks /\ Work!StartOf(p) % Minute = 0
         /\ Work!Length(p) \in Nat \ {0} /\ Work!Length(p) % Minute = 0
         /\ (Work!Length(p) \div Minute) * Minute = Work!Length(p)
         /\ ~Work!IsInterval(Work!Payload(p, rs).text)
<1> DEFINE n == Work!Length(p)
           m == n \div Minute
           payload == Work!Payload(p, rs)
<1>1. n \in Int /\ n > 0 /\ n % Minute = 0
  BY StoredIsTyped DEF Work!PayloadReady, Work!Length
<1>2. Work!StartOf(p) \in Clocks /\ Work!StartOf(p) % Minute = 0
  BY DEF Work!PayloadReady, Clocks
<1> HIDE DEF n
<1>3. m \in Int /\ n = Minute * m + (n % Minute)
  BY <1>1, Units, Division
<1> HIDE DEF m
<1>4. m * Minute = n /\ m \in Nat
  <2>1. m * Minute = n
    BY <1>1, <1>3, Units
  <2>2. m <= -1 => m * Minute <= -Minute
    BY <1>3, Units
  <2> QED
    BY <1>1, <1>3, <2>1, <2>2, Units
<1>5. /\ payload.text = [hours |-> 0, minutes |-> m]
      /\ payload.when = [kind |-> "date", date |-> 0]
      /\ payload.start = Work!StartOf(p) /\ payload.issue = Work!Period(p).issue
      /\ payload.description = Work!Period(p).facts /\ payload.attributes = rs[p]
  BY DEF Work!Payload, n, m
<1> HIDE DEF payload
<1>6. payload.text \in Durations /\ payload.text # NotSet
  BY <1>4, <1>5, WorkAssumption DEF Durations
<1>7. Work!IsDuration(payload.text) /\ ~Work!IsInterval(payload.text)
  <2>1. DOMAIN payload.text = {"hours", "minutes"}
    BY <1>5
  <2> QED
    BY <1>6, <2>1, TextIsOne DEF Work!IsDuration
<1>8. payload.when \in Selections /\ payload.when # NotSet
  BY <1>5, WorkAssumption DEF Selections
<1>9. Work!SelectDate(payload.when) = [date |-> 0, clock |-> 0]
  BY <1>5, <1>8 DEF Work!SelectDate
<1>10. Work!Seconds(payload.text, 0) = n
  <2>1. 0 * Hour + m * Minute = n
    BY <1>1, <1>4, Units
  <2> QED
    BY <1>5, <1>7, <2>1 DEF Work!Seconds, Work!ParseDuration
<1>11. Work!StartClock(payload) = Work!StartOf(p)
  <2>1. Work!StartOf(p) # NotSet
    BY <1>2, WorkAssumption
  <2> QED
    BY <1>5, <1>7, <2>1 DEF Work!StartClock
<1>12. Work!BuildLogRequest(payload) =
         [issue |-> Work!Period(p).issue, date |-> 0, start |-> Work!StartOf(p),
          seconds |-> n, text |-> Work!Period(p).facts, attributes |-> rs[p]]
  BY <1>5, <1>9, <1>10, <1>11 DEF Work!BuildLogRequest
<1> QED
  BY <1>1, <1>2, <1>4, <1>7, <1>12 DEF n, m, payload

LEMMA WorkStart == Work!Init => WorkIInv
<1> SUFFICES ASSUME Work!Init
             PROVE  WorkIInv
  OBVIOUS
<1>1. IsASequence(<<>>) /\ Len(<<>>) = 0 /\ DOMAIN <<>> = {}
  BY DEF IsASequence
<1> QED
  BY <1>1 DEF Work!Init, WorkIInv, TempoTyped, ProposalsTyped, OwnAreLogged

LEMMA TempoGrows ==
  ASSUME TempoTyped, NEW w, NEW text, LoggedWith(w, text), zone' = zone,
         tempo' = Append(tempo, w), asked' = Append(asked, text)
  PROVE  /\ TempoTyped'
         /\ \A i \in DOMAIN tempo : i \in DOMAIN tempo' /\ tempo'[i] = tempo[i]
         /\ \E i \in DOMAIN tempo' : tempo'[i] = w
<1>1. /\ IsASequence(tempo) /\ IsASequence(asked) /\ Len(tempo) = Len(asked)
      /\ \A i \in DOMAIN tempo : LoggedWith(tempo[i], asked[i])
  BY DEF TempoTyped
<1>2. /\ IsASequence(tempo') /\ Len(tempo) \in Nat /\ DOMAIN tempo = 1 .. Len(tempo)
      /\ Len(tempo') = Len(tempo) + 1 /\ DOMAIN tempo' = 1 .. Len(tempo) + 1
      /\ \A i \in DOMAIN tempo : tempo'[i] = tempo[i]
      /\ tempo'[Len(tempo) + 1] = w
  BY <1>1, Longer
<1>3. /\ IsASequence(asked') /\ DOMAIN asked = 1 .. Len(asked)
      /\ Len(asked') = Len(asked) + 1
      /\ \A i \in DOMAIN asked : asked'[i] = asked[i]
      /\ asked'[Len(asked) + 1] = text
  BY <1>1, Longer
<1>4. ASSUME NEW i \in DOMAIN tempo'
      PROVE  LoggedWith(tempo'[i], asked'[i])
  <2>1. CASE i = Len(tempo) + 1
    BY <1>1, <1>2, <1>3, <2>1
  <2>2. CASE i # Len(tempo) + 1
    <3>1. i \in DOMAIN tempo /\ i \in DOMAIN asked
      BY <1>1, <1>2, <1>3, <2>2
    <3> QED
      BY <1>1, <1>2, <1>3, <3>1
  <2> QED
    BY <2>1, <2>2
<1>5. TempoTyped'
  <2>1. zone' \in Zones
    BY DEF TempoTyped
  <2>2. \A v, t : LoggedWith(v, t) => LoggedWith(v, t)'
    BY DEF LoggedWith, Work!IntervalSeconds, Work!Resolve
  <2>3. \A i \in DOMAIN tempo' : LoggedWith(tempo[i], asked[i])'
    BY <1>4, <2>2 DEF LoggedWith, Work!IntervalSeconds, Work!Resolve
  <2> QED
    BY <1>1, <1>2, <1>3, <2>1, <2>3 DEF TempoTyped
<1>6. Len(tempo) + 1 \in DOMAIN tempo'
  BY <1>2
<1> QED
  BY <1>2, <1>5, <1>6

LEMMA TempoStays ==
  ASSUME TempoTyped, UNCHANGED <<zone, tempo, asked>>
  PROVE  TempoTyped'
BY DEF TempoTyped, LoggedWith, Work!IntervalSeconds, Work!Resolve

LEMMA ProposalsGrow ==
  ASSUME ProposalsTyped,
         proposals' = proposals \/ \E r \in Responses : proposals' = Append(proposals, r)
  PROVE  /\ ProposalsTyped'
         /\ \A p \in Work!Stored :
              /\ p \in Work!Stored' /\ Work!Period(p)' = Work!Period(p)
              /\ Work!PayloadReady(p)' <=> Work!PayloadReady(p)
              /\ Work!StartOf(p)' = Work!StartOf(p) /\ Work!Length(p)' = Work!Length(p)
<1>1. /\ ProposalsTyped'
      /\ \A n \in DOMAIN proposals : n \in DOMAIN proposals' /\ proposals'[n] = proposals[n]
  <2>1. CASE proposals' = proposals
    BY <2>1 DEF ProposalsTyped
  <2>2. ASSUME NEW r \in Responses, proposals' = Append(proposals, r)
        PROVE  /\ ProposalsTyped'
               /\ \A n \in DOMAIN proposals : /\ n \in DOMAIN proposals'
                                             /\ proposals'[n] = proposals[n]
    <3>1. /\ IsASequence(proposals')
          /\ Len(proposals) \in Nat /\ DOMAIN proposals = 1 .. Len(proposals)
          /\ DOMAIN proposals' = 1 .. Len(proposals) + 1
          /\ \A n \in DOMAIN proposals : proposals'[n] = proposals[n]
          /\ proposals'[Len(proposals) + 1] = r
      BY <2>2, Longer DEF ProposalsTyped
    <3>2. ASSUME NEW n \in DOMAIN proposals'
          PROVE  proposals'[n] \in Responses
      <4>1. n \in DOMAIN proposals \/ n = Len(proposals) + 1
        BY <3>1
      <4> QED
        BY <2>2, <3>1, <4>1 DEF ProposalsTyped
    <3> QED
      BY <3>1, <3>2 DEF ProposalsTyped
  <2> QED
    BY <2>1, <2>2
<1>2. ASSUME NEW p \in Work!Stored
      PROVE  p \in Work!Stored' /\ Work!Period(p)' = Work!Period(p)
  <2>1. PICK n \in DOMAIN proposals :
          p \in {<<n, i>> : i \in {j \in DOMAIN proposals[n] : proposals[n][j].kind = "worklog"}}
    BY DEF Work!Stored
  <2>2. PICK i \in DOMAIN proposals[n] : p = <<n, i>> /\ proposals[n][i].kind = "worklog"
    BY <2>1
  <2>3. n \in DOMAIN proposals' /\ proposals'[n] = proposals[n]
    BY <1>1
  <2>4. p \in {<<n, j>> : j \in {k \in DOMAIN proposals'[n] : proposals'[n][k].kind = "worklog"}}
    BY <2>2, <2>3
  <2>5. p \in Work!Stored'
    BY <2>3, <2>4 DEF Work!Stored
  <2> QED
    BY <2>2, <2>3, <2>5 DEF Work!Period
<1> QED
  BY <1>1, <1>2 DEF Work!PayloadReady, Work!StartOf, Work!Length

(* What was submitted stays on Tempo with the attributes it was resolved   *)
(* with, whatever is configured later.                                     *)
LEMMA OwnStay ==
  ASSUME ProposalsTyped, OwnAreLogged,
         proposals' = proposals \/ \E r \in Responses : proposals' = Append(proposals, r),
         \A i \in DOMAIN tempo : i \in DOMAIN tempo' /\ tempo'[i] = tempo[i],
         \A p \in DOMAIN resolved : p \in DOMAIN resolved' /\ resolved'[p] = resolved[p],
         NEW p \in submitted
  PROVE  /\ p \in DOMAIN resolved'
         /\ Work!PayloadReady(p)' /\ \E i \in DOMAIN tempo' : tempo'[i] = OwnWorklog(p)'
<1>1. p \in DOMAIN resolved /\ p \in Work!Stored /\ Work!PayloadReady(p)
  BY DEF OwnAreLogged
<1>2. PICK i \in DOMAIN tempo : tempo[i] = OwnWorklog(p)
  BY DEF OwnAreLogged
<1>3. /\ Work!Period(p)' = Work!Period(p) /\ Work!PayloadReady(p)'
      /\ Work!StartOf(p)' = Work!StartOf(p) /\ Work!Length(p)' = Work!Length(p)
  BY <1>1, ProposalsGrow
<1>4. OwnWorklog(p)' = OwnWorklog(p)
  BY <1>1, <1>3 DEF OwnWorklog
<1> QED
  BY <1>1, <1>2, <1>3, <1>4

LEMMA WorkStep == WorkIInv /\ [Work!Next]_(Work!vars) => WorkIInv'
<1> SUFFICES ASSUME TempoTyped, ProposalsTyped, OwnAreLogged, [Work!Next]_(Work!vars)
             PROVE  TempoTyped' /\ ProposalsTyped' /\ OwnAreLogged'
  BY DEF WorkIInv
<1>1. /\ DOMAIN decision \subseteq DOMAIN resolved /\ DOMAIN resolved \subseteq Work!Stored
      /\ submitted \subseteq DOMAIN resolved
  BY DEF OwnAreLogged
<1>2. ASSUME Work!LogByHand
      PROVE  TempoTyped' /\ ProposalsTyped' /\ OwnAreLogged'
  <2>1. PICK r \in Requests : Work!Acceptable(r) /\ Work!Create(r)
    BY <1>2 DEF Work!LogByHand
  <2>2. UNCHANGED <<zone, settings, proposals, resolved, decision, submitted>>
    BY <1>2 DEF Work!LogByHand
  <2>3. LoggedWith(Work!BuildLogRequest(r), r.text)
    BY <2>1, RequestIsLogged DEF TempoTyped
  <2>4. /\ TempoTyped'
        /\ \A i \in DOMAIN tempo : i \in DOMAIN tempo' /\ tempo'[i] = tempo[i]
    BY <2>1, <2>2, <2>3, TempoGrows DEF Work!Create
  <2>5. ProposalsTyped' /\ Work!Stored' = Work!Stored
    BY <2>2 DEF ProposalsTyped, Work!Stored
  <2>6. \A p \in submitted : /\ Work!PayloadReady(p)'
                             /\ \E i \in DOMAIN tempo' : tempo'[i] = OwnWorklog(p)'
    BY <2>2, <2>4, OwnStay
  <2> QED
    BY <1>1, <2>2, <2>4, <2>5, <2>6 DEF OwnAreLogged
<1>3. ASSUME Work!Reconfigure
      PROVE  TempoTyped' /\ ProposalsTyped' /\ OwnAreLogged'
  <2>1. UNCHANGED <<zone, tempo, asked, proposals, resolved, decision, submitted>>
    BY <1>3 DEF Work!Reconfigure
  <2>2. TempoTyped'
    BY <2>1, TempoStays
  <2>3. ProposalsTyped' /\ Work!Stored' = Work!Stored
    BY <2>1 DEF ProposalsTyped, Work!Stored
  <2>4. \A p \in submitted : /\ Work!PayloadReady(p)'
                             /\ \E i \in DOMAIN tempo' : tempo'[i] = OwnWorklog(p)'
    BY <2>1, OwnStay
  <2> QED
    BY <1>1, <2>1, <2>2, <2>3, <2>4 DEF OwnAreLogged
<1>4. ASSUME Work!Propose
      PROVE  TempoTyped' /\ ProposalsTyped' /\ OwnAreLogged'
  <2>1. PICK r \in Responses : proposals' = Append(proposals, r)
    BY <1>4 DEF Work!Propose
  <2>2. UNCHANGED <<zone, tempo, asked, settings, resolved, decision, submitted>>
    BY <1>4 DEF Work!Propose
  <2>3. TempoTyped'
    BY <2>2, TempoStays
  <2>4. ProposalsTyped' /\ \A p \in Work!Stored : p \in Work!Stored'
    BY <2>1, ProposalsGrow
  <2>5. \A p \in submitted : /\ Work!PayloadReady(p)'
                             /\ \E i \in DOMAIN tempo' : tempo'[i] = OwnWorklog(p)'
    BY <2>1, <2>2, OwnStay
  <2> QED
    BY <1>1, <2>2, <2>3, <2>4, <2>5 DEF OwnAreLogged
<1>5. ASSUME Work!Audit
      PROVE  TempoTyped' /\ ProposalsTyped' /\ OwnAreLogged'
  <2>1. /\ resolved' = Work!ResolveAll
        /\ UNCHANGED <<zone, tempo, asked, settings, proposals, submitted>>
    BY <1>5 DEF Work!Audit
  <2>2. DOMAIN decision' \in {Work!Stored, DOMAIN decision}
    BY <1>5 DEF Work!Audit
  <2>3. DOMAIN resolved' = Work!Stored
    BY <2>1 DEF Work!ResolveAll
  <2>4. \A p \in DOMAIN resolved : p \in DOMAIN resolved' /\ resolved'[p] = resolved[p]
    BY <1>1, <2>1 DEF Work!ResolveAll
  <2>5. TempoTyped'
    BY <2>1, TempoStays
  <2>6. ProposalsTyped' /\ Work!Stored' = Work!Stored
    BY <2>1 DEF ProposalsTyped, Work!Stored
  <2>7. \A p \in submitted : /\ Work!PayloadReady(p)'
                             /\ \E i \in DOMAIN tempo' : tempo'[i] = OwnWorklog(p)'
    BY <2>1, <2>4, OwnStay
  <2> QED
    BY <1>1, <2>1, <2>2, <2>3, <2>5, <2>6, <2>7 DEF OwnAreLogged
<1>6. ASSUME Work!Submit
      PROVE  TempoTyped' /\ ProposalsTyped' /\ OwnAreLogged'
  <2>1. PICK p \in DOMAIN decision :
          /\ Work!PayloadReady(p) /\ Work!Create(Work!Payload(p, resolved))
          /\ submitted' = submitted \cup {p}
    BY <1>6 DEF Work!Submit
  <2>2. UNCHANGED <<zone, settings, proposals, resolved, decision>>
    BY <1>6 DEF Work!Submit
  <2>3. p \in Work!Stored
    BY <1>1
  <2> DEFINE w == Work!BuildLogRequest(Work!Payload(p, resolved))
             text == Work!Payload(p, resolved).text
  <2>4. w = OwnWorklog(p) /\ ~Work!IsInterval(text)
    BY <2>1, <2>3, PayloadIsLogged DEF OwnWorklog
  <2>5. /\ Work!StartOf(p) \in Clocks
        /\ Work!Length(p) \in Nat \ {0} /\ Work!Length(p) % Minute = 0
    BY <2>1, <2>3, PayloadIsLogged
  <2>6. tempo' = Append(tempo, w) /\ asked' = Append(asked, text)
    BY <2>1 DEF Work!Create
  <2> HIDE DEF w, text
  <2>7. LoggedWith(w, text)
    BY <2>4, <2>5 DEF LoggedWith, OwnWorklog
  <2>8. /\ TempoTyped'
        /\ \A i \in DOMAIN tempo : i \in DOMAIN tempo' /\ tempo'[i] = tempo[i]
        /\ \E i \in DOMAIN tempo' : tempo'[i] = w
    BY <2>2, <2>6, <2>7, TempoGrows
  <2>9. ProposalsTyped' /\ Work!Stored' = Work!Stored
    BY <2>2 DEF ProposalsTyped, Work!Stored
  <2>10. \A q \in submitted : /\ Work!PayloadReady(q)'
                              /\ \E i \in DOMAIN tempo' : tempo'[i] = OwnWorklog(q)'
    BY <2>2, <2>8, OwnStay
  <2>11. OwnWorklog(p)' = OwnWorklog(p) /\ Work!PayloadReady(p)'
    BY <2>1, <2>2 DEF OwnWorklog, Work!PayloadReady, Work!StartOf, Work!Length, Work!Period
  <2>12. \A q \in submitted' : /\ Work!PayloadReady(q)'
                               /\ \E i \in DOMAIN tempo' : tempo'[i] = OwnWorklog(q)'
    BY <2>1, <2>4, <2>8, <2>10, <2>11
  <2> QED
    BY <1>1, <2>1, <2>2, <2>8, <2>9, <2>12 DEF OwnAreLogged
<1>7. CASE UNCHANGED Work!vars
  <2>1. UNCHANGED <<zone, tempo, asked, proposals, resolved, decision, submitted>>
    BY <1>7 DEF Work!vars
  <2>2. TempoTyped'
    BY <2>1, TempoStays
  <2>3. ProposalsTyped' /\ Work!Stored' = Work!Stored
    BY <2>1 DEF ProposalsTyped, Work!Stored
  <2>4. \A p \in submitted : /\ Work!PayloadReady(p)'
                             /\ \E i \in DOMAIN tempo' : tempo'[i] = OwnWorklog(p)'
    BY <2>1, OwnStay
  <2> QED
    BY <1>1, <2>1, <2>2, <2>3, <2>4 DEF OwnAreLogged
<1>8. CASE Work!Next
  BY <1>2, <1>3, <1>4, <1>5, <1>6, <1>8 DEF Work!Next
<1> QED
  BY <1>7, <1>8

\* The worklog of a day as the companion reads it.
Read(w) == Work!NormalizeWorklog(Work!ToWorklog(w))

LEMMA DayIsRead ==
  ASSUME NEW i \in DOMAIN tempo, tempo[i].date = 0
  PROVE  /\ Read(tempo[i]) \in Work!ReadDragDay
         /\ Read(tempo[i]) =
              [issue |-> tempo[i].issue,
               period |-> Work!CanonicalWallInterval(Work!ClockInterval(tempo[i])),
               text |-> tempo[i].text, attributes |-> tempo[i].attributes]
<1>1. Work!ToWorklog(tempo[i]) \in Work!ListDay
  BY DEF Work!ListDay
<1> QED
  BY <1>1 DEF Work!ReadDragDay, Read, Work!NormalizeWorklog, Work!ToWorklog

LEMMA CandidateIs ==
  ASSUME ProposalsTyped, NEW p \in Work!Stored, Work!PayloadReady(p), NEW rs
  PROVE  Work!Candidate(p, rs) =
           [issue |-> Work!Period(p).issue,
            period |-> [from |-> Work!StartOf(p), to |-> Work!StartOf(p) + Work!Length(p)],
            text |-> Work!Period(p).facts, attributes |-> rs[p]]
<1>1. (Work!Length(p) \div Minute) * Minute = Work!Length(p)
  BY PayloadIsLogged
<1> QED
  BY <1>1 DEF Work!Candidate, Work!Payload, Work!NormalizeDragLogInput

(* What is typed as an interval is listed as that interval, and a listed   *)
(* duration typed again logs the same time, in every zone, on every date   *)
(* and past midnight (time.rs, parse_duration_or_interval and              *)
(* clock_interval).                                                        *)
THEOREM TypedAsListed == Work!Spec => []Work!ListedAsLogged
<1>1. WorkIInv => Work!ListedAsLogged
  <2> SUFFICES ASSUME WorkIInv, NEW i \in DOMAIN tempo, Work!IsInterval(asked[i])
               PROVE  /\ (\A e \in {Work!At(tempo[i].date, asked[i].from),
                                    Work!At(tempo[i].date, asked[i].to),
                                    Work!At(tempo[i].date + 1, asked[i].to)} :
                            Work!Shown(zone, e))
                           => Work!ToWorklog(tempo[i]).interval = asked[i]
                      /\ Work!ParseDuration(Work!ToWorklog(tempo[i]).duration)
                           = tempo[i].seconds
    BY DEF Work!ListedAsLogged
  <2>1. zone \in Zones /\ LoggedWith(tempo[i], asked[i])
    BY DEF WorkIInv, TempoTyped
  <2>2. /\ Work!ToWorklog(tempo[i]).interval = Work!ClockInterval(tempo[i])
        /\ Work!ToWorklog(tempo[i]).duration = Work!FormatDuration(tempo[i].seconds)
    BY DEF Work!ToWorklog
  <2>3. tempo[i].seconds \in Nat /\ tempo[i].seconds % Minute = 0
    BY <2>1 DEF LoggedWith
  <2> QED
    BY <2>1, <2>2, <2>3, TypedIsListed, ListedIsTyped
<1> QED
  BY <1>1, WorkStart, WorkStep, PTL DEF Work!Spec

(* The companion finds in the day it reads each worklog it has submitted,  *)
(* whatever was configured or proposed since (drag_gateway.rs).            *)
THEOREM OwnAreRecognised == Work!Spec => []Work!OwnIsRecognised
<1>1. WorkIInv => Work!OwnIsRecognised
  <2> SUFFICES ASSUME WorkIInv, NEW p \in submitted,
                      Work!Steady(0, Work!StartOf(p), Work!Length(p))
               PROVE  Work!Duplicate(p, Work!ReadDragDay, resolved)
    BY DEF Work!OwnIsRecognised
  <2>1. /\ zone \in Zones /\ ProposalsTyped /\ p \in Work!Stored /\ Work!PayloadReady(p)
        /\ \E i \in DOMAIN tempo : tempo[i] = OwnWorklog(p)
    BY DEF WorkIInv, TempoTyped, OwnAreLogged
  <2>2. PICK i \in DOMAIN tempo : tempo[i] = OwnWorklog(p)
    BY <2>1
  <2>3. /\ Work!StartOf(p) \in Clocks /\ Work!StartOf(p) % Minute = 0
        /\ Work!Length(p) \in Nat \ {0} /\ Work!Length(p) % Minute = 0
    BY <2>1, PayloadIsLogged
  <2> DEFINE w == tempo[i]
             s == Work!StartOf(p)
             n == Work!Length(p)
  <2>4. /\ w.date = 0 /\ w.start = s /\ w.seconds = n /\ w.issue = Work!Period(p).issue
        /\ w.text = Work!Period(p).facts /\ w.attributes = resolved[p]
    BY <2>2 DEF OwnWorklog
  <2>5. Work!CanonicalWallInterval(Work!ClockInterval(w)) = [from |-> s, to |-> s + n]
    <3>1. Work!Steady(w.date, w.start, w.seconds)
      BY <2>4
    <3>2. s \in Int
      BY <2>3, Units DEF Clocks
    <3> HIDE DEF w, s, n
    <3>3. Work!CanonicalWallInterval(Work!ClockInterval(w)) =
            [from |-> w.start - (w.start % Minute),
             to |-> w.start - (w.start % Minute) + w.seconds]
      <4>1. /\ w.date \in Int /\ w.start \in Clocks
            /\ w.seconds \in Nat \ {0} /\ w.seconds % Minute = 0
        BY <2>3, <2>4 DEF s, n
      <4> QED
        BY <2>1, <3>1, <4>1, SteadyIsRead
    <3>4. w.start - (w.start % Minute) = s
      BY <2>3, <2>4, <3>2 DEF s
    <3> QED
      BY <2>4, <3>3, <3>4
  <2>6. Read(w) = Work!Candidate(p, resolved)
    <3>1. Read(w) = [issue |-> w.issue,
                     period |-> Work!CanonicalWallInterval(Work!ClockInterval(w)),
                     text |-> w.text, attributes |-> w.attributes]
      BY <2>4, DayIsRead
    <3> HIDE DEF w
    <3> QED
      BY <2>1, <2>4, <2>5, <3>1, CandidateIs
  <2>7. Read(w) \in Work!ReadDragDay
    BY <2>4, DayIsRead
  <2> QED
    BY <2>6, <2>7 DEF Work!Duplicate, Work!SameWorklog
<1> QED
  BY <1>1, WorkStart, WorkStep, PTL DEF Work!Spec

(* A decision of an audit that approves has none of the policy's reasons.  *)
LEMMA ApprovedHasNoReason ==
  ASSUME NEW p, NEW read, NEW rs, NEW authorized,
         Work!PolicyDecision(Work!Reasons(p, read, rs, authorized)) = "approved"
  PROVE  /\ ~Work!Overlapping(p, read, rs) /\ ~Work!ProposalOverlap(p)
         /\ ~Work!HasIssueWorklog(p, read)
<1>1. Work!Reasons(p, read, rs, authorized) = {}
  BY DEF Work!PolicyDecision
<1>2. /\ "tempo.overlap" \notin Work!Reasons(p, read, rs, authorized)
      /\ "proposal.overlap" \notin Work!Reasons(p, read, rs, authorized)
      /\ "tempo.current_state.has_issue_worklog" \notin Work!Reasons(p, read, rs, authorized)
  BY <1>1
<1> QED
  BY <1>2 DEF Work!Reasons

LEMMA ApprovalStep == WorkIInv /\ [Work!Next]_(Work!vars) => Work!ApprovesWhatIsFree
<1> SUFFICES ASSUME WorkIInv, [Work!Next]_(Work!vars),
                    NEW p \in DOMAIN decision', decision' # decision, decision'[p] = "approved"
             PROVE  LET own == Work!Taken(Work!BuildLogRequest(Work!Payload(p, resolved')))
                    IN  /\ p \notin submitted
                        /\ \A i \in DOMAIN tempo :
                             LET w == tempo[i]
                             IN  w.date = 0 /\ Work!Steady(0, w.start, w.seconds)
                                   => ~Work!PeriodsOverlap(Work!Taken(w), own)
                        /\ \A q \in DOMAIN decision' \ {p} :
                             decision'[q] = "approved"
                                 /\ Work!Period(q).offset = Work!Period(p).offset =>
                               ~Work!PeriodsOverlap(
                                  Work!Taken(Work!BuildLogRequest(Work!Payload(q, resolved'))),
                                  own)
  BY DEF Work!ApprovesWhatIsFree
<1>1. Work!Audit
  BY DEF Work!Next, Work!vars, Work!LogByHand, Work!Reconfigure, Work!Propose, Work!Submit
<1> DEFINE read == Work!ReadDragDay
           Taking(q) == [from |-> Work!StartOf(q), to |-> Work!StartOf(q) + Work!Length(q)]
<1>2. /\ \A q \in Work!Stored : Work!PayloadReady(q)
      /\ \E authorized \in BOOLEAN :
           decision' = [q \in Work!Stored |->
                          Work!PolicyDecision(Work!Reasons(q, read, resolved', authorized))]
  BY <1>1 DEF Work!Audit
<1>3. PICK authorized \in BOOLEAN :
        decision' = [q \in Work!Stored |->
                       Work!PolicyDecision(Work!Reasons(q, read, resolved', authorized))]
  BY <1>2
<1>4. DOMAIN decision' = Work!Stored
  BY <1>3
<1>5. /\ zone \in Zones /\ ProposalsTyped
      /\ \A i \in DOMAIN tempo : LoggedWith(tempo[i], asked[i])
      /\ \A q \in submitted : \E i \in DOMAIN tempo : tempo[i] = OwnWorklog(q)
  BY DEF WorkIInv, TempoTyped, OwnAreLogged
<1>6. /\ ~Work!Overlapping(p, read, resolved') /\ ~Work!ProposalOverlap(p)
      /\ ~Work!HasIssueWorklog(p, read)
  BY <1>3, <1>4, ApprovedHasNoReason
<1> HIDE DEF read
<1>7. ASSUME NEW q \in Work!Stored
      PROVE  /\ Work!StartOf(q) \in Int /\ Work!Length(q) \in Int /\ 0 <= Work!StartOf(q)
             /\ Work!Taken(Work!BuildLogRequest(Work!Payload(q, resolved'))) = Taking(q)
  <2>1. /\ Work!StartOf(q) \in Clocks /\ Work!StartOf(q) % Minute = 0
        /\ Work!Length(q) \in Nat \ {0}
        /\ Work!BuildLogRequest(Work!Payload(q, resolved')) =
             [issue |-> Work!Period(q).issue, date |-> 0, start |-> Work!StartOf(q),
              seconds |-> Work!Length(q), text |-> Work!Period(q).facts,
              attributes |-> resolved'[q]]
    BY <1>2, <1>5, PayloadIsLogged
  <2>2. Work!StartOf(q) \in Int /\ Work!Length(q) \in Int /\ 0 <= Work!StartOf(q)
    BY <2>1, Units DEF Clocks
  <2>3. 0 * Day + (Work!StartOf(q) - 0) = Work!StartOf(q)
    BY <2>2, Units
  <2> QED
    BY <2>1, <2>2, <2>3 DEF Work!Taken, Work!At
<1>8. p \notin submitted
  <2> SUFFICES ASSUME p \in submitted
               PROVE  FALSE
    OBVIOUS
  <2>1. PICK i \in DOMAIN tempo : tempo[i] = OwnWorklog(p)
    BY <1>5
  <2>2. tempo[i].date = 0 /\ tempo[i].issue = Work!Period(p).issue
    BY <2>1 DEF OwnWorklog
  <2>3. Read(tempo[i]) \in read /\ Read(tempo[i]).issue = Work!Period(p).issue
    BY <2>2, DayIsRead DEF read
  <2> QED
    BY <1>6, <2>3 DEF Work!HasIssueWorklog
<1>9. ASSUME NEW i \in DOMAIN tempo, tempo[i].date = 0,
             Work!Steady(0, tempo[i].start, tempo[i].seconds)
      PROVE  ~Work!PeriodsOverlap(Work!Taken(tempo[i]), Taking(p))
  <2> DEFINE w == tempo[i]
             from == w.start - (w.start % Minute)
  <2>1. /\ w.start \in Clocks /\ w.seconds \in Nat \ {0} /\ w.seconds % Minute = 0
    BY <1>5 DEF LoggedWith
  <2>2. Work!CanonicalWallInterval(Work!ClockInterval(w)) = [from |-> from, to |-> from + w.seconds]
    <3>1. w.date \in Int /\ Work!Steady(w.date, w.start, w.seconds)
      BY <1>9
    <3> HIDE DEF w
    <3> QED
      BY <1>5, <2>1, <3>1, SteadyIsRead
  <2>3. Read(w) \in read /\ Read(w).period = [from |-> from, to |-> from + w.seconds]
    BY <1>9, <2>2, DayIsRead DEF read
  <2>4. from \in Int
    <3>1. w.start \in Int
      BY <2>1 DEF Clocks
    <3>2. Minute \in Nat \ {0}
      BY Units
    <3> HIDE DEF w
    <3>3. w.start % Minute \in Int
      BY <3>1, <3>2, Division
    <3> QED
      BY <3>1, <3>3
  <2>5. Work!Taken(w) = [from |-> from, to |-> from + w.seconds]
    <3>1. w.date = 0
      BY <1>9
    <3> HIDE DEF w
    <3>2. Work!Taken(w) = [from |-> 0 * Day + from, to |-> 0 * Day + from + w.seconds]
      BY <3>1 DEF Work!Taken, Work!At
    <3> HIDE DEF from
    <3>3. 0 * Day + from = from
      BY <2>4, Units
    <3> QED
      BY <3>2, <3>3
  <2>6. Work!Candidate(p, resolved').period = Taking(p)
    BY <1>2, <1>4, <1>5, CandidateIs
  <2> HIDE DEF w, from
  <2>7. ~Work!PeriodsOverlap(Read(w).period, Work!Candidate(p, resolved').period)
    BY <1>6, <2>3 DEF Work!Overlapping
  <2> QED
    BY <2>3, <2>5, <2>6, <2>7 DEF w
<1>10. ASSUME NEW q \in Work!Stored \ {p}, Work!Period(q).offset = Work!Period(p).offset
       PROVE  ~Work!PeriodsOverlap(Taking(q), Taking(p))
  <2>1. ~Work!PeriodsOverlap(Work!Period(p), Work!Period(q))
    BY <1>6 DEF Work!ProposalOverlap
  <2>2. /\ {Work!Period(p).from, Work!Period(p).to, Work!Period(p).offset} \subseteq Int
        /\ {Work!Period(q).from, Work!Period(q).to, Work!Period(q).offset} \subseteq Int
    BY <1>4, <1>5, StoredIsTyped
  <2> QED
    BY <1>10, <2>1, <2>2 DEF Work!PeriodsOverlap, Work!StartOf, Work!Length
<1> QED
  BY <1>4, <1>7, <1>8, <1>9, <1>10

(* What an audit approves was not submitted before, and is free on Tempo   *)
(* and of the other proposals it approves (drag_gateway.rs).               *)
THEOREM FreeIsApproved == Work!Spec => Work!ApprovedIsFree
BY WorkStart, WorkStep, ApprovalStep, PTL DEF Work!Spec, Work!ApprovedIsFree

-----------------------------------------------------------------------------
(* LocalSources. A date collected since its sources last changed has them  *)
(* in the journal as they are, and no older version of an event is live.   *)

SourceEvent(e) ==
  /\ DOMAIN e = EventFields /\ e.sequence \in Nat
  /\ \A f \in DOMAIN e : IsField(f, e[f])

\* A row of the version e of an event.
RowOf(r, e) ==
  \E date \in Dates :
    /\ ~Src!TextFails(e) /\ ~Src!DateFails(e, date)
    /\ \E start \in Src!OccurrenceStarts(e, date) : r = Src!CalendarRow(e, date, start)

RowsAreVersions(rows, e) ==
  \A r \in rows :
    /\ r.sequence \in 0 .. e.sequence /\ r.supersedes = Src!Supersedes(r.sequence)
    /\ r.sequence = e.sequence => RowOf(r, e)

SourcesIInv ==
  /\ calendar \in [cut : BOOLEAN, events : {calendar.events}]
  /\ IsFiniteSet(commits) /\ commits \subseteq SourceCommits
  /\ fresh \cup failed \subseteq Dates
  /\ \E e \in calendar.events :
       calendar.events = {e} /\ SourceEvent(e) /\ RowsAreVersions(journal.calendar, e)
  /\ \A date \in fresh : /\ ~Src!ScanFails(calendar, date)
                         /\ Src!ScanIcs(calendar, date) \subseteq journal.calendar
  /\ \A date \in fresh \cup failed : Src!ScanGit(date) \subseteq journal.git

LEMMA EventIsTyped ==
  ASSUME NEW e, SourceEvent(e)
  PROVE  /\ e.sequence \in Nat /\ e.exdates \subseteq Int
         /\ e.start \in Int \cup {NotSet} /\ e.end \in Int \cup {NotSet}
         /\ e.rule \in EventRules \cup {NotSet}
BY DEF SourceEvent, EventFields, IsField

(* A known instant is the only one of a local time, and shows it.          *)
LEMMA KnownIsShown ==
  ASSUME NEW e, NEW l \in Int, NEW i \in Src!KnownInstant(e.zone, l)
  PROVE  i \in Int /\ Src!KnownInstant(e.zone, l) = {i} /\ Src!Shows(e, i) = l
<1> DEFINE a == l - SourceZone.before
           b == l - SourceZone.after
           S == Src!Instants(SourceZone, l)
<1>1. a \in Int /\ b \in Int
  BY SourcesAssumption
<1>2. S \in SUBSET {a, b} /\ \A x \in S : Src!Wall(SourceZone, x) = l
  BY DEF Src!Instants
<1>3. Src!Shown(SourceZone, l) => S # {}
  BY DEF Src!Shown
<1> HIDE DEF a, b, S
<1>4. S # {} => Src!Min(S) \in S
  BY <1>1, <1>2, LeastOfTwo DEF Work!Min, Src!Min
<1>5. CASE e.zone = "UTC"
  BY <1>5 DEF Src!KnownInstant, Src!Shows
<1>6. CASE e.zone # "UTC"
  <2>1. /\ e.zone = "local" /\ Src!Shown(SourceZone, l)
        /\ Src!KnownInstant(e.zone, l) = {Src!Min(S)}
    BY <1>6 DEF Src!KnownInstant, S
  <2> QED
    BY <1>1, <1>2, <1>3, <1>4, <1>6, <2>1 DEF Src!Shows
<1> QED
  BY <1>5, <1>6

(* A rule's interval and count reach what they should.                     *)
LEMMA RuleCounts ==
  ASSUME NEW x \in Int, NEW n \in Nat \ {0}, NEW count \in Nat \cup {NotSet}
  PROVE  (x >= 0 /\ x % n = 0 /\ (count # NotSet => x \div n < count))
           <=> \E k \in 0 .. x : x = k * n /\ (count # NotSet => k \in 0 .. count - 1)
<1>1. ASSUME x >= 0, x % n = 0, count # NotSet => x \div n < count
      PROVE  \E k \in 0 .. x : x = k * n /\ (count # NotSet => k \in 0 .. count - 1)
  <2> DEFINE k == x \div n
  <2>1. k \in Int /\ x = n * k
    BY <1>1, Division
  <2>2. count # NotSet => k < count
    BY <1>1
  <2> HIDE DEF k
  <2>3. k <= -1 => k * n <= -n
    BY <2>1
  <2>4. k >= 0 => k * n >= k
    BY <2>1
  <2>5. k * n = x
    BY <2>1
  <2>6. k \in 0 .. x
    BY <1>1, <2>1, <2>3, <2>4, <2>5
  <2> QED
    BY <2>2, <2>5, <2>6
<1>2. ASSUME NEW k \in 0 .. x, x = k * n, count # NotSet => k \in 0 .. count - 1
      PROVE  x >= 0 /\ x % n = 0 /\ (count # NotSet => x \div n < count)
  <2>1. k \in Int /\ 0 \in 0 .. n - 1
    OBVIOUS
  <2>2. (k * n + 0) % n = 0 /\ (k * n + 0) \div n = k
    BY <2>1, Remainder
  <2>3. k * n + 0 = x
    BY <1>2, <2>1
  <2>4. x % n = 0 /\ x \div n = k
    BY <2>2, <2>3
  <2> QED
    BY <1>2, <2>1, <2>4
<1> QED
  BY <1>1, <1>2

LEMMA OccurrenceIs ==
  ASSUME NEW e, e.start \in Int, NEW date \in Int
  PROVE  /\ Src!FirstDate(e) \in Int /\ Src!OccurrenceLocal(e, date) \in Int
         /\ Src!FirstDate(e) = date => Src!OccurrenceLocal(e, date) = e.start
<1>1. SourceDay \in Nat \ {0}
  BY SourcesAssumption
<1> DEFINE s == e.start
<1>2. s \in Int
  OBVIOUS
<1> HIDE DEF s
<1>3. s \div SourceDay \in Int /\ s % SourceDay \in 0 .. SourceDay - 1
  BY <1>1, <1>2, Division
<1>4. s = SourceDay * (s \div SourceDay) + (s % SourceDay)
  BY <1>1, <1>2, Division
<1> QED
  BY <1>1, <1>2, <1>3, <1>4 DEF s, Src!FirstDate, Src!OccurrenceLocal, Src!DateOf, Src!ClockOf

LEMMA ReadableEvent ==
  ASSUME NEW e, SourceEvent(e), ~Src!TextFails(e)
  PROVE  /\ e.start \in Int /\ Src!KnownInstant(e.zone, e.start) # {}
         /\ Src!Daily(e) => /\ e.rule.interval \in Nat \ {0}
                            /\ e.rule.count \in Nat \cup {NotSet}
                            /\ e.rule.until \in Int \cup {NotSet}
BY EventIsTyped DEF Src!TextFails, Src!Daily, EventRules

(* An event has an occurrence where its rule has a date.                   *)
LEMMA OccursByRule ==
  ASSUME NEW e, SourceEvent(e), ~Src!TextFails(e), NEW date \in Dates,
         ~Src!DateFails(e, date)
  PROVE  Src!OccurrenceStarts(e, date) # {} <=> date \in Src!RuleDates(e)
<1>1. date \in Int
  BY SourcesAssumption
<1> DEFINE l == Src!OccurrenceLocal(e, date)
           x == date - Src!FirstDate(e)
<1>2. l \in Int /\ Src!FirstDate(e) \in Int /\ x \in Int
  BY <1>1, ReadableEvent, OccurrenceIs
<1>3. CASE ~Src!Daily(e)
  BY <1>3, ReadableEvent DEF Src!OccurrenceStarts, Src!RuleDates
<1>4. CASE Src!Daily(e)
  <2>1. /\ e.rule.interval \in Nat \ {0} /\ e.rule.count \in Nat \cup {NotSet}
        /\ e.exdates \subseteq Int
    BY <1>4, ReadableEvent, EventIsTyped
  <2>2. Src!OnRule(e, date) <=>
          \E k \in 0 .. x : /\ x = k * e.rule.interval
                            /\ e.rule.count # NotSet => k \in 0 .. e.rule.count - 1
    <3> HIDE DEF x
    <3>1. Src!OnRule(e, date) <=>
            /\ x >= 0 /\ x % e.rule.interval = 0
            /\ e.rule.count # NotSet => x \div e.rule.interval < e.rule.count
      BY DEF Src!OnRule, x
    <3> QED
      BY <1>2, <2>1, <3>1, RuleCounts
  <2>3. ASSUME NEW k \in 0 .. x
        PROVE  x = k * e.rule.interval <=> date = Src!FirstDate(e) + k * e.rule.interval
    <3>1. k * e.rule.interval \in Int
      BY <1>2, <2>1
    <3> QED
      BY <1>1, <1>2, <3>1
  <2>4. Src!OnRule(e, date) => Src!KnownInstant(e.zone, l) # {}
    BY <1>4 DEF Src!DateFails
  <2>5. ASSUME NEW i \in Src!KnownInstant(e.zone, l)
        PROVE  i \in UNION {Src!KnownInstant(e.zone, y) : y \in e.exdates} <=> l \in e.exdates
    <3>1. ASSUME NEW y \in e.exdates, i \in Src!KnownInstant(e.zone, y)
          PROVE  y = l
      <4>1. y \in Int /\ l \in Int
        BY <1>2, <2>1
      <4> HIDE DEF l
      <4>2. Src!Shows(e, i) = y
        BY <3>1, <4>1, KnownIsShown
      <4>3. Src!Shows(e, i) = l
        BY <4>1, KnownIsShown
      <4> QED
        BY <4>2, <4>3
    <3> QED
      BY <3>1
  <2>6. ASSUME NEW i \in Src!KnownInstant(e.zone, l)
        PROVE  Src!KnownInstant(e.zone, l) = {i}
    BY <1>2, KnownIsShown
  <2> DEFINE until == e.rule.until # NotSet =>
                        \A i \in Src!KnownInstant(e.zone, l) : i <= e.rule.until
  <2>7. date \in Src!RuleDates(e) <=> Src!OnRule(e, date) /\ l \notin e.exdates /\ until
    <3> HIDE DEF l, until
    <3>1. date \in Src!RuleDates(e) <=>
            \E k \in 0 .. x : /\ date = Src!FirstDate(e) + k * e.rule.interval
                              /\ e.rule.count # NotSet => k \in 0 .. e.rule.count - 1
                              /\ l \notin e.exdates /\ until
      BY <1>4 DEF Src!RuleDates, l, until
    <3> QED
      BY <2>2, <2>3, <3>1
  <2>8. ASSUME NEW i
        PROVE  i \in Src!OccurrenceStarts(e, date) <=>
                 /\ i \in Src!KnownInstant(e.zone, l) /\ Src!OnRule(e, date)
                 /\ e.rule.until # NotSet => i <= e.rule.until
                 /\ i \notin UNION {Src!KnownInstant(e.zone, y) : y \in e.exdates}
    BY <1>4, <2>1 DEF Src!OccurrenceStarts
  <2> HIDE DEF l
  <2> QED
    BY <2>4, <2>5, <2>6, <2>7, <2>8
<1> QED
  BY <1>3, <1>4

(* An occurrence with an interval has the clock times of its event.        *)
LEMMA IntervalShows ==
  ASSUME NEW e, SourceEvent(e), ~Src!TextFails(e), NEW date \in Int,
         ~Src!DateFails(e, date), NEW start \in Src!OccurrenceStarts(e, date),
         Src!CalendarRow(e, date, start).interval # NotSet
  PROVE  /\ Src!Shows(e, Src!CalendarRow(e, date, start).interval[1]) =
              Src!OccurrenceLocal(e, date)
         /\ Src!ClockOf(Src!Shows(e, Src!CalendarRow(e, date, start).interval[2])) =
              Src!ClockOf(e.end)
<1>1. Src!HasInterval(e) /\ Src!CalendarRow(e, date, start).interval =
                              <<start, Src!Min(Src!OccurrenceEnd(e, date))>>
  BY DEF Src!CalendarRow
<1>2. e.start \in Int /\ e.end \in Int
  BY <1>1, ReadableEvent, EventIsTyped DEF Src!HasInterval
<1> DEFINE l == Src!OccurrenceLocal(e, date)
           k == date - Src!FirstDate(e)
           m == IF Src!Daily(e) THEN e.end + k * SourceDay ELSE e.end
<1>3. l \in Int /\ Src!FirstDate(e) \in Int /\ k \in Int
  BY <1>2, OccurrenceIs
<1>4. Src!Shows(e, start) = l
  <2>1. start \in Src!KnownInstant(e.zone, l)
    BY <1>2, OccurrenceIs DEF Src!OccurrenceStarts
  <2> HIDE DEF l
  <2> QED
    BY <1>3, <2>1, KnownIsShown
<1>5. ~Src!IntervalFails(e, date, start)
  BY DEF Src!DateFails
<1>6. Src!OccurrenceEnd(e, date) = Src!KnownInstant(e.zone, m)
  BY <1>1, <1>5 DEF Src!OccurrenceEnd, Src!IntervalFails
<1>7. PICK end \in Src!KnownInstant(e.zone, m) : TRUE
  BY <1>1, <1>5, <1>6 DEF Src!IntervalFails
<1>8. m \in Int /\ Src!ClockOf(m) = Src!ClockOf(e.end)
  <2> HIDE DEF k
  <2>1. SourceDay \in Nat \ {0}
    BY SourcesAssumption
  <2>2. k * SourceDay \in Int
    BY <1>3, <2>1
  <2>3. (k * SourceDay) % SourceDay = 0
    BY <1>3, <2>1, <2>2, Multiple
  <2>4. (k * SourceDay + e.end) % SourceDay = e.end % SourceDay
    BY <1>2, <2>1, <2>2, <2>3, SameRemainder
  <2>5. k * SourceDay + e.end = e.end + k * SourceDay
    BY <1>2, <2>2
  <2> QED
    BY <1>2, <2>2, <2>4, <2>5 DEF Src!ClockOf
<1> HIDE DEF m, l, k
<1>9. /\ end \in Int /\ Src!KnownInstant(e.zone, m) = {end} /\ Src!Shows(e, end) = m
  BY <1>7, <1>8, KnownIsShown
<1>10. Src!Min({end}) = end
  BY <1>9 DEF Src!Min
<1>11. Src!CalendarRow(e, date, start).interval = <<start, end>>
  BY <1>1, <1>6, <1>9, <1>10
<1> QED
  BY <1>4, <1>8, <1>9, <1>11 DEF l

(* A set of numbers has a least one.                                       *)
LEMMA LeastNumber ==
  ASSUME NEW T \in SUBSET Nat, T # {}
  PROVE  \E n \in T : \A m \in T : ~(m < n)
<1> DEFINE less == OpToRel(<, Nat)
<1>1. IsWellFoundedOn(less, Nat)
  BY NatLessThanWellFounded
<1>2. \A m, n \in Nat : m < n => <<m, n>> \in less
  BY DEF OpToRel
<1> HIDE DEF less
<1>3. PICK n \in T : \A m \in T : ~(<<m, n>> \in less)
  BY <1>1, WFMin
<1> QED
  BY <1>2, <1>3

(* Of the rows of an occurrence exactly those of the newest version are    *)
(* live, and those of version 0 once there is a version 1.                 *)
LEMMA NewestIsLive ==
  ASSUME NEW e, SourceEvent(e), NEW all, RowsAreVersions(all, e), NEW r \in all
  PROVE  r \in Src!Live(all) <=>
           \/ \A s \in all : s.occurrence = r.occurrence => s.sequence <= r.sequence
           \/ r.sequence = 0 /\ \E s \in all : s.occurrence = r.occurrence /\ s.sequence = 1
<1>1. /\ NotSet \notin Int
      /\ \A s \in all : s.sequence \in Nat /\ s.supersedes = Src!Supersedes(s.sequence)
  BY EventIsTyped, SourcesAssumption DEF RowsAreVersions
<1> DEFINE newest == \A s \in all : s.occurrence = r.occurrence => s.sequence <= r.sequence
           kept == r.sequence = 0 /\ \E s \in all : s.occurrence = r.occurrence /\ s.sequence = 1
<1>2. ASSUME newest
      PROVE  r \in Src!Live(all)
  <2>1. \A s \in all : ~Src!Earlier(r, s)
    BY <1>1, <1>2 DEF Src!Earlier
  <2> QED
    BY <2>1 DEF Src!Live
<1>3. ASSUME kept
      PROVE  r \in Src!Live(all)
  <2>1. PICK t \in all : t.occurrence = r.occurrence /\ t.sequence = 1
    BY <1>3
  <2>2. ASSUME NEW s \in all, s.supersedes # NotSet, Src!Earlier(r, s)
        PROVE  Src!Earlier(r, t) /\ Src!Earlier(t, s)
    <3>1. s.sequence > 1
      BY <1>1, <2>2 DEF Src!Supersedes
    <3> QED
      BY <1>3, <2>1, <2>2, <3>1 DEF Src!Earlier
  <2> QED
    BY <2>1, <2>2 DEF Src!Live
<1>4. ASSUME ~newest, ~kept
      PROVE  r \notin Src!Live(all)
  <2> DEFINE Later == {s \in all : Src!Earlier(r, s)}
             T == {s.sequence : s \in Later}
  <2>1. Later # {}
    BY <1>1, <1>4 DEF Src!Earlier
  <2>2. T \in SUBSET Nat /\ T # {}
    BY <1>1, <2>1
  <2>3. \A s \in Later : s.sequence \in T
    OBVIOUS
  <2>4. \A n \in T : \E s \in Later : s.sequence = n
    OBVIOUS
  <2> HIDE DEF T
  <2>5. PICK n \in T : \A m \in T : ~(m < n)
    BY <2>2, LeastNumber
  <2>6. PICK s \in Later : s.sequence = n
    BY <2>4, <2>5
  <2>7. ASSUME NEW t \in all
        PROVE  ~(Src!Earlier(r, t) /\ Src!Earlier(t, s))
    BY <2>3, <2>5, <2>6 DEF Src!Earlier
  <2>8. s.supersedes # NotSet
    <3>1. /\ s.sequence \in Nat /\ r.sequence \in Nat /\ r.sequence < s.sequence
          /\ s.occurrence = r.occurrence
      BY <1>1, <2>6 DEF Src!Earlier
    <3>2. s.sequence # 1
      BY <1>4, <2>6, <3>1
    <3>3. s.sequence > 1 /\ s.sequence - 1 \in Int
      BY <3>1, <3>2
    <3> QED
      BY <1>1, <2>6, <3>3 DEF Src!Supersedes
  <2> QED
    BY <2>6, <2>7, <2>8 DEF Src!Live
<1> QED
  BY <1>2, <1>3, <1>4

(* With no more commits than the limit, none is left out.                  *)
LEMMA AllAreNewest ==
  ASSUME IsFiniteSet(commits), commits \subseteq SourceCommits,
         NEW c \in commits, NEW date, Src!DateOf(Src!Wall(SourceZone, c.committed)) = date,
         Src!Cardinality(commits) <= CommitLimit
  PROVE  Src!CommitRow(c) \in Src!ScanGit(date)
<1>1. c.committed \in Int /\ SourceZone.before \in Int /\ SourceZone.after \in Int
      /\ CommitLimit \in Nat
  BY SourcesAssumption
<1>2. c \in Src!CommittedOn(date)
  <2> DEFINE t == c.committed
             w == Src!Wall(SourceZone, t)
  <2>1. t \in {w - SourceZone.before, w - SourceZone.after}
    <3> HIDE DEF t
    <3>1. t \in Int
      BY <1>1 DEF t
    <3> QED
      BY <1>1, <3>1 DEF Src!Wall
  <2>2. t \in Src!Instants(SourceZone, w)
    <3> HIDE DEF t
    <3> QED
      BY <2>1 DEF Src!Instants
  <2> QED
    BY <2>2 DEF Src!CommittedOn
<1> DEFINE above == {d \in Src!CommittedOn(date) : d.committed > c.committed}
<1>3. above \subseteq commits \ {c}
  BY <1>1 DEF Src!CommittedOn
<1>4. /\ IsFiniteSet(commits \ {c}) /\ Cardinality(commits \ {c}) = Cardinality(commits) - 1
      /\ Cardinality(commits) \in Nat
  BY FS_RemoveElement, FS_CardinalityType
<1> HIDE DEF above
<1>5. IsFiniteSet(above) /\ Cardinality(above) <= Cardinality(commits \ {c})
  BY <1>3, <1>4, FS_Subset
<1>6. Cardinality(above) \in Nat
  BY <1>5, FS_CardinalityType
<1>7. Src!Cardinality(commits) = Cardinality(commits) /\ Src!Cardinality(above) = Cardinality(above)
  BY DEF Src!Cardinality, Cardinality
<1>8. Src!Cardinality(above) < CommitLimit
  BY <1>1, <1>4, <1>5, <1>6, <1>7
<1> QED
  BY <1>2, <1>8 DEF Src!ScanGit, Src!Newest, above

LEMMA SourcesStart == Src!Init => SourcesIInv
<1> SUFFICES ASSUME Src!Init
             PROVE  SourcesIInv
  OBVIOUS
<1>1. PICK e \in SourceEvents : calendar = [cut |-> FALSE, events |-> {e}]
  BY DEF Src!Init
<1>2. SourceEvent(e)
  BY SourcesAssumption DEF SourceEvent
<1>3. RowsAreVersions(journal.calendar, e)
  BY DEF Src!Init, RowsAreVersions
<1>4. IsFiniteSet(commits) /\ commits \subseteq SourceCommits
  BY FS_EmptySet DEF Src!Init
<1> QED
  BY <1>1, <1>2, <1>3, <1>4 DEF Src!Init, SourcesIInv

(* An edit makes another version of the event.                             *)
LEMMA EditsAreVersions ==
  ASSUME NEW e, SourceEvent(e), NEW edit \in SourceEdits, NEW next,
         next = [f \in DOMAIN e |->
                   CASE f \in DOMAIN edit -> edit[f]
                     [] f = "sequence" -> e.sequence + 1
                     [] OTHER -> e[f]]
  PROVE  SourceEvent(next) /\ next.sequence = e.sequence + 1
<1>1. DOMAIN next = EventFields /\ e.sequence \in Nat /\ "sequence" \in DOMAIN e
  BY DEF SourceEvent, EventFields
<1>2. "sequence" \notin DOMAIN edit
  BY SourcesAssumption
<1>3. next.sequence = e.sequence + 1
  BY <1>1, <1>2
<1>4. ASSUME NEW f \in DOMAIN next
      PROVE  IsField(f, next[f])
  <2>1. CASE f \in DOMAIN edit
    BY <2>1, SourcesAssumption
  <2>2. CASE f = "sequence"
    BY <2>2 DEF IsField
  <2>3. CASE f \notin DOMAIN edit /\ f # "sequence"
    BY <2>3 DEF SourceEvent
  <2> QED
    BY <2>1, <2>2, <2>3
<1> QED
  BY <1>1, <1>3, <1>4 DEF SourceEvent

LEMMA SourcesStep == SourcesIInv /\ [Src!Next]_(Src!vars) => SourcesIInv'
<1> SUFFICES ASSUME SourcesIInv, [Src!Next]_(Src!vars)
             PROVE  SourcesIInv'
  OBVIOUS
<1>1. PICK e \in calendar.events :
        calendar.events = {e} /\ SourceEvent(e) /\ RowsAreVersions(journal.calendar, e)
  BY DEF SourcesIInv
<1>2. /\ calendar \in [cut : BOOLEAN, events : {calendar.events}]
      /\ IsFiniteSet(commits) /\ commits \subseteq SourceCommits
      /\ fresh \cup failed \subseteq Dates
      /\ \A date \in fresh : /\ ~Src!ScanFails(calendar, date)
                             /\ Src!ScanIcs(calendar, date) \subseteq journal.calendar
      /\ \A date \in fresh \cup failed : Src!ScanGit(date) \subseteq journal.git
  BY DEF SourcesIInv
<1>3. ASSUME commits' = commits
      PROVE  \A date : Src!ScanGit(date)' = Src!ScanGit(date)
  BY <1>3 DEF Src!ScanGit, Src!Newest, Src!CommittedOn
<1>4. CASE Src!Setup \/ UNCHANGED Src!vars
  <2>1. /\ calendar' = calendar /\ commits' = commits /\ journal' = journal
        /\ fresh' = fresh /\ failed' = failed
    BY <1>4 DEF Src!Setup, Src!vars
  <2> QED
    BY <1>1, <1>2, <1>3, <2>1 DEF SourcesIInv
<1>5. CASE Src!EditEvent
  <2>1. PICK f \in calendar.events, edit \in SourceEdits :
          calendar' = [cut |-> FALSE,
                       events |-> {[g \in DOMAIN f |->
                         CASE g \in DOMAIN edit -> edit[g]
                           [] g = "sequence" -> f.sequence + 1
                           [] OTHER -> f[g]]}]
    BY <1>5 DEF Src!EditEvent
  <2> DEFINE next == [g \in DOMAIN e |->
                         CASE g \in DOMAIN edit -> edit[g]
                           [] g = "sequence" -> e.sequence + 1
                           [] OTHER -> e[g]]
  <2>2. calendar' = [cut |-> FALSE, events |-> {next}]
    BY <1>1, <2>1
  <2>3. SourceEvent(next) /\ next.sequence = e.sequence + 1
    BY <1>1, EditsAreVersions
  <2>4. /\ commits' = commits /\ journal' = journal /\ fresh' = {} /\ failed' = {}
    BY <1>5 DEF Src!EditEvent, Src!Changed
  <2> HIDE DEF next
  <2>5. RowsAreVersions(journal'.calendar, next)
    BY <1>1, <2>3, <2>4 DEF RowsAreVersions, SourceEvent
  <2>6. calendar'.events = {next} /\ calendar' \in [cut : BOOLEAN, events : {calendar'.events}]
    BY <2>2
  <2> QED
    BY <1>2, <2>3, <2>4, <2>5, <2>6 DEF SourcesIInv
<1>6. CASE Src!CutFile
  <2>1. calendar' = [calendar EXCEPT !.cut = TRUE]
    BY <1>6 DEF Src!CutFile
  <2>2. /\ calendar'.events = calendar.events
        /\ calendar' \in [cut : BOOLEAN, events : {calendar'.events}]
    BY <1>2, <2>1
  <2>3. /\ commits' = commits /\ journal' = journal /\ fresh' = {} /\ failed' = {}
    BY <1>6 DEF Src!CutFile, Src!Changed
  <2> QED
    BY <1>1, <1>2, <2>2, <2>3 DEF SourcesIInv
<1>7. CASE Src!Commit
  <2>1. PICK c \in SourceCommits \ commits : commits' = commits \cup {c}
    BY <1>7 DEF Src!Commit
  <2>2. IsFiniteSet(commits') /\ commits' \subseteq SourceCommits
    BY <1>2, <2>1, FS_AddElement
  <2>3. /\ calendar' = calendar /\ journal' = journal /\ fresh' = {} /\ failed' = {}
    BY <1>7 DEF Src!Commit, Src!Changed
  <2> QED
    BY <1>1, <1>2, <2>2, <2>3 DEF SourcesIInv
<1>8. ASSUME NEW date \in Dates, Src!Collect(date)
      PROVE  SourcesIInv'
  <2> DEFINE fails == Src!ScanFails(calendar, date)
             found == IF fails THEN {} ELSE Src!ScanIcs(calendar, date)
  <2>1. /\ calendar' = calendar /\ commits' = commits
        /\ journal'.calendar = journal.calendar \cup found
        /\ journal'.git = journal.git \cup Src!ScanGit(date)
        /\ fails => failed' = failed \cup {date} /\ fresh' = fresh
        /\ ~fails => fresh' = fresh \cup {date} /\ failed' = failed
    BY <1>8 DEF Src!Collect
  <2>2. ASSUME NEW r \in found
        PROVE  /\ r.sequence \in 0 .. e.sequence /\ r.supersedes = Src!Supersedes(r.sequence)
               /\ RowOf(r, e)
    <3>1. ~Src!TextFails(e) /\ ~Src!DateFails(e, date)
      BY <1>1, <2>2 DEF Src!ScanFails
    <3>2. PICK start \in Src!OccurrenceStarts(e, date) : r = Src!CalendarRow(e, date, start)
      BY <1>1, <2>2 DEF Src!ScanIcs
    <3>3. r.sequence = e.sequence /\ r.supersedes = Src!Supersedes(r.sequence)
      BY <3>2 DEF Src!CalendarRow
    <3>4. r.sequence \in 0 .. e.sequence
      BY <1>1, <3>3 DEF SourceEvent
    <3> QED
      BY <3>1, <3>2, <3>3, <3>4 DEF RowOf
  <2>3. RowsAreVersions(journal'.calendar, e)
    <3> HIDE DEF found, fails
    <3> QED
      BY <1>1, <2>1, <2>2 DEF RowsAreVersions
  <2>4. \A d \in fresh' : /\ ~Src!ScanFails(calendar', d)
                          /\ Src!ScanIcs(calendar', d) \subseteq journal'.calendar
    BY <1>2, <2>1
  <2>5. \A d \in fresh' \cup failed' : Src!ScanGit(d)' \subseteq journal'.git
    <3> HIDE DEF found, fails
    <3>1. \A d \in fresh' \cup failed' : d \in fresh \cup failed \cup {date}
      BY <2>1
    <3>2. \A d \in fresh \cup failed \cup {date} : Src!ScanGit(d) \subseteq journal'.git
      BY <1>2, <2>1
    <3> QED
      BY <1>3, <2>1, <3>1, <3>2
  <2>6. fresh' \cup failed' \subseteq Dates
    <3> HIDE DEF found, fails
    <3> QED
      BY <1>2, <2>1
  <2> HIDE DEF found, fails
  <2>7. /\ calendar' \in [cut : BOOLEAN, events : {calendar'.events}]
        /\ IsFiniteSet(commits') /\ commits' \subseteq SourceCommits
        /\ e \in calendar'.events /\ calendar'.events = {e}
    BY <1>1, <1>2, <2>1
  <2> QED
    BY <1>1, <2>3, <2>4, <2>5, <2>6, <2>7 DEF SourcesIInv
<1> QED
  BY <1>4, <1>5, <1>6, <1>7, <1>8 DEF Src!Next

(* A date collected since its sources changed has them in the journal as   *)
(* they are: a row of each event's version exactly where its rule has an   *)
(* occurrence, at its clock times; of the versions of a date the newest is *)
(* live and none beside it but a version 0 that version 1 left live; and   *)
(* every commit of the date (collectors.rs, evidence_sources.rs).          *)
THEOREM JournalIsCurrent == Src!Spec => []Src!CollectedIsCurrent
<1>1. SourcesIInv => Src!CollectedIsCurrent
  <2> SUFFICES ASSUME SourcesIInv
               PROVE  Src!CollectedIsCurrent
    OBVIOUS
  <2>1. PICK e \in calendar.events :
          calendar.events = {e} /\ SourceEvent(e) /\ RowsAreVersions(journal.calendar, e)
    BY DEF SourcesIInv
  <2> DEFINE rows(d) == {r \in journal.calendar : r.occurrence = Src!Occurrence(e, d)}
             now(d) == {r \in rows(d) : r.sequence = e.sequence}
  <2>2. ASSUME NEW date \in fresh
        PROVE  /\ now(date) # {} <=> date \in Src!RuleDates(e)
               /\ \A r \in now(date) : r.interval # NotSet =>
                    /\ Src!Shows(e, r.interval[1]) = Src!OccurrenceLocal(e, date)
                    /\ Src!ClockOf(Src!Shows(e, r.interval[2])) = Src!ClockOf(e.end)
               /\ rows(date) \cap Src!Live(journal.calendar) = Src!LiveVersions(rows(date))
               /\ \A r \in rows(date) : r.sequence <= e.sequence
    <3>1. /\ date \in Dates /\ ~Src!ScanFails(calendar, date)
          /\ Src!ScanIcs(calendar, date) \subseteq journal.calendar
      BY DEF SourcesIInv
    <3>2. date \in Int /\ ~Src!TextFails(e) /\ ~Src!DateFails(e, date)
      BY <2>1, <3>1, SourcesAssumption DEF Src!ScanFails
    <3>3. ASSUME NEW r \in now(date)
          PROVE  \E start \in Src!OccurrenceStarts(e, date) : r = Src!CalendarRow(e, date, start)
      <4>1. RowOf(r, e) /\ r.occurrence = <<e.uid, date>>
        BY <2>1 DEF RowsAreVersions, Src!Occurrence
      <4>2. PICK d \in Dates :
              \E start \in Src!OccurrenceStarts(e, d) : r = Src!CalendarRow(e, d, start)
        BY <4>1 DEF RowOf
      <4>3. r.occurrence = <<e.uid, d>>
        BY <4>2 DEF Src!CalendarRow, Src!Occurrence
      <4> QED
        BY <4>1, <4>2, <4>3
    <3>4. ASSUME NEW start \in Src!OccurrenceStarts(e, date)
          PROVE  Src!CalendarRow(e, date, start) \in now(date)
      <4>1. Src!CalendarRow(e, date, start) \in journal.calendar
        BY <2>1, <3>1 DEF Src!ScanIcs
      <4> QED
        BY <4>1 DEF Src!CalendarRow
    <3>5. now(date) # {} <=> date \in Src!RuleDates(e)
      <4>1. now(date) # {} <=> Src!OccurrenceStarts(e, date) # {}
        BY <3>3, <3>4
      <4> QED
        BY <2>1, <3>1, <3>2, <4>1, OccursByRule
    <3>6. ASSUME NEW r \in now(date), r.interval # NotSet
          PROVE  /\ Src!Shows(e, r.interval[1]) = Src!OccurrenceLocal(e, date)
                 /\ Src!ClockOf(Src!Shows(e, r.interval[2])) = Src!ClockOf(e.end)
      <4>1. PICK start \in Src!OccurrenceStarts(e, date) : r = Src!CalendarRow(e, date, start)
        BY <3>3
      <4> QED
        BY <2>1, <3>2, <3>6, <4>1, IntervalShows
    <3>7. rows(date) \cap Src!Live(journal.calendar) = Src!LiveVersions(rows(date))
      <4>1. ASSUME NEW r \in rows(date)
            PROVE  r \in Src!Live(journal.calendar) <=>
                     \/ \A s \in rows(date) : s.sequence <= r.sequence
                     \/ r.sequence = 0 /\ \E s \in rows(date) : s.sequence = 1
        BY <2>1, NewestIsLive
      <4> HIDE DEF rows
      <4> QED
        BY <4>1 DEF Src!LiveVersions
    <3>8. \A r \in rows(date) : r.sequence <= e.sequence
      BY <2>1, EventIsTyped DEF RowsAreVersions
    <3> HIDE DEF now, rows
    <3> QED
      BY <3>5, <3>6, <3>7, <3>8
  <2>3. ASSUME NEW date \in fresh \cup failed, NEW c \in commits,
               Src!DateOf(Src!Wall(SourceZone, c.committed)) = date,
               Src!Cardinality(commits) <= CommitLimit
        PROVE  Src!CommitRow(c) \in journal.git
    <3>1. /\ IsFiniteSet(commits) /\ commits \subseteq SourceCommits
          /\ Src!ScanGit(date) \subseteq journal.git
      BY DEF SourcesIInv
    <3> QED
      BY <2>3, <3>1, AllAreNewest
  <2> QED
    BY <2>1, <2>2, <2>3 DEF Src!CollectedIsCurrent
<1> QED
  BY <1>1, SourcesStart, SourcesStep, PTL DEF Src!Spec

-----------------------------------------------------------------------------
(* DocumentCache. For any number of processes and documents: numbers only  *)
(* grow, so that of two files written in order the tag is never ahead of   *)
(* its document while one process writes at a time.                        *)

Known == {n \in WellFormed : n <= server}

LoadsTyped ==
  /\ server \in 1..LastDocument
  /\ cache \in Known \cup {NotSet} /\ etag \in Known \cup {NotSet}
  /\ young \in BOOLEAN /\ overlapped \in BOOLEAN
  /\ DOMAIN load = Loaders
  /\ \A l \in Loaders :
       /\ load[l] \in [at : {"idle", "asked", "writing", "loaded"}, doc : Known \cup {NotSet},
                       sent : Known \cup {NotSet}, todo : Seq({"cache", "tag"})]
       /\ load[l].at \in {"writing", "loaded"} => load[l].doc \in WellFormed
       /\ load[l].at = "writing" => load[l].todo \in {<<"cache">>, <<"tag">>, Docs!WriteOrder}

(* Of a number that may be none: it is not before another.                 *)
NotAfter(tag, doc) == tag # NotSet /\ doc # NotSet => tag <= doc

(* What a process has in hand is as new as the files.                      *)
LoadAhead(l) ==
  /\ load[l].at = "asked" => load[l].sent \in {NotSet, etag}
  /\ load[l].at = "writing" => NotAfter(etag, load[l].doc) /\ NotAfter(cache, load[l].doc)
  /\ load[l].at = "writing" /\ load[l].todo = <<"tag">> => cache = load[l].doc

Ordered ==
  /\ \A l, m \in Loaders : Docs!UnderWay(l) /\ Docs!UnderWay(m) => l = m
  /\ NotAfter(etag, cache)
  /\ \A l \in Loaders : LoadAhead(l)

DocsIInv == LoadsTyped /\ (~overlapped => Ordered)

LEMMA QueuesOfTwo ==
  /\ Head(<<"cache">>) = "cache" /\ Tail(<<"cache">>) = <<>> /\ Len(<<"cache">>) = 1
  /\ Head(<<"tag">>) = "tag" /\ Tail(<<"tag">>) = <<>> /\ Len(<<"tag">>) = 1
  /\ Head(Docs!WriteOrder) = "cache" /\ Tail(Docs!WriteOrder) = <<"tag">>
  /\ Len(Docs!WriteOrder) = 2
  /\ {<<>>, <<"cache">>, <<"tag">>, Docs!WriteOrder} \subseteq Seq({"cache", "tag"})
  /\ <<"cache">> # <<"tag">> /\ Docs!WriteOrder # <<"tag">> /\ Docs!WriteOrder # <<"cache">>
BY DEF Docs!WriteOrder

(* A step of one process, by what it leaves in that process's hand.        *)
LoadOf(r) ==
  /\ r \in [at : {"idle", "asked", "writing", "loaded"}, doc : Known \cup {NotSet},
            sent : Known \cup {NotSet}, todo : Seq({"cache", "tag"})]
  /\ r.at \in {"writing", "loaded"} => r.doc \in WellFormed
  /\ r.at = "writing" => r.todo \in {<<"cache">>, <<"tag">>, Docs!WriteOrder}

LEMMA IdleIsLoad == LoadOf(Docs!Idle)
BY QueuesOfTwo DEF LoadOf, Docs!Idle

LEMMA DocsStart == Docs!Init => DocsIInv
<1> SUFFICES ASSUME Docs!Init PROVE DocsIInv
  OBVIOUS
<1>1. /\ DOMAIN load = Loaders /\ \A l \in Loaders : load[l] = Docs!Idle
      /\ server = 1 /\ cache = NotSet /\ etag = NotSet /\ young = FALSE /\ overlapped = FALSE
  BY DEF Docs!Init
<1>2. LoadsTyped
  <2>1. server \in 1..LastDocument
    BY <1>1, DocumentsAssumption
  <2> QED
    BY <1>1, <2>1, IdleIsLoad DEF LoadsTyped, LoadOf
<1>3. Ordered
  BY <1>1 DEF Ordered, LoadAhead, NotAfter, Docs!UnderWay, Docs!Idle
<1> QED
  BY <1>2, <1>3 DEF DocsIInv

(* Types are kept by a step that changes one process and files.            *)
LEMMA OneLoads ==
  ASSUME LoadsTyped, NEW l \in Loaders, NEW r,
         load' = [load EXCEPT ![l] = r], LoadOf(r), server' = server,
         cache' \in Known \cup {NotSet}, etag' \in Known \cup {NotSet},
         young' \in BOOLEAN, overlapped' \in BOOLEAN
  PROVE  LoadsTyped'
<1>1. Known' = Known
  BY DEF Known
<1>2. DOMAIN load' = Loaders /\ load'[l] = r /\ \A m \in Loaders \ {l} : load'[m] = load[m]
  BY DEF LoadsTyped
<1>3. \A m \in Loaders : LoadOf(load'[m])
  BY <1>2 DEF LoadsTyped, LoadOf
<1> QED
  BY <1>1, <1>2, <1>3 DEF LoadsTyped, LoadOf, Docs!WriteOrder

(* The other processes are idle or have what they will use.                *)
LEMMA OthersRest ==
  ASSUME LoadsTyped, Ordered, NEW l \in Loaders, NEW r,
         load' = [load EXCEPT ![l] = r],
         Docs!UnderWay(l) \/ ~(\E m \in Loaders : Docs!UnderWay(m)) \/ r.at = "loaded"
           \/ r.at = "idle"
  PROVE  \A m, n \in Loaders : Docs!UnderWay(m)' /\ Docs!UnderWay(n)' => m = n
<1>1. load'[l] = r /\ \A m \in Loaders \ {l} : load'[m] = load[m]
  BY DEF LoadsTyped
<1> QED
  BY <1>1 DEF Ordered, Docs!UnderWay

LEMMA DocsStep == DocsIInv /\ [Docs!Next]_(Docs!vars) => DocsIInv'
<1> SUFFICES ASSUME DocsIInv, [Docs!Next]_(Docs!vars) PROVE DocsIInv'
  OBVIOUS
<1>a. LoadsTyped /\ (~overlapped => Ordered)
  BY DEF DocsIInv
<1>b. server \in Nat /\ Known \subseteq Nat /\ NotSet \notin Nat /\ Known \subseteq WellFormed
  <2>1. server \in 1..LastDocument
    BY <1>a DEF LoadsTyped
  <2>2. Known \subseteq WellFormed /\ WellFormed \subseteq 1..LastDocument
    BY DocumentsAssumption DEF Known
  <2>3. 1..LastDocument \subseteq Nat /\ NotSet \notin Nat
    BY DocumentsAssumption
  <2> QED
    BY <2>1, <2>2, <2>3
<1>1. CASE Docs!Publish
  <2>1. Known \subseteq Known' /\ server' \in 1..LastDocument
    BY <1>a, <1>b, <1>1, DocumentsAssumption DEF Docs!Publish, Known, LoadsTyped
  <2>2. LoadsTyped'
    BY <1>a, <1>1, <2>1 DEF Docs!Publish, LoadsTyped, Docs!WriteOrder
  <2>3. ASSUME ~overlapped' PROVE Ordered'
    BY <1>a, <1>1, <2>3 DEF Docs!Publish, Ordered, LoadAhead, NotAfter, Docs!UnderWay
  <2> QED
    BY <2>2, <2>3 DEF DocsIInv
<1>2. CASE Docs!Expire
  <2>1. LoadsTyped'
    BY <1>a, <1>2 DEF Docs!Expire, LoadsTyped, Known, Docs!WriteOrder
  <2>2. ASSUME ~overlapped' PROVE Ordered'
    BY <1>a, <1>2, <2>2 DEF Docs!Expire, Ordered, LoadAhead, NotAfter, Docs!UnderWay
  <2> QED
    BY <2>1, <2>2 DEF DocsIInv
<1>3. ASSUME NEW l \in Loaders, Docs!UseFresh(l) PROVE DocsIInv'
  <2> DEFINE r == [Docs!Idle EXCEPT !.at = "loaded", !.doc = cache]
  <2>1. cache # NotSet /\ load' = [load EXCEPT ![l] = r]
        /\ UNCHANGED <<server, cache, etag, young, overlapped>>
    BY <1>3 DEF Docs!UseFresh
  <2>2. LoadOf(r) /\ r.at = "loaded"
    BY <1>a, <1>b, <2>1, QueuesOfTwo DEF LoadsTyped, LoadOf, Docs!Idle
  <2> HIDE DEF r
  <2>3. LoadsTyped'
    <3>1. /\ server' = server /\ cache' \in Known \cup {NotSet} /\ etag' \in Known \cup {NotSet}
          /\ young' \in BOOLEAN /\ overlapped' \in BOOLEAN
      BY <1>a, <2>1 DEF LoadsTyped
    <3> QED
      BY <1>a, <2>1, <2>2, <3>1, OneLoads
  <2>4. ASSUME ~overlapped' PROVE Ordered'
    <3>1. Ordered
      BY <1>a, <2>1, <2>4
    <3>2. \A m, n \in Loaders : Docs!UnderWay(m)' /\ Docs!UnderWay(n)' => m = n
      BY <1>a, <2>1, <2>2, <3>1, OthersRest
    <3>3. load'[l] = r /\ \A m \in Loaders \ {l} : load'[m] = load[m]
      BY <1>a, <2>1 DEF LoadsTyped
    <3> QED
      BY <2>1, <2>2, <3>1, <3>2, <3>3 DEF Ordered, LoadAhead, NotAfter
  <2> QED
    BY <2>3, <2>4 DEF DocsIInv
<1>4. ASSUME NEW l \in Loaders, Docs!Ask(l) PROVE DocsIInv'
  <2> DEFINE r == [Docs!Idle EXCEPT !.at = "asked",
                                    !.sent = IF cache = NotSet THEN NotSet ELSE etag]
  <2>1. /\ load' = [load EXCEPT ![l] = r]
        /\ overlapped' = (overlapped \/ \E m \in Loaders : Docs!UnderWay(m))
        /\ UNCHANGED <<server, cache, etag, young>>
    BY <1>4 DEF Docs!Ask
  <2>2. LoadOf(r) /\ r.at = "asked" /\ r.sent \in {NotSet, etag}
    BY <1>a, <1>b, <2>1, QueuesOfTwo DEF LoadsTyped, LoadOf, Docs!Idle
  <2> HIDE DEF r
  <2>3. LoadsTyped'
    <3>1. /\ server' = server /\ cache' \in Known \cup {NotSet} /\ etag' \in Known \cup {NotSet}
          /\ young' \in BOOLEAN
      BY <1>a, <2>1 DEF LoadsTyped
    <3>2. overlapped' \in BOOLEAN
      BY <2>1
    <3> QED
      BY <1>a, <2>1, <2>2, <3>1, <3>2, OneLoads
  <2>4. ASSUME ~overlapped' PROVE Ordered'
    <3>1. Ordered /\ ~(\E m \in Loaders : Docs!UnderWay(m))
      BY <1>a, <2>1, <2>4
    <3>2. \A m, n \in Loaders : Docs!UnderWay(m)' /\ Docs!UnderWay(n)' => m = n
      BY <1>a, <2>1, <3>1, OthersRest
    <3>3. load'[l] = r /\ \A m \in Loaders \ {l} : load'[m] = load[m]
      BY <1>a, <2>1 DEF LoadsTyped
    <3> QED
      BY <2>1, <2>2, <3>1, <3>2, <3>3 DEF Ordered, LoadAhead, NotAfter
  <2> QED
    BY <2>3, <2>4 DEF DocsIInv
<1>5. ASSUME NEW l \in Loaders, Docs!NotModified(l) PROVE DocsIInv'
  <2> DEFINE w == [load[l] EXCEPT !.at = "writing", !.doc = cache, !.todo = <<"cache">>]
             r == IF cache = NotSet THEN Docs!Idle ELSE w
  <2>1. /\ load[l].at = "asked" /\ load[l].sent = server
        /\ load' = [load EXCEPT ![l] = r]
        /\ UNCHANGED <<server, cache, etag, young, overlapped>>
    BY <1>5 DEF Docs!NotModified
  <2>2. /\ LoadOf(r) /\ r.at \in {"idle", "writing"}
        /\ r.at = "writing" => cache # NotSet /\ r.doc = cache /\ r.todo = <<"cache">>
    <3>1. CASE cache = NotSet
      BY <3>1, IdleIsLoad DEF Docs!Idle
    <3>2. CASE cache # NotSet
      BY <1>a, <1>b, <3>2, QueuesOfTwo DEF LoadsTyped, LoadOf
    <3> QED
      BY <3>1, <3>2
  <2> HIDE DEF r
  <2>3. LoadsTyped'
    <3>1. /\ server' = server /\ cache' \in Known \cup {NotSet} /\ etag' \in Known \cup {NotSet}
          /\ young' \in BOOLEAN /\ overlapped' \in BOOLEAN
      BY <1>a, <2>1 DEF LoadsTyped
    <3> QED
      BY <1>a, <2>1, <2>2, <3>1, OneLoads
  <2>4. ASSUME ~overlapped' PROVE Ordered'
    <3>1. Ordered
      BY <1>a, <2>1, <2>4
    <3>2. \A m, n \in Loaders : Docs!UnderWay(m)' /\ Docs!UnderWay(n)' => m = n
      BY <1>a, <2>1, <3>1, OthersRest DEF Docs!UnderWay
    <3>3. load'[l] = r /\ \A m \in Loaders \ {l} : load'[m] = load[m]
      BY <1>a, <2>1 DEF LoadsTyped
    <3>4. cache \in Nat \cup {NotSet} /\ (NotAfter(etag, cache) => NotAfter(etag, cache)')
      BY <1>a, <1>b, <2>1 DEF LoadsTyped, NotAfter
    <3>5. LoadAhead(l)'
      BY <1>b, <2>1, <2>2, <3>1, <3>3, <3>4, QueuesOfTwo DEF Ordered, LoadAhead, NotAfter
    <3> QED
      BY <2>1, <3>1, <3>2, <3>3, <3>5 DEF Ordered, LoadAhead, NotAfter
  <2> QED
    BY <2>3, <2>4 DEF DocsIInv
<1>6. ASSUME NEW l \in Loaders, Docs!Fetched(l) PROVE DocsIInv'
  <2> DEFINE w == [load[l] EXCEPT !.at = "writing", !.doc = server,
                     !.todo = IF server \in Tagged THEN Docs!WriteOrder ELSE <<"cache">>]
             r == IF server \notin WellFormed THEN Docs!Idle ELSE w
  <2>1. /\ load[l].at = "asked"
        /\ load' = [load EXCEPT ![l] = r]
        /\ UNCHANGED <<server, cache, etag, young, overlapped>>
    BY <1>6 DEF Docs!Fetched
  <2>2. /\ LoadOf(r) /\ r.at \in {"idle", "writing"}
        /\ r.at = "writing" => r.doc = server /\ r.todo # <<"tag">>
    <3>1. CASE server \notin WellFormed
      BY <3>1, IdleIsLoad DEF Docs!Idle
    <3>2. CASE server \in WellFormed
      <4>1. server \in Known
        BY <1>b, <3>2 DEF Known
      <4> QED
        BY <1>a, <3>2, <4>1, QueuesOfTwo DEF LoadsTyped, LoadOf
    <3> QED
      BY <3>1, <3>2
  <2> HIDE DEF r
  <2>3. LoadsTyped'
    <3>1. /\ server' = server /\ cache' \in Known \cup {NotSet} /\ etag' \in Known \cup {NotSet}
          /\ young' \in BOOLEAN /\ overlapped' \in BOOLEAN
      BY <1>a, <2>1 DEF LoadsTyped
    <3> QED
      BY <1>a, <2>1, <2>2, <3>1, OneLoads
  <2>4. ASSUME ~overlapped' PROVE Ordered'
    <3>1. Ordered
      BY <1>a, <2>1, <2>4
    <3>2. \A m, n \in Loaders : Docs!UnderWay(m)' /\ Docs!UnderWay(n)' => m = n
      BY <1>a, <2>1, <3>1, OthersRest DEF Docs!UnderWay
    <3>3. load'[l] = r /\ \A m \in Loaders \ {l} : load'[m] = load[m]
      BY <1>a, <2>1 DEF LoadsTyped
    <3>4. NotAfter(etag, server) /\ NotAfter(cache, server)
      BY <1>a DEF LoadsTyped, Known, NotAfter
    <3>5. LoadAhead(l)'
      BY <2>1, <2>2, <3>3, <3>4 DEF LoadAhead, NotAfter
    <3> QED
      BY <2>1, <3>1, <3>2, <3>3, <3>5 DEF Ordered, LoadAhead, NotAfter
  <2> QED
    BY <2>3, <2>4 DEF DocsIInv
<1>7. ASSUME NEW l \in Loaders, Docs!WriteCache(l) \/ Docs!WriteTag(l) PROVE DocsIInv'
  <2> DEFINE r == [load[l] EXCEPT !.todo = Tail(@),
                     !.at = IF Len(load[l].todo) = 1 THEN "loaded" ELSE @]
             d == load[l].doc
  <2>1. /\ load[l].at = "writing"
        /\ load' = [load EXCEPT ![l] = r]
        /\ UNCHANGED <<server, overlapped>>
    BY <1>7 DEF Docs!WriteCache, Docs!WriteTag, Docs!Writing, Docs!Written
  <2>2. \/ Docs!Writing(l, "cache") /\ cache' = d /\ young' = TRUE /\ etag' = etag
        \/ Docs!Writing(l, "tag") /\ etag' = d /\ cache' = cache /\ young' = young
    BY <1>7 DEF Docs!WriteCache, Docs!WriteTag
  <2>3. load[l].todo \in {<<"cache">>, <<"tag">>, Docs!WriteOrder} /\ d \in Known
    BY <1>a, <1>b, <2>1, DocumentsAssumption DEF LoadsTyped
  <2>4. /\ LoadOf(r) /\ r.doc = d /\ r.at \in {"loaded", "writing"}
        /\ r.at = "writing" => r.todo = <<"tag">> /\ load[l].todo = Docs!WriteOrder
    BY <1>a, <2>1, <2>3, QueuesOfTwo DEF LoadsTyped, LoadOf
  <2> HIDE DEF r
  <2>5. LoadsTyped'
    <3>1. /\ server' = server /\ cache' \in Known \cup {NotSet} /\ etag' \in Known \cup {NotSet}
          /\ young' \in BOOLEAN /\ overlapped' \in BOOLEAN
      BY <1>a, <2>1, <2>2, <2>3 DEF LoadsTyped
    <3> QED
      BY <1>a, <2>1, <2>4, <3>1, OneLoads
  <2>6. ASSUME ~overlapped' PROVE Ordered'
    <3>1. Ordered
      BY <1>a, <2>1, <2>6
    <3>2. \A m, n \in Loaders : Docs!UnderWay(m)' /\ Docs!UnderWay(n)' => m = n
      BY <1>a, <2>1, <3>1, OthersRest DEF Docs!UnderWay
    <3>3. load'[l] = r /\ \A m \in Loaders \ {l} : load'[m] = load[m]
      BY <1>a, <2>1 DEF LoadsTyped
    <3>4. /\ NotAfter(etag, d) /\ NotAfter(cache, d)
          /\ load[l].todo = <<"tag">> => cache = d
      BY <2>1, <3>1 DEF Ordered, LoadAhead
    <3>5. Docs!Writing(l, "tag") => load[l].todo = <<"tag">>
      BY <2>3, QueuesOfTwo DEF Docs!Writing
    <3>6. NotAfter(d, d)
      <4>1. d \in Nat
        BY <1>b, <2>3
      <4> HIDE DEF d
      <4> QED
        BY <4>1 DEF NotAfter
    <3>7. NotAfter(etag', cache')
      BY <2>2, <3>1, <3>4, <3>5, <3>6 DEF Ordered
    <3>8. LoadAhead(l)'
      <4>1. CASE r.at = "loaded"
        BY <3>3, <4>1 DEF LoadAhead
      <4>2. CASE r.at = "writing"
        <5>1. ~Docs!Writing(l, "tag")
          BY <2>4, <3>5, <4>2, QueuesOfTwo
        <5>2. cache' = d /\ etag' = etag
          BY <2>2, <5>1
        <5>3. NotAfter(etag', d) /\ NotAfter(cache', d)
          BY <3>4, <3>6, <5>2
        <5> QED
          BY <2>4, <3>3, <4>2, <5>2, <5>3 DEF LoadAhead, NotAfter
      <4> QED
        BY <2>4, <4>1, <4>2
    <3>9. ASSUME NEW m \in Loaders \ {l} PROVE LoadAhead(m)'
      <4>1. load'[m] = load[m] /\ ~Docs!UnderWay(m)
        BY <2>1, <3>1, <3>3, <3>9 DEF Ordered, Docs!UnderWay
      <4> QED
        BY <4>1 DEF LoadAhead, Docs!UnderWay
    <3> QED
      BY <3>2, <3>7, <3>8, <3>9 DEF Ordered, NotAfter
  <2> QED
    BY <2>5, <2>6 DEF DocsIInv
<1>8. ASSUME NEW l \in Loaders, Docs!Die(l) \/ Docs!Use(l) PROVE DocsIInv'
  <2>1. /\ load' = [load EXCEPT ![l] = Docs!Idle]
        /\ UNCHANGED <<server, young, overlapped>>
        /\ cache' \in {cache, NotSet} /\ etag' \in {etag, NotSet}
        /\ <<cache, etag>>' # <<cache, etag>> => Docs!UnderWay(l)
    BY <1>8 DEF Docs!Die, Docs!Use
  <2>2. LoadsTyped'
    <3>1. /\ server' = server /\ cache' \in Known \cup {NotSet} /\ etag' \in Known \cup {NotSet}
          /\ young' \in BOOLEAN /\ overlapped' \in BOOLEAN
      BY <1>a, <2>1 DEF LoadsTyped
    <3> QED
      BY <1>a, <2>1, <3>1, IdleIsLoad, OneLoads
  <2>3. ASSUME ~overlapped' PROVE Ordered'
    <3>1. Ordered
      BY <1>a, <2>1, <2>3
    <3>2. \A m, n \in Loaders : Docs!UnderWay(m)' /\ Docs!UnderWay(n)' => m = n
      BY <1>a, <2>1, <3>1, OthersRest DEF Docs!Idle
    <3>3. load'[l] = Docs!Idle /\ \A m \in Loaders \ {l} : load'[m] = load[m]
      BY <1>a, <2>1 DEF LoadsTyped
    <3>4. NotAfter(etag', cache')
      BY <2>1, <3>1 DEF Ordered, NotAfter
    <3>5. LoadAhead(l)'
      BY <3>3 DEF LoadAhead, Docs!Idle
    <3>6. ASSUME NEW m \in Loaders \ {l} PROVE LoadAhead(m)'
      <4>1. LoadAhead(m) /\ load'[m] = load[m]
        BY <3>1, <3>3, <3>6 DEF Ordered
      <4>2. CASE UNCHANGED <<cache, etag>>
        BY <4>1, <4>2 DEF LoadAhead, NotAfter
      <4>3. CASE Docs!UnderWay(l)
        <5>1. ~Docs!UnderWay(m)
          BY <3>1, <3>6, <4>3 DEF Ordered
        <5> QED
          BY <4>1, <5>1 DEF LoadAhead, Docs!UnderWay
      <4> QED
        BY <2>1, <4>2, <4>3
    <3> QED
      BY <3>2, <3>4, <3>5, <3>6 DEF Ordered, NotAfter
  <2> QED
    BY <2>2, <2>3 DEF DocsIInv
<1>9. CASE UNCHANGED Docs!vars
  <2>1. LoadsTyped'
    BY <1>a, <1>9 DEF Docs!vars, LoadsTyped, Known, Docs!WriteOrder
  <2>2. ASSUME ~overlapped' PROVE Ordered'
    BY <1>a, <1>9, <2>2 DEF Docs!vars, Ordered, LoadAhead, NotAfter, Docs!UnderWay
  <2> QED
    BY <2>1, <2>2 DEF DocsIInv
<1> QED
  BY <1>1, <1>2, <1>3, <1>4, <1>5, <1>6, <1>7, <1>8, <1>9 DEF Docs!Next, Docs!Step

(* Only documents that could be parsed are kept or used, and the answer    *)
(* "not modified" never stands for a document Tempo no longer has, however *)
(* many processes died between the two files (tempo_openapi.rs).           *)
THEOREM TagOfItsDocument == Docs!Spec => []Docs!Inv
<1>1. DocsIInv => Docs!Inv
  <2> SUFFICES ASSUME DocsIInv PROVE Docs!TypeOK /\ Docs!RevalidatedIsCurrent
    BY DEF Docs!Inv
  <2>1. LoadsTyped /\ (~overlapped => NotAfter(etag, cache))
    BY DEF DocsIInv, Ordered
  <2>2. Docs!TypeOK
    BY <2>1 DEF LoadsTyped, Known, Docs!TypeOK
  <2>3. Docs!RevalidatedIsCurrent
    BY <2>1, DocumentsAssumption DEF LoadsTyped, Known, NotAfter, Docs!RevalidatedIsCurrent
  <2> QED
    BY <2>2, <2>3
<1> QED
  BY <1>1, DocsStart, DocsStep, PTL DEF Docs!Spec

-----------------------------------------------------------------------------
(* TempoReference. A set of numbers that has 0 and the next one of each in *)
(* it has them all.                                                        *)
LEMMA AllNumbers ==
  ASSUME NEW T, 0 \in T, \A n \in Nat : n \in T => n + 1 \in T
  PROVE  Nat \subseteq T
<1> SUFFICES ASSUME Nat \ T # {} PROVE FALSE
  OBVIOUS
<1>1. PICK n \in Nat \ T : \A m \in Nat \ T : ~(m < n)
  BY LeastNumber
<1>2. n # 0 /\ n - 1 \in Nat /\ n - 1 < n /\ (n - 1) + 1 = n
  BY <1>1
<1> QED
  BY <1>1, <1>2

(* What each schema stands for, as a solution of equations that only ever  *)
(* ask for more of the schemas in it.                                      *)
IsMonotone(G, D, V) ==
  /\ G \in [[D -> SUBSET V] -> [D -> SUBSET V]]
  /\ \A f, g \in [D -> SUBSET V] :
       (\A d \in D : f[d] \subseteq g[d]) => \A d \in D : G[f][d] \subseteq G[g][d]

LEMMA Solution ==
  ASSUME NEW D, NEW V, NEW G, IsMonotone(G, D, V)
  PROVE  \E f \in [D -> SUBSET V] : f = G[f]
<1> USE DEF IsMonotone
<1> DEFINE F == [D -> SUBSET V]
           P == {f \in F : \A d \in D : G[f][d] \subseteq f[d]}
           l == [d \in D |-> {v \in V : \A f \in P : v \in f[d]}]
<1>1. l \in F
  OBVIOUS
<1>2. \A f \in P : \A d \in D : l[d] \subseteq f[d]
  OBVIOUS
<1>3. \A f \in P : \A d \in D : G[l][d] \subseteq G[f][d]
  BY <1>1, <1>2
<1>4. G[l] \in F
  BY <1>1
<1>5. \A d \in D : G[l][d] \subseteq l[d]
  <2> SUFFICES ASSUME NEW d \in D, NEW v \in G[l][d] PROVE v \in l[d]
    OBVIOUS
  <2>1. v \in V
    BY <1>4
  <2>2. \A f \in P : v \in f[d]
    BY <1>3
  <2> QED
    BY <2>1, <2>2
<1>6. G[l] \in P
  <2>1. \A d \in D : G[G[l]][d] \subseteq G[l][d]
    BY <1>1, <1>4, <1>5
  <2> QED
    BY <1>4, <2>1
<1>7. \A d \in D : l[d] \subseteq G[l][d]
  BY <1>2, <1>6
<1>8. \A d \in D : G[l][d] = l[d]
  BY <1>5, <1>7
<1>9. G[l] = l
  BY <1>1, <1>4, <1>8
<1> QED
  BY <1>1, <1>9

LEMMA ChildrenAreSchemas == \A s \in Schemas : Reference!Children(s) \subseteq Schemas
BY ReferenceAssumption

(* The schemas within one.                                                 *)
LEMMA WithinIs ==
  /\ Reference!Within \in [Schemas -> SUBSET Schemas]
  /\ \A s \in Schemas : Reference!Within[s] =
       {t \in Schemas : t = s \/ \E c \in Reference!Children(s) : t \in Reference!Within[c]}
<1> DEFINE B(f) == [s \in Schemas |->
                      {t \in Schemas : t = s \/ \E c \in Reference!Children(s) : t \in f[c]}]
           F == [Schemas -> SUBSET Schemas]
           G == [f \in F |-> B(f)]
<1>1. IsMonotone(G, Schemas, Schemas)
  BY ChildrenAreSchemas DEF IsMonotone
<1>3. \E f \in F : f = G[f]
  <2> HIDE DEF G
  <2> QED
    BY <1>1, Solution
<1>4. \E f : f = B(f)
  BY <1>3
<1>5. Reference!Within = CHOOSE f : f = B(f)
  BY DEF Reference!Within
<1>6. Reference!Within = B(Reference!Within)
  <2> HIDE DEF B
  <2> QED
    BY <1>4, <1>5
<1> QED
  BY <1>6

LEMMA PartsAreSchemas ==
  ASSUME NEW s \in Schemas
  PROVE  /\ Reference!Has(s, "properties") => \A n \in DOMAIN s.properties :
              s.properties[n] \in Reference!Children(s) /\ s.properties[n] \in Schemas
         /\ Reference!Has(s, "oneOf") => \A c \in s.oneOf :
              c \in Reference!Children(s) /\ c \in Schemas
         /\ Reference!Has(s, "allOf") => \A c \in s.allOf :
              c \in Reference!Children(s) /\ c \in Schemas
         /\ Reference!Has(s, "items") =>
              s.items \in Reference!Children(s) /\ s.items \in Schemas
         /\ Reference!Has(s, "schema") =>
              s.schema \in Reference!Children(s) /\ s.schema \in Schemas
<1>1. /\ Reference!Has(s, "properties") => \A n \in DOMAIN s.properties :
              s.properties[n] \in Reference!Children(s)
      /\ Reference!Has(s, "oneOf") => \A c \in s.oneOf : c \in Reference!Children(s)
      /\ Reference!Has(s, "allOf") => \A c \in s.allOf : c \in Reference!Children(s)
      /\ Reference!Has(s, "items") => s.items \in Reference!Children(s)
      /\ Reference!Has(s, "schema") => s.schema \in Reference!Children(s)
  BY DEF Reference!Children, Reference!Has, Reference!Range
<1> QED
  BY <1>1, ChildrenAreSchemas

(* What a schema allows or describes is more, the more the schemas in it.  *)
LEMMA MoreIsAllowed ==
  ASSUME NEW s \in Schemas, NEW f, NEW g, \A d \in Schemas : f[d] \subseteq g[d]
  PROVE  Reference!Allows(s, f) \subseteq Reference!Allows(s, g)
BY PartsAreSchemas DEF Reference!Allows

LEMMA MoreIsDescribed ==
  ASSUME NEW s \in Schemas, NEW f, NEW g, \A d \in Schemas : f[d] \subseteq g[d]
  PROVE  Reference!Described(s, f) \subseteq Reference!Described(s, g)
BY PartsAreSchemas DEF Reference!Described

(* The values a schema allows.                                             *)
LEMMA ValidIs ==
  \A s \in Schemas :
    Reference!ValidateJsonSchema[s] = Reference!Allows(s, Reference!ValidateJsonSchema)
<1> DEFINE B(f) == [s \in Schemas |-> Reference!Allows(s, f)]
           F == [Schemas -> SUBSET Values]
           G == [f \in F |-> B(f)]
<1>1. IsMonotone(G, Schemas, Values)
  <2>1. \A f : B(f) \in F
    BY DEF Reference!Allows
  <2>2. ASSUME NEW f \in F, NEW g \in F, \A d \in Schemas : f[d] \subseteq g[d],
               NEW s \in Schemas
        PROVE  G[f][s] \subseteq G[g][s]
    BY <2>2, MoreIsAllowed
  <2> QED
    BY <2>1, <2>2 DEF IsMonotone
<1>2. \E f \in F : f = G[f]
  <2> HIDE DEF G
  <2> QED
    BY <1>1, Solution
<1>3. \E f : f = B(f)
  BY <1>2
<1>4. Reference!ValidateJsonSchema = CHOOSE f : f = B(f)
  BY DEF Reference!ValidateJsonSchema
<1>5. Reference!ValidateJsonSchema = B(Reference!ValidateJsonSchema)
  <2> HIDE DEF B
  <2> QED
    BY <1>3, <1>4
<1> QED
  BY <1>5

LEMMA ConformingIs ==
  ASSUME NEW doc \in Documents
  PROVE  \A s \in Schemas :
           Reference!Conforming(doc)[s] = Reference!Means(s, doc, Reference!Conforming(doc))
<1> DEFINE B(f) == [s \in Schemas |-> Reference!Means(s, doc, f)]
           F == [Schemas -> SUBSET Values]
           G == [f \in F |-> B(f)]
<1>1. IsMonotone(G, Schemas, Values)
  <2>1. \A f : B(f) \in F
    BY DEF Reference!Means, Reference!Described
  <2>2. ASSUME NEW f \in F, NEW g \in F, \A d \in Schemas : f[d] \subseteq g[d],
               NEW s \in Schemas
        PROVE  G[f][s] \subseteq G[g][s]
    <3>1. CASE Reference!Has(s, "ref")
      BY <2>2, <3>1, ReferenceAssumption DEF Reference!Means
    <3>2. CASE ~Reference!Has(s, "ref")
      BY <2>2, <3>2, MoreIsDescribed DEF Reference!Means
    <3> QED
      BY <3>1, <3>2
  <2> QED
    BY <2>1, <2>2 DEF IsMonotone
<1>2. \E f \in F : f = G[f]
  <2> HIDE DEF G
  <2> QED
    BY <1>1, Solution
<1>3. \E f : f = B(f)
  BY <1>2
<1>4. Reference!Conforming(doc) = CHOOSE f : f = B(f)
  BY DEF Reference!Conforming
<1>5. Reference!Conforming(doc) = B(Reference!Conforming(doc))
  <2> HIDE DEF B
  <2> QED
    BY <1>3, <1>4
<1> QED
  BY <1>5

(* What a schema is resolved to, level by level.                           *)
LEMMA ResolvingIs ==
  ASSUME NEW doc \in Documents, NEW stack \in SUBSET DOMAIN doc.components, NEW s \in Schemas
  PROVE  /\ Reference!Resolving(doc)[0][stack][s] = NotSet
         /\ \A left \in 0..MaxRefDepth :
              Reference!Resolving(doc)[left + 1][stack][s] =
                Reference!Resolved(s, doc, stack, Reference!Resolving(doc)[left])
<1> DEFINE Stacks == SUBSET DOMAIN doc.components
           Level(f, left) ==
             [t \in Stacks |-> [x \in Schemas |->
                IF left = 0 THEN NotSet ELSE Reference!Resolved(x, doc, t, f[left - 1])]]
           B(f, n) == [left \in 0..n |-> Level(f, left)]
           T == {n \in Nat : \E f : f = B(f, n)}
<1>1. \A f, g, left : f[left - 1] = g[left - 1] => Level(f, left) = Level(g, left)
  OBVIOUS
<1>2. \A f, g : Level(f, 0) = Level(g, 0)
  OBVIOUS
<1> HIDE DEF Level
<1>3. 0 \in T
  <2> DEFINE f == [left \in 0..0 |-> Level(<<>>, 0)]
  <2>1. f = B(f, 0)
    BY <1>2
  <2> QED
    BY <2>1
<1>4. ASSUME NEW n \in Nat, n \in T
      PROVE  n + 1 \in T
  <2>1. PICK f : f = B(f, n)
    BY <1>4
  <2> DEFINE g == [left \in 0..(n + 1) |-> Level(f, left)]
  <2>2. ASSUME NEW left \in 0..(n + 1)
        PROVE  g[left] = Level(g, left)
    <3>1. CASE left = 0
      BY <3>1, <1>2
    <3>2. CASE left # 0
      <4>1. left - 1 \in 0..n /\ left - 1 \in 0..(n + 1)
        BY <3>2
      <4>2. f[left - 1] = Level(f, left - 1)
        BY <2>1, <4>1
      <4>3. g[left - 1] = f[left - 1]
        BY <4>1, <4>2
      <4> QED
        BY <4>3, <1>1
    <3> QED
      BY <3>1, <3>2
  <2>3. g = B(g, n + 1)
    BY <2>2
  <2> HIDE DEF g, B
  <2> QED
    BY <2>3
<1>5. MaxRefDepth + 1 \in T
  BY <1>3, <1>4, AllNumbers, ReferenceAssumption
<1>6. \E f : f = B(f, MaxRefDepth + 1)
  BY <1>5
<1>7. Reference!Resolving(doc) = CHOOSE f : f = B(f, MaxRefDepth + 1)
  BY DEF Reference!Resolving, Level
<1>8. Reference!Resolving(doc) = B(Reference!Resolving(doc), MaxRefDepth + 1)
  <2> HIDE DEF B
  <2> QED
    BY <1>6, <1>7
<1>9. \A left \in 0..(MaxRefDepth + 1) :
        Reference!Resolving(doc)[left] = Level(Reference!Resolving(doc), left)
  BY <1>8
<1>10. /\ 0 \in 0..(MaxRefDepth + 1)
       /\ \A left \in 0..MaxRefDepth :
            left + 1 \in 0..(MaxRefDepth + 1) /\ left + 1 # 0 /\ (left + 1) - 1 = left
  BY ReferenceAssumption
<1>11. Reference!Resolving(doc)[0] = [t \in Stacks |-> [x \in Schemas |-> NotSet]]
  BY <1>9, <1>10 DEF Level
<1>12. ASSUME NEW left \in 0..MaxRefDepth
       PROVE  Reference!Resolving(doc)[left + 1] = [t \in Stacks |-> [x \in Schemas |->
                Reference!Resolved(x, doc, t, Reference!Resolving(doc)[left])]]
  <2>1. Reference!Resolving(doc)[left + 1] = Level(Reference!Resolving(doc), left + 1)
    BY <1>9, <1>10
  <2> QED
    BY <2>1, <1>10 DEF Level
<1>13. Reference!Resolving(doc)[0][stack][s] = NotSet
  BY <1>11
<1>14. ASSUME NEW left \in 0..MaxRefDepth
       PROVE  Reference!Resolving(doc)[left + 1][stack][s] =
                Reference!Resolved(s, doc, stack, Reference!Resolving(doc)[left])
  <2> DEFINE R == Reference!Resolving(doc)[left]
  <2>1. Reference!Resolving(doc)[left + 1] =
          [t \in Stacks |-> [x \in Schemas |-> Reference!Resolved(x, doc, t, R)]]
    BY <1>12
  <2> HIDE DEF R
  <2> QED
    BY <2>1 DEF R
<1> QED
  BY <1>13, <1>14

(* What a schema refers to, directly or not.                               *)
LEMMA ReachIs ==
  ASSUME NEW doc \in Documents, NEW s \in Schemas
  PROVE  /\ Reference!Reach(s, doc) \subseteq DOMAIN doc.components
         /\ \A r \in DOMAIN doc.components :
              r \in Reference!Refs(s) => r \in Reference!Reach(s, doc)
         /\ \A n \in Reference!Reach(s, doc), r \in DOMAIN doc.components :
              r \in Reference!Refs(doc.components[n]) => r \in Reference!Reach(s, doc)
         /\ \A R \in SUBSET DOMAIN doc.components :
              /\ Reference!Refs(s) \cap DOMAIN doc.components \subseteq R
              /\ \A n \in R :
                   Reference!Refs(doc.components[n]) \cap DOMAIN doc.components \subseteq R
              => Reference!Reach(s, doc) \subseteq R
BY DEF Reference!Reach

LEMMA WithinChild ==
  ASSUME NEW s \in Schemas, NEW c \in Reference!Children(s)
  PROVE  /\ c \in Schemas /\ s \in Reference!Within[s]
         /\ Reference!Within[c] \subseteq Reference!Within[s]
         /\ Reference!Refs(c) \subseteq Reference!Refs(s)
<1>1. c \in Schemas
  BY ChildrenAreSchemas
<1>2. /\ s \in Reference!Within[s]
      /\ \A t \in Schemas : t \in Reference!Within[c] => t \in Reference!Within[s]
  BY WithinIs
<1>3. Reference!Within[c] \subseteq Schemas
  BY <1>1, WithinIs
<1> QED
  BY <1>1, <1>2, <1>3 DEF Reference!Refs

LEMMA ReachOfChild ==
  ASSUME NEW doc \in Documents, NEW s \in Schemas, NEW c \in Reference!Children(s)
  PROVE  Reference!Reach(c, doc) \subseteq Reference!Reach(s, doc)
BY ReachIs, WithinChild

LEMMA ReachOfTarget ==
  ASSUME NEW doc \in Documents, NEW s \in Schemas, NEW r \in Reference!Reach(s, doc)
  PROVE  /\ r \in DOMAIN doc.components /\ doc.components[r] \in Schemas
         /\ Reference!Reach(doc.components[r], doc) \subseteq Reference!Reach(s, doc)
<1>1. r \in DOMAIN doc.components /\ doc.components[r] \in Schemas
  BY ReachIs, ReferenceAssumption
<1> QED
  BY <1>1, ReachIs

LEMMA SettledChild ==
  ASSUME NEW doc \in Documents, NEW s \in Schemas, Reference!Settled(s, doc),
         NEW c \in Reference!Children(s)
  PROVE  Reference!Settled(c, doc)
BY ReachOfChild, WithinChild DEF Reference!Settled

LEMMA SettledTarget ==
  ASSUME NEW doc \in Documents, NEW s \in Schemas, Reference!Settled(s, doc),
         NEW r \in Reference!Reach(s, doc)
  PROVE  /\ Reference!Settled(doc.components[r], doc)
         /\ r \notin Reference!Reach(doc.components[r], doc)
BY ReachOfTarget DEF Reference!Settled

(* A schema that refers to nothing and mixes nothing.                      *)
Plain(s) == \A x \in Reference!Within[s] : ~Reference!Has(x, "ref") /\ ~Reference!Mixes(x)

LEMMA PlainIsSettled ==
  ASSUME NEW doc \in Documents, NEW s \in Schemas, Plain(s)
  PROVE  Reference!Settled(s, doc) /\ Reference!Reach(s, doc) = {}
<1>1. Reference!Refs(s) = {}
  BY DEF Plain, Reference!Refs
<1>2. Reference!Reach(s, doc) \subseteq {}
  BY <1>1, ReachIs
<1> QED
  BY <1>2 DEF Plain, Reference!Settled

(* A resolved schema has the children's resolved schemas as its children.  *)
LEMMA ResolvedParts ==
  ASSUME NEW s \in Schemas, NEW g, NEW r, r = Reference!WithChildren(s, g)
  PROVE  /\ DOMAIN r = DOMAIN s
         /\ \A k \in {"nullable", "enum", "type", "required", "closed"} \cap DOMAIN s : r[k] = s[k]
         /\ Reference!Has(s, "properties") =>
              r.properties = [n \in DOMAIN s.properties |-> g[s.properties[n]]]
         /\ \A k \in {"items", "schema"} \cap DOMAIN s : r[k] = g[s[k]]
         /\ \A k \in {"oneOf", "allOf"} \cap DOMAIN s : r[k] = {g[c] : c \in s[k]}
BY DEF Reference!WithChildren, Reference!Has

LEMMA ResolvedChildren ==
  ASSUME NEW s \in Schemas, NEW g
  PROVE  Reference!Children(Reference!WithChildren(s, g)) = {g[c] : c \in Reference!Children(s)}
<1> DEFINE r == Reference!WithChildren(s, g)
<1>1. /\ DOMAIN r = DOMAIN s
      /\ Reference!Has(s, "properties") =>
              r.properties = [n \in DOMAIN s.properties |-> g[s.properties[n]]]
      /\ \A k \in {"items", "schema"} \cap DOMAIN s : r[k] = g[s[k]]
      /\ \A k \in {"oneOf", "allOf"} \cap DOMAIN s : r[k] = {g[c] : c \in s[k]}
  BY ResolvedParts
<1> HIDE DEF r
<1>2. Reference!Has(s, "properties") =>
        Reference!Range(r.properties) = {g[c] : c \in Reference!Range(s.properties)}
  BY <1>1 DEF Reference!Range
<1>3. {r[k] : k \in DOMAIN r \cap {"items", "schema"}} =
        {g[c] : c \in {s[k] : k \in DOMAIN s \cap {"items", "schema"}}}
  BY <1>1
<1>4. /\ Reference!Has(s, "oneOf") => r.oneOf = {g[c] : c \in s.oneOf}
      /\ Reference!Has(s, "allOf") => r.allOf = {g[c] : c \in s.allOf}
  BY <1>1 DEF Reference!Has
<1>5. Reference!Children(r) = {g[c] : c \in Reference!Children(s)}
  BY <1>1, <1>2, <1>3, <1>4 DEF Reference!Children, Reference!Has
<1> QED
  BY <1>5 DEF r

(* A value described by the resolved schemas is described by those they    *)
(* were resolved from, when their children's values are.                   *)
LEMMA DescribedThrough ==
  ASSUME NEW s \in Schemas, NEW g, NEW F, NEW C,
         \A c \in Reference!Children(s) : F[g[c]] \subseteq C[c]
  PROVE  Reference!Described(Reference!WithChildren(s, g), F) \subseteq Reference!Described(s, C)
<1> DEFINE r == Reference!WithChildren(s, g)
<1>1. /\ DOMAIN r = DOMAIN s
      /\ \A k \in {"nullable", "enum", "type", "required", "closed"} \cap DOMAIN s : r[k] = s[k]
      /\ Reference!Has(s, "properties") =>
           r.properties = [n \in DOMAIN s.properties |-> g[s.properties[n]]]
      /\ \A k \in {"items", "schema"} \cap DOMAIN s : r[k] = g[s[k]]
      /\ \A k \in {"oneOf", "allOf"} \cap DOMAIN s : r[k] = {g[c] : c \in s[k]}
  BY ResolvedParts
<1> HIDE DEF r
<1>2. \A k : Reference!Has(r, k) <=> Reference!Has(s, k)
  BY <1>1 DEF Reference!Has
<1>3. /\ Reference!Has(s, "enum") => r.enum = s.enum
      /\ Reference!Has(s, "type") => r.type = s.type
      /\ Reference!Has(s, "required") => r.required = s.required
      /\ Reference!Has(s, "oneOf") => r.oneOf = {g[c] : c \in s.oneOf}
      /\ Reference!Has(s, "allOf") => r.allOf = {g[c] : c \in s.allOf}
      /\ Reference!Has(s, "items") => r.items = g[s.items]
  BY <1>1 DEF Reference!Has
<1> SUFFICES ASSUME NEW value \in Reference!Described(r, F)
             PROVE  value \in Reference!Described(s, C)
  BY DEF r
<1>4. value \in Values
  BY DEF Reference!Described
<1>5. CASE value.json = "null" /\ Reference!Has(s, "nullable")
  BY <1>4, <1>5 DEF Reference!Described
<1>6. CASE ~(value.json = "null" /\ Reference!Has(s, "nullable"))
  <2>1. /\ Reference!Has(s, "enum") => Reference!Allowed(value, s.enum)
        /\ Reference!Has(s, "oneOf") => \E c \in r.oneOf : value \in F[c]
        /\ Reference!Has(s, "allOf") => \A c \in r.allOf : value \in F[c]
        /\ Reference!Has(s, "type") =>
             /\ value.json = s.type \/ (s.type = "number" /\ value.json = "integer")
             /\ \A n \in IF s.type = "object" /\ Reference!Has(s, "required") THEN s.required
                         ELSE {} : n \in DOMAIN value.of
             /\ \A n \in IF s.type = "object" THEN DOMAIN value.of ELSE {} :
                  IF Reference!Has(s, "properties") /\ n \in DOMAIN r.properties
                  THEN value.of[n] \in F[r.properties[n]] ELSE ~Reference!Has(s, "closed")
             /\ \A i \in IF s.type = "array" THEN DOMAIN value.of ELSE {} :
                  Reference!Has(s, "items") => value.of[i] \in F[r.items]
    BY <1>2, <1>3, <1>6 DEF Reference!Described
  <2>2. Reference!Has(s, "oneOf") => \E c \in s.oneOf : value \in C[c]
    BY <2>1, <1>3, PartsAreSchemas
  <2>3. Reference!Has(s, "allOf") => \A c \in s.allOf : value \in C[c]
    BY <2>1, <1>3, PartsAreSchemas
  <2>4. ASSUME Reference!Has(s, "type"),
               NEW n \in IF s.type = "object" THEN DOMAIN value.of ELSE {}
        PROVE  IF Reference!Has(s, "properties") /\ n \in DOMAIN s.properties
               THEN value.of[n] \in C[s.properties[n]] ELSE ~Reference!Has(s, "closed")
    <3>1. Reference!Has(s, "properties") =>
            /\ DOMAIN r.properties = DOMAIN s.properties
            /\ \A m \in DOMAIN s.properties : r.properties[m] = g[s.properties[m]]
      BY <1>1
    <3>2. Reference!Has(s, "properties") =>
            \A m \in DOMAIN s.properties : F[g[s.properties[m]]] \subseteq C[s.properties[m]]
      BY PartsAreSchemas
    <3>3. IF Reference!Has(s, "properties") /\ n \in DOMAIN r.properties
          THEN value.of[n] \in F[r.properties[n]] ELSE ~Reference!Has(s, "closed")
      BY <2>1, <2>4
    <3> QED
      BY <3>1, <3>2, <3>3
  <2>5. Reference!Has(s, "items") => F[g[s.items]] \subseteq C[s.items]
    BY PartsAreSchemas
  <2> QED
    BY <1>4, <2>1, <2>2, <2>3, <2>4, <2>5, <1>3 DEF Reference!Described
<1> QED
  BY <1>5, <1>6

(* A schema that is resolved at a level is resolved to a record, and what  *)
(* it refers to, or the schemas in it, at the next.                        *)
LEMMA ResolvedIs ==
  ASSUME NEW doc \in Documents, NEW stack \in SUBSET DOMAIN doc.components, NEW s \in Schemas,
         NEW left \in 0..MaxRefDepth, NEW g, g = Reference!Resolving(doc)[left],
         NEW r, r = Reference!Resolving(doc)[left + 1][stack][s], r # NotSet,
         Reference!Settled(s, doc), Reference!Reach(s, doc) \cap stack = {}
  PROVE  \/ /\ ~Reference!Has(s, "ref")
            /\ r = Reference!WithChildren(s, g[stack])
            /\ \A c \in Reference!Children(s) : g[stack][c] # NotSet
         \/ /\ Reference!Has(s, "ref") /\ s.ref \in Reference!Reach(s, doc)
            /\ g[stack \cup {s.ref}][doc.components[s.ref]] # NotSet
            /\ r = Reference!Beside(s, g[stack \cup {s.ref}][doc.components[s.ref]])
            /\ DOMAIN s = {"ref"}
<1>1. r = Reference!Resolved(s, doc, stack, g)
  BY ResolvingIs
<1>2. CASE ~Reference!Has(s, "ref")
  BY <1>1, <1>2 DEF Reference!Resolved
<1>3. CASE Reference!Has(s, "ref")
  <2>1. s.ref \in DOMAIN doc.components
    BY <1>1, <1>3 DEF Reference!Resolved
  <2>2. s \in Reference!Within[s]
    BY WithinIs
  <2>3. s.ref \in Reference!Refs(s)
    BY <1>3, <2>2 DEF Reference!Refs
  <2>4. s.ref \in Reference!Reach(s, doc)
    BY <2>1, <2>3, ReachIs
  <2>5. s.ref \notin stack
    BY <2>4
  <2>6. /\ g[stack \cup {s.ref}][doc.components[s.ref]] # NotSet
        /\ r = Reference!Beside(s, g[stack \cup {s.ref}][doc.components[s.ref]])
    BY <1>1, <1>3, <2>1, <2>5 DEF Reference!Resolved
  <2>7. DOMAIN s = {"ref"}
    BY <1>3, <2>2 DEF Reference!Settled, Reference!Mixes
  <2> QED
    BY <1>3, <2>4, <2>6, <2>7
<1> QED
  BY <1>2, <1>3

LEMMA ResolvedIsRecord ==
  ASSUME NEW doc \in Documents, NEW stack \in SUBSET DOMAIN doc.components, NEW s \in Schemas,
         NEW left \in 0..(MaxRefDepth + 1), NEW r, r = Reference!Resolving(doc)[left][stack][s],
         r # NotSet
  PROVE  r = [k \in DOMAIN r |-> r[k]]
<1>1. left # 0
  BY ResolvingIs
<1>2. left - 1 \in 0..MaxRefDepth /\ (left - 1) + 1 = left
  BY <1>1, ReferenceAssumption
<1> DEFINE g == Reference!Resolving(doc)[left - 1]
<1>3. r = Reference!Resolved(s, doc, stack, g)
  BY <1>2, ResolvingIs
<1> HIDE DEF g
<1>4. \/ r = s
      \/ r = Reference!Beside(s, g[stack \cup {s.ref}][doc.components[s.ref]])
      \/ r = Reference!WithChildren(s, g[stack])
  BY <1>3 DEF Reference!Resolved
<1>5. s = [k \in DOMAIN s |-> s[k]]
  BY ReferenceAssumption
<1>6. \A t : Reference!Beside(s, t) =
               [k \in DOMAIN Reference!Beside(s, t) |-> Reference!Beside(s, t)[k]]
  BY DEF Reference!Beside
<1>7. \A t : Reference!WithChildren(s, t) =
               [k \in DOMAIN Reference!WithChildren(s, t) |-> Reference!WithChildren(s, t)[k]]
  BY DEF Reference!WithChildren
<1> QED
  BY <1>4, <1>5, <1>6, <1>7

(* A schema that only refers is resolved to what its target is resolved to.*)
LEMMA ReferenceAlone ==
  ASSUME NEW s, DOMAIN s = {"ref"}, NEW t, t = [k \in DOMAIN t |-> t[k]]
  PROVE  Reference!Beside(s, t) = t
<1>1. (DOMAIN s \ {"ref"}) \cup DOMAIN t = DOMAIN t /\ DOMAIN s \ {"ref"} = {}
  OBVIOUS
<1>2. Reference!Beside(s, t) = [k \in DOMAIN t |-> t[k]]
  BY <1>1 DEF Reference!Beside
<1> QED
  BY <1>2

(* At every level: a resolved schema refers to nothing, and what it means  *)
(* the schema meant.                                                       *)
Describes(F) ==
  \A t \in Schemas : ~Reference!Has(t, "ref") /\ ~Reference!Mixes(t)
                       => F[t] \subseteq Reference!Described(t, F)

Faithful(F, doc, left) ==
  \A stack \in SUBSET DOMAIN doc.components, s \in Schemas :
    LET r == Reference!Resolving(doc)[left][stack][s]
    IN  /\ Reference!Settled(s, doc) /\ Reference!Reach(s, doc) \cap stack = {}
        /\ r # NotSet /\ r \in Schemas
        => Plain(r) /\ F[r] \subseteq Reference!Conforming(doc)[s]

LEMMA FaithfulDeeper ==
  ASSUME NEW F, Describes(F), NEW doc \in Documents, NEW left \in 0..MaxRefDepth,
         Faithful(F, doc, left)
  PROVE  Faithful(F, doc, left + 1)
<1> DEFINE g == Reference!Resolving(doc)[left]
           C == Reference!Conforming(doc)
<1> SUFFICES ASSUME NEW stack \in SUBSET DOMAIN doc.components, NEW s \in Schemas,
                    NEW r, r = Reference!Resolving(doc)[left + 1][stack][s],
                    Reference!Settled(s, doc), Reference!Reach(s, doc) \cap stack = {},
                    r # NotSet, r \in Schemas
             PROVE  Plain(r) /\ F[r] \subseteq C[s]
  BY DEF Faithful
<1>0. \A t \in SUBSET DOMAIN doc.components, x \in Schemas :
        /\ Reference!Settled(x, doc) /\ Reference!Reach(x, doc) \cap t = {}
        /\ g[t][x] # NotSet /\ g[t][x] \in Schemas
        => Plain(g[t][x]) /\ F[g[t][x]] \subseteq C[x]
  BY DEF Faithful
<1>1. \A x \in Schemas : C[x] = Reference!Means(x, doc, C)
  BY ConformingIs
<1> HIDE DEF g, C
<1>2. CASE /\ ~Reference!Has(s, "ref")
           /\ r = Reference!WithChildren(s, g[stack])
           /\ \A c \in Reference!Children(s) : g[stack][c] # NotSet
  <2>1. Reference!Children(r) = {g[stack][c] : c \in Reference!Children(s)}
    BY <1>2, ResolvedChildren
  <2>2. ASSUME NEW c \in Reference!Children(s)
        PROVE  Plain(g[stack][c]) /\ F[g[stack][c]] \subseteq C[c]
    <3>1. c \in Schemas /\ g[stack][c] \in Schemas
      BY <2>1, ChildrenAreSchemas
    <3>2. Reference!Settled(c, doc) /\ Reference!Reach(c, doc) \cap stack = {}
      BY SettledChild, ReachOfChild
    <3> QED
      BY <1>0, <1>2, <3>1, <3>2
  <2>3. ~Reference!Has(r, "ref") /\ ~Reference!Mixes(r)
    <3>1. DOMAIN r = DOMAIN s
      BY <1>2 DEF Reference!WithChildren
    <3>2. ~Reference!Mixes(s)
      BY WithinIs DEF Reference!Settled
    <3> QED
      BY <1>2, <3>1, <3>2 DEF Reference!Has, Reference!Mixes
  <2>4. Plain(r)
    <3>1. \A x \in Reference!Within[r] :
            x = r \/ \E c \in Reference!Children(s) : x \in Reference!Within[g[stack][c]]
      BY <2>1, WithinIs
    <3> QED
      BY <2>2, <2>3, <3>1 DEF Plain
  <2>5. F[r] \subseteq Reference!Described(r, F)
    BY <2>3 DEF Describes
  <2>6. Reference!Described(r, F) \subseteq Reference!Described(s, C)
    BY <1>2, <2>2, DescribedThrough
  <2>7. C[s] = Reference!Described(s, C)
    BY <1>1, <1>2 DEF Reference!Means
  <2> QED
    BY <2>4, <2>5, <2>6, <2>7
<1>3. CASE /\ Reference!Has(s, "ref") /\ s.ref \in Reference!Reach(s, doc)
           /\ g[stack \cup {s.ref}][doc.components[s.ref]] # NotSet
           /\ r = Reference!Beside(s, g[stack \cup {s.ref}][doc.components[s.ref]])
           /\ DOMAIN s = {"ref"}
  <2> DEFINE target == doc.components[s.ref]
             t == g[stack \cup {s.ref}][target]
  <2>1. s.ref \in DOMAIN doc.components /\ target \in Schemas
    BY <1>3, ReachOfTarget
  <2>2. stack \cup {s.ref} \in SUBSET DOMAIN doc.components
    BY <2>1
  <2>3. left \in 0..(MaxRefDepth + 1)
    BY ReferenceAssumption
  <2>4. t = [k \in DOMAIN t |-> t[k]]
    <3> HIDE DEF target
    <3>1. t = Reference!Resolving(doc)[left][stack \cup {s.ref}][target] /\ t # NotSet
      BY <1>3 DEF g, target
    <3> HIDE DEF t
    <3> DEFINE deeper == stack \cup {s.ref}
    <3>2. deeper \in SUBSET DOMAIN doc.components
      BY <2>2
    <3>3. t = Reference!Resolving(doc)[left][deeper][target]
      BY <3>1
    <3> HIDE DEF deeper
    <3> QED
      BY <2>1, <2>3, <3>1, <3>2, <3>3, ResolvedIsRecord
  <2>5. r = t
    BY <1>3, <2>4, ReferenceAlone
  <2>6. /\ Reference!Settled(target, doc)
        /\ Reference!Reach(target, doc) \cap (stack \cup {s.ref}) = {}
    BY <1>3, SettledTarget, ReachOfTarget
  <2>7. Plain(t) /\ F[t] \subseteq C[target]
    BY <1>0, <1>3, <2>1, <2>2, <2>5, <2>6
  <2>8. C[target] \subseteq Values
    BY <1>1, <2>1 DEF Reference!Means, Reference!Described
  <2>9. C[s] = {value \in Values : s.ref \in DOMAIN doc.components /\ value \in C[target]}
    BY <1>1, <1>3 DEF Reference!Means
  <2> QED
    BY <2>1, <2>5, <2>7, <2>8, <2>9
<1>4. \/ /\ ~Reference!Has(s, "ref")
         /\ r = Reference!WithChildren(s, g[stack])
         /\ \A c \in Reference!Children(s) : g[stack][c] # NotSet
      \/ /\ Reference!Has(s, "ref") /\ s.ref \in Reference!Reach(s, doc)
         /\ g[stack \cup {s.ref}][doc.components[s.ref]] # NotSet
         /\ r = Reference!Beside(s, g[stack \cup {s.ref}][doc.components[s.ref]])
         /\ DOMAIN s = {"ref"}
  BY ResolvedIs DEF g
<1> QED
  BY <1>2, <1>3, <1>4

LEMMA AllFaithful ==
  ASSUME NEW F, Describes(F), NEW doc \in Documents
  PROVE  Faithful(F, doc, MaxRefDepth + 1)
<1> DEFINE T == {n \in Nat : n \in 0..(MaxRefDepth + 1) => Faithful(F, doc, n)}
<1>1. 0 \in T
  BY ResolvingIs DEF Faithful
<1>2. ASSUME NEW n \in Nat, n \in T
      PROVE  n + 1 \in T
  <2>1. n + 1 \in 0..(MaxRefDepth + 1) => n \in 0..MaxRefDepth /\ n \in 0..(MaxRefDepth + 1)
    BY ReferenceAssumption
  <2> QED
    BY <1>2, <2>1, FaithfulDeeper
<1>3. Nat \subseteq T
  <2> HIDE DEF T
  <2> QED
    BY <1>1, <1>2, AllNumbers
<1> QED
  BY <1>3, ReferenceAssumption

(* A body the code accepts for a schema conforms to it, references         *)
(* followed and all, where the schema is settled (resolve_local_refs,      *)
(* validate_json_schema).                                                  *)
THEOREM AcceptedConforms ==
  ASSUME NEW doc \in Documents, NEW op \in doc.operations, op.body # NotSet,
         Reference!Settled(op.body.schema, doc), NEW value,
         NEW schema, schema = Reference!ResolveLocalRefs(Reference!BodySchema(op, doc), doc),
         Reference!BodySchema(op, doc) # NotSet, schema # NotSet,
         value \in Reference!ValidateJsonSchema[schema]
  PROVE  value \in Reference!Conforming(doc)[op.body.schema]
<1> DEFINE once == Reference!BodySchema(op, doc)
           C == Reference!Conforming(doc)
<1>1. /\ op.body.schema \in Schemas /\ once \in Schemas /\ schema \in Schemas
  BY ReferenceAssumption
<1>2. {} \in SUBSET DOMAIN doc.components
  OBVIOUS
<1>3. Describes(C)
  BY ConformingIs DEF Describes, Reference!Means
<1>4. Describes(Reference!ValidateJsonSchema)
  <2> SUFFICES ASSUME NEW t \in Schemas, ~Reference!Mixes(t)
               PROVE  Reference!Allows(t, Reference!ValidateJsonSchema)
                        \subseteq Reference!Described(t, Reference!ValidateJsonSchema)
    BY ValidIs DEF Describes
  <2> QED
    BY DEF Reference!Allows, Reference!Described, Reference!Mixes, Reference!Has,
           Reference!HasType
<1>5. Plain(once) /\ C[once] \subseteq C[op.body.schema]
  BY <1>1, <1>2, <1>3, AllFaithful DEF Faithful, Reference!BodySchema,
     Reference!ResolveLocalRefs
<1>6. Reference!Settled(once, doc) /\ Reference!Reach(once, doc) = {}
  BY <1>1, <1>5, PlainIsSettled
<1>7. Reference!ValidateJsonSchema[schema] \subseteq C[once]
  BY <1>1, <1>2, <1>4, <1>6, AllFaithful DEF Faithful, Reference!ResolveLocalRefs
<1> QED
  BY <1>5, <1>7

(* A name is one operation's: no two have one id, and an alias is neither  *)
(* another's nor an id (executable_operations).                            *)
LEMMA NamedOnce ==
  ASSUME NEW doc, NEW argument, ~Reference!Duplicated(doc),
         NEW op \in Reference!Called(doc, argument.resource, argument.name)
  PROVE  /\ op \in Reference!Named(doc, argument)
         /\ {o \in Reference!Named(doc, argument) :
               o.path # <<>> /\ o.path[1] = <<"literal", "4">>} = {op}
<1>1. /\ op \in Reference!Executable(doc) /\ op \in doc.operations
      /\ op.tag = argument.resource /\ argument.name \in Reference!Names(op, doc)
      /\ op.path # <<>> /\ op.path[1] = <<"literal", "4">> /\ op.tag # NotSet /\ op.id # NotSet
  BY DEF Reference!Called, Reference!Executable
<1>2. op \in Reference!Named(doc, argument)
  BY <1>1 DEF Reference!Named
<1>3. argument.name # NotSet
  BY <1>1 DEF Reference!Names, Reference!AliasStands
<1>4. ASSUME NEW o \in Reference!Named(doc, argument),
             o.path # <<>> /\ o.path[1] = <<"literal", "4">>
      PROVE  o = op
  <2>1. /\ o \in doc.operations /\ o.tag = op.tag /\ o.tag # NotSet /\ o.id # NotSet
        /\ argument.name \in Reference!Names(o, doc)
    BY <1>1, <1>3 DEF Reference!Named, Reference!Names
  <2>2. o \in Reference!Executable(doc)
    BY <1>4, <2>1 DEF Reference!Executable
  <2>3. CASE argument.name = o.id /\ argument.name = op.id
    BY <1>1, <2>1, <2>2, <2>3 DEF Reference!Duplicated
  <2>4. CASE argument.name = o.id /\ argument.name # op.id
    BY <1>1, <2>1, <2>2, <2>4 DEF Reference!Names, Reference!AliasStands
  <2>5. CASE argument.name # o.id /\ argument.name = op.id
    BY <1>1, <2>1, <2>2, <2>5 DEF Reference!Names, Reference!AliasStands
  <2>6. CASE argument.name # o.id /\ argument.name # op.id
    BY <1>1, <2>1, <2>2, <2>6 DEF Reference!Names, Reference!AliasStands
  <2> QED
    BY <2>3, <2>4, <2>5, <2>6
<1> QED
  BY <1>1, <1>2, <1>4

(* A path is a list as long as the operation's.                            *)
LEMMA PathIs ==
  ASSUME NEW op, IsASequence(op.path), NEW params
  PROVE  /\ Len(Reference!PathOf(op, params)) = Len(op.path)
         /\ \A i \in DOMAIN op.path : op.path[i][1] = "literal" =>
              Reference!PathOf(op, params)[i] = op.path[i][2]
<1>1. op.path \in Seq({op.path[i] : i \in DOMAIN op.path})
  BY DEF IsASequence
<1>2. Len(op.path) \in Nat /\ DOMAIN op.path = 1..Len(op.path)
  BY <1>1
<1> DEFINE Step(i) == IF op.path[i][1] = "parameter"
                      THEN Head(Reference!ParameterValues(params[op.path[i][2]])).of
                      ELSE op.path[i][2]
           p == [i \in 1..Len(op.path) |-> Step(i)]
<1>3. Reference!PathOf(op, params) = p
  BY <1>2 DEF Reference!PathOf
<1>4. p \in Seq({Step(i) : i \in 1..Len(op.path)}) /\ Len(p) = Len(op.path)
  <2> HIDE DEF Step
  <2> QED
    BY <1>2
<1> QED
  BY <1>2, <1>3, <1>4

(* The query has every declared parameter that was given a value.          *)
LEMMA QueryIs ==
  ASSUME NEW params, NEW definitions, \A n \in DOMAIN params : params[n] \in Values,
         DOMAIN params \subseteq DOMAIN definitions
  PROVE  /\ \A q \in Reference!QueryPairs(params, definitions) : definitions[q[1]].in = "query"
         /\ \A n \in DOMAIN params :
              definitions[n].in = "query" /\ Reference!ParameterValues(params[n]) # <<>>
                => n \in {q[1] : q \in Reference!QueryPairs(params, definitions)}
<1>1. \A q \in Reference!QueryPairs(params, definitions) : definitions[q[1]].in = "query"
  BY DEF Reference!QueryPairs
<1>2. ASSUME NEW n \in DOMAIN params, definitions[n].in = "query",
             Reference!ParameterValues(params[n]) # <<>>
      PROVE  n \in {q[1] : q \in Reference!QueryPairs(params, definitions)}
  <2> DEFINE values == Reference!ParameterValues(params[n])
  <2>1. PICK i \in DOMAIN values : TRUE
    <3>1. CASE params[n].json = "array"
      <4>1. IsASequence(values)
        BY <3>1, ReferenceAssumption DEF Reference!ParameterValues
      <4> HIDE DEF values
      <4>2. values \in Seq({values[i] : i \in DOMAIN values}) /\ values # <<>>
        BY <1>2, <4>1 DEF IsASequence, values
      <4> QED
        BY <4>2
    <3>2. CASE params[n].json # "array"
      BY <3>2 DEF Reference!ParameterValues
    <3> QED
      BY <3>1, <3>2
  <2>2. values[i] \in Reference!Range(values)
    BY <2>1 DEF Reference!Range
  <2> DEFINE pair == <<n, values[i].of>>
  <2>3. pair \in Reference!QueryPairs(params, definitions)
    BY <1>2, <2>2 DEF Reference!QueryPairs
  <2>4. pair[1] = n
    OBVIOUS
  <2> HIDE DEF pair
  <2> QED
    BY <2>3, <2>4
<1> QED
  BY <1>1, <1>2

LEMMA PreparedIsDeclared ==
  ASSUME NEW doc \in Documents, NEW argument \in Arguments,
         NEW request \in Reference!Prepare(argument, doc)
  PROVE  \E op \in Reference!Named(doc, argument) :
           /\ {o \in Reference!Named(doc, argument) :
                 o.path # <<>> /\ o.path[1] = <<"literal", "4">>} = {op}
           /\ Reference!Declared(doc, argument, request, op)
<1>1. PICK op \in Reference!Called(doc, argument.resource, argument.name) :
        /\ ~Reference!Duplicated(doc) /\ Reference!AllResolvable(op, doc)
        /\ Reference!ValidParameters(op, argument.params, Reference!ParameterDefinitions(op, doc))
        /\ Reference!ValidBody(op, argument.json, doc)
        /\ request = [operation |-> op.id, method |-> op.http, effect |-> Reference!Effect(op),
             path |-> Reference!PathOf(op, argument.params),
             query |-> Reference!QueryPairs(argument.params,
                                            Reference!ParameterDefinitions(op, doc)),
             body |-> argument.json]
  BY DEF Reference!Prepare
<1>2. /\ op \in Reference!Named(doc, argument)
      /\ {o \in Reference!Named(doc, argument) :
            o.path # <<>> /\ o.path[1] = <<"literal", "4">>} = {op}
  BY <1>1, NamedOnce
<1>3. op \in doc.operations
  BY DEF Reference!Called, Reference!Executable
<1>4. /\ request.operation = op.id /\ Len(request.path) = Len(op.path)
      /\ \A i \in DOMAIN op.path :
           op.path[i][1] = "literal" => request.path[i] = op.path[i][2]
  <2>1. IsASequence(op.path)
    BY <1>3, ReferenceAssumption
  <2> QED
    BY <1>1, <2>1, PathIs
<1> DEFINE definitions == Reference!ParameterDefinitions(op, doc)
<1>5. /\ DOMAIN argument.params \subseteq DOMAIN definitions
      /\ \A n \in DOMAIN definitions : definitions[n].needed => n \in DOMAIN argument.params
  BY <1>1 DEF Reference!ValidParameters
<1>6. /\ \A n \in {q[1] : q \in request.query} : definitions[n].in = "query"
      /\ \A n \in DOMAIN definitions :
           /\ definitions[n].needed /\ definitions[n].in = "query"
           /\ Reference!ParameterValues(argument.params[n]) # <<>>
           => n \in {q[1] : q \in request.query}
  <2>1. request.query = Reference!QueryPairs(argument.params, definitions)
    BY <1>1
  <2>2. \A n \in DOMAIN argument.params : argument.params[n] \in Values
    BY ReferenceAssumption
  <2> HIDE DEF definitions
  <2>3. \A q \in request.query : definitions[q[1]].in = "query"
    BY <1>5, <2>1, <2>2, QueryIs
  <2>4. \A n \in DOMAIN argument.params :
          definitions[n].in = "query" /\ Reference!ParameterValues(argument.params[n]) # <<>>
            => n \in {q[1] : q \in request.query}
    BY <1>5, <2>1, <2>2, QueryIs
  <2> QED
    BY <1>5, <2>3, <2>4
<1>7. ASSUME request.body # NotSet, Reference!Settled(op.body.schema, doc)
      PROVE  request.body \in Reference!Conforming(doc)[op.body.schema]
  <2> DEFINE schema == Reference!ResolveLocalRefs(Reference!BodySchema(op, doc), doc)
  <2>1. /\ op.body # NotSet /\ request.body = argument.json /\ schema # NotSet
        /\ argument.json \in Reference!ValidateJsonSchema[schema]
    BY <1>1, <1>7 DEF Reference!ValidBody
  <2>2. Reference!BodySchema(op, doc) # NotSet
    BY <1>1, <2>1 DEF Reference!AllResolvable
  <2> QED
    BY <1>3, <1>7, <2>1, <2>2, AcceptedConforms
<1> QED
  BY <1>2, <1>4, <1>6, <1>7 DEF Reference!Declared

(* A request is what the document declares of the one operation of the     *)
(* name the user gave: its path, its query, and a body that conforms to    *)
(* its schema (tempo_openapi.rs, prepare_request).                         *)
THEOREM RequestsAreDeclared == Reference!Spec => []Reference!PreparedAsDeclared
<1> DEFINE IInv == document \in Documents /\ Reference!PreparedAsDeclared
<1>1. Reference!Init => IInv
  BY DEF Reference!Init, Reference!PreparedAsDeclared
<1>2. IInv /\ [Reference!Next]_(Reference!vars) => IInv'
  <2> SUFFICES ASSUME IInv, [Reference!Next]_(Reference!vars) PROVE IInv'
    OBVIOUS
  <2>1. CASE Reference!Run
    <3>1. PICK argument \in Arguments :
            prepared' = IF Reference!Prepare(argument, document) = {} THEN NotSet
                        ELSE [argument |-> argument,
                              request |-> CHOOSE r \in Reference!Prepare(argument, document) : TRUE]
      BY <2>1 DEF Reference!Run
    <3>2. document' = document
      BY <2>1 DEF Reference!Run
    <3>3. CASE Reference!Prepare(argument, document) = {}
      BY <3>1, <3>2, <3>3 DEF Reference!PreparedAsDeclared
    <3>4. CASE Reference!Prepare(argument, document) # {}
      <4> DEFINE request == CHOOSE r \in Reference!Prepare(argument, document) : TRUE
      <4>1. request \in Reference!Prepare(argument, document)
        BY <3>4
      <4>2. prepared' = [argument |-> argument, request |-> request]
        BY <3>1, <3>4
      <4> HIDE DEF request
      <4>3. prepared'.argument = argument /\ prepared'.request = request
        BY <4>2
      <4>4. \E op \in Reference!Named(document, argument) :
              /\ {o \in Reference!Named(document, argument) :
                    o.path # <<>> /\ o.path[1] = <<"literal", "4">>} = {op}
              /\ Reference!Declared(document, argument, request, op)
        BY <4>1, PreparedIsDeclared
      <4> QED
        BY <3>2, <4>3, <4>4 DEF Reference!PreparedAsDeclared
    <3> QED
      BY <3>3, <3>4
  <2>2. CASE Reference!Load
    BY <2>2 DEF Reference!Load, Reference!PreparedAsDeclared
  <2>3. CASE UNCHANGED Reference!vars
    BY <2>3 DEF Reference!vars, Reference!PreparedAsDeclared
  <2> QED
    BY <2>1, <2>2, <2>3 DEF Reference!Next
<1> QED
  BY <1>1, <1>2, PTL DEF Reference!Spec


-----------------------------------------------------------------------------
(* The composition. In a behaviour of it the component that was chosen     *)
(* behaves as it does alone, and the others' properties say nothing.       *)

LEMMA PartStays == [ComponentsNext]_componentsVars => part' = part
  BY DEF ComponentsNext, componentsVars

LEMMA RetentionAlone == ComponentsSpec => Ret!Spec \/ []~(part = "retention")
<1>1. ComponentsInit => Ret!Init \/ ~(part = "retention")
  BY DEF ComponentsInit
<1>2. [ComponentsNext]_componentsVars => [Ret!Next]_(Ret!vars) \/ ~(part = "retention")
  BY DEF ComponentsNext, componentsVars, RetentionVars, Ret!vars, Ret!tables, Ret!remote
<1>3. [ComponentsNext]_componentsVars => (part = "retention" <=> (part = "retention")')
  BY PartStays
<1> QED
  BY <1>1, <1>2, <1>3, PTL DEF ComponentsSpec, Ret!Spec

LEMMA RunsAlone == ComponentsSpec => Runs!Spec \/ []~(part = "runs")
<1>1. ComponentsInit => Runs!Init \/ ~(part = "runs")
  BY DEF ComponentsInit
<1>2. [ComponentsNext]_componentsVars => [Runs!Next]_(Runs!vars) \/ ~(part = "runs")
  BY DEF ComponentsNext, componentsVars, RunsVars, Runs!vars, Runs!store
<1>3. [ComponentsNext]_componentsVars => (part = "runs" <=> (part = "runs")')
  BY PartStays
<1> QED
  BY <1>1, <1>2, <1>3, PTL DEF ComponentsSpec, Runs!Spec

LEMMA ChoicesAlone == ComponentsSpec => Setup!Spec \/ []~(part = "choices")
<1>1. ComponentsInit => Setup!Init \/ ~(part = "choices")
  BY DEF ComponentsInit
<1>2. [ComponentsNext]_componentsVars => [Setup!Next]_(Setup!vars) \/ ~(part = "choices")
  BY DEF ComponentsNext, componentsVars, ChoicesVars, Setup!vars, Setup!effects, Setup!bounds
<1>3. [ComponentsNext]_componentsVars => (part = "choices" <=> (part = "choices")')
  BY PartStays
<1> QED
  BY <1>1, <1>2, <1>3, PTL DEF ComponentsSpec, Setup!Spec

LEMMA ReplaysAlone == ComponentsSpec => Corpus!Spec \/ []~(part = "replays")
<1>1. ComponentsInit => Corpus!Init \/ ~(part = "replays")
  BY DEF ComponentsInit
<1>2. [ComponentsNext]_componentsVars => [Corpus!Next]_(Corpus!vars) \/ ~(part = "replays")
  BY DEF ComponentsNext, componentsVars, ReplaysVars, Corpus!vars
<1>3. [ComponentsNext]_componentsVars => (part = "replays" <=> (part = "replays")')
  BY PartStays
<1> QED
  BY <1>1, <1>2, <1>3, PTL DEF ComponentsSpec, Corpus!Spec

LEMMA MasksAlone == ComponentsSpec => Mask!Spec \/ []~(part = "masks")
<1>1. ComponentsInit => Mask!Init \/ ~(part = "masks")
  BY DEF ComponentsInit
<1>2. [ComponentsNext]_componentsVars => [Mask!Next]_(Mask!vars) \/ ~(part = "masks")
  BY DEF ComponentsNext, componentsVars, MasksVars, Mask!vars
<1>3. [ComponentsNext]_componentsVars => (part = "masks" <=> (part = "masks")')
  BY PartStays
<1> QED
  BY <1>1, <1>2, <1>3, PTL DEF ComponentsSpec, Mask!Spec

LEMMA HooksAlone == ComponentsSpec => Hooks!Spec \/ []~(part = "hooks")
<1>1. ComponentsInit => Hooks!Init \/ ~(part = "hooks")
  BY DEF ComponentsInit
<1>2. [ComponentsNext]_componentsVars => [Hooks!Next]_(Hooks!vars) \/ ~(part = "hooks")
  BY DEF ComponentsNext, componentsVars, HooksVars, Hooks!vars, Hooks!bounds, Hooks!store,
       Hooks!history
<1>3. [ComponentsNext]_componentsVars => (part = "hooks" <=> (part = "hooks")')
  BY PartStays
<1> QED
  BY <1>1, <1>2, <1>3, PTL DEF ComponentsSpec, Hooks!Spec

LEMMA WorkAlone == ComponentsSpec => Work!Spec \/ []~(part = "worklogs")
<1>1. ComponentsInit => Work!Init \/ ~(part = "worklogs")
  BY DEF ComponentsInit
<1>2. [ComponentsNext]_componentsVars => [Work!Next]_(Work!vars) \/ ~(part = "worklogs")
  BY DEF ComponentsNext, componentsVars, WorklogsVars, Work!vars
<1>3. [ComponentsNext]_componentsVars => (part = "worklogs" <=> (part = "worklogs")')
  BY PartStays
<1> QED
  BY <1>1, <1>2, <1>3, PTL DEF ComponentsSpec, Work!Spec

LEMMA SourcesAlone == ComponentsSpec => Src!Spec \/ []~(part = "sources")
<1>1. ComponentsInit => Src!Init \/ ~(part = "sources")
  BY DEF ComponentsInit
<1>2. [ComponentsNext]_componentsVars => [Src!Next]_(Src!vars) \/ ~(part = "sources")
  BY DEF ComponentsNext, componentsVars, SourcesVars, Src!vars
<1>3. [ComponentsNext]_componentsVars => (part = "sources" <=> (part = "sources")')
  BY PartStays
<1> QED
  BY <1>1, <1>2, <1>3, PTL DEF ComponentsSpec, Src!Spec

LEMMA DocumentsAlone == ComponentsSpec => Docs!Spec \/ []~(part = "documents")
<1>1. ComponentsInit => Docs!Init \/ ~(part = "documents")
  BY DEF ComponentsInit
<1>2. [ComponentsNext]_componentsVars => [Docs!Next]_(Docs!vars) \/ ~(part = "documents")
  BY DEF ComponentsNext, componentsVars, DocumentsVars, Docs!vars
<1>3. [ComponentsNext]_componentsVars => (part = "documents" <=> (part = "documents")')
  BY PartStays
<1> QED
  BY <1>1, <1>2, <1>3, PTL DEF ComponentsSpec, Docs!Spec

LEMMA ReferenceIsAlone == ComponentsSpec => Reference!Spec \/ []~(part = "reference")
<1>1. ComponentsInit => Reference!Init \/ ~(part = "reference")
  BY DEF ComponentsInit
<1>2. [ComponentsNext]_componentsVars => [Reference!Next]_(Reference!vars) \/ ~(part = "reference")
  BY DEF ComponentsNext, componentsVars, ReferenceVars, Reference!vars
<1>3. [ComponentsNext]_componentsVars => (part = "reference" <=> (part = "reference")')
  BY PartStays
<1> QED
  BY <1>1, <1>2, <1>3, PTL DEF ComponentsSpec, Reference!Spec

(* Whatever retention and purge forget, Tempo gets an operation's worklog  *)
(* once (operator_retention.rs).                                           *)
THEOREM NothingLoggedTwice == ComponentsSpec => []OneWorklogPerOperation
BY RetentionAlone, OneWorklogPerOperationHolds, PTL DEF OneWorklogPerOperation

(* A run submits only what was agreed to (public_tracking.rs).             *)
THEOREM NothingWithoutConsent == ComponentsSpec => SubmitsOnlyConsented
<1>1. [Runs!ConsentedStep]_(Runs!vars) => Runs!ConsentedStep
  BY DEF Runs!ConsentedStep, Runs!vars
<1> QED
  BY <1>1, RunsAlone, OnlyConsented, PTL
     DEF SubmitsOnlyConsented, Runs!SubmitsOnlyConsented

(* What is configured and installed is what the user chose                 *)
(* (generalized_tracking_setup_tui.rs, public_tracking.rs).                *)
THEOREM ChosenIsConfigured == ComponentsSpec => []ChoicesKept
BY ChoicesAlone, ChoicesAreKept, PTL DEF ChoicesKept

(* A corpus that passed has the days and the tags that are required, and   *)
(* every proposal in it has evidence, is the only one for its issue and is *)
(* not logged already (replay.rs).                                         *)
THEOREM PassedCorpusIsClean == ComponentsSpec => []PassedIsClean
BY ReplaysAlone, PassedIsWhole, PTL DEF PassedIsClean

(* What `drag list` prints is the complete result, cut down to the mask    *)
(* (field_selection.rs, list.rs).                                          *)
THEOREM PrintsAsSelected == ComponentsSpec => []PrintedAsSelected
BY MasksAlone, MaskedAsSelected, PTL DEF PrintedAsSelected

(* Hooks are kept and taken away as they should be, and captured events    *)
(* stay (claude_tracking.rs, collectors.rs).                               *)
THEOREM HooksStay == ComponentsSpec => []HooksInv
BY HooksAlone, HooksAreKept, PTL DEF HooksInv

(* What is logged as an interval is listed as that interval whenever the   *)
(* clock shows its ends, and a listed duration typed again logs the same   *)
(* time (time.rs, log.rs).                                                 *)
THEOREM ListedAsTyped == ComponentsSpec => []ListedAsLogged
BY WorkAlone, TypedAsListed, PTL DEF ListedAsLogged

(* The companion recognises in the list it reads what it submitted, unless *)
(* the zone changes its offset within it (drag_gateway.rs).                *)
THEOREM RecognisesItsOwn == ComponentsSpec => []OwnIsRecognised
BY WorkAlone, OwnAreRecognised, PTL DEF OwnIsRecognised

(* What an audit approves was not submitted before, and is free on Tempo   *)
(* and of the other proposals it approves (drag_gateway.rs).               *)
THEOREM NothingTakenTwice == ComponentsSpec => ApprovedIsFree
<1>1. [Work!ApprovesWhatIsFree]_(Work!vars) => Work!ApprovesWhatIsFree
  BY DEF Work!ApprovesWhatIsFree, Work!vars
<1> QED
  BY <1>1, WorkAlone, FreeIsApproved, PTL DEF ApprovedIsFree, Work!ApprovedIsFree

(* A date collected since its sources changed has the events of that date  *)
(* in the journal as they are and every commit; of the versions of an      *)
(* occurrence the newest is live and none beside it but a version 0 that   *)
(* was followed by version 1 (collectors.rs, evidence_sources.rs).         *)
THEOREM CollectedAsItIs == ComponentsSpec => []CollectedIsCurrent
BY SourcesAlone, JournalIsCurrent, PTL DEF CollectedIsCurrent

(* "Not modified" means the current document (tempo_openapi.rs).           *)
THEOREM NotModifiedIsCurrent == ComponentsSpec => []DocumentsInv
BY DocumentsAlone, TagOfItsDocument, PTL DEF DocumentsInv

(* A request is what the document declares of the one operation of its     *)
(* name (tempo_openapi.rs, prepare_request).                               *)
THEOREM PreparesAsDeclared == ComponentsSpec => []PreparedAsDeclared
BY ReferenceIsAlone, RequestsAreDeclared, PTL DEF PreparedAsDeclared

=============================================================================
