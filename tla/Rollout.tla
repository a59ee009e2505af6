------------------------------- MODULE Rollout -------------------------------
(***************************************************************************)
(* The rollout state of the companion (drag-companion/src/rollout.rs):     *)
(* six stages from capture-only to general-autonomy, a gate of recorded    *)
(* evidence before each promotion, and incidents, which reset a gate and   *)
(* every gate after it and may demote the stage. Executors ask only        *)
(* whether live mutation is allowed.                                       *)
(*                                                                         *)
(* Every `rollout` command loads rollout-state.json, changes its copy and  *)
(* saves it; the exclusive companion lock (run_coordination.rs) is held    *)
(* around the three. Stage k is left through gate k. What a gate counts is *)
(* kept up to the threshold it is compared with; its counters that must be *)
(* zero, and its precisions, are one flag: spoiled.                        *)
(***************************************************************************)
EXTENDS Integers

CONSTANTS
    Procs,        \* companion processes
    NeedDays,     \* eligible days a gate asks for
    NeedVolume    \* proposals or reviewed batches a gate asks for

Fixture == 0      \* also the stage capture-only
Replay == 1       \* historical-replay
Shadow == 2
Reviewed == 3     \* reviewed-batches
Restricted == 4   \* restricted-autonomy
General == 5      \* general-autonomy, the last stage

Stages == Fixture .. General
Evidence == Fixture .. Restricted    \* the gates whose evidence is ever read

ASSUME NeedsAssumption == NeedDays \in [Evidence -> Nat] /\ NeedVolume \in [Evidence -> Nat]

Nobody == "nobody"
ASSUME ProcsAssumption == Nobody \notin Procs

VARIABLES
    file,         \* rollout-state.json: the stage and the gates
    copy,         \* the state each process has loaded
    lock,         \* who holds the companion lock exclusively
    earned        \* history: the evidence given for the restricted gate since
                  \* the last incident

vars == <<file, copy, lock, earned>>

Gate == [days : Nat, volume : Nat, spoiled : BOOLEAN, passed : BOOLEAN]
State == [stage : Stages, gates : [Evidence -> Gate]]

EmptyGate == [days |-> 0, volume |-> 0, spoiled |-> FALSE, passed |-> FALSE]
EmptyState == [stage |-> Fixture, gates |-> [g \in Evidence |-> EmptyGate]]

UpTo(n, x) == IF x < n THEN x ELSE n

-----------------------------------------------------------------------------
(* Evidence.                                                               *)

\* The gates that a violation, or a precision below 0.99, fails. The three
\* flags of the fixture gate cannot be given as false on the command line.
Spoilable == {Replay, Shadow, Restricted}

GatePassed(g, gate) ==
    /\ gate.days >= NeedDays[g]
    /\ gate.volume >= NeedVolume[g]
    /\ g \in Spoilable => ~gate.spoiled

WithEvidence(s, g, days, volume, spoiled) ==
    LET sum == [s.gates[g] EXCEPT !.days = UpTo(NeedDays[g], @ + days),
                                  !.volume = UpTo(NeedVolume[g], @ + volume),
                                  !.spoiled = @ \/ spoiled]
    IN  [s EXCEPT !.gates[g] = [sum EXCEPT !.passed = GatePassed(g, sum)]]

(* Incidents. The general gate stands for the restricted one.              *)

\* Deviation: only the gate itself is reset.
ResetGateOnly(gates, g) == [gates EXCEPT ![UpTo(Restricted, g)] = EmptyGate]

ResetGateAndDownstream(gates, g) ==
    [h \in Evidence |-> IF UpTo(Restricted, g) <= h THEN EmptyGate ELSE gates[h]]

\* Deviation: an incident never demotes below shadow.
DemoteToShadow(stage, g) == UpTo(Shadow, stage)

(* An incident at the shadow gate or later leaves the stage at shadow at   *)
(* most, an earlier one at the stage of its gate.                          *)
Demoted(stage, g) == UpTo(UpTo(Shadow, g), stage)

AfterIncident(s, g) ==
    [stage |-> Demoted(s.stage, g), gates |-> ResetGateAndDownstream(s.gates, g)]

(* Promotion, by one stage, through its gate.                              *)
Promoted(s) ==
    IF s.stage \in Evidence /\ s.gates[s.stage].passed
    THEN [s EXCEPT !.stage = @ + 1]
    ELSE s

(* persisted_live_mutation_allowed                                         *)
Live(s) == s.stage = General /\ s.gates[Restricted].passed

-----------------------------------------------------------------------------
Init ==
    /\ file = EmptyState
    /\ copy = [p \in Procs |-> EmptyState]
    /\ lock = {}
    /\ earned = EmptyGate

(* try_lock_exclusive: a command that finds the lock taken ends.           *)
LockFree(p) == lock = {}

(* A missing file is the default state.                                    *)
Load(p) ==
    /\ p \notin lock /\ LockFree(p)
    /\ lock' = lock \cup {p}
    /\ copy' = [copy EXCEPT ![p] = file]
    /\ UNCHANGED <<file, earned>>

(* save_rollout_state replaces the file in one step.                       *)
Save(p, s) ==
    /\ p \in lock
    /\ file' = s
    /\ lock' = lock \ {p}
    /\ copy' = [copy EXCEPT ![p] = EmptyState]

RecordEvidence(p) ==
    \E g \in Evidence, days, volume \in 0 .. 1, spoiled \in BOOLEAN :
        /\ spoiled => g \in Spoilable
        /\ Save(p, WithEvidence(copy[p], g, days, volume, spoiled))
        /\ earned' = IF g = Restricted
                     THEN [earned EXCEPT !.days = UpTo(NeedDays[g], @ + days),
                                         !.volume = UpTo(NeedVolume[g], @ + volume),
                                         !.spoiled = @ \/ spoiled]
                     ELSE earned

RecordIncident(p) ==
    \E g \in Stages :
        /\ Save(p, AfterIncident(copy[p], g))
        /\ earned' = EmptyGate

Promote(p) ==
    /\ Save(p, Promoted(copy[p]))
    /\ UNCHANGED earned

(* status, effective-mode, evidence for the general gate or an expansion,  *)
(* which nothing reads; an unknown gate; a failed write; a crash.          *)
EndUnchanged(p) ==
    /\ p \in lock
    /\ lock' = lock \ {p}
    /\ copy' = [copy EXCEPT ![p] = EmptyState]
    /\ UNCHANGED <<file, earned>>

Next ==
    \E p \in Procs :
        \/ Load(p)
        \/ RecordEvidence(p)
        \/ RecordIncident(p)
        \/ Promote(p)
        \/ EndUnchanged(p)

Spec == Init /\ [][Next]_vars

-----------------------------------------------------------------------------
(* Properties.                                                             *)

(* Between the load and the save of a command no other command saves: the  *)
(* copy it changes is the file it replaces.                                *)
Inv ==
    /\ file \in State
    /\ copy \in [Procs -> State]
    /\ lock \in SUBSET Procs
    /\ earned \in Gate
    /\ \A p \in lock : lock = {p} /\ copy[p] = file

Backed(s, g) ==
    /\ s.gates[g].days >= NeedDays[g]
    /\ s.gates[g].volume >= NeedVolume[g]
    /\ s.gates[g].passed \/ s.gates[g].spoiled

(* Every gate below the stage still holds the evidence it was passed with: *)
(* whatever incidents, promotions and evidence recorded ahead of its stage *)
(* came before, no stage stands on a gate that was reset under it.         *)
StageIsBacked == \A g \in Evidence : g < file.stage => Backed(file, g)

(* Live mutation is allowed only on evidence for the restricted gate that  *)
(* is complete, unspoiled and younger than the last incident, whichever    *)
(* gate that incident was recorded at and whichever process recorded it.   *)
LiveIsEarned ==
    Live(file) => /\ earned.days >= NeedDays[Restricted]
                  /\ earned.volume >= NeedVolume[Restricted]
                  /\ ~earned.spoiled
=============================================================================
