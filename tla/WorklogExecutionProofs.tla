----------------------- MODULE WorklogExecutionProofs -----------------------
(***************************************************************************)
(* Proofs about WorklogExecution for every set of processes, every number  *)
(* of proposals and every choice of lock directories, commands, earlier    *)
(* approvals, clashes and hand edits.                                      *)
(***************************************************************************)
EXTENDS WorklogExecution, TLAPS

\* Which labels belong to which of the sets of labels; the sets stay folded elsewhere.
LEMMA LabelFacts ==
  /\ "idle" \in Labels /\ "audit" \in Labels /\ "decide" \in Labels
  /\ "coordLock" \in Labels /\ "coordReconcile" \in Labels /\ "coordLease" \in Labels
  /\ "coordFinish" \in Labels /\ "coordRelease" \in Labels /\ "coordPublish" \in Labels
  /\ "coordSkip" \in Labels /\ "select" \in Labels /\ "gate" \in Labels
  /\ "execLock" \in Labels /\ "execLease" \in Labels /\ "checks" \in Labels
  /\ "execReconcile" \in Labels /\ "load" \in Labels /\ "loop" \in Labels
  /\ "reread" \in Labels /\ "adopt" \in Labels /\ "adoptConfirm" \in Labels
  /\ "regate" \in Labels /\ "intend" \in Labels /\ "spawn" \in Labels
  /\ "await" \in Labels /\ "doubt" \in Labels /\ "execRelease" \in Labels
  /\ "finish" \in Labels
  BY DEF Labels

\* Membership of the states of operations, runs, posts, children and outcomes.
LEMMA StateFacts ==
  /\ "default" \in Accounts /\ "tempo" \in Accounts
  /\ "completed" \in Outcomes /\ "uncertain" \in Outcomes
  /\ "gated" \in Outcomes /\ "failed" \in Outcomes
  /\ "none" \in RunStates /\ "running" \in RunStates /\ "completed" \in RunStates
  /\ "uncertain" \in RunStates
  /\ "none" \in OperationStates /\ "submitting" \in OperationStates
  /\ "uncertain" \in OperationStates /\ "confirmed" \in OperationStates
  /\ "failed" \in OperationStates
  /\ "none" \in ChildStates /\ "starting" \in ChildStates /\ "posted" \in ChildStates
  /\ "exit0" \in ChildStates /\ "exit1" \in ChildStates /\ "exit2" \in ChildStates
  /\ "none" \in PostStates /\ "sent" \in PostStates /\ "landed" \in PostStates
  /\ "dropped" \in PostStates
  BY DEF Accounts, Outcomes, RunStates, OperationStates, Unresolved, ChildStates, PostStates

-----------------------------------------------------------------------------
(* Type correctness, by the groups of actions of Next.                     *)

\* The initial state is well typed.
LEMMA TypeInit == Init => TypeOK
  BY NumProposalsAssumption, DecidedAssumption, ProcsAssumption, LabelFacts, StateFacts
  DEF Init, TypeOK, Proposals, NoProposal

\* The steps of a coordinated run keep the types.
LEMMA TypeCoordinate ==
  ASSUME TypeOK, NEW p \in Procs, Coordinate(p)
  PROVE  TypeOK'
  <1> USE LabelFacts, StateFacts DEF TypeOK, Goto, Leave, NoProposal
  <1>1. CASE CoordLock(p)
    <2>1. acct' \in [Procs -> Accounts] /\ flock' \in [Accounts -> Procs \cup {NoOwner}]
      BY <1>1 DEF CoordLock, TempoAccount
    <2>2. pc' \in [Procs -> Labels] /\ outcome' \in [Procs -> Outcomes]
      BY SMTT(20), <1>1 DEF CoordLock
    <2> QED BY <1>1, <2>1, <2>2 DEF CoordLock, storeVars, remoteVars
  <1>2. CASE CoordReconcile(p)
    <2>1. ops' \in [Proposals -> OperationStates]
      BY <1>2 DEF CoordReconcile, Reconciled
    <2> QED BY <1>2, <2>1 DEF CoordReconcile, lockVars, remoteVars
  <1>3. CASE CoordLease(p)
    <2>4. pc' \in [Procs -> Labels] /\ outcome' \in [Procs -> Outcomes]
      BY <1>3 DEF CoordLease
    <2>1. coordRun' \in [Accounts -> RunStates]
      BY <1>3 DEF CoordLease
    <2>2. lease' \in [Accounts -> Procs \cup {NoOwner, Orphan}] /\ expired' \in [Accounts -> BOOLEAN]
      BY <1>3 DEF CoordLease
    <2>3. flock' \in [Accounts -> Procs \cup {NoOwner}]
      BY <1>3 DEF CoordLease, DroppedLock
    <2> QED BY <1>3, <2>1, <2>2, <2>3, <2>4 DEF CoordLease, remoteVars
  <1>4. CASE CoordFinish(p)
    BY <1>4 DEF CoordFinish, remoteVars
  <1>5. CASE CoordRelease(p)
    <2>1. lease' \in [Accounts -> Procs \cup {NoOwner, Orphan}]
      BY <1>5 DEF CoordRelease, ReleasedLease
    <2>2. pc' \in [Procs -> Labels]
      BY <1>5 DEF CoordRelease
    <2> QED BY <1>5, <2>1, <2>2 DEF CoordRelease, storeVars, remoteVars
  <1>6. CASE CoordPublish(p)
    <2>1. flock' \in [Accounts -> Procs \cup {NoOwner}]
      BY <1>6 DEF CoordPublish, CoordReturn, DroppedLock
    <2>2. pc' \in [Procs -> Labels] /\ outcome' \in [Procs -> Outcomes]
      BY SMTT(20), <1>6 DEF CoordPublish, CoordReturn
    <2> QED BY <1>6, <2>1, <2>2 DEF CoordPublish, remoteVars
  <1>7. CASE CoordSkip(p)
    <2>1. flock' \in [Accounts -> Procs \cup {NoOwner}]
      BY <1>7 DEF CoordSkip, CoordReturn, DroppedLock
    <2>2. pc' \in [Procs -> Labels] /\ outcome' \in [Procs -> Outcomes]
      BY <1>7 DEF CoordSkip, CoordReturn
    <2>3. lease' \in [Accounts -> Procs \cup {NoOwner, Orphan}]
      BY <1>7 DEF CoordSkip, ReleasedLease
    <2> QED BY <1>7, <2>1, <2>2, <2>3 DEF CoordSkip, storeVars, remoteVars
  <1> QED BY <1>1, <1>2, <1>3, <1>4, <1>5, <1>6, <1>7 DEF Coordinate

\* The steps of an execution keep the types.
LEMMA TypeExecute ==
  ASSUME TypeOK, NEW p \in Procs, Execute(p)
  PROVE  TypeOK'
  <1> USE LabelFacts, StateFacts DEF TypeOK, Goto, Leave, NoProposal
  <1>1. CASE Select(p)
    BY <1>1 DEF Select, storeVars, lockVars, remoteVars
  <1>2. CASE Gate(p)
    <2>1. pc' \in [Procs -> Labels] /\ outcome' \in [Procs -> Outcomes]
      BY SMTT(20), <1>2 DEF Gate
    <2> QED BY <1>2, <2>1 DEF Gate, storeVars, lockVars, remoteVars
  <1>3. CASE ExecLock(p)
    <2>1. acct' \in [Procs -> Accounts] /\ flock' \in [Accounts -> Procs \cup {NoOwner}]
      BY SMTT(20), <1>3 DEF ExecLock, TempoAccount
    <2>2. pc' \in [Procs -> Labels] /\ outcome' \in [Procs -> Outcomes]
      BY <1>3 DEF ExecLock
    <2> QED BY <1>3, <2>1, <2>2 DEF ExecLock, storeVars, remoteVars
  <1>4. CASE ExecLease(p)
    <2>4. pc' \in [Procs -> Labels] /\ outcome' \in [Procs -> Outcomes]
      BY <1>4 DEF ExecLease
    <2>1. coordRun' \in [Accounts -> RunStates]
      BY <1>4 DEF ExecLease
    <2>2. lease' \in [Accounts -> Procs \cup {NoOwner, Orphan}] /\ expired' \in [Accounts -> BOOLEAN]
      BY <1>4 DEF ExecLease
    <2>3. flock' \in [Accounts -> Procs \cup {NoOwner}]
      BY <1>4 DEF ExecLease, DroppedLock
    <2> QED BY <1>4, <2>1, <2>2, <2>3, <2>4 DEF ExecLease, remoteVars
  <1>5. CASE Checks(p)
    <2>1. pc' \in [Procs -> Labels] /\ outcome' \in [Procs -> Outcomes]
      BY <1>5 DEF Checks, LeaveLocked
    <2> QED BY <1>5, <2>1 DEF Checks, storeVars, lockVars, remoteVars
  <1>6. CASE ExecReconcile(p)
    <2>1. ops' \in [Proposals -> OperationStates]
      BY <1>6 DEF ExecReconcile, Reconciled
    <2> QED BY <1>6, <2>1 DEF ExecReconcile, lockVars, remoteVars
  <1>7. CASE Load(p)
    BY <1>7 DEF Load, storeVars, lockVars, remoteVars
  <1>8. CASE LoopEnds(p)
    BY <1>8 DEF LoopEnds, LeaveLocked, storeVars, lockVars, remoteVars
  <1>9. CASE LoopNext(p)
    <2>1. todo' \in [Procs -> SUBSET Proposals]
      BY <1>9 DEF LoopNext
    <2>2. cur' \in [Procs -> Proposals \cup {0}]
      BY <1>9 DEF LoopNext
    <2>3. pc' \in [Procs -> Labels] /\ outcome' \in [Procs -> Outcomes]
      BY SMTT(20), <1>9 DEF LoopNext, LeaveLocked
    <2> QED BY <1>9, <2>1, <2>2, <2>3 DEF LoopNext, storeVars, lockVars, remoteVars
  <1>10. CASE Reread(p)
    BY <1>10 DEF Reread, storeVars, lockVars, remoteVars
  <1>11. CASE Adopt(p)
    <2>1. ops' \in [Proposals -> OperationStates]
      BY <1>11 DEF Adopt, Intended
    <2> QED BY <1>11, <2>1 DEF Adopt, lockVars, remoteVars
  <1>12. CASE AdoptConfirm(p)
    <2>1. ops' \in [Proposals -> OperationStates]
      BY <1>12 DEF AdoptConfirm, Confirm
    <2> QED BY <1>12, <2>1 DEF AdoptConfirm, Confirm, lockVars, remoteVars
  <1>13. CASE Regate(p)
    <2>1. pc' \in [Procs -> Labels] /\ outcome' \in [Procs -> Outcomes]
      BY SMTT(20), <1>13 DEF Regate, LeaveLocked
    <2>2. todo' \in [Procs -> SUBSET Proposals] /\ cur' \in [Procs -> Proposals \cup {0}]
      BY <1>13 DEF Regate
    <2> QED BY <1>13, <2>1, <2>2 DEF Regate, storeVars, lockVars, remoteVars
  <1>14. CASE Intend(p)
    <2>1. ops' \in [Proposals -> OperationStates]
      BY <1>14 DEF Intend, Intended
    <2> QED BY <1>14, <2>1 DEF Intend, lockVars, remoteVars
  <1>15. CASE Spawn(p)
    <2>1. spawns' \in [Proposals -> Nat]
      <3>1. \A k \in Proposals : spawns'[k] = spawns[k] \/ spawns'[k] = spawns[k] + 1
        BY <1>15 DEF Spawn
      <3>2. \A k \in Proposals : spawns'[k] \in Nat
        BY <3>1
      <3>3. spawns' = [k \in Proposals |-> spawns'[k]]
        BY <1>15 DEF Spawn
      <3> QED BY <3>2, <3>3
    <2>3. sinceKill' \in Nat
      BY <1>15 DEF Spawn
    <2>2. child' \in [Proposals -> ChildStates]
      BY <1>15 DEF Spawn
    <2> QED BY <1>15, <2>1, <2>2, <2>3 DEF Spawn, storeVars, lockVars
  <1>16. CASE AwaitSuccess(p)
    <2>1. ops' \in [Proposals -> OperationStates]
      BY <1>16 DEF AwaitSuccess, Confirm
    <2> QED BY <1>16, <2>1 DEF AwaitSuccess, Confirm, lockVars, remoteVars
  <1>17. CASE AwaitAmbiguous(p)
    <2>1. ops' \in [Proposals -> OperationStates]
      BY <1>17 DEF AwaitAmbiguous
    <2> QED BY <1>17, <2>1 DEF AwaitAmbiguous, GiveUp, lockVars, remoteVars
  <1>18. CASE FinishUncertain(p)
    BY <1>18 DEF FinishUncertain, lockVars, remoteVars
  <1>19. CASE AwaitRefused(p)
    <2>1. ops' \in [Proposals -> OperationStates]
      BY <1>19 DEF AwaitRefused
    <2> QED BY <1>19, <2>1 DEF AwaitRefused, GiveUp, lockVars, remoteVars
  <1>20. CASE ExecRelease(p)
    BY <1>20 DEF ExecRelease, ReleasedLease, DroppedLock, storeVars, remoteVars
  <1> QED BY <1>1, <1>2, <1>3, <1>4, <1>5, <1>6, <1>7, <1>8, <1>9, <1>10, <1>11, <1>12, <1>13, <1>14, <1>15, <1>16, <1>17, <1>18, <1>19, <1>20 DEF Execute

\* Every step keeps the types.
LEMMA TypeNext == TypeOK /\ [Next]_vars => TypeOK'
  <1> SUFFICES ASSUME TypeOK, [Next]_vars PROVE TypeOK'
    OBVIOUS
  <1> USE LabelFacts, StateFacts DEF TypeOK
  <1>1. ASSUME NEW p \in Procs, AuditRead(p) PROVE TypeOK'
    BY <1>1 DEF AuditRead, Goto, storeVars, lockVars, remoteVars
  <1>2. ASSUME NEW p \in Procs, PersistPolicyDecisions(p) PROVE TypeOK'
    <2>1. pc' \in [Procs -> Labels] /\ outcome' \in [Procs -> Outcomes]
      BY SMTT(20), <1>2 DEF PersistPolicyDecisions, Goto, Leave
    <2>2. approved' \in SUBSET Proposals /\ seen' \in [Procs -> SUBSET Proposals]
      BY <1>2 DEF PersistPolicyDecisions, Accepted
    <2> QED BY <1>2, <2>1, <2>2 DEF PersistPolicyDecisions, lockVars, remoteVars
  <1>3. ASSUME NEW p \in Procs, ReadFails(p) PROVE TypeOK'
    <2>1. flock' \in [Accounts -> Procs \cup {NoOwner}]
      BY <1>3 DEF ReadFails, DroppedLock
    <2>2. pc' = [pc EXCEPT ![p] = "finish"] \/ pc' = [pc EXCEPT ![p] = "execRelease"]
      BY <1>3 DEF ReadFails, Goto, Leave, LeaveLocked
    <2>3. outcome' = [outcome EXCEPT ![p] = "failed"]
      BY <1>3 DEF ReadFails, Leave, LeaveLocked
    <2> QED
      BY SMTT(20), <1>3, <2>1, <2>2, <2>3 DEF ReadFails, NoProposal, storeVars, remoteVars
  <1>4. ASSUME NEW p \in Procs, Finish(p) PROVE TypeOK'
    BY <1>4 DEF Finish, Forget, Goto, NoProposal, lockVars, remoteVars, AllKinds
  <1>5. ASSUME NEW p \in Procs, Crash(p) PROVE TypeOK'
    <2>1. flock' \in [Accounts -> Procs \cup {NoOwner}]
      BY <1>5 DEF Crash, DroppedLock
    <2>2. lease' \in [Accounts -> Procs \cup {NoOwner, Orphan}]
      BY <1>5 DEF Crash
    <2> QED
      BY <1>5, <2>1, <2>2 DEF Crash, Forget, Goto, NoProposal, storeVars, remoteVars
  <1>6. ASSUME NEW p \in Procs, NEW k \in Kinds, Start(p, k) PROVE TypeOK'
    <2>1. k \in {"run", "draft", "audit", "execute", "reconcile", "resume"}
      BY KindsAssumption DEF AllKinds
    <2>2. kind' \in [Procs -> AllKinds \cup {"none"}]
      BY <1>6, KindsAssumption DEF Start
    <2> QED
      BY <1>6, <2>1, <2>2 DEF Start, Resumes, Goto, storeVars, lockVars, remoteVars
  <1>7. ASSUME NEW a \in Accounts, LeaseExpires(a) PROVE TypeOK'
    BY <1>7 DEF LeaseExpires, procVars, storeVars, remoteVars
  <1>8. ASSUME NEW k \in Proposals, Child(k) \/ Tempo(k) PROVE TypeOK'
    <2>1. child' \in [Proposals -> ChildStates]
      BY <1>8 DEF Child, ChildRefuses, ChildFailsEarly, ChildPosts, ChildSucceeds,
         ChildFailsLate, Tempo, TempoCreates, TempoDrops, Exit, UsageExit, RemoteFailureExit
    <2>2. post' \in [Proposals -> PostStates]
      BY <1>8 DEF Child, ChildRefuses, ChildFailsEarly, ChildPosts, ChildSucceeds,
         ChildFailsLate, Tempo, TempoCreates, TempoDrops
    <2>3. day' \in SUBSET Proposals /\ ever' \in SUBSET Proposals
      BY <1>8 DEF Child, ChildRefuses, ChildFailsEarly, ChildPosts, ChildSucceeds,
         ChildFailsLate, Tempo, TempoCreates, TempoDrops
    <2>4. UNCHANGED ChildVars
      BY <1>8 DEF Child, ChildRefuses, ChildFailsEarly, ChildPosts, ChildSucceeds,
         ChildFailsLate, Tempo, TempoCreates, TempoDrops
    <2> QED
      BY <2>1, <2>2, <2>3, <2>4 DEF ChildVars, procVars, storeVars, lockVars
  <1>9. ASSUME NEW k \in Edited, UserLogs(k) \/ UserDeletes(k) PROVE TypeOK'
    BY <1>9, EditedAssumption DEF UserLogs, UserDeletes, ChildVars, procVars, storeVars, lockVars
  <1>10. ASSUME NEW b \in BOOLEAN, SetLive(b) PROVE TypeOK'
    BY <1>10 DEF SetLive, procVars, storeVars, lockVars, remoteVars
  <1>11. CASE UNCHANGED vars
    BY <1>11 DEF vars, procVars, storeVars, lockVars, remoteVars
  <1> QED
    BY <1>1, <1>2, <1>3, <1>4, <1>5, <1>6, <1>7, <1>8, <1>9, <1>10, <1>11,
       TypeCoordinate, TypeExecute DEF Next, Process

\* Every variable stays in its type.
THEOREM TypeCorrect == Spec => []TypeOK
  BY TypeInit, TypeNext, PTL DEF Spec

-----------------------------------------------------------------------------
(* What a step of one process leaves to the others.                        *)

ProcessStep(p) == Process(p) \/ Crash(p) \/ \E k \in Kinds : Start(p, k)

\* A step of p changes no other process, takes only a free lock, drops only its own,
\* and holds the lock of its account wherever it should.
Footprint(p) ==
    /\ \A q \in Procs \ {p} :
         /\ pc'[q] = pc[q] /\ acct'[q] = acct[q]
         /\ todo'[q] = todo[q] /\ cur'[q] = cur[q]
    /\ \A a \in Accounts : flock'[a] = flock[a] \/ flock[a] \in {p, NoOwner}
    /\ Locked(p)' => flock'[acct'[p]] = p

\* The fallback account is an account too.
LEMMA TempoAccountType == ASSUME NEW S PROVE TempoAccount(S) \in Accounts
  BY DEF TempoAccount, Accounts

\* A coordinated run leaves the other processes and their locks alone.
LEMMA FootprintCoordinate ==
  ASSUME TypeOK, LockInv, NEW p \in Procs, Coordinate(p)
  PROVE  Footprint(p)
  <1> USE DEF TypeOK, LockInv, Footprint, Goto, Locked, CoordLabels, ExecLabels, InHand
  <1>1. CASE CoordLock(p)
    BY TempoAccountType, <1>1 DEF CoordLock, LockFree, Leave, storeVars, remoteVars
  <1>2. CASE CoordReconcile(p)
    BY <1>2 DEF CoordReconcile, lockVars, remoteVars
  <1>3. CASE CoordLease(p)
    BY <1>3 DEF CoordLease, Leave, DroppedLock, remoteVars
  <1>4. CASE CoordFinish(p)
    BY <1>4 DEF CoordFinish, remoteVars
  <1>5. CASE CoordRelease(p)
    BY <1>5 DEF CoordRelease, storeVars, remoteVars
  <1>6. CASE CoordPublish(p)
    BY <1>6 DEF CoordPublish, CoordReturn, Leave, DroppedLock, remoteVars
  <1>7. CASE CoordSkip(p)
    BY <1>7 DEF CoordSkip, CoordReturn, Leave, DroppedLock, storeVars, remoteVars
  <1> QED BY <1>1, <1>2, <1>3, <1>4, <1>5, <1>6, <1>7 DEF Coordinate

\* An execution leaves the other processes and their locks alone.
LEMMA FootprintExecute ==
  ASSUME TypeOK, LockInv, NEW p \in Procs, Execute(p)
  PROVE  Footprint(p)
  <1> USE DEF TypeOK, LockInv, Footprint, Goto, Locked, CoordLabels, ExecLabels, InHand
  <1>1. CASE Select(p)
    BY <1>1 DEF Select, storeVars, lockVars, remoteVars
  <1>2. CASE Gate(p)
    BY <1>2 DEF Gate, Leave, storeVars, lockVars, remoteVars
  <1>3. CASE ExecLock(p)
    BY TempoAccountType, <1>3 DEF ExecLock, LockFree, Leave, storeVars, remoteVars
  <1>4. CASE ExecLease(p)
    BY <1>4 DEF ExecLease, Leave, DroppedLock, remoteVars
  <1>5. CASE Checks(p)
    BY <1>5 DEF Checks, LeaveLocked, storeVars, lockVars, remoteVars
  <1>6. CASE ExecReconcile(p)
    BY <1>6 DEF ExecReconcile, lockVars, remoteVars
  <1>7. CASE Load(p)
    BY <1>7 DEF Load, storeVars, lockVars, remoteVars
  <1>8. CASE LoopEnds(p)
    BY <1>8 DEF LoopEnds, LeaveLocked, storeVars, lockVars, remoteVars
  <1>9. CASE LoopNext(p)
    BY <1>9 DEF LoopNext, LeaveLocked, storeVars, lockVars, remoteVars
  <1>10. CASE Reread(p)
    BY <1>10 DEF Reread, storeVars, lockVars, remoteVars
  <1>11. CASE Adopt(p)
    BY <1>11 DEF Adopt, lockVars, remoteVars
  <1>12. CASE AdoptConfirm(p)
    BY <1>12 DEF AdoptConfirm, Confirm, lockVars, remoteVars
  <1>13. CASE Regate(p)
    BY <1>13 DEF Regate, LeaveLocked, storeVars, lockVars, remoteVars
  <1>14. CASE Intend(p)
    BY <1>14 DEF Intend, lockVars, remoteVars
  <1>15. CASE Spawn(p)
    BY <1>15 DEF Spawn, storeVars, lockVars
  <1>16. CASE AwaitSuccess(p)
    BY <1>16 DEF AwaitSuccess, Confirm, lockVars, remoteVars
  <1>17. CASE AwaitAmbiguous(p)
    BY <1>17 DEF AwaitAmbiguous, GiveUp, lockVars, remoteVars
  <1>18. CASE FinishUncertain(p)
    BY <1>18 DEF FinishUncertain, lockVars, remoteVars
  <1>19. CASE AwaitRefused(p)
    BY <1>19 DEF AwaitRefused, GiveUp, lockVars, remoteVars
  <1>20. CASE ExecRelease(p)
    BY <1>20 DEF ExecRelease, DroppedLock, storeVars, remoteVars
  <1> QED BY <1>1, <1>2, <1>3, <1>4, <1>5, <1>6, <1>7, <1>8, <1>9, <1>10, <1>11, <1>12, <1>13, <1>14, <1>15, <1>16, <1>17, <1>18, <1>19, <1>20 DEF Execute

\* Every step of a process leaves the other processes and their locks alone.
LEMMA FootprintStep ==
  ASSUME TypeOK, LockInv, NEW p \in Procs, ProcessStep(p)
  PROVE  Footprint(p)
  <1> USE DEF TypeOK, LockInv, Footprint, Goto, Locked, CoordLabels, ExecLabels, InHand
  <1>1. CASE AuditRead(p)
    BY <1>1 DEF AuditRead, storeVars, lockVars, remoteVars
  <1>2. CASE PersistPolicyDecisions(p)
    BY <1>2 DEF PersistPolicyDecisions, Leave, lockVars, remoteVars
  <1>3. CASE ReadFails(p)
    BY <1>3 DEF ReadFails, Leave, LeaveLocked, DroppedLock, storeVars, remoteVars
  <1>4. CASE Finish(p)
    BY <1>4 DEF Finish, Forget, lockVars, remoteVars
  <1>5. CASE Crash(p)
    BY <1>5 DEF Crash, Forget, DroppedLock, storeVars, remoteVars
  <1>6. ASSUME NEW k \in Kinds, Start(p, k) PROVE Footprint(p)
    BY <1>6, KindsAssumption DEF Start, AllKinds, storeVars, lockVars, remoteVars
  <1> QED
    BY <1>1, <1>2, <1>3, <1>4, <1>5, <1>6, FootprintCoordinate, FootprintExecute
    DEF ProcessStep, Process

-----------------------------------------------------------------------------
(* The other steps, and who may write the ledger.                          *)

EnvironmentStep ==
    \/ \E a \in Accounts : LeaseExpires(a)
    \/ \E k \in Proposals : Child(k) \/ Tempo(k)
    \/ \E k \in Edited : UserLogs(k) \/ UserDeletes(k)
    \/ \E b \in BOOLEAN : SetLive(b)

\* A step is one of a process, of its surroundings, or a stutter.
LEMMA NextCases ==
  [Next]_vars => (\E p \in Procs : ProcessStep(p)) \/ EnvironmentStep \/ UNCHANGED vars
  BY DEF Next, ProcessStep, EnvironmentStep

\* Children, Tempo, the user, the clock and the switches touch no process and no ledger.
LEMMA EnvironmentFrame ==
  ASSUME EnvironmentStep \/ UNCHANGED vars
  PROVE  UNCHANGED <<pc, acct, todo, cur, ops, flock, spawns>> /\ ever \subseteq ever'
  BY DEF EnvironmentStep, LeaseExpires, Child, ChildRefuses, ChildFailsEarly, ChildPosts,
     ChildSucceeds, ChildFailsLate, Tempo, TempoCreates, TempoDrops, UserLogs, UserDeletes,
     SetLive, ChildVars, vars, procVars, storeVars, lockVars, remoteVars

\* No step takes the advisory lock away from a process that works under it.
LEMMA LockNext ==
  ASSUME TypeOK, LockInv, [Next]_vars
  PROVE  LockInv'
  <1>1. ASSUME NEW p \in Procs, ProcessStep(p) PROVE LockInv'
    <2>1. Footprint(p)
      BY <1>1, FootprintStep
    <2>2. ASSUME NEW q \in Procs \ {p}, Locked(q)' PROVE flock'[acct'[q]] = q
      <3>1. Locked(q) /\ acct'[q] = acct[q]
        BY <2>1, <2>2 DEF Footprint, Locked
      <3>2. flock[acct[q]] = q
        BY <3>1 DEF LockInv
      <3> QED
        BY <2>1, <3>1, <3>2, ProcsAssumption DEF Footprint, TypeOK
    <2> QED
      BY <2>1, <2>2 DEF Footprint, LockInv
  <1>2. CASE EnvironmentStep \/ UNCHANGED vars
    BY <1>2, EnvironmentFrame DEF LockInv, Locked
  <1> QED BY <1>1, <1>2, NextCases

\* Two processes never work under the lock of one account.
LEMMA Exclusion ==
  ASSUME TypeOK, LockInv, NEW p \in Procs, NEW q \in Procs,
         Locked(p), Locked(q), acct[p] = acct[q]
  PROVE  p = q
  BY DEF LockInv

Writes(p) ==
    \/ CoordReconcile(p) \/ ExecReconcile(p) \/ Adopt(p) \/ AdoptConfirm(p) \/ Intend(p)
    \/ Spawn(p) \/ AwaitSuccess(p) \/ AwaitAmbiguous(p) \/ AwaitRefused(p)

\* The other steps of a process leave the ledger and the children alone.
LEMMA QuietStep ==
  ASSUME NEW p \in Procs, ProcessStep(p), ~Writes(p)
  PROVE  UNCHANGED <<ops, child, post, day, ever, spawns, sinceKill, live>>
  <1>1. CASE Coordinate(p)
    BY <1>1 DEF Coordinate, Writes, CoordLock, storeVars, remoteVars, CoordLease,
       CoordFinish, CoordRelease, CoordPublish, CoordSkip
  <1>2. CASE Execute(p)
    BY <1>2 DEF Execute, Writes, Select, storeVars, remoteVars, Gate, ExecLock, ExecLease,
       Checks, Load, LoopEnds, LoopNext, Reread, Regate, FinishUncertain, ExecRelease
  <1>3. CASE AuditRead(p) \/ PersistPolicyDecisions(p) \/ ReadFails(p) \/ Finish(p) \/ Crash(p)
    BY <1>3 DEF AuditRead, PersistPolicyDecisions, ReadFails, Finish, Crash, storeVars,
       remoteVars
  <1>4. CASE \E k \in Kinds : Start(p, k)
    BY <1>4 DEF Start, storeVars, remoteVars
  <1> QED BY <1>1, <1>2, <1>3, <1>4 DEF ProcessStep, Process

\* Only the holder of the lock of account tempo writes the ledger or starts a child.
LEMMA LedgerWriter ==
  ASSUME TypeOK, InHandInv, NEW p \in Procs, ProcessStep(p),
         ops' # ops \/ spawns' # spawns
  PROVE  Locked(p) /\ acct[p] = "tempo"
  <1>1. Writes(p)
    BY QuietStep
  <1>2. CASE CoordReconcile(p)
    <2>1. acct[p] # "tempo" => ops' = ops
      BY <1>2 DEF CoordReconcile, Reconciled, OpsOf, TypeOK
    <2> QED BY <1>2, <2>1 DEF CoordReconcile, remoteVars, Locked, CoordLabels
  <1>3. CASE ExecReconcile(p)
    <2>1. acct[p] # "tempo" => ops' = ops
      BY <1>3 DEF ExecReconcile, Reconciled, OpsOf, TypeOK
    <2> QED BY <1>3, <2>1 DEF ExecReconcile, remoteVars, Locked, ExecLabels
  <1>4. pc[p] \in InHand => Locked(p) /\ acct[p] = "tempo"
    BY DEF InHandInv, InHandOf, Locked, ExecLabels
  <1> QED
    BY <1>1, <1>2, <1>3, <1>4 DEF Writes, Adopt, AdoptConfirm, Intend, Spawn, AwaitSuccess,
       AwaitAmbiguous, AwaitRefused, InHand

\* A worklog that has existed has existed for ever after.
LEMMA HistoryGrows ==
  ASSUME [Next]_vars PROVE ever \subseteq ever'
  <1>1. ASSUME NEW p \in Procs, ProcessStep(p) PROVE ever' = ever
    <2>1. CASE ~Writes(p)
      BY <1>1, <2>1, QuietStep
    <2>2. CASE Writes(p)
      BY <2>2 DEF Writes, CoordReconcile, ExecReconcile, Adopt, AdoptConfirm, Confirm, Intend,
         Spawn, AwaitSuccess, AwaitAmbiguous, AwaitRefused, remoteVars
    <2> QED BY <2>1, <2>2
  <1> QED BY <1>1, NextCases, EnvironmentFrame

-----------------------------------------------------------------------------
(* The proposal in hand.                                                   *)

\* A coordinated run has no proposal in hand.
LEMMA EmptyHandsCoordinate ==
  ASSUME TypeOK, InHandInv, NEW p \in Procs, Coordinate(p)
  PROVE  pc'[p] \notin InHand \cup {"loop"} /\ todo'[p] = {}
  <1>a. /\ pc \in [Procs -> Labels] /\ todo \in [Procs -> SUBSET Proposals]
        /\ todo[p] # {} => pc[p] \in InHand \cup {"loop"}
    BY DEF TypeOK, InHandInv, InHandOf
  <1> USE <1>a DEF Goto, InHand
  <1>1. CASE CoordLock(p)
    BY <1>1 DEF CoordLock, Leave
  <1>2. CASE CoordReconcile(p)
    BY <1>2 DEF CoordReconcile
  <1>3. CASE CoordLease(p)
    BY <1>3 DEF CoordLease, Leave
  <1>4. CASE CoordFinish(p)
    BY <1>4 DEF CoordFinish
  <1>5. CASE CoordRelease(p)
    BY <1>5 DEF CoordRelease
  <1>6. CASE CoordPublish(p)
    BY <1>6 DEF CoordPublish, CoordReturn, Leave
  <1>7. CASE CoordSkip(p)
    BY <1>7 DEF CoordSkip, CoordReturn, Leave
  <1> QED BY <1>1, <1>2, <1>3, <1>4, <1>5, <1>6, <1>7 DEF Coordinate

\* The steps of an execution outside its loop have no proposal in hand.
LEMMA EmptyHandsExecute ==
  ASSUME TypeOK, InHandInv, NEW p \in Procs, Execute(p),
         ~Load(p), ~LoopNext(p), ~Reread(p), ~Adopt(p), ~AdoptConfirm(p), ~Regate(p), ~Intend(p), ~Spawn(p), ~AwaitSuccess(p)
  PROVE  pc'[p] \notin InHand \cup {"loop"} /\ todo'[p] = {}
  <1>a. /\ pc \in [Procs -> Labels] /\ todo \in [Procs -> SUBSET Proposals]
        /\ todo[p] # {} => pc[p] \in InHand \cup {"loop"}
    BY DEF TypeOK, InHandInv, InHandOf
  <1> USE <1>a DEF Goto, InHand
  <1>1. CASE Select(p)
    BY <1>1 DEF Select
  <1>2. CASE Gate(p)
    BY <1>2 DEF Gate, Leave
  <1>3. CASE ExecLock(p)
    BY <1>3 DEF ExecLock, Leave
  <1>4. CASE ExecLease(p)
    BY <1>4 DEF ExecLease, Leave
  <1>5. CASE Checks(p)
    BY <1>5 DEF Checks, LeaveLocked
  <1>6. CASE ExecReconcile(p)
    BY <1>6 DEF ExecReconcile
  <1>7. CASE LoopEnds(p)
    BY <1>7 DEF LoopEnds, LeaveLocked
  <1>8. CASE AwaitAmbiguous(p)
    BY <1>8 DEF AwaitAmbiguous, GiveUp
  <1>9. CASE FinishUncertain(p)
    BY <1>9 DEF FinishUncertain
  <1>10. CASE AwaitRefused(p)
    BY <1>10 DEF AwaitRefused, GiveUp
  <1>11. CASE ExecRelease(p)
    BY <1>11 DEF ExecRelease
  <1> QED BY <1>1, <1>2, <1>3, <1>4, <1>5, <1>6, <1>7, <1>8, <1>9, <1>10, <1>11 DEF Execute

Handles(p) ==
    \/ Load(p) \/ LoopNext(p) \/ Reread(p) \/ Adopt(p) \/ AdoptConfirm(p) \/ Regate(p)
    \/ Intend(p) \/ Spawn(p) \/ AwaitSuccess(p)

\* Every other step leaves the process with nothing in hand.
LEMMA EmptyHands ==
  ASSUME TypeOK, InHandInv, NEW p \in Procs, ProcessStep(p), ~Handles(p)
  PROVE  pc'[p] \notin InHand \cup {"loop"} /\ todo'[p] = {}
  <1>a. /\ pc \in [Procs -> Labels] /\ todo \in [Procs -> SUBSET Proposals]
        /\ todo[p] # {} => pc[p] \in InHand \cup {"loop"}
    BY DEF TypeOK, InHandInv, InHandOf
  <1> USE <1>a DEF Goto, InHand
  <1>1. CASE Coordinate(p)
    BY <1>1, EmptyHandsCoordinate
  <1>2. CASE Execute(p)
    BY <1>2, EmptyHandsExecute DEF Handles
  <1>3. CASE AuditRead(p) \/ PersistPolicyDecisions(p)
    BY <1>3 DEF AuditRead, PersistPolicyDecisions, Leave
  <1>4. CASE ReadFails(p)
    BY <1>4 DEF ReadFails, Leave, LeaveLocked
  <1>5. CASE Finish(p) \/ Crash(p)
    BY <1>5 DEF Finish, Crash, Forget
  <1>6. ASSUME NEW k \in Kinds, Start(p, k)
        PROVE  pc'[p] \notin InHand \cup {"loop"} /\ todo'[p] = {}
    BY <1>6, KindsAssumption DEF Start, AllKinds
  <1> QED
    BY <1>1, <1>2, <1>3, <1>4, <1>5, <1>6 DEF ProcessStep, Process

\* What the step that handles a proposal knows of it afterwards.
LEMMA FullHands ==
  ASSUME TypeOK, InHandInv, LedgerInv, ChildInv, NEW p \in Procs, Handles(p)
  PROVE  InHandOf(p)'
  <1> USE DEF TypeOK, InHandInv, InHandOf, Goto, InHand
  <1>1. CASE Load(p)
    BY <1>1 DEF Load, storeVars, remoteVars
  <1>2. CASE LoopNext(p)
    <2>1. PICK k \in todo[p] : LoopNext(p)!2!(k)
      BY <1>2 DEF LoopNext
    <2> QED
      BY <1>2, <2>1 DEF LoopNext, LeaveLocked, HasUnresolved, OpsOf, NothingInDoubt, storeVars, remoteVars
  <1>3. CASE Reread(p)
    BY <1>3 DEF Reread, ChildInv, NothingInDoubt, storeVars, remoteVars
  <1>4. CASE Adopt(p)
    BY <1>4 DEF Adopt, Intended, remoteVars
  <1>5. CASE AdoptConfirm(p)
    BY <1>5 DEF AdoptConfirm, Confirm, remoteVars
  <1>6. CASE Regate(p)
    BY <1>6 DEF Regate, LeaveLocked, NothingInDoubt, storeVars, remoteVars
  <1>7. CASE Intend(p)
    BY <1>7 DEF Intend, Intended, LedgerInv, remoteVars
  <1>8. CASE Spawn(p)
    BY <1>8 DEF Spawn, storeVars
  <1>9. CASE AwaitSuccess(p)
    BY <1>9 DEF AwaitSuccess, Confirm, remoteVars
  <1> QED
    BY <1>1, <1>2, <1>3, <1>4, <1>5, <1>6, <1>7, <1>8, <1>9 DEF Handles

\* What the holder knows of its proposal survives the steps of everybody else.
LEMMA InHandNext ==
  ASSUME TypeOK, LockInv, InHandInv, LedgerInv, ChildInv, [Next]_vars
  PROVE  InHandInv'
  <1>1. ASSUME NEW p \in Procs, ProcessStep(p) PROVE InHandInv'
    <2>1. InHandOf(p)'
      <3>1. CASE Handles(p)
        BY <3>1, FullHands
      <3>2. CASE ~Handles(p)
        BY <1>1, <3>2, EmptyHands DEF InHandOf, InHand
      <3> QED BY <3>1, <3>2
    <2>2. ASSUME NEW q \in Procs \ {p} PROVE InHandOf(q)'
      <3>1. pc'[q] = pc[q] /\ acct'[q] = acct[q] /\ todo'[q] = todo[q] /\ cur'[q] = cur[q]
        BY <1>1, FootprintStep DEF Footprint
      <3>2. ever \subseteq ever'
        BY <1>1, HistoryGrows DEF Next, ProcessStep
      <3>3. CASE pc[q] \in InHand
        <4>1. Locked(q) /\ acct[q] = "tempo"
          BY <3>3 DEF InHandInv, InHandOf, Locked, ExecLabels
        <4>2. ops' = ops /\ spawns' = spawns
          BY <1>1, <4>1, LedgerWriter, Exclusion
        <4> QED
          BY <3>1, <3>2, <4>2 DEF InHandInv, InHandOf, InHand, NothingInDoubt
      <3>4. CASE pc[q] \notin InHand
        BY <3>1, <3>4 DEF InHandInv, InHandOf, InHand
      <3> QED BY <3>3, <3>4
    <2> QED
      BY <2>1, <2>2 DEF InHandInv
  <1>2. CASE EnvironmentStep \/ UNCHANGED vars
    BY <1>2, EnvironmentFrame DEF InHandInv, InHandOf, InHand, NothingInDoubt
  <1> QED BY <1>1, <1>2, NextCases

-----------------------------------------------------------------------------
(* The ledger, the children and the kill switch.                           *)

\* Every step keeps the ledger in order.
LEMMA LedgerNext ==
  ASSUME TypeOK, InHandInv, LedgerInv, ChildInv, [Next]_vars
  PROVE  LedgerInv'
  <1> USE DEF LedgerInv, ConfirmedHasWorklog, OneInDoubt, Unresolved
  <1>1. ASSUME NEW p \in Procs, Writes(p) PROVE LedgerInv'
    <2> USE DEF TypeOK
    <2>1. CASE CoordReconcile(p) \/ ExecReconcile(p)
      BY <2>1 DEF CoordReconcile, ExecReconcile, Reconciled, ChildInv, remoteVars
    <2>2. CASE Adopt(p) \/ Intend(p)
      BY <2>2 DEF Adopt, Intend, Intended, InHandInv, InHandOf, InHand, NothingInDoubt,
         remoteVars
    <2>3. CASE AdoptConfirm(p)
      BY <2>3 DEF AdoptConfirm, Confirm, InHandInv, InHandOf, InHand, remoteVars
    <2>4. CASE AwaitSuccess(p)
      <3>1. cur[p] \in ever
        BY <2>4 DEF AwaitSuccess, ChildInv, InHandInv, InHandOf, InHand
      <3> QED
        BY <2>4, <3>1 DEF AwaitSuccess, Confirm, InHandInv, InHandOf, InHand, remoteVars
    <2>5. CASE AwaitAmbiguous(p) \/ AwaitRefused(p)
      BY <2>5 DEF AwaitAmbiguous, AwaitRefused, InHandInv, InHandOf, InHand, remoteVars
    <2>6. CASE Spawn(p)
      BY <2>6 DEF Spawn, InHandInv, InHandOf, InHand, storeVars
    <2> QED BY <1>1, <2>1, <2>2, <2>3, <2>4, <2>5, <2>6 DEF Writes
  <1>2. ASSUME NEW p \in Procs, ProcessStep(p), ~Writes(p) PROVE LedgerInv'
    BY <1>2, QuietStep
  <1>3. CASE EnvironmentStep \/ UNCHANGED vars
    <2>1. UNCHANGED <<ops, spawns>> /\ ever \subseteq ever'
      BY <1>3, EnvironmentFrame
    <2>2. \A k \in Proposals : child[k] = "exit2" => child'[k] = "exit2"
      BY <1>3 DEF EnvironmentStep, LeaseExpires, Child, ChildRefuses, ChildFailsEarly,
         ChildPosts, ChildSucceeds, ChildFailsLate, Exit, Tempo, TempoCreates, TempoDrops,
         UserLogs, UserDeletes, SetLive, vars, remoteVars, TypeOK
    <2> QED BY <2>1, <2>2
  <1> QED BY <1>1, <1>2, <1>3, NextCases

\* Every step keeps children and posts in order.
LEMMA ChildNext ==
  ASSUME TypeOK, InHandInv, ChildInv, [Next]_vars
  PROVE  ChildInv'
  <1> USE DEF ChildInv, TypeOK
  <1>1. ASSUME NEW p \in Procs, Spawn(p) PROVE ChildInv'
    BY <1>1 DEF Spawn, InHandInv, InHandOf, InHand
  <1>2. ASSUME NEW p \in Procs, ProcessStep(p), ~Spawn(p) PROVE ChildInv'
    <2>1. CASE ~Writes(p)
      BY <1>2, <2>1, QuietStep
    <2>2. CASE Writes(p)
      BY <1>2, <2>2 DEF Writes, CoordReconcile, ExecReconcile, Adopt, AdoptConfirm, Confirm,
         Intend, AwaitSuccess, AwaitAmbiguous, AwaitRefused, remoteVars
    <2> QED BY <2>1, <2>2
  <1>3. ASSUME NEW k \in Proposals, Child(k) PROVE ChildInv'
    <2> USE DEF ChildVars, Exit, UsageExit, RemoteFailureExit
    <2>1. CASE ChildRefuses(k) \/ ChildFailsEarly(k)
      BY <2>1 DEF ChildRefuses, ChildFailsEarly
    <2>2. CASE ChildPosts(k)
      BY <2>2 DEF ChildPosts
    <2>3. CASE ChildSucceeds(k) \/ ChildFailsLate(k)
      BY <2>3 DEF ChildSucceeds, ChildFailsLate
    <2> QED BY <1>3, <2>1, <2>2, <2>3 DEF Child
  <1>4. ASSUME NEW k \in Proposals, Tempo(k) PROVE ChildInv'
    BY <1>4 DEF Tempo, TempoCreates, TempoDrops, ChildVars
  <1>5. ASSUME NEW k \in Edited, UserLogs(k) \/ UserDeletes(k) PROVE ChildInv'
    BY <1>5, EditedAssumption DEF UserLogs, UserDeletes, ChildVars
  <1>6. CASE UNCHANGED remoteVars
    BY <1>6 DEF remoteVars
  <1> QED
    BY <1>1, <1>2, <1>3, <1>4, <1>5, <1>6, NextCases
    DEF EnvironmentStep, LeaseExpires, SetLive, vars

\* Only the holder of the lock can be between its last gate and the child.
LEMMA KillNext ==
  ASSUME TypeOK, LockInv, InHandInv, KillInv, [Next]_vars
  PROVE  KillInv'
  <1> USE DEF KillInv, KillBoundsSubmissions
  <1>1. ASSUME NEW p \in Procs, Spawn(p) PROVE KillInv'
    <2>1. \A q \in Procs : pc[q] \in {"intend", "spawn"} => q = p
      <3>1. ASSUME NEW q \in Procs, pc[q] \in {"intend", "spawn"} PROVE q = p
        <4>1. Locked(p) /\ Locked(q) /\ acct[p] = acct[q]
          BY <1>1, <3>1 DEF Spawn, InHandInv, InHandOf, InHand, Locked, ExecLabels
        <4> QED BY <4>1, Exclusion
      <3> QED BY <3>1
    <2>2. sinceKill = 0
      BY <1>1 DEF Spawn, TypeOK
    <2>3. \A q \in Procs : pc'[q] \notin {"intend", "spawn"}
      BY <1>1, <2>1 DEF Spawn, Goto, TypeOK
    <2> QED BY <1>1, <2>2, <2>3 DEF Spawn
  <1>2. ASSUME NEW p \in Procs, ProcessStep(p), ~Spawn(p) PROVE KillInv'
    <2>1. UNCHANGED <<sinceKill, live>>
      <3>1. CASE ~Writes(p)
        BY <1>2, <3>1, QuietStep
      <3>2. CASE Writes(p)
        BY <1>2, <3>2 DEF Writes, CoordReconcile, ExecReconcile, Adopt, AdoptConfirm, Confirm,
           Intend, AwaitSuccess, AwaitAmbiguous, AwaitRefused
      <3> QED BY <3>1, <3>2
    <2>2. \A q \in Procs \ {p} : pc'[q] = pc[q]
      BY <1>2, FootprintStep DEF Footprint
    <2>3. pc'[p] \in {"intend", "spawn"} => live \/ pc[p] \in {"intend", "spawn"}
      <3>1. CASE ~Handles(p)
        BY <1>2, <3>1, EmptyHands DEF InHand
      <3>2. CASE Handles(p)
        BY <1>2, <3>2 DEF Handles, Load, LoopNext, LeaveLocked, Reread, Adopt, AdoptConfirm,
           Confirm, Regate, MutationAllowed, Intend, AwaitSuccess, Goto, TypeOK
      <3> QED BY <3>1, <3>2
    <2> QED BY <2>1, <2>2, <2>3
  <1>3. CASE EnvironmentStep \/ UNCHANGED vars
    <2>1. UNCHANGED pc
      BY <1>3, EnvironmentFrame
    <2>2. UNCHANGED <<live, sinceKill>> \/ sinceKill' = 0
      BY <1>3 DEF EnvironmentStep, LeaseExpires, Child, ChildRefuses, ChildFailsEarly,
         ChildPosts, ChildSucceeds, ChildFailsLate, Tempo, TempoCreates, TempoDrops,
         UserLogs, UserDeletes, SetLive, ChildVars, vars
    <2> QED BY <2>1, <2>2
  <1> QED BY <1>1, <1>2, <1>3, NextCases

-----------------------------------------------------------------------------
(* The inductive invariant and what follows from it.                       *)

\* The inductive invariant holds initially.
LEMMA InvInit == Init => Inv
  <1> SUFFICES ASSUME Init PROVE Inv
    OBVIOUS
  <1>1. TypeOK
    BY TypeInit
  <1>2. LockInv /\ InHandInv /\ KillInv
    BY DEF Init, LockInv, Locked, CoordLabels, ExecLabels, InHandInv, InHandOf, InHand,
       KillInv, KillBoundsSubmissions
  <1>3. LedgerInv /\ ChildInv
    BY DEF Init, LedgerInv, ConfirmedHasWorklog, OneInDoubt, Unresolved, ChildInv
  <1> QED BY <1>1, <1>2, <1>3 DEF Inv

\* The inductive invariant is inductive.
LEMMA InvNext == Inv /\ [Next]_vars => Inv'
  BY TypeNext, LockNext, InHandNext, LedgerNext, ChildNext, KillNext DEF Inv

\* The strengthening that makes the properties below inductive.
THEOREM InvCorrect == Spec => []Inv
  BY InvInit, InvNext, PTL DEF Spec

\* No proposal is ever handed to `drag log` twice.
THEOREM AtMostOneSubmissionCorrect == Spec => []AtMostOneSubmission
  <1>1. Inv => AtMostOneSubmission
    BY DEF Inv, ChildInv, AtMostOneSubmission
  <1> QED BY <1>1, InvCorrect, PTL

\* Nothing is submitted past an operation in doubt.
THEOREM OneInDoubtCorrect == Spec => []OneInDoubt
  <1>1. Inv => OneInDoubt
    BY DEF Inv, LedgerInv
  <1> QED BY <1>1, InvCorrect, PTL

\* A failed operation has posted nothing.
THEOREM FailedNeverLandsCorrect == Spec => []FailedNeverLands
  <1>1. Inv => FailedNeverLands
    BY DEF Inv, LedgerInv, ChildInv, FailedNeverLands
  <1> QED BY <1>1, InvCorrect, PTL

\* A confirmed operation has had its worklog in Tempo.
THEOREM ConfirmedHasWorklogCorrect == Spec => []ConfirmedHasWorklog
  <1>1. Inv => ConfirmedHasWorklog
    BY DEF Inv, LedgerInv
  <1> QED BY <1>1, InvCorrect, PTL

\* A thrown kill switch lets at most one more child start.
THEOREM KillBoundsSubmissionsCorrect == Spec => []KillBoundsSubmissions
  <1>1. Inv => KillBoundsSubmissions
    BY DEF Inv, KillInv
  <1> QED BY <1>1, InvCorrect, PTL

-----------------------------------------------------------------------------
(* The refinement: every step is one of the promise, or a stutter of it.   *)

View == [k \in Proposals |-> LedgerView(ops[k])]

\* How the promise sees each state of an operation.
LEMMA ViewFacts ==
  /\ LedgerView("none") = "none"
  /\ LedgerView("submitting") = "open" /\ LedgerView("uncertain") = "open"
  /\ LedgerView("confirmed") = "settled"
  /\ LedgerView("failed") = "refused"
  BY DEF LedgerView, Unresolved

\* What the promise's view of an operation says of its state.
LEMMA ViewOpen ==
  ASSUME NEW s \in OperationStates
  PROVE  /\ LedgerView(s) = "open" <=> s \in Unresolved
         /\ LedgerView(s) = "refused" <=> s = "failed"
  BY ViewFacts DEF OperationStates, Unresolved

\* A write of one operation is a write of its view.
LEMMA ViewWrite ==
  ASSUME TypeOK, NEW k \in Proposals, NEW s, ops' = [ops EXCEPT ![k] = s]
  PROVE  View' = [View EXCEPT ![k] = LedgerView(s)]
  BY DEF TypeOK, View

\* A reconciliation settles the one operation in doubt, if it settles any.
LEMMA ReconciledOne ==
  ASSUME Inv, NEW a \in Accounts, ops' = Reconciled(a), ops' # ops
  PROVE  \E k \in Proposals : /\ ops[k] \in Unresolved /\ k \in ever
                             /\ ops' = [ops EXCEPT ![k] = "confirmed"]
  <1>1. PICK k \in Proposals : k \in OpsOf(a) \cap day /\ ops[k] \in Unresolved
    BY DEF Reconciled, Inv, TypeOK
  <1>2. \A j \in Proposals \ {k} : ops[j] \notin Unresolved
    BY <1>1 DEF Inv, LedgerInv, OneInDoubt
  <1>3. ops' = [ops EXCEPT ![k] = "confirmed"]
    BY <1>1, <1>2 DEF Reconciled, Inv, TypeOK
  <1> QED BY <1>1, <1>3 DEF Inv, ChildInv

\* A confirmation settles an item of the promise.
LEMMA SettleStep ==
  ASSUME Inv, NEW k \in Proposals, ops[k] \in Unresolved, k \in ever,
         ops' = [ops EXCEPT ![k] = "confirmed"], UNCHANGED <<spawns, post, ever>>
  PROVE  Promise!Settle(k)
  <1>1. View' = [View EXCEPT ![k] = "settled"]
    BY ViewWrite, ViewFacts DEF Inv
  <1>2. View[k] = "open"
    BY ViewOpen DEF View, Inv, TypeOK
  <1> QED BY <1>1, <1>2 DEF Promise!Settle, View

\* A durable intent records an item of the promise.
LEMMA RecordStep ==
  ASSUME Inv, NEW p \in Procs, Adopt(p) \/ Intend(p)
  PROVE  Promise!Record(cur[p])
  <1>1. /\ cur[p] \in Proposals /\ ops[cur[p]] = "none" /\ NothingInDoubt
    BY DEF Adopt, Intend, Inv, InHandInv, InHandOf, InHand
  <1>2. ops' = [ops EXCEPT ![cur[p]] = "submitting"]
    BY <1>1 DEF Adopt, Intend, Intended, Inv, TypeOK
  <1>3. View' = [View EXCEPT ![cur[p]] = "open"]
    <2>1. TypeOK /\ cur[p] \in Proposals
      BY <1>1 DEF Inv
    <2>2. View' = [View EXCEPT ![cur[p]] = LedgerView("submitting")]
      BY <1>2, <2>1, ViewWrite
    <2> QED BY <2>2, ViewFacts
  <1>4. View[cur[p]] = "none"
    BY <1>1, ViewFacts DEF View
  <1>5. \A j \in Proposals : View[j] # "open"
    BY <1>1, ViewOpen DEF NothingInDoubt, View, Inv, TypeOK
  <1> QED
    BY <1>1, <1>3, <1>4, <1>5 DEF Promise!Record, View, Adopt, Intend, remoteVars

\* Every step that writes the ledger or starts a child is one of the promise.
LEMMA WriterImplements ==
  ASSUME Inv, NEW p \in Procs, Writes(p)
  PROVE  [Promise!Next]_(Promise!vars)
  <1>1. CASE CoordReconcile(p) \/ ExecReconcile(p)
    <2>1. UNCHANGED <<spawns, post, ever>> /\ ops' = Reconciled(acct[p]) /\ acct[p] \in Accounts
      BY <1>1 DEF CoordReconcile, ExecReconcile, remoteVars, Inv, TypeOK
    <2>2. CASE ops' = ops
      BY <2>1, <2>2 DEF Promise!vars
    <2>3. CASE ops' # ops
      BY <2>1, <2>3, ReconciledOne, SettleStep DEF Promise!Next
    <2> QED BY <2>2, <2>3
  <1>2. CASE Adopt(p) \/ Intend(p)
    <2>1. cur[p] \in Proposals
      BY <1>2 DEF Adopt, Intend, Inv, InHandInv, InHandOf, InHand
    <2> QED BY <1>2, <2>1, RecordStep DEF Promise!Next
  <1>3. CASE AdoptConfirm(p) \/ AwaitSuccess(p)
    <2>1. cur[p] \in Proposals /\ ops[cur[p]] \in Unresolved /\ cur[p] \in ever
      BY <1>3 DEF AdoptConfirm, AwaitSuccess, Inv, InHandInv, InHandOf, InHand, ChildInv,
         Unresolved
    <2>2. ops' = [ops EXCEPT ![cur[p]] = "confirmed"] /\ UNCHANGED <<spawns, post, ever>>
      BY <1>3 DEF AdoptConfirm, AwaitSuccess, Confirm, remoteVars
    <2> QED BY <2>1, <2>2, SettleStep DEF Promise!Next
  <1>4. CASE AwaitAmbiguous(p)
    <2>1. /\ cur[p] \in Proposals /\ ops[cur[p]] \in Unresolved
          /\ ops' = [ops EXCEPT ![cur[p]] = "uncertain"] /\ UNCHANGED <<spawns, post, ever>>
      BY <1>4 DEF AwaitAmbiguous, Inv, InHandInv, InHandOf, InHand, Unresolved, remoteVars
    <2>2. View' = [View EXCEPT ![cur[p]] = "open"] /\ View[cur[p]] = "open"
      BY <2>1, ViewWrite, ViewFacts, ViewOpen DEF Inv, TypeOK, View
    <2>3. View' = View
      BY <2>1, <2>2 DEF View
    <2> QED BY <2>1, <2>3 DEF Promise!vars, View
  <1>5. CASE AwaitRefused(p)
    <2>1. /\ cur[p] \in Proposals /\ ops[cur[p]] \in Unresolved
          /\ ops' = [ops EXCEPT ![cur[p]] = "failed"] /\ UNCHANGED <<spawns, post, ever>>
      BY <1>5 DEF AwaitRefused, Inv, InHandInv, InHandOf, InHand, Unresolved, remoteVars
    <2>2. View' = [View EXCEPT ![cur[p]] = "refused"] /\ View[cur[p]] = "open"
      BY <2>1, ViewWrite, ViewFacts, ViewOpen DEF Inv, TypeOK, View
    <2>3. post[cur[p]] = "none" /\ spawns[cur[p]] = 1
      BY <1>5, <2>1 DEF AwaitRefused, Inv, ChildInv
    <2>4. Promise!Refuse(cur[p])
      BY <2>1, <2>2, <2>3 DEF Promise!Refuse, View
    <2> QED BY <2>1, <2>4 DEF Promise!Next
  <1>6. CASE Spawn(p)
    <2>1. cur[p] \in Proposals /\ ops[cur[p]] = "submitting" /\ spawns[cur[p]] = 0
      BY <1>6 DEF Spawn, Inv, InHandInv, InHandOf, InHand
    <2>2. /\ spawns' = [spawns EXCEPT ![cur[p]] = 1] /\ UNCHANGED <<ops, post, ever>>
      BY <1>6, <2>1 DEF Spawn, storeVars, Inv, TypeOK
    <2>3. View[cur[p]] = "open" /\ View' = View
      BY <2>1, <2>2, ViewFacts DEF View
    <2>4. Promise!Attempt(cur[p])
      BY <2>1, <2>2, <2>3 DEF Promise!Attempt, View
    <2> QED BY <2>1, <2>4 DEF Promise!Next
  <1> QED BY <1>1, <1>2, <1>3, <1>4, <1>5, <1>6 DEF Writes

\* Children, Tempo and the user act as the other side of the promise.
LEMMA EnvironmentImplements ==
  ASSUME Inv, EnvironmentStep
  PROVE  [Promise!Next]_(Promise!vars)
  <1>1. UNCHANGED <<ops, spawns>>
    BY EnvironmentFrame
  <1>2. ASSUME NEW k \in Proposals, ChildPosts(k) PROVE Promise!Send(k)
    <2>1. spawns[k] = 1 /\ ops[k] # "failed" /\ post[k] = "none"
      BY <1>2 DEF ChildPosts, Inv, ChildInv, LedgerInv
    <2>2. View[k] # "refused"
      BY <2>1, ViewOpen DEF View, Inv, TypeOK
    <2> QED BY <1>1, <1>2, <2>1, <2>2 DEF ChildPosts, Promise!Send, View
  <1>3. ASSUME NEW k \in Proposals, TempoCreates(k) PROVE Promise!Land(k)
    BY <1>1, <1>3 DEF TempoCreates, Promise!Land
  <1>4. ASSUME NEW k \in Proposals, TempoDrops(k) PROVE Promise!Drop(k)
    BY <1>1, <1>4 DEF TempoDrops, Promise!Drop
  <1>5. ASSUME NEW k \in Edited, UserLogs(k) PROVE Promise!Appear(k)
    BY <1>1, <1>5 DEF UserLogs, Promise!Appear
  <1>6. \/ \E k \in Proposals : ChildPosts(k) \/ TempoCreates(k) \/ TempoDrops(k)
        \/ \E k \in Edited : UserLogs(k)
        \/ UNCHANGED <<post, ever>>
    BY DEF EnvironmentStep, LeaseExpires, Child, ChildRefuses, ChildFailsEarly, ChildSucceeds,
       ChildFailsLate, Tempo, UserDeletes, SetLive, ChildVars, remoteVars
  <1> QED
    BY <1>1, <1>2, <1>3, <1>4, <1>5, <1>6, EditedAssumption DEF Promise!Next, Promise!vars

\* Every step of the companion and of its surroundings is one of the promise or a stutter.
LEMMA PromiseStep ==
  ASSUME Inv, [Next]_vars
  PROVE  [Promise!Next]_(Promise!vars)
  <1>1. ASSUME NEW p \in Procs, ProcessStep(p), ~Writes(p) PROVE UNCHANGED Promise!vars
    BY <1>1, QuietStep DEF Promise!vars
  <1>2. CASE UNCHANGED vars
    BY <1>2 DEF vars, storeVars, remoteVars, Promise!vars
  <1> QED
    BY <1>1, <1>2, WriterImplements, EnvironmentImplements, NextCases

\* The companion's processes, locks, ledger and children implement the promise.
THEOREM ImplementsPromiseCorrect == Spec => ImplementsPromise
  <1>1. Init => Promise!Init
    BY ViewFacts DEF Init, Promise!Init
  <1>2. Inv /\ [Next]_vars => [Promise!Next]_(Promise!vars)
    BY PromiseStep
  <1> QED
    BY <1>1, <1>2, InvCorrect, PTL DEF Spec, ImplementsPromise, Promise!Spec
=============================================================================
