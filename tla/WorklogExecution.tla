-------------------------- MODULE WorklogExecution --------------------------
(***************************************************************************)
(* The submission path of drag-tracking for one local date: several        *)
(* companion processes over one data directory audit the day's proposals,  *)
(* take the coordinated run, and submit the approved proposals through     *)
(* child `drag log` processes to Tempo.  Processes may crash anywhere, the *)
(* child outlives its parent, a POST may be answered late or never, the    *)
(* user edits Tempo by hand, and the kill switch may be thrown anywhere.   *)
(*                                                                         *)
(* Each proposal has one payload, hence one operation key: a proposal      *)
(* number stands for its operation, its worklog and its child process.     *)
(***************************************************************************)
EXTENDS Naturals, FiniteSets

CONSTANTS
    Procs,         \* companion processes that may be started on the date
    NumProposals,  \* proposals of the date, in proposal-id order
    LockDir,       \* the directory in which each process looks for the state lock
    Kinds,         \* the commands these processes run
    Decided,       \* proposals that an audit approved before the behaviour starts
    Clashes,       \* sets of proposals that other worklogs of the day may overlap
    Edited         \* proposals whose worklog the user may log or delete by hand

Proposals == 1 .. NumProposals
NoProposal == 0

\* TEMPO_ACCOUNT, and the one account the proposals are resolved to.
Accounts == {"default", "tempo"}
NoOwner == "nobody"
Orphan  == "crashed"

\* run    tracking run with submission authorized (automatic, or an approved review)
\* draft  tracking run without that authorization
\* audit, execute, reconcile, resume  the internal commands of the same names
AllKinds == {"run", "draft", "audit", "execute", "reconcile", "resume"}

Unresolved == {"submitting", "uncertain"}
OperationStates == Unresolved \cup {"none", "confirmed", "failed"}

Labels == {"idle", "audit", "decide", "coordLock", "coordReconcile", "coordLease",
           "coordFinish", "coordRelease", "coordPublish", "coordSkip", "select", "gate", "execLock",
           "execLease", "checks", "execReconcile", "load", "loop", "reread", "adopt",
           "adoptConfirm", "regate", "intend", "spawn", "await", "doubt", "execRelease",
           "finish"}

\* The labels between acquire_advisory_lock and the drop of the lock file.
CoordLabels == {"coordReconcile", "coordLease", "coordFinish", "coordRelease",
                "coordPublish", "coordSkip"}
\* A proposal is in hand.
InHand == {"reread", "adopt", "adoptConfirm", "regate", "intend", "spawn", "await"}
ExecLabels == InHand \cup {"execLease", "checks", "execReconcile", "load", "loop",
                            "doubt", "execRelease"}

Outcomes == {"completed", "uncertain", "gated", "failed"}
RunStates == {"none", "running", "completed", "uncertain"}
PostStates == {"none", "sent", "landed", "dropped"}
ChildStates == {"none", "starting", "posted", "exit0", "exit1", "exit2"}

ASSUME ProcsAssumption ==
    /\ Procs # {}
    /\ NoOwner \notin Procs /\ Orphan \notin Procs
ASSUME NumProposalsAssumption == NumProposals \in Nat \ {0}
ASSUME KindsAssumption == Kinds \subseteq AllKinds
ASSUME ClashesAssumption == Clashes \subseteq SUBSET Proposals
ASSUME DecidedAssumption == Decided \subseteq Proposals
ASSUME EditedAssumption == Edited \subseteq Proposals

VARIABLES
    pc, kind,      \* where each process is, and which command it runs
    resumed,       \* whether its coordinated run reconciles first
    acct,          \* the account its locks and ledger queries name
    seen,          \* the worklogs of the day its audit has read
    sel,           \* the selection its execution is bound to
    todo, cur,     \* the approved proposals left, and the one in hand
    outcome,       \* the status its result will report
    approved,      \* policy_decisions: the approved proposals
    ops,           \* mutation_operations: the ledger
    coordRun,      \* coordinated_runs, per account
    flock,         \* the advisory lock file, per account
    lease, expired,\* run_leases: owner, and whether expires_at_ms has passed
    runFile,       \* the status in runs/DATE.json
    live,          \* rollout stage, environment and both kill switches allow mutation
    child,         \* the child `drag log` process of each operation
    post,          \* its POST
    day,           \* proposals with a matching worklog in Tempo now
    ever,          \* history: proposals that have ever had one
    spawns,        \* history: children started, per proposal
    sinceKill      \* history: children started since mutation was forbidden

procVars   == <<pc, kind, resumed, acct, seen, sel, todo, cur, outcome>>
storeVars  == <<approved, ops, coordRun, runFile>>
lockVars   == <<flock, lease, expired>>
remoteVars == <<child, post, day, ever, spawns>>
vars == <<procVars, storeVars, lockVars, live, remoteVars, sinceKill>>

Init ==
    /\ pc = [p \in Procs |-> "idle"]
    /\ kind = [p \in Procs |-> "none"]
    /\ resumed = [p \in Procs |-> FALSE]
    /\ acct = [p \in Procs |-> "default"]
    /\ seen = [p \in Procs |-> {}]
    /\ sel = [p \in Procs |-> {}]
    /\ todo = [p \in Procs |-> {}]
    /\ cur = [p \in Procs |-> NoProposal]
    /\ outcome = [p \in Procs |-> "completed"]
    /\ approved = Decided
    /\ ops = [k \in Proposals |-> "none"]
    /\ coordRun = [a \in Accounts |-> "none"]
    /\ flock = [a \in Accounts |-> NoOwner]
    /\ lease = [a \in Accounts |-> NoOwner]
    /\ expired = [a \in Accounts |-> FALSE]
    /\ runFile = "none"
    /\ live = TRUE
    /\ child = [k \in Proposals |-> "none"]
    /\ post = [k \in Proposals |-> "none"]
    /\ day = {}
    /\ ever = {}
    /\ spawns = [k \in Proposals |-> 0]
    /\ sinceKill = 0

-----------------------------------------------------------------------------
(* The ledger and the locks, as their functions query and write them.      *)

\* execution_tempo_account: with nothing approved it falls back to TEMPO_ACCOUNT.
TempoAccount(S) == IF S = {} THEN "default" ELSE "tempo"

\* Every operation names the account its proposal was resolved to.
OpsOf(a) == IF a = "tempo" THEN Proposals ELSE {}

\* date_has_mutation_operations
HasOperations(a) == \E k \in OpsOf(a) : ops[k] # "none"

\* Deviation: an interrupted submission is not looked for.
HasUncertain(a) == \E k \in OpsOf(a) : ops[k] = "uncertain"

\* date_has_unresolved_operation
HasUnresolved(a) == \E k \in OpsOf(a) : ops[k] \in Unresolved

\* Deviation: every unresolved operation is confirmed.
ReconciledBlindly(a) ==
    [k \in Proposals |-> IF k \in OpsOf(a) /\ ops[k] \in Unresolved
                         THEN "confirmed" ELSE ops[k]]

\* Deviation: an operation that is not in the day is released for a retry.
ReconciledForRetry(a) ==
    [k \in Proposals |-> IF k \in OpsOf(a) /\ ops[k] \in Unresolved
                         THEN IF k \in day THEN "confirmed" ELSE "none"
                         ELSE ops[k]]

\* reconcile_complete_day_and_ledger, given a complete read of the day.
Reconciled(a) ==
    [k \in Proposals |-> IF k \in OpsOf(a) \cap day /\ ops[k] \in Unresolved
                         THEN "confirmed" ELSE ops[k]]

\* Deviation: the intent is not durable.
IntendedInMemory(k) == ops

\* persist_submitting_operation: ON CONFLICT(id) DO NOTHING.
Intended(k) == [ops EXCEPT ![k] = IF @ = "none" THEN "submitting" ELSE @]

\* runtime_mutation_allowed, evaluated afresh at each gate.
MutationAllowed == live

\* Deviation: no advisory lock.
NoLockFile(a) == TRUE

\* acquire_advisory_lock: try_lock_exclusive on the account's file.
LockFree(a) == flock[a] = NoOwner

\* acquire_sqlite_lease: an expired row is deleted and replaced.
LeaseFree(a) == lease[a] = NoOwner \/ expired[a]

\* release_sqlite_lease deletes only the caller's own row.
ReleasedLease(p) ==
    [lease EXCEPT ![acct[p]] = IF @ = p THEN NoOwner ELSE @]

\* The lock file is dropped at the end of the function that took it.
DroppedLock(p) ==
    [a \in Accounts |-> IF flock[a] = p THEN NoOwner ELSE flock[a]]

RunsTracking(p) == kind[p] \in {"run", "draft"}
Authorized(p) == kind[p] \in {"run", "audit"}

Goto(p, l) == pc' = [pc EXCEPT ![p] = l]

\* The command ends with status o; only its result file is left to write.
Leave(p, o) ==
    /\ Goto(p, "finish")
    /\ outcome' = [outcome EXCEPT ![p] = o]

\* The locked part of the execution ends with status o.
LeaveLocked(p, o) ==
    /\ Goto(p, "execRelease")
    /\ outcome' = [outcome EXCEPT ![p] = o]

-----------------------------------------------------------------------------
(* A command starts, and a tracking run or an audit decides the policy.    *)

\* acquire_companion_state_lock: the exclusive lock is tried once.  Its file is
\* under XDG_RUNTIME_DIR or the temporary directory, so it excludes only
\* processes that agree on that directory.
StateLockFree(p) == \A q \in Procs : LockDir[q] = LockDir[p] => pc[q] = "idle"

\* A tracking run resumes if an earlier one left its result file.
Resumes(k) == k = "resume" \/ (k \in {"run", "draft"} /\ runFile # "none")

Start(p, k) ==
    /\ pc[p] = "idle"
    /\ StateLockFree(p)
    /\ kind' = [kind EXCEPT ![p] = k]
    /\ Goto(p, CASE k \in {"run", "draft", "audit"} -> "audit"
                 [] k = "execute" -> "gate"
                 [] k \in {"reconcile", "resume"} -> "coordLock")
    /\ resumed' = [resumed EXCEPT ![p] = Resumes(k)]
    /\ UNCHANGED <<acct, seen, sel, todo, cur, outcome, storeVars, lockVars, live,
                   remoteVars, sinceKill>>

\* audit_drag_day: one complete read of the day ...
AuditRead(p) ==
    /\ pc[p] = "audit"
    /\ seen' = [seen EXCEPT ![p] = day]
    /\ Goto(p, "decide")
    /\ UNCHANGED <<kind, resumed, acct, sel, todo, cur, outcome, storeVars, lockVars, live,
                   remoteVars, sinceKill>>

\* evaluate_policy_decisions: a proposal already in Tempo is rejected
\* (tempo.duplicate), as is one another worklog overlaps; without authorization
\* all are skipped.
Accepted(p, clash) == IF Authorized(p) THEN Proposals \ (seen[p] \cup clash) ELSE {}

\* ... and one transaction with every decision.
PersistPolicyDecisions(p) ==
    /\ pc[p] = "decide"
    /\ \E clash \in Clashes : approved' = Accepted(p, clash)
    /\ seen' = [seen EXCEPT ![p] = {}]
    /\ IF kind[p] = "audit"
       THEN Leave(p, "completed")
       ELSE Goto(p, "coordLock") /\ UNCHANGED outcome
    /\ UNCHANGED <<kind, resumed, acct, sel, todo, cur, ops, coordRun, runFile, lockVars, live,
                   remoteVars, sinceKill>>

-----------------------------------------------------------------------------
(* coordinated_run_with_submission.  Its phases only write run_phases rows. *)

\* The account is computed once; the lock of that account is tried once.
CoordLock(p) ==
    /\ pc[p] = "coordLock"
    /\ LET a == TempoAccount(approved)
       IN  IF ~LockFree(a)
           THEN Leave(p, "failed") /\ UNCHANGED <<acct, flock>>
           ELSE /\ acct' = [acct EXCEPT ![p] = a]
                /\ flock' = [flock EXCEPT ![a] = p]
                /\ Goto(p, IF resumed[p] /\ HasOperations(a) THEN "coordReconcile"
                                                          ELSE "coordLease")
                /\ UNCHANGED outcome
    /\ UNCHANGED <<kind, resumed, seen, sel, todo, cur, storeVars, lease, expired, live,
                   remoteVars, sinceKill>>

CoordReconcile(p) ==
    /\ pc[p] = "coordReconcile"
    /\ ops' = Reconciled(acct[p])
    /\ Goto(p, "coordLease")
    /\ UNCHANGED <<kind, resumed, acct, seen, sel, todo, cur, outcome, approved, coordRun, runFile,
                   lockVars, live, remoteVars, sinceKill>>

\* A run already completed for the account returns without its phases.
CoordLease(p) ==
    /\ pc[p] = "coordLease"
    /\ LET a == acct[p]
       IN  IF ~LeaseFree(a)
           THEN /\ Leave(p, "failed")
                /\ flock' = DroppedLock(p)
                /\ UNCHANGED <<lease, expired, coordRun>>
           ELSE /\ lease' = [lease EXCEPT ![a] = p]
                /\ expired' = [expired EXCEPT ![a] = FALSE]
                /\ coordRun' = [coordRun EXCEPT ![a] = IF @ = "none" THEN "running" ELSE @]
                /\ Goto(p, IF coordRun[a] = "completed" THEN "coordSkip" ELSE "coordFinish")
                /\ UNCHANGED <<outcome, flock>>
    /\ UNCHANGED <<kind, resumed, acct, seen, sel, todo, cur, approved, ops, runFile, live,
                   remoteVars, sinceKill>>

\* The phases heartbeat the lease; finish_run, the release of the lease and the
\* result file are separate writes under the advisory lock.
CoordFinish(p) ==
    /\ pc[p] = "coordFinish"
    /\ coordRun' = [coordRun EXCEPT ![acct[p]] = "completed"]
    /\ expired' = [expired EXCEPT ![acct[p]] = @ /\ lease[acct[p]] # p]
    /\ Goto(p, "coordRelease")
    /\ UNCHANGED <<kind, resumed, acct, seen, sel, todo, cur, outcome, approved, ops, runFile,
                   flock, lease, live, remoteVars, sinceKill>>

CoordRelease(p) ==
    /\ pc[p] = "coordRelease"
    /\ lease' = ReleasedLease(p)
    /\ Goto(p, "coordPublish")
    /\ UNCHANGED <<kind, resumed, acct, seen, sel, todo, cur, outcome, storeVars, flock, expired,
                   live, remoteVars, sinceKill>>

\* Where a coordinated run without error continues.
CoordReturn(p) ==
    /\ flock' = DroppedLock(p)
    /\ IF kind[p] = "run"
       THEN Goto(p, "select") /\ UNCHANGED outcome
       ELSE Leave(p, "completed")

CoordPublish(p) ==
    /\ pc[p] = "coordPublish"
    /\ runFile' = "terminal"
    /\ CoordReturn(p)
    /\ UNCHANGED <<kind, resumed, acct, seen, sel, todo, cur, approved, ops, coordRun, lease,
                   expired, live, remoteVars, sinceKill>>

CoordSkip(p) ==
    /\ pc[p] = "coordSkip"
    /\ lease' = ReleasedLease(p)
    /\ CoordReturn(p)
    /\ UNCHANGED <<kind, resumed, acct, seen, sel, todo, cur, storeVars, expired, live,
                   remoteVars, sinceKill>>

-----------------------------------------------------------------------------
(* execute_drag_worklogs_bound: the gates, the locks and the checks.       *)

\* A tracking run binds its execution to the selection it sees now.
Select(p) ==
    /\ pc[p] = "select"
    /\ sel' = [sel EXCEPT ![p] = approved]
    /\ Goto(p, "gate")
    /\ UNCHANGED <<kind, resumed, acct, seen, todo, cur, outcome, storeVars, lockVars, live,
                   remoteVars, sinceKill>>

Gate(p) ==
    /\ pc[p] = "gate"
    /\ IF MutationAllowed THEN Goto(p, "execLock") /\ UNCHANGED outcome ELSE Leave(p, "gated")
    /\ UNCHANGED <<kind, resumed, acct, seen, sel, todo, cur, storeVars, lockVars, live,
                   remoteVars, sinceKill>>

ExecLock(p) ==
    /\ pc[p] = "execLock"
    /\ LET a == TempoAccount(approved)
       IN  IF ~LockFree(a)
           THEN Leave(p, "failed") /\ UNCHANGED <<acct, flock>>
           ELSE /\ acct' = [acct EXCEPT ![p] = a]
                /\ flock' = [flock EXCEPT ![a] = p]
                /\ Goto(p, "execLease")
                /\ UNCHANGED outcome
    /\ UNCHANGED <<kind, resumed, seen, sel, todo, cur, storeVars, lease, expired, live,
                   remoteVars, sinceKill>>

\* The execution never heartbeats this lease, so it may expire while held.
ExecLease(p) ==
    /\ pc[p] = "execLease"
    /\ LET a == acct[p]
       IN  IF ~LeaseFree(a)
           THEN /\ Leave(p, "failed")
                /\ flock' = DroppedLock(p)
                /\ UNCHANGED <<lease, expired, coordRun>>
           ELSE /\ lease' = [lease EXCEPT ![a] = p]
                /\ expired' = [expired EXCEPT ![a] = FALSE]
                /\ coordRun' = [coordRun EXCEPT ![a] = IF @ = "none" THEN "running" ELSE @]
                /\ Goto(p, "checks")
                /\ UNCHANGED <<outcome, flock>>
    /\ UNCHANGED <<kind, resumed, acct, seen, sel, todo, cur, approved, ops, runFile, live,
                   remoteVars, sinceKill>>

\* block_unresolved asks about the account of what is approved now; the
\* selection digest must not have moved since Select.
BindingHolds(p) ==
    kind[p] = "run" => ~HasUnresolved(TempoAccount(approved)) /\ approved = sel[p]

Checks(p) ==
    /\ pc[p] = "checks"
    /\ IF MutationAllowed /\ BindingHolds(p)
       THEN Goto(p, "execReconcile") /\ UNCHANGED outcome
       ELSE LeaveLocked(p, "gated")
    /\ sel' = [sel EXCEPT ![p] = {}]
    /\ UNCHANGED <<kind, resumed, acct, seen, todo, cur, storeVars, lockVars, live, remoteVars,
                   sinceKill>>

ExecReconcile(p) ==
    /\ pc[p] = "execReconcile"
    /\ ops' = Reconciled(acct[p])
    /\ Goto(p, "load")
    /\ UNCHANGED <<kind, resumed, acct, seen, sel, todo, cur, outcome, approved, coordRun, runFile,
                   lockVars, live, remoteVars, sinceKill>>

\* approved_payloads_for_account: read again, after the checks.
Load(p) ==
    /\ pc[p] = "load"
    /\ todo' = [todo EXCEPT ![p] = IF acct[p] = "tempo" THEN approved ELSE {}]
    /\ Goto(p, "loop")
    /\ UNCHANGED <<kind, resumed, acct, seen, sel, cur, outcome, storeVars, lockVars, live,
                   remoteVars, sinceKill>>

-----------------------------------------------------------------------------
(* The submission loop.                                                    *)

LoopEnds(p) ==
    /\ pc[p] = "loop"
    /\ todo[p] = {}
    /\ LeaveLocked(p, "completed")
    /\ UNCHANGED <<kind, resumed, acct, seen, sel, todo, cur, storeVars, lockVars, live, remoteVars,
                   sinceKill>>

\* The next proposal: a settled operation is skipped; an unresolved one, its own
\* or any other of the account, blocks this proposal and all that follow.
LoopNext(p) ==
    /\ pc[p] = "loop"
    /\ \E k \in todo[p] :
         /\ \A j \in todo[p] : k <= j
         /\ CASE ops[k] \in {"confirmed", "failed"} ->
                   /\ todo' = [todo EXCEPT ![p] = @ \ {k}]
                   /\ UNCHANGED <<pc, cur, outcome>>
              [] ops[k] = "none" /\ ~HasUnresolved(acct[p]) ->
                   /\ todo' = [todo EXCEPT ![p] = @ \ {k}]
                   /\ cur' = [cur EXCEPT ![p] = k]
                   /\ Goto(p, "reread")
                   /\ UNCHANGED outcome
              [] OTHER ->
                   /\ todo' = [todo EXCEPT ![p] = {}]
                   /\ LeaveLocked(p, "uncertain")
                   /\ UNCHANGED cur
    /\ UNCHANGED <<kind, resumed, acct, seen, sel, storeVars, lockVars, live, remoteVars,
                   sinceKill>>

\* The complete day is read again before each mutation.
Reread(p) ==
    /\ pc[p] = "reread"
    /\ Goto(p, IF cur[p] \in day THEN "adopt" ELSE "regate")
    /\ UNCHANGED <<kind, resumed, acct, seen, sel, todo, cur, outcome, storeVars, lockVars, live,
                   remoteVars, sinceKill>>

\* A worklog that is already there is recorded and confirmed in two transactions.
Adopt(p) ==
    /\ pc[p] = "adopt"
    /\ ops' = Intended(cur[p])
    /\ Goto(p, "adoptConfirm")
    /\ UNCHANGED <<kind, resumed, acct, seen, sel, todo, cur, outcome, approved, coordRun, runFile,
                   lockVars, live, remoteVars, sinceKill>>

\* persist_confirmed_operation, then the next proposal.
Confirm(p) ==
    /\ ops' = [ops EXCEPT ![cur[p]] = "confirmed"]
    /\ cur' = [cur EXCEPT ![p] = NoProposal]
    /\ Goto(p, "loop")
    /\ UNCHANGED <<kind, resumed, acct, seen, sel, todo, outcome, approved, coordRun, runFile,
                   lockVars, live, remoteVars, sinceKill>>

AdoptConfirm(p) == pc[p] = "adoptConfirm" /\ Confirm(p)

\* Deviation: the gates are read once per execution.
RegateOnce(p) ==
    /\ pc[p] = "regate"
    /\ Goto(p, "intend")
    /\ UNCHANGED <<kind, resumed, acct, seen, sel, todo, cur, outcome, storeVars, lockVars,
                   live, remoteVars, sinceKill>>

\* The rollout stage and the kill switches are read again before each mutation.
Regate(p) ==
    /\ pc[p] = "regate"
    /\ IF MutationAllowed
       THEN Goto(p, "intend") /\ UNCHANGED <<outcome, todo, cur>>
       ELSE /\ LeaveLocked(p, "gated")
            /\ todo' = [todo EXCEPT ![p] = {}]
            /\ cur' = [cur EXCEPT ![p] = NoProposal]
    /\ UNCHANGED <<kind, resumed, acct, seen, sel, storeVars, lockVars, live, remoteVars,
                   sinceKill>>

\* The submitting intent is durable before the child is started.
Intend(p) ==
    /\ pc[p] = "intend"
    /\ ops' = Intended(cur[p])
    /\ Goto(p, "spawn")
    /\ UNCHANGED <<kind, resumed, acct, seen, sel, todo, cur, outcome, approved, coordRun, runFile,
                   lockVars, live, remoteVars, sinceKill>>

Spawn(p) ==
    /\ pc[p] = "spawn"
    /\ child' = [child EXCEPT ![cur[p]] = "starting"]
    /\ spawns' = [spawns EXCEPT ![cur[p]] = @ + 1]
    /\ sinceKill' = IF live THEN sinceKill ELSE sinceKill + 1
    /\ Goto(p, "await")
    /\ UNCHANGED <<kind, resumed, acct, seen, sel, todo, cur, outcome, storeVars, lockVars, live,
                   post, day, ever>>

\* Exit 0 with a worklog id.
AwaitSuccess(p) ==
    /\ pc[p] = "await"
    /\ child[cur[p]] = "exit0"
    /\ Confirm(p)

\* What ends the execution of the remaining proposals.
GiveUp(p, label, o) ==
    /\ Goto(p, label)
    /\ outcome' = [outcome EXCEPT ![p] = o]
    /\ todo' = [todo EXCEPT ![p] = {}]
    /\ cur' = [cur EXCEPT ![p] = NoProposal]

\* unverifiable_after_live_spawn: any exit but 0 and 2, unreadable output or a
\* spawn that failed.  mark_operation_uncertain writes the ledger ...
AwaitAmbiguous(p) ==
    /\ pc[p] = "await"
    /\ child[cur[p]] = "exit1"
    /\ ops' = [ops EXCEPT ![cur[p]] = "uncertain"]
    /\ GiveUp(p, "doubt", "uncertain")
    /\ UNCHANGED <<kind, resumed, acct, seen, sel, approved, coordRun, runFile, lockVars, live,
                   remoteVars, sinceKill>>

\* ... and then the coordinated run.
FinishUncertain(p) ==
    /\ pc[p] = "doubt"
    /\ coordRun' = [coordRun EXCEPT ![acct[p]] = "uncertain"]
    /\ Goto(p, "execRelease")
    /\ UNCHANGED <<kind, resumed, acct, seen, sel, todo, cur, outcome, approved, ops, runFile,
                   lockVars, live, remoteVars, sinceKill>>

\* Exit 2 is a definite failure: the operation is failed and the command errs.
AwaitRefused(p) ==
    /\ pc[p] = "await"
    /\ child[cur[p]] = "exit2"
    /\ ops' = [ops EXCEPT ![cur[p]] = "failed"]
    /\ GiveUp(p, "execRelease", "failed")
    /\ UNCHANGED <<kind, resumed, acct, seen, sel, approved, coordRun, runFile, lockVars, live,
                   remoteVars, sinceKill>>

ExecRelease(p) ==
    /\ pc[p] = "execRelease"
    /\ lease' = ReleasedLease(p)
    /\ flock' = DroppedLock(p)
    /\ Goto(p, "finish")
    /\ UNCHANGED <<kind, resumed, acct, seen, sel, todo, cur, outcome, storeVars, expired, live,
                   remoteVars, sinceKill>>

-----------------------------------------------------------------------------
(* The end of a command, its failures and its crash.                       *)

\* The process's memory is gone.
Forget(p) ==
    /\ Goto(p, "idle")
    /\ kind' = [kind EXCEPT ![p] = "none"]
    /\ resumed' = [resumed EXCEPT ![p] = FALSE]
    /\ acct' = [acct EXCEPT ![p] = "default"]
    /\ seen' = [seen EXCEPT ![p] = {}]
    /\ sel' = [sel EXCEPT ![p] = {}]
    /\ todo' = [todo EXCEPT ![p] = {}]
    /\ cur' = [cur EXCEPT ![p] = NoProposal]
    /\ outcome' = [outcome EXCEPT ![p] = "completed"]

\* persist_tracking_run: only tracking runs write runs/DATE.json, failed ones too.
Finish(p) ==
    /\ pc[p] = "finish"
    /\ runFile' = IF RunsTracking(p) THEN outcome[p] ELSE runFile
    /\ Forget(p)
    /\ UNCHANGED <<approved, ops, coordRun, lockVars, live, remoteVars, sinceKill>>

\* A read of the day that is not complete is an error of the whole command.
ReadFails(p) ==
    /\ \/ pc[p] \in {"audit", "coordReconcile"} /\ flock' = DroppedLock(p) /\ Leave(p, "failed")
       \/ pc[p] \in {"execReconcile", "reread"} /\ LeaveLocked(p, "failed") /\ UNCHANGED flock
    /\ todo' = [todo EXCEPT ![p] = {}]
    /\ cur' = [cur EXCEPT ![p] = NoProposal]
    /\ UNCHANGED <<kind, resumed, acct, seen, sel, storeVars, lease, expired, live, remoteVars,
                   sinceKill>>

\* The operating system drops the file locks; the lease row stays, under an
\* owner id no later process uses.  A child that was started goes on.
Crash(p) ==
    /\ pc[p] # "idle"
    /\ Forget(p)
    /\ flock' = DroppedLock(p)
    /\ lease' = [a \in Accounts |-> IF lease[a] = p THEN Orphan ELSE lease[a]]
    /\ UNCHANGED <<storeVars, expired, live, remoteVars, sinceKill>>

\* LEASE_TTL_MS passes without a heartbeat.
LeaseExpires(a) ==
    /\ lease[a] # NoOwner
    /\ ~expired[a]
    /\ expired' = [expired EXCEPT ![a] = TRUE]
    /\ UNCHANGED <<procVars, storeVars, flock, lease, live, remoteVars, sinceKill>>

-----------------------------------------------------------------------------
(* The child `drag log`, its single POST, Tempo and the user.              *)

ChildVars == <<procVars, storeVars, lockVars, live, spawns, sinceKill>>

\* Deviation: a failed request is reported like a usage error.
RemoteFailureAsUsage == "exit2"

\* Deviation: a failed request ends in a panic.
RemoteFailurePanics == "exit101"

\* CliError::exit_code: usage errors, and failures of the network or of a remote.
UsageExit == "exit2"
RemoteFailureExit == "exit1"

Exit(k, code) == child' = [child EXCEPT ![k] = code]

\* Validation and configuration errors exit 2, before any request.
ChildRefuses(k) ==
    /\ child[k] = "starting"
    /\ Exit(k, UsageExit)
    /\ UNCHANGED <<ChildVars, post, day, ever>>

\* The issue cannot be resolved, or the process dies, before the POST: exit 1.
ChildFailsEarly(k) ==
    /\ child[k] = "starting"
    /\ Exit(k, RemoteFailureExit)
    /\ UNCHANGED <<ChildVars, post, day, ever>>

\* create_worklog: a POST is never retried.
ChildPosts(k) ==
    /\ child[k] = "starting"
    /\ Exit(k, "posted")
    /\ post' = [post EXCEPT ![k] = "sent"]
    /\ UNCHANGED <<ChildVars, day, ever>>

\* Tempo creates the worklog, also after the child has given up waiting ...
TempoCreates(k) ==
    /\ post[k] = "sent"
    /\ post' = [post EXCEPT ![k] = "landed"]
    /\ day' = day \cup {k}
    /\ ever' = ever \cup {k}
    /\ UNCHANGED <<ChildVars, child>>

\* ... or rejects it, or never receives it.
TempoDrops(k) ==
    /\ post[k] = "sent"
    /\ post' = [post EXCEPT ![k] = "dropped"]
    /\ UNCHANGED <<ChildVars, child, day, ever>>

ChildSucceeds(k) ==
    /\ child[k] = "posted"
    /\ post[k] = "landed"
    /\ Exit(k, "exit0")
    /\ UNCHANGED <<ChildVars, post, day, ever>>

\* Deviation: the client waits without a timeout.
ChildFailsOnRejection(k) ==
    /\ child[k] = "posted"
    /\ post[k] = "dropped"
    /\ Exit(k, RemoteFailureExit)
    /\ UNCHANGED <<ChildVars, post, day, ever>>

\* A rejection, a lost or unreadable answer and the 30 s timeout all exit 1.
ChildFailsLate(k) ==
    /\ child[k] = "posted"
    /\ Exit(k, RemoteFailureExit)
    /\ UNCHANGED <<ChildVars, post, day, ever>>

\* The user logs a worklog with the proposal's issue, period and description.
UserLogs(k) ==
    /\ k \notin day
    /\ day' = day \cup {k}
    /\ ever' = ever \cup {k}
    /\ UNCHANGED <<ChildVars, child, post>>

UserDeletes(k) ==
    /\ k \in day
    /\ day' = day \ {k}
    /\ UNCHANGED <<ChildVars, child, post, ever>>

\* A kill switch file, the rollout stage or the environment changes.
SetLive(b) ==
    /\ live # b
    /\ live' = b
    /\ sinceKill' = 0
    /\ UNCHANGED <<procVars, storeVars, lockVars, remoteVars>>

-----------------------------------------------------------------------------
Coordinate(p) ==
    \/ CoordLock(p) \/ CoordReconcile(p) \/ CoordLease(p) \/ CoordFinish(p)
    \/ CoordRelease(p) \/ CoordPublish(p) \/ CoordSkip(p)

Execute(p) ==
    \/ Select(p) \/ Gate(p) \/ ExecLock(p) \/ ExecLease(p) \/ Checks(p)
    \/ ExecReconcile(p) \/ Load(p) \/ LoopEnds(p) \/ LoopNext(p) \/ Reread(p) \/ Adopt(p)
    \/ AdoptConfirm(p) \/ Regate(p) \/ Intend(p) \/ Spawn(p) \/ AwaitSuccess(p)
    \/ AwaitAmbiguous(p) \/ FinishUncertain(p) \/ AwaitRefused(p) \/ ExecRelease(p)

\* Every step of a started process but its crash.
Process(p) ==
    \/ AuditRead(p) \/ PersistPolicyDecisions(p) \/ Coordinate(p) \/ Execute(p)
    \/ ReadFails(p) \/ Finish(p)

Child(k) ==
    \/ ChildRefuses(k) \/ ChildFailsEarly(k) \/ ChildPosts(k) \/ ChildSucceeds(k)
    \/ ChildFailsLate(k)

Tempo(k) == TempoCreates(k) \/ TempoDrops(k)

Next ==
    \/ \E p \in Procs : Process(p) \/ Crash(p) \/ \E k \in Kinds : Start(p, k)
    \/ \E a \in Accounts : LeaseExpires(a)
    \/ \E k \in Proposals : Child(k) \/ Tempo(k)
    \/ \E k \in Edited : UserLogs(k) \/ UserDeletes(k)
    \/ \E b \in BOOLEAN : SetLive(b)

Spec == Init /\ [][Next]_vars

\* wait_with_output returns when the child exits, and its client gives up after
\* 30 s; no lock is waited for.  Crashes, users, Tempo and the next command owe
\* nothing.
Fairness ==
    /\ \A p \in Procs : WF_vars(Process(p))
    /\ \A k \in Proposals : WF_vars(Child(k))

FairSpec == Spec /\ Fairness

-----------------------------------------------------------------------------
(* Properties.                                                             *)

\* The type invariant of all of the state.
TypeOK ==
    /\ pc \in [Procs -> Labels]
    /\ kind \in [Procs -> AllKinds \cup {"none"}]
    /\ resumed \in [Procs -> BOOLEAN]
    /\ acct \in [Procs -> Accounts]
    /\ seen \in [Procs -> SUBSET Proposals]
    /\ sel \in [Procs -> SUBSET Proposals]
    /\ todo \in [Procs -> SUBSET Proposals]
    /\ cur \in [Procs -> Proposals \cup {NoProposal}]
    /\ outcome \in [Procs -> Outcomes]
    /\ approved \in SUBSET Proposals
    /\ ops \in [Proposals -> OperationStates]
    /\ coordRun \in [Accounts -> RunStates]
    /\ flock \in [Accounts -> Procs \cup {NoOwner}]
    /\ lease \in [Accounts -> Procs \cup {NoOwner, Orphan}]
    /\ expired \in [Accounts -> BOOLEAN]
    /\ runFile \in Outcomes \cup {"none", "terminal"}
    /\ live \in BOOLEAN
    /\ child \in [Proposals -> ChildStates]
    /\ post \in [Proposals -> PostStates]
    /\ day \in SUBSET Proposals
    /\ ever \in SUBSET Proposals
    /\ spawns \in [Proposals -> Nat]
    /\ sinceKill \in Nat

\* Whatever crashes, races, lost answers and repeated commands happen, a proposal is
\* handed to `drag log` at most once (operation key, durable intent, advisory lock).
AtMostOneSubmission == \A k \in Proposals : spawns[k] <= 1

\* At most one operation of the day is in doubt: nothing is submitted past an
\* operation that is submitting or uncertain.
OneInDoubt ==
    \A j, k \in Proposals :
        ops[j] \in Unresolved /\ ops[k] \in Unresolved => j = k

\* A failed operation is never tried again, so it must be one whose worklog cannot
\* exist: exit code 2 of `drag log` has to mean that nothing was posted.
FailedNeverLands == \A k \in Proposals : ops[k] = "failed" => post[k] = "none"

\* A confirmed operation, reported by a child, found by a reread or by a later
\* reconciliation, has had its worklog in Tempo.
ConfirmedHasWorklog == \A k \in Proposals : ops[k] = "confirmed" => k \in ever

\* Once a kill switch is thrown, at most one more child starts until mutation is
\* allowed again, whatever number of commands is running or is started.
KillBoundsSubmissions == sinceKill <= 1

\* A command that was started ends: no lock, lease, child or lost answer holds it
\* for ever.
EveryCommandEnds == \A p \in Procs : pc[p] # "idle" ~> pc[p] = "idle"

\* ... and why: the invariants of the lock holder, of the proposal in hand, of the
\* ledger, of the child processes and of the kill switch, which together are inductive.
Locked(p) == pc[p] \in CoordLabels \cup ExecLabels

\* A process between acquire_advisory_lock and the drop of its file holds the lock of
\* the account it works for.
LockInv == \A p \in Procs : Locked(p) => flock[acct[p]] = p

NothingInDoubt == \A k \in Proposals : ops[k] \notin Unresolved

\* What the lock holder has learnt of the proposal in hand stays true until it acts.
InHandOf(p) ==
    /\ todo[p] # {} => pc[p] \in InHand \cup {"loop"} /\ acct[p] = "tempo"
    /\ pc[p] \in InHand => cur[p] \in Proposals /\ acct[p] = "tempo"
    /\ pc[p] \in {"reread", "adopt", "regate", "intend"} =>
           ops[cur[p]] = "none" /\ NothingInDoubt
    /\ pc[p] \in {"adoptConfirm", "spawn", "await"} => ops[cur[p]] = "submitting"
    /\ pc[p] \in {"adopt", "adoptConfirm"} => cur[p] \in ever
    /\ pc[p] = "spawn" => spawns[cur[p]] = 0
    /\ pc[p] = "await" => spawns[cur[p]] = 1

InHandInv == \A p \in Procs : InHandOf(p)

\* No child was ever started for a proposal that is not in the ledger.
LedgerInv ==
    /\ \A k \in Proposals :
         /\ ops[k] = "none" => spawns[k] = 0
         /\ ops[k] = "failed" => child[k] = "exit2"
    /\ ConfirmedHasWorklog
    /\ OneInDoubt

\* How far a child and its POST can be.
ChildInv ==
    /\ \A k \in Proposals :
         /\ spawns[k] = IF child[k] = "none" THEN 0 ELSE 1
         /\ child[k] \in {"none", "starting", "exit2"} => post[k] = "none"
         /\ child[k] \in {"posted", "exit0"} => post[k] # "none"
         /\ child[k] = "exit0" => post[k] = "landed"
         /\ post[k] = "landed" => k \in ever
    /\ day \subseteq ever

\* The process that has passed its last gate is the only one that has.
KillInv ==
    /\ KillBoundsSubmissions
    /\ live => sinceKill = 0
    /\ sinceKill = 1 => \A p \in Procs : pc[p] \notin {"intend", "spawn"}

\* The inductive invariant of the submission path.
Inv == TypeOK /\ LockInv /\ InHandInv /\ LedgerInv /\ ChildInv /\ KillInv

\* The companion's processes implement the promise of AtMostOnceSubmission.
LedgerView(state) ==
    CASE state = "none" -> "none"
      [] state \in Unresolved -> "open"
      [] state = "confirmed" -> "settled"
      [] state = "failed" -> "refused"

Promise == INSTANCE AtMostOnceSubmission
             WITH Items <- Proposals, attempts <- spawns, remote <- post, known <- ever,
                  ledger <- [k \in Proposals |-> LedgerView(ops[k])]

ImplementsPromise == Promise!Spec

\* A tracking run that reports completed leaves no operation of its date in doubt.
CompletedMeansResolved ==
    [][\A p \in Procs :
         Finish(p) /\ kind[p] = "run" /\ runFile' = "completed" =>
             \A k \in Proposals : ops[k] \notin Unresolved]_vars
=============================================================================
