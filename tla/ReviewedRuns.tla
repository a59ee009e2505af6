---------------------------- MODULE ReviewedRuns ----------------------------
(***************************************************************************)
(* What has to be agreed before the companion logs work on a date: the     *)
(* submission mode (setup, public_tracking.rs), the proposals of a date    *)
(* (provider_proposals.rs), their resolution and the policy's decisions    *)
(* (drag_gateway.rs), the approval of a proposal set (review approve) and  *)
(* the run that goes from evidence to submission (run_tracking_for_date    *)
(* and execute_drag_worklogs_bound).                                       *)
(*                                                                         *)
(* A run takes many steps and may die after any of them; the other         *)
(* commands are one step each. WorklogExecution models what one submission *)
(* goes through and Rollout when live mutation is allowed; here a          *)
(* submission lands or does not, and the rollout opens and closes.         *)
(***************************************************************************)
EXTENDS Integers

CONSTANTS
    Procs,        \* companion processes
    Batches,      \* what the provider proposes, by how much evidence it is shown
    Sound,        \* proposals the policy accepts taken alone
    Clashes,      \* {x, y}: the two overlap or are for the same issue
    Outages       \* TRUE if drag, Tempo, the provider and the machine may fail

Proposals == UNION {Batches[e] : e \in DOMAIN Batches}

VARIABLES
    mode,         \* the submission mode of the configuration
    live,         \* rollout, rollout switch and kill switches allow mutation
    evidence,     \* how much evidence there is: an index of Batches
    proposals,    \* table proposals, of one date
    resolved,     \* those with a complete resolution by drag
    decision,     \* table policy_decisions
    approval,     \* the proposal set approvals/DATE.json holds the digest of,
                  \* {} without one
    tempo,        \* the proposals that Tempo has a worklog for
    lock,         \* the holders of the exclusive companion lock
    run,          \* the long command of each process
    last          \* how the long command that ended last ended

store == <<proposals, resolved, decision>>
vars == <<mode, live, evidence, store, approval, tempo, lock, run, last>>

Modes == {"draft", "review", "automatic"}
Decisions == {"none", "approved", "skipped", "rejected"}
Idle == [at |-> "idle"]
LongCommand ==
    [at : {"collect", "audit", "digest", "execute", "load", "submit"},
     command : {"run", "execute"},
     mode : Modes,                   \* the configuration it has read
     digest : SUBSET Proposals,      \* the approved set it is bound to, or {}
     selection : SUBSET Proposals,   \* the selection it is bound to
     queue : SUBSET Proposals]       \* the payloads it has still to submit

-----------------------------------------------------------------------------
(* Reading the store.                                                      *)

(* proposal_payloads: one proposal without a resolution fails the read of  *)
(* all of them.                                                            *)
Readable == proposals \subseteq resolved

\* Deviation: any approval will do.
AnyApproval(set) == approval # {}

(* approval_matches_digest; the empty set is never approved.               *)
Matches(set) == approval # {} /\ approval = set

Approved == {x \in proposals : decision[x] = "approved"}

\* The two overlap, are for the same issue, or are the same.
InTheWay(x, y) == x = y \/ {x, y} \in Clashes

(* evaluate_policy_decisions                                               *)
Decided(authorized) ==
    [x \in Proposals |->
        IF x \notin proposals THEN decision[x]
        ELSE IF ~authorized THEN "skipped"
        ELSE IF /\ x \in Sound
                /\ \A y \in proposals \ {x} : {x, y} \notin Clashes
                /\ \A y \in tempo : ~InTheWay(x, y)
             THEN "approved"
             ELSE "rejected"]

\* Deviation: the pipeline commands take the lock shared.
ExclusiveRunsOnly(command) == command \in {"setup", "run", "approve", "execute"}

(* command_requires_exclusive_lock                                         *)
Exclusive(command) ==
    command \in {"setup", "run", "approve", "propose", "preview", "audit", "execute"}

MayStart(command) == Exclusive(command) => lock = {}

-----------------------------------------------------------------------------
Init ==
    /\ mode = "draft"
    /\ live \in BOOLEAN
    /\ evidence \in DOMAIN Batches
    /\ proposals = {} /\ resolved = {}
    /\ decision = [x \in Proposals |-> "none"]
    /\ approval = {}
    /\ tempo = {}
    /\ lock = {}
    /\ run = [p \in Procs |-> Idle]
    /\ last = "none"

(* More is captured; the rollout opens or closes.                          *)
Capture ==
    /\ evidence + 1 \in DOMAIN Batches
    /\ evidence' = evidence + 1
    /\ UNCHANGED <<mode, live, store, approval, tempo, lock, run, last>>
OpenOrClose ==
    /\ live' = ~live
    /\ UNCHANGED <<mode, evidence, store, approval, tempo, lock, run, last>>

(* setup --mode; automatic mode takes --authorize-automatic, once.         *)
Setup(m) ==
    /\ MayStart("setup")
    /\ mode' = m
    /\ UNCHANGED <<live, evidence, store, approval, tempo, lock, run, last>>

(* review approve: the set as it is now, in review mode, once resolved.    *)
Approve ==
    /\ MayStart("approve")
    /\ mode = "review" /\ proposals # {} /\ Readable
    /\ approval' = proposals
    /\ UNCHANGED <<mode, live, evidence, store, tempo, lock, run, last>>

(* internal propose: the ids carry the request, so that what was proposed  *)
(* from other evidence stays.                                              *)
Propose ==
    /\ MayStart("propose")
    /\ proposals' = proposals \cup Batches[evidence]
    /\ UNCHANGED <<mode, live, evidence, resolved, decision, approval, tempo, lock, run, last>>

(* internal preview resolves whatever is not resolved, in one transaction. *)
Preview ==
    /\ MayStart("preview")
    /\ resolved' = resolved \cup proposals
    /\ UNCHANGED <<mode, live, evidence, proposals, decision, approval, tempo, lock, run, last>>

(* internal audit, with and without --authorize-unattended.                *)
Audit(authorized) ==
    /\ MayStart("audit")
    /\ resolved' = resolved \cup proposals
    /\ decision' = Decided(authorized)
    /\ UNCHANGED <<mode, live, evidence, proposals, approval, tempo, lock, run, last>>

-----------------------------------------------------------------------------
(* run and internal execute.                                               *)

End(p, how) ==
    /\ run' = [run EXCEPT ![p] = Idle]
    /\ lock' = lock \ {p}
    /\ last' = how

Goto(p, r) ==
    /\ run' = [run EXCEPT ![p] = r]
    /\ UNCHANGED <<lock, last>>

At(p, command, place) == run[p].at = place /\ run[p].command = command

(* A run reads the configuration and whether it may submit, which in       *)
(* review mode, or with mutation allowed, reads every proposal.            *)
StartRun(p) ==
    /\ run[p] = Idle /\ MayStart("run")
    /\ IF mode = "review" \/ (mode = "automatic" /\ live) => Readable
       THEN /\ lock' = lock \cup {p}
            /\ run' = [run EXCEPT ![p] = [at |-> "collect", command |-> "run", mode |-> mode,
                                          digest |-> {}, selection |-> {}, queue |-> {}]]
            /\ UNCHANGED last
       ELSE End(p, "failed")
    /\ UNCHANGED <<mode, live, evidence, store, approval, tempo>>

(* internal execute --authorize-live is bound to nothing.                  *)
StartExecute(p) ==
    /\ run[p] = Idle /\ MayStart("execute")
    /\ IF live /\ Readable
       THEN /\ lock' = lock \cup {p}
            /\ run' = [run EXCEPT ![p] = [at |-> "load", command |-> "execute", mode |-> mode,
                                          digest |-> {}, selection |-> {}, queue |-> {}]]
            /\ UNCHANGED last
       ELSE End(p, IF live THEN "failed" ELSE "gated")
    /\ UNCHANGED <<mode, live, evidence, store, approval, tempo>>

(* Collection, import and bundle; the provider is asked only when there    *)
(* are no proposals.                                                       *)
Collect(p) ==
    /\ At(p, "run", "collect")
    /\ proposals' = IF proposals = {} THEN Batches[evidence] ELSE proposals
    /\ Goto(p, [run[p] EXCEPT !.at = "audit"])
    /\ UNCHANGED <<mode, live, evidence, resolved, decision, approval, tempo>>

(* The audit, which in review mode reads every proposal before it resolves *)
(* them; its decisions count as authorized with an approval or in          *)
(* automatic mode.                                                         *)
AuditInRun(p) ==
    LET authorized == run[p].mode = "automatic" \/ (run[p].mode = "review" /\ Matches(proposals))
    IN  /\ At(p, "run", "audit")
        /\ IF run[p].mode = "review" => Readable
           THEN /\ Goto(p, [run[p] EXCEPT !.at = "digest"])
                /\ resolved' = resolved \cup proposals
                /\ decision' = Decided(authorized)
           ELSE /\ End(p, "failed")
                /\ UNCHANGED <<resolved, decision>>
        /\ UNCHANGED <<mode, live, evidence, proposals, approval, tempo>>

(* The run is bound to the approved set and to the selection; without      *)
(* authorization it ends here.                                             *)
Bind(p) ==
    LET digest == IF run[p].mode = "review" /\ Matches(proposals) THEN proposals ELSE {}
        authorized == run[p].mode = "automatic" \/ digest # {}
    IN  /\ At(p, "run", "digest")
        /\ IF ~Readable THEN End(p, "failed")
           ELSE IF ~authorized THEN End(p, "completed")
           ELSE Goto(p, [run[p] EXCEPT !.at = "execute",
                                       !.digest = digest, !.selection = Approved])
        /\ UNCHANGED <<mode, live, evidence, store, approval, tempo>>

(* Behind the lease the gates and what the run is bound to are checked     *)
(* again.                                                                  *)
StillBound(r) ==
    /\ r.digest # {} => Matches(r.digest)
    /\ r.selection = Approved

Check(p) ==
    /\ At(p, "run", "execute")
    /\ IF live /\ ~Readable THEN End(p, "failed")
       ELSE IF live /\ StillBound(run[p]) THEN Goto(p, [run[p] EXCEPT !.at = "load"])
       ELSE End(p, "gated")
    /\ UNCHANGED <<mode, live, evidence, store, approval, tempo>>

(* Only then are the payloads read that will be submitted.                 *)
LoadPayloads(p) ==
    /\ run[p].at = "load"
    /\ IF Readable
       THEN Goto(p, [run[p] EXCEPT !.at = "submit", !.queue = Approved])
       ELSE End(p, "failed")
    /\ UNCHANGED <<mode, live, evidence, store, approval, tempo>>

(* A payload lands; or it is skipped, because the ledger or Tempo has it   *)
(* already, or held back by an operation in doubt.                         *)
Submit(p) ==
    /\ run[p].at = "submit" /\ live
    /\ \E x \in run[p].queue :
        /\ Goto(p, [run[p] EXCEPT !.queue = @ \ {x}])
        /\ tempo' \in {tempo, tempo \cup {x}}
    /\ UNCHANGED <<mode, live, evidence, store, approval>>

FinishExecution(p) ==
    /\ run[p].at = "submit"
    /\ run[p].queue = {} \/ ~live
    /\ End(p, IF run[p].queue = {} THEN "completed" ELSE "gated")
    /\ UNCHANGED <<mode, live, evidence, store, approval, tempo>>

(* A source, drag, Tempo, the provider or the ledger fails, or the process *)
(* dies; what the command had written by then stays.                       *)
BreakOff(p) ==
    /\ Outages /\ run[p] # Idle
    /\ End(p, "outage")
    /\ UNCHANGED <<mode, live, evidence, store, approval, tempo>>
ResolveAndBreakOff(p) ==
    /\ Outages /\ At(p, "run", "audit")
    /\ run[p].mode = "review" => Readable
    /\ resolved' = resolved \cup proposals
    /\ End(p, "outage")
    /\ UNCHANGED <<mode, live, evidence, proposals, decision, approval, tempo>>

RunStep(p) ==
    \/ Collect(p) \/ AuditInRun(p) \/ Bind(p) \/ Check(p)
    \/ LoadPayloads(p) \/ Submit(p) \/ FinishExecution(p)

Next ==
    \/ Capture \/ OpenOrClose
    \/ \E m \in Modes : Setup(m)
    \/ Approve \/ Propose \/ Preview
    \/ \E authorized \in BOOLEAN : Audit(authorized)
    \/ \E p \in Procs : \/ StartRun(p) \/ StartExecute(p)
                        \/ RunStep(p)
                        \/ BreakOff(p) \/ ResolveAndBreakOff(p)

Spec == Init /\ [][Next]_vars

-----------------------------------------------------------------------------
(* Properties.                                                             *)

(* A run or an execution under way is alone with the state; what was       *)
(* approved can be read.                                                   *)
Inv ==
    /\ mode \in Modes /\ live \in BOOLEAN /\ evidence \in DOMAIN Batches
    /\ proposals \subseteq Proposals /\ resolved \subseteq Proposals
    /\ decision \in [Proposals -> Decisions]
    /\ approval \subseteq Proposals /\ tempo \subseteq Proposals
    /\ lock \in SUBSET Procs
    /\ run \in [Procs -> {Idle} \cup LongCommand]
    /\ last \in {"none", "completed", "gated", "failed", "outage"}
    /\ \A p \in Procs : IF run[p] = Idle THEN p \notin lock ELSE lock = {p}
    /\ approval \subseteq resolved

Consented(x) ==
    \/ mode = "automatic"
    \/ mode = "review" /\ approval = proposals /\ x \in approval

(* What a run submits, the user has agreed to in the configuration as it   *)
(* is when the payload leaves: automatic submission, or, in review mode,   *)
(* the approval of exactly the proposals there are; nothing in draft mode. *)
(* Whatever was proposed, audited, approved or configured between the      *)
(* steps of the run or after one that died.                                *)
ConsentedStep ==
    \A p \in Procs : \A x \in Proposals :
        /\ run[p] # Idle /\ run[p].command = "run" /\ run[p].at = "submit"
        /\ run'[p] # Idle /\ x \in run[p].queue \ run'[p].queue
        => Consented(x)
SubmitsOnlyConsented == [][ConsentedStep]_vars

(* architecture.md on the public run: it "invokes its configured           *)
(* constrained proposal adapter, audits the resulting proposals, and only  *)
(* then enters the coordinated execution path". A run that goes from its   *)
(* start to an end other than an outage leaves no proposal without a       *)
(* decision.                                                               *)
ProposalsAreAudited ==
    [][\A p \in Procs :
          /\ run[p] # Idle /\ run[p].command = "run"
          /\ run'[p] = Idle /\ last' # "outage"
          => \A x \in proposals' : decision'[x] # "none"]_vars
=============================================================================
