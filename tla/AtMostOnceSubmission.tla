------------------------ MODULE AtMostOnceSubmission ------------------------
(***************************************************************************)
(* What the companion promises about the mutations of one date, whatever   *)
(* its processes, locks and crashes do: an item is recorded before it is   *)
(* attempted, attempted at most once and never past another item in doubt, *)
(* settled only when its worklog has been seen, and refused only when its  *)
(* worklog can never appear.                                               *)
(***************************************************************************)
EXTENDS Naturals

CONSTANT Items

VARIABLES
    ledger,    \* what the companion durably knows of each item
    attempts,  \* how often it has been attempted
    remote,    \* how far the attempt has got at the other side
    known      \* items whose worklog has ever existed

vars == <<ledger, attempts, remote, known>>

Init ==
    /\ ledger = [k \in Items |-> "none"]
    /\ attempts = [k \in Items |-> 0]
    /\ remote = [k \in Items |-> "none"]
    /\ known = {}

\* The item becomes the one item in doubt.
Record(k) ==
    /\ ledger[k] = "none"
    /\ \A j \in Items : ledger[j] # "open"
    /\ ledger' = [ledger EXCEPT ![k] = "open"]
    /\ UNCHANGED <<attempts, remote, known>>

Attempt(k) ==
    /\ ledger[k] = "open"
    /\ attempts[k] = 0
    /\ attempts' = [attempts EXCEPT ![k] = 1]
    /\ UNCHANGED <<ledger, remote, known>>

\* The attempt may act long after the companion has lost sight of it, but not
\* after it was refused.
Send(k) ==
    /\ attempts[k] = 1
    /\ ledger[k] # "refused"
    /\ remote[k] = "none"
    /\ remote' = [remote EXCEPT ![k] = "sent"]
    /\ UNCHANGED <<ledger, attempts, known>>

Land(k) ==
    /\ remote[k] = "sent"
    /\ remote' = [remote EXCEPT ![k] = "landed"]
    /\ known' = known \cup {k}
    /\ UNCHANGED <<ledger, attempts>>

Drop(k) ==
    /\ remote[k] = "sent"
    /\ remote' = [remote EXCEPT ![k] = "dropped"]
    /\ UNCHANGED <<ledger, attempts, known>>

\* Somebody else creates the item's worklog.
Appear(k) ==
    /\ known' = known \cup {k}
    /\ UNCHANGED <<ledger, attempts, remote>>

Settle(k) ==
    /\ ledger[k] = "open"
    /\ k \in known
    /\ ledger' = [ledger EXCEPT ![k] = "settled"]
    /\ UNCHANGED <<attempts, remote, known>>

Refuse(k) ==
    /\ ledger[k] = "open"
    /\ remote[k] = "none"
    /\ attempts[k] = 1
    /\ ledger' = [ledger EXCEPT ![k] = "refused"]
    /\ UNCHANGED <<attempts, remote, known>>

Next ==
    \E k \in Items :
        \/ Record(k) \/ Attempt(k) \/ Send(k) \/ Land(k) \/ Drop(k) \/ Appear(k)
        \/ Settle(k) \/ Refuse(k)

Spec == Init /\ [][Next]_vars
=============================================================================
