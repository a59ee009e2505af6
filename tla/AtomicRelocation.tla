-------------------------- MODULE AtomicRelocation --------------------------
(***************************************************************************)
(* What the move of a legacy store to ~/.drag/tracking promises, however   *)
(* many steps, processes and crashes it takes: in one step a whole store   *)
(* is at home there, no other ever after, none loses a file, and nobody    *)
(* works there who was sent to a store that is still where it was.         *)
(***************************************************************************)
CONSTANTS Procs, Dirs, Legacy, Files, NoDir

VARIABLES
    home,      \* the target: whether it is there, and the directory its store was in
    contents,  \* the files of each store, wherever it is
    using      \* the directory each process works for

vars == <<home, contents, using>>

Init ==
    /\ home = [there |-> FALSE, from |-> NoDir]
    /\ contents = [d \in Legacy |-> Files]
    /\ using = [p \in Procs |-> NoDir]

Relocate(d) ==
    /\ ~home.there
    /\ home' = [there |-> TRUE, from |-> d]
    /\ UNCHANGED <<contents, using>>

\* A store must have been moved before anybody works for its directory.
Admit(p, d) ==
    /\ using[p] = NoDir
    /\ d \in Legacy => home = [there |-> TRUE, from |-> d]
    /\ using' = [using EXCEPT ![p] = d]
    /\ UNCHANGED <<home, contents>>

\* A process may leave a target where there was none.
Leave(p) ==
    /\ using[p] # NoDir
    /\ home' \in {home, IF home.there THEN home ELSE [there |-> TRUE, from |-> NoDir]}
    /\ using' = [using EXCEPT ![p] = NoDir]
    /\ UNCHANGED contents

Next ==
    \/ \E d \in Legacy : Relocate(d)
    \/ \E p \in Procs : Leave(p) \/ \E d \in Dirs : Admit(p, d)

Spec == Init /\ [][Next]_vars
=============================================================================
