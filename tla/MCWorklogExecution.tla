------------------------- MODULE MCWorklogExecution -------------------------
(* WorklogExecution on small sets of processes and proposals.              *)
EXTENDS WorklogExecution, TLC

\* No two processes agree on the state lock's directory: the state lock excludes
\* nothing, and every interleaving is left to the advisory lock and the ledger.
MCLockDir == [p \in Procs |-> p]

NoClashes == {{}}

\* The processes are interchangeable, their lock directories included.
Symmetry == Permutations(Procs)
=============================================================================
