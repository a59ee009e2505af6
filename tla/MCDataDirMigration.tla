------------------------- MODULE MCDataDirMigration -------------------------
(* DataDirMigration with interleaving processes started in a directory     *)
(* with a store that can be renamed, one with a store on another file      *)
(* system, and one without a store.                                        *)
EXTENDS DataDirMigration, TLC

\* Processes and files are interchangeable.
Symmetry == Permutations(Procs) \cup Permutations(Files)
=============================================================================
