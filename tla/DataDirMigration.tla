-------------------------- MODULE DataDirMigration --------------------------
(***************************************************************************)
(* How a process without an explicit data directory arrives at             *)
(* ~/.drag/tracking (the target): it finalizes what an earlier process has *)
(* left and moves a legacy .drag-companion store there, by rename or, from *)
(* another file system, by copy, rename and removal.  All of this precedes *)
(* the state lock, so processes interleave; each may be interrupted        *)
(* anywhere, and an error ends it as an interruption does.                 *)
(***************************************************************************)
EXTENDS FiniteSets

CONSTANTS
    Procs,     \* invocations that may be under way at the same time
    Dirs,      \* working directories they are started in
    Legacy,    \* the working directories that hold a legacy store
    Remote,    \* those on another file system than the target
    Files      \* the files of a legacy store

NoDir == "none"
Markers == {"none", "inProgress", "completed"}
Labels == {"idle", "finalize", "unrecord", "choose", "checkLegacy", "checkTarget", "record",
           "mark", "move", "copy", "commit", "remove", "complete", "unrecordMoved", "ready",
           "refused"}

ASSUME DirsAssumption == NoDir \notin Dirs
ASSUME LegacyAssumption == Legacy \subseteq Dirs /\ Remote \subseteq Dirs

VARIABLES
    legacy,    \* the .drag-companion of each directory: whether it is there, its files
    target,    \* whether it is there, where its files come from, migration.json
    record,    \* tracking.migration-source: the directory named there
    pc,
    dir, src,  \* each process's working directory, and the store it would move
    staged     \* its staging copy

vars == <<legacy, target, record, pc, dir, src, staged>>

NoTarget == [there |-> FALSE, from |-> NoDir, files |-> {}, marker |-> "none"]

Init ==
    /\ legacy = [d \in Dirs |-> [there |-> d \in Legacy,
                                 files |-> IF d \in Legacy THEN Files ELSE {}]]
    /\ target = NoTarget
    /\ record = NoDir
    /\ pc = [p \in Procs |-> "idle"]
    /\ dir = [p \in Procs |-> NoDir]
    /\ src = [p \in Procs |-> NoDir]
    /\ staged = [p \in Procs |-> {}]

Goto(p, label) == pc' = [pc EXCEPT ![p] = label]

\* The process's memory is gone; a staging copy it leaves has a name that no later
\* process uses.
End(p) ==
    /\ Goto(p, "idle")
    /\ dir' = [dir EXCEPT ![p] = NoDir]
    /\ src' = [src EXCEPT ![p] = NoDir]
    /\ staged' = [staged EXCEPT ![p] = {}]

local == <<dir, src, staged>>

-----------------------------------------------------------------------------
(* resolve_data_dir: what an earlier process has left.                     *)

Start(p, d) ==
    /\ pc[p] = "idle"
    /\ dir' = [dir EXCEPT ![p] = d]
    /\ Goto(p, "finalize")
    /\ UNCHANGED <<legacy, target, record, src, staged>>

\* finalize_migration_record: a move that is in progress in the target is over.
Finalize(p) ==
    /\ pc[p] = "finalize"
    /\ target' = [target EXCEPT !.marker = IF @ = "inProgress" THEN "completed" ELSE @]
    /\ Goto(p, "unrecord")
    /\ UNCHANGED <<legacy, record, local>>

Unrecord(p) ==
    /\ pc[p] = "unrecord"
    /\ record' = IF target.there THEN NoDir ELSE record
    /\ Goto(p, "choose")
    /\ UNCHANGED <<legacy, target, local>>

\* migration_source_path, or the process's own directory.
Source(p) == IF record # NoDir THEN record ELSE dir[p]

Choose(p) ==
    /\ pc[p] = "choose"
    /\ src' = [src EXCEPT ![p] = Source(p)]
    /\ Goto(p, "checkLegacy")
    /\ UNCHANGED <<legacy, target, record, dir, staged>>

-----------------------------------------------------------------------------
(* migrate_legacy_data_dir                                                 *)

CheckLegacy(p) ==
    /\ pc[p] = "checkLegacy"
    /\ Goto(p, IF legacy[src[p]].there THEN "checkTarget" ELSE "ready")
    /\ UNCHANGED <<legacy, target, record, local>>

\* Deviation: two stores are left for later.
CheckTargetLeniently(p) ==
    /\ pc[p] = "checkTarget"
    /\ Goto(p, IF target.there THEN "ready" ELSE "record")
    /\ UNCHANGED <<legacy, target, record, local>>

CheckTarget(p) ==
    /\ pc[p] = "checkTarget"
    /\ Goto(p, IF target.there THEN "refused" ELSE "record")
    /\ UNCHANGED <<legacy, target, record, local>>

Record(p) ==
    /\ pc[p] = "record"
    /\ record' = src[p]
    /\ Goto(p, "mark")
    /\ UNCHANGED <<legacy, target, local>>

\* migration.json is written into the legacy store, and travels with it.
Mark(p) ==
    /\ pc[p] = "mark"
    /\ legacy[src[p]].there
    /\ Goto(p, "move")
    /\ UNCHANGED <<legacy, target, record, local>>

Gone == [there |-> FALSE, files |-> {}]
Moved(d, S) == [there |-> TRUE, from |-> d, files |-> S, marker |-> "inProgress"]

\* rename fails for a target that is there, and across file systems.
Move(p) ==
    /\ pc[p] = "move"
    /\ legacy[src[p]].there
    /\ IF src[p] \in Remote
       THEN Goto(p, "copy") /\ UNCHANGED <<legacy, target>>
       ELSE /\ ~target.there
            /\ target' = Moved(src[p], legacy[src[p]].files)
            /\ legacy' = [legacy EXCEPT ![src[p]] = Gone]
            /\ Goto(p, "complete")
    /\ UNCHANGED <<record, local>>

\* copy_directory_durable, file by file.
CopyFile(p) ==
    /\ pc[p] = "copy"
    /\ \E f \in legacy[src[p]].files \ staged[p] : staged' = [staged EXCEPT ![p] = @ \cup {f}]
    /\ UNCHANGED <<legacy, target, record, pc, dir, src>>

\* Deviation: a copy without staging, that any process may find half done.
CopiedEarly(p) ==
    /\ pc[p] = "copy"
    /\ Goto(p, "commit")
    /\ UNCHANGED <<legacy, target, record, local>>

\* Nothing is left to copy of what is there now.
Copied(p) ==
    /\ pc[p] = "copy"
    /\ legacy[src[p]].there
    /\ legacy[src[p]].files \subseteq staged[p]
    /\ Goto(p, "commit")
    /\ UNCHANGED <<legacy, target, record, local>>

Commit(p) ==
    /\ pc[p] = "commit"
    /\ ~target.there
    /\ target' = Moved(src[p], staged[p])
    /\ staged' = [staged EXCEPT ![p] = {}]
    /\ Goto(p, "remove")
    /\ UNCHANGED <<legacy, record, dir, src>>

\* remove_dir_all of the legacy store, file by file, and its directory last.
RemoveFile(p) ==
    /\ pc[p] = "remove"
    /\ \E f \in legacy[src[p]].files : legacy' = [legacy EXCEPT ![src[p]].files = @ \ {f}]
    /\ UNCHANGED <<target, record, pc, local>>

RemoveDir(p) ==
    /\ pc[p] = "remove"
    /\ legacy[src[p]].there
    /\ legacy[src[p]].files = {}
    /\ legacy' = [legacy EXCEPT ![src[p]] = Gone]
    /\ Goto(p, "complete")
    /\ UNCHANGED <<target, record, local>>

\* complete_migration_record
Complete(p) ==
    /\ pc[p] = "complete"
    /\ target' = [target EXCEPT !.marker = "completed"]
    /\ Goto(p, "unrecordMoved")
    /\ UNCHANGED <<legacy, record, local>>

UnrecordMoved(p) ==
    /\ pc[p] = "unrecordMoved"
    /\ record' = NoDir
    /\ Goto(p, "ready")
    /\ UNCHANGED <<legacy, target, local>>

-----------------------------------------------------------------------------
(* The command itself, and its end.                                        *)

\* A command that writes creates the target if need be; others only read.
Work(p) ==
    /\ pc[p] = "ready"
    /\ target' \in {target, IF target.there THEN target ELSE [NoTarget EXCEPT !.there = TRUE]}
    /\ End(p)
    /\ UNCHANGED <<legacy, record>>

\* An interruption, a refusal, or the error of a step that cannot be taken.
Stop(p) ==
    /\ pc[p] # "idle"
    /\ End(p)
    /\ UNCHANGED <<legacy, target, record>>

Migrate(p) ==
    \/ CheckLegacy(p) \/ CheckTarget(p) \/ Record(p) \/ Mark(p) \/ Move(p)
    \/ CopyFile(p) \/ Copied(p) \/ Commit(p) \/ RemoveFile(p) \/ RemoveDir(p)
    \/ Complete(p) \/ UnrecordMoved(p)

Next ==
    \E p \in Procs :
        \/ \E d \in Dirs : Start(p, d)
        \/ Finalize(p) \/ Unrecord(p) \/ Choose(p) \/ Migrate(p) \/ Work(p) \/ Stop(p)

Spec == Init /\ [][Next]_vars

-----------------------------------------------------------------------------
(* Properties.                                                             *)

\* The type invariant of all of the state.
TypeOK ==
    /\ legacy \in [Dirs -> [there : BOOLEAN, files : SUBSET Files]]
    /\ target \in [there : BOOLEAN, from : Dirs \cup {NoDir}, files : SUBSET Files,
                   marker : Markers]
    /\ record \in Dirs \cup {NoDir}
    /\ pc \in [Procs -> Labels]
    /\ dir \in [Procs -> Dirs \cup {NoDir}]
    /\ src \in [Procs -> Dirs \cup {NoDir}]
    /\ staged \in [Procs -> SUBSET Files]

\* No file of a legacy store is ever lost: the whole store is where it was, or the
\* target is the whole store, whoever else is moving it and wherever he is stopped.
StoreIsWhole ==
    \A d \in Legacy :
        \/ legacy[d] = [there |-> TRUE, files |-> Files]
        \/ target.from = d /\ target.files = Files

\* Two stores are refused (architecture.md:232) in all cases but one: a process goes on
\* beside a store in its own directory only if the source record of a move not yet over
\* sent it to another directory, and then the target is the whole store of that one.
BesideOnlyRecorded ==
    \A p \in Procs : pc[p] = "ready" /\ legacy[dir[p]].there =>
        /\ src[p] \in Legacy \ {dir[p]}
        /\ target.there /\ target.from = src[p] /\ target.files = Files
        /\ ~legacy[src[p]].there

\* The target is never the store of one directory and later that of another, whatever
\* the source record says and however many processes move.
TargetKeepsOrigin == [][target.from # NoDir => target'.from = target.from]_vars

\* A store is at home once the target has it, although what it leaves behind goes file
\* by file.
Relocation == INSTANCE AtomicRelocation WITH
    home <- [there |-> target.there, from |-> target.from],
    contents <- [d \in Legacy |-> IF target.from = d THEN target.files ELSE legacy[d].files],
    using <- [p \in Procs |-> IF pc[p] = "ready" THEN src[p] ELSE NoDir]

\* All of the steps of all processes, interrupted anywhere, are the one step of the
\* promise (data_dir.rs).
ImplementsRelocation == Relocation!Spec

-----------------------------------------------------------------------------
(* The inductive invariant behind StoreIsWhole and BesideOnlyRecorded.     *)

Whole(d) == legacy[d] = [there |-> TRUE, files |-> Files]
Moving == {"checkTarget", "record", "mark", "move", "copy", "commit", "remove"}
MoveDone == {"complete", "unrecordMoved", "ready"}

\* Nothing is taken from a legacy store before the target is the whole of it.
StoresInv ==
    /\ \A d \in Dirs : legacy[d].there => d \in Legacy
    /\ \A d \in Legacy : Whole(d) \/ (target.there /\ target.from = d)
    /\ target.from # NoDir => target.there /\ target.files = Files
    /\ record # NoDir => record \in Legacy

\* What a process between two steps relies on.
ProcInv(p) ==
    /\ pc[p] \in Moving => src[p] \in Legacy
    /\ pc[p] \in MoveDone => src[p] \in Dirs /\ ~legacy[src[p]].there
    /\ pc[p] = "checkLegacy" => src[p] \in Dirs
    /\ pc[p] = "checkLegacy" \/ pc[p] \in MoveDone => src[p] = dir[p] \/ src[p] \in Legacy
    /\ pc[p] = "commit" /\ ~target.there => staged[p] = Files
    /\ pc[p] = "remove" => target.from = src[p]
    /\ pc[p] \notin {"idle", "refused"} => dir[p] \in Dirs

\* The inductive invariant.
Inv == TypeOK /\ StoresInv /\ \A p \in Procs : ProcInv(p)
=============================================================================
