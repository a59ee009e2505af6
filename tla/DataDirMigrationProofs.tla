----------------------- MODULE DataDirMigrationProofs -----------------------
(***************************************************************************)
(* Proofs about DataDirMigration, for every set of processes, directories  *)
(* and files.  The argument: a legacy store is touched only once the       *)
(* target is a whole copy of it, so while there is no target every legacy  *)
(* store is whole, and whatever a process has copied meanwhile is all of   *)
(* it; and a store that is gone never comes back, so a process that has    *)
(* moved one, or has found none, goes on without it.                       *)
(***************************************************************************)
EXTENDS DataDirMigration, TLAPS

\* Initially every legacy store is whole, there is no target, and no process is under
\* way (the DRAG state before the first invocation of the release with ~/.drag/tracking).
LEMMA InvInit == Init => Inv
<1> SUFFICES ASSUME Init PROVE Inv
  OBVIOUS
<1>1. TypeOK
  BY LegacyAssumption DEF Init, TypeOK, NoTarget, Labels, Markers
<1>2. StoresInv
  BY LegacyAssumption, DirsAssumption DEF Init, StoresInv, NoTarget, Whole
<1>3. \A p \in Procs : ProcInv(p)
  BY DEF Init, ProcInv, Moving, MoveDone
<1> QED
  BY <1>1, <1>2, <1>3 DEF Inv

\* Each step of resolve_data_dir and migrate_legacy_data_dir preserves the invariant.
LEMMA InvStep == Inv /\ [Next]_vars => Inv'
<1> USE LegacyAssumption, DirsAssumption
<1> SUFFICES ASSUME Inv, [Next]_vars PROVE Inv'
  OBVIOUS
<1> USE DEF Inv, TypeOK, StoresInv, ProcInv, Whole, Moving, MoveDone, Labels, Markers, local
<1>1. CASE UNCHANGED vars
  BY <1>1 DEF vars
<1>2. ASSUME NEW p \in Procs, NEW d \in Dirs, Start(p, d) PROVE Inv'
  BY <1>2 DEF Start, Goto
<1>3. ASSUME NEW p \in Procs, Finalize(p) PROVE Inv'
  BY <1>3 DEF Finalize, Goto
<1>4. ASSUME NEW p \in Procs, Unrecord(p) PROVE Inv'
  BY <1>4 DEF Unrecord, Goto
<1>5. ASSUME NEW p \in Procs, Choose(p) PROVE Inv'
  BY <1>5 DEF Choose, Source, Goto
<1>6. ASSUME NEW p \in Procs, CheckLegacy(p) PROVE Inv'
  BY <1>6 DEF CheckLegacy, Goto
<1>7. ASSUME NEW p \in Procs, CheckTarget(p) PROVE Inv'
  BY <1>7 DEF CheckTarget, Goto
<1>8. ASSUME NEW p \in Procs, Record(p) PROVE Inv'
  BY <1>8 DEF Record, Goto
<1>9. ASSUME NEW p \in Procs, Mark(p) PROVE Inv'
  BY <1>9 DEF Mark, Goto
<1>10. ASSUME NEW p \in Procs, Move(p) PROVE Inv'
  <2>1. src[p] \in Legacy /\ src[p] \in Dirs /\ legacy[src[p]].there
    BY <1>10 DEF Move
  <2>2. CASE src[p] \in Remote
    <3>1. pc' = [pc EXCEPT ![p] = "copy"] /\ UNCHANGED <<legacy, target, record, local>>
      BY <1>10, <2>2 DEF Move, Goto
    <3>2. TypeOK' /\ StoresInv'
      <4>1. TypeOK'
        BY <3>1
      <4>2. StoresInv'
        BY <3>1
      <4> QED
        BY <4>1, <4>2
    <3>3. ASSUME NEW q \in Procs PROVE ProcInv(q)'
      <4>1. /\ legacy' = legacy /\ target' = target /\ dir'[q] = dir[q]
            /\ src'[q] = src[q] /\ staged'[q] = staged[q]
        BY <3>1
      <4>2. pc[p] = "move"
        BY <1>10 DEF Move
      <4>3. pc'[q] = IF q = p THEN "copy" ELSE pc[q]
        BY <3>1
      <4> QED
        BY <2>1, <4>1, <4>2, <4>3
    <3> QED
      BY <3>2, <3>3
  <2>3. CASE src[p] \notin Remote
    <3>1. ~target.there /\ target.from = NoDir /\ Whole(src[p])
      BY <1>10, <2>1, <2>3 DEF Move
    <3>2. /\ target' = [there |-> TRUE, from |-> src[p], files |-> Files,
                        marker |-> "inProgress"]
          /\ legacy' = [legacy EXCEPT ![src[p]] = [there |-> FALSE, files |-> {}]]
      BY <1>10, <2>3, <3>1 DEF Move, Moved, Gone
    <3>3. pc' = [pc EXCEPT ![p] = "complete"] /\ UNCHANGED <<record, dir, src, staged>>
      BY <1>10, <2>3 DEF Move, Goto
    <3>4. TypeOK'
      BY <2>1, <3>2, <3>3
    <3>5. StoresInv'
      <4>1. \A d \in Dirs \ {src[p]} : legacy'[d] = legacy[d]
        BY <2>1, <3>2
      <4>2. \A d \in Legacy : Whole(d)
        BY <3>1
      <4>3. \A d \in Legacy : Whole(d)' \/ (target'.there /\ target'.from = d)
        BY <3>2, <4>1, <4>2
      <4>4. \A d \in Dirs : legacy'[d].there => d \in Legacy
        BY <2>1, <4>1
      <4>5. target'.there /\ target'.files = Files /\ record' = record
        BY <3>2, <3>3
      <4> QED
        BY <4>3, <4>4, <4>5
    <3>6. ~legacy'[src[p]].there
      BY <2>1, <3>2
    <3>7. \A d \in Dirs : legacy'[d].there => legacy[d].there
      BY <2>1, <3>2
    <3>8. target'.there /\ target'.from = src[p]
      BY <3>2
    <3>9. ASSUME NEW q \in Procs PROVE ProcInv(q)'
      <4>1. CASE q = p
        <5>1. pc[p] = "move" /\ pc'[p] = "complete" /\ dir'[p] = dir[p] /\ src'[p] = src[p]
          BY <1>10, <3>3 DEF Move
        <5> QED
          BY <5>1, <4>1, <2>1, <3>6
      <4>2. CASE q # p
        <5>1. pc'[q] = pc[q] /\ src'[q] = src[q] /\ dir'[q] = dir[q]
          BY <4>2, <3>3
        <5>2. pc[q] # "remove"
          BY <2>1, <3>1
        <5> QED
          BY <5>1, <5>2, <3>7, <3>8
      <4> QED
        BY <4>1, <4>2
    <3> QED
      BY <3>4, <3>5, <3>9
  <2> QED
    BY <2>2, <2>3
<1>11. ASSUME NEW p \in Procs, CopyFile(p) PROVE Inv'
  <2>1. TypeOK'
    BY <1>11 DEF CopyFile, Goto
  <2>2. StoresInv'
    BY <1>11 DEF CopyFile, Goto
  <2>3. ASSUME NEW q \in Procs PROVE ProcInv(q)'
    BY <1>11 DEF CopyFile, Goto
  <2> QED
    BY <2>1, <2>2, <2>3
<1>12. ASSUME NEW p \in Procs, Copied(p) PROVE Inv'
  <2>1. src[p] \in Legacy
    BY <1>12 DEF Copied
  <2>2. ~target.there => legacy[src[p]] = [there |-> TRUE, files |-> Files]
    BY <2>1
  <2>3. ~target.there => staged[p] = Files
    <3>1. legacy[src[p]].files \subseteq staged[p] /\ staged[p] \subseteq Files
      BY <1>12 DEF Copied
    <3> SUFFICES ASSUME ~target.there PROVE staged[p] = Files
      OBVIOUS
    <3>2. legacy[src[p]].files = Files
      BY <2>2
    <3> HIDE DEF Inv
    <3> QED
      BY <3>1, <3>2
  <2>4. TypeOK'
    BY <1>12 DEF Copied, Goto
  <2>5. StoresInv'
    BY <1>12 DEF Copied, Goto
  <2>6. ASSUME NEW q \in Procs PROVE ProcInv(q)'
    BY <1>12, <2>1, <2>3 DEF Copied, Goto
  <2> QED
    BY <2>4, <2>5, <2>6
<1>13. ASSUME NEW p \in Procs, Commit(p) PROVE Inv'
  <2>1. TypeOK'
    BY <1>13 DEF Commit, Moved, Goto
  <2>2. StoresInv'
    BY <1>13 DEF Commit, Moved, Goto
  <2>3. ASSUME NEW q \in Procs PROVE ProcInv(q)'
    BY <1>13 DEF Commit, Moved, Goto
  <2> QED
    BY <2>1, <2>2, <2>3
<1>14. ASSUME NEW p \in Procs, RemoveFile(p) PROVE Inv'
  <2>1. src[p] \in Dirs /\ target.from = src[p] /\ target.there
    BY <1>14 DEF RemoveFile
  <2>2. \A d \in Dirs : legacy'[d].there => legacy[d].there
    BY <1>14, <2>1 DEF RemoveFile
  <2>3. \A d \in Dirs \ {src[p]} : legacy'[d] = legacy[d]
    BY <1>14, <2>1 DEF RemoveFile
  <2>4. TypeOK'
    BY <1>14 DEF RemoveFile, Goto
  <2>5. StoresInv'
    BY <1>14, <2>1, <2>2, <2>3 DEF RemoveFile
  <2>6. ASSUME NEW q \in Procs PROVE ProcInv(q)'
    BY <1>14 DEF RemoveFile, Goto
  <2> QED
    BY <2>4, <2>5, <2>6
<1>15. ASSUME NEW p \in Procs, RemoveDir(p) PROVE Inv'
  <2>1. src[p] \in Dirs /\ target.from = src[p] /\ target.there
    BY <1>15 DEF RemoveDir
  <2>2. \A d \in Dirs : legacy'[d].there => legacy[d].there
    BY <1>15, <2>1 DEF RemoveDir, Gone
  <2>3. \A d \in Dirs \ {src[p]} : legacy'[d] = legacy[d]
    BY <1>15, <2>1 DEF RemoveDir
  <2>4. TypeOK'
    BY <1>15 DEF RemoveDir, Gone, Goto
  <2>5. StoresInv'
    BY <1>15, <2>1, <2>2, <2>3 DEF RemoveDir
  <2>6. ASSUME NEW q \in Procs PROVE ProcInv(q)'
    BY <1>15 DEF RemoveDir, Gone, Goto
  <2> QED
    BY <2>4, <2>5, <2>6
<1>16. ASSUME NEW p \in Procs, Complete(p) PROVE Inv'
  BY <1>16 DEF Complete, Goto
<1>17. ASSUME NEW p \in Procs, UnrecordMoved(p) PROVE Inv'
  BY <1>17 DEF UnrecordMoved, Goto
<1>18. ASSUME NEW p \in Procs, Work(p) PROVE Inv'
  <2>1. UNCHANGED <<legacy, record>>
    BY <1>18 DEF Work
  <2>2. /\ target'.there \in BOOLEAN /\ (target.there => target' = target)
        /\ target'.from = target.from /\ target'.files \subseteq Files
        /\ (target.from # NoDir => target' = target)
    BY <1>18 DEF Work, NoTarget
  <2>3. TypeOK'
    BY <1>18 DEF Work, End, Goto, NoTarget
  <2>4. StoresInv'
    BY <2>1, <2>2
  <2>5. ASSUME NEW q \in Procs PROVE ProcInv(q)'
    BY <1>18, <2>1, <2>2 DEF Work, End, Goto
  <2> QED
    BY <2>3, <2>4, <2>5
<1>19. ASSUME NEW p \in Procs, Stop(p) PROVE Inv'
  BY <1>19 DEF Stop, End, Goto
<1> QED
  BY <1>1, <1>2, <1>3, <1>4, <1>5, <1>6, <1>7, <1>8, <1>9, <1>10, <1>11, <1>12, <1>13,
     <1>14, <1>15, <1>16, <1>17, <1>18, <1>19 DEF Next, Migrate

\* The inductive invariant holds in every behaviour.
THEOREM MigrationInvCorrect == Spec => []Inv
BY InvInit, InvStep, PTL DEF Spec

\* No file of a legacy store is ever lost, whoever moves it and wherever he is stopped.
THEOREM StoreIsWholeCorrect == Spec => []StoreIsWhole
<1>1. Inv => StoreIsWhole
  BY LegacyAssumption, DirsAssumption DEF Inv, StoresInv, StoreIsWhole, Whole
<1> QED
  BY <1>1, MigrationInvCorrect, PTL

\* A process goes on beside a store in its own directory only with the whole store of the
\* other directory that the source record sent it to.
THEOREM BesideOnlyRecordedCorrect == Spec => []BesideOnlyRecorded
<1>1. Inv => BesideOnlyRecorded
  BY LegacyAssumption, DirsAssumption
  DEF Inv, TypeOK, StoresInv, Whole, ProcInv, BesideOnlyRecorded, MoveDone
<1> QED
  BY <1>1, MigrationInvCorrect, PTL

\* The target is never the store of one directory and later that of another.
THEOREM TargetKeepsOriginCorrect == Spec => TargetKeepsOrigin
<1>1. Inv /\ [Next]_vars => [target.from # NoDir => target'.from = target.from]_vars
  BY DEF Inv, TypeOK, StoresInv, Next, Migrate, vars, local, Start, Finalize, Unrecord, Choose,
    CheckLegacy, CheckTarget, Record, Mark, Move, CopyFile, Copied, Commit, RemoveFile,
    RemoveDir, Complete, UnrecordMoved, Work, Stop
<1> QED
  BY <1>1, MigrationInvCorrect, PTL DEF Spec, TargetKeepsOrigin

-----------------------------------------------------------------------------
(* The refinement: a store changes its home with the target of Move and    *)
(* Commit, a process is admitted with the step to "ready" and leaves with  *)
(* its end.                                                                *)

Contents == [d \in Legacy |-> IF target.from = d THEN target.files ELSE legacy[d].files]
Home == [there |-> target.there, from |-> target.from]
Using == [p \in Procs |-> IF pc[p] = "ready" THEN src[p] ELSE NoDir]

\* Whatever becomes of a store, its contents are all of its files.
LEMMA ContentsKept ==
  /\ Inv => Contents = [d \in Legacy |-> Files]
  /\ Inv' => Contents' = [d \in Legacy |-> Files]
BY LegacyAssumption, DirsAssumption DEF Inv, StoresInv, Whole, Contents

\* A step that leaves the target where it is, and nobody ready who was not, and takes
\* nobody who was, is none of the promise's.
LEMMA Unseen ==
  ASSUME Inv, Inv', Home' = Home, Using' = Using
  PROVE  UNCHANGED Relocation!vars
BY ContentsKept DEF Relocation!vars, Contents, Home, Using

LEMMA OnlyGoing ==
  ASSUME Inv, NEW p \in Procs, NEW label \in Labels \ {"ready"}, Goto(p, label), pc[p] # "ready",
         \A q \in Procs \ {p} : src'[q] = src[q]
  PROVE  Using' = Using
BY DEF Inv, TypeOK, Goto, Using

LEMMA Admitted ==
  ASSUME Inv, Inv', NEW p \in Procs, pc[p] # "ready", Goto(p, "ready"), UNCHANGED <<src, target>>,
         src[p] \in Dirs, ~legacy[src[p]].there
  PROVE  Relocation!Next
<1>1. Using[p] = NoDir /\ Using' = [Using EXCEPT ![p] = src[p]]
  BY DEF Inv, TypeOK, Goto, Using
<1>2. src[p] \in Legacy => Home = [there |-> TRUE, from |-> src[p]]
  <2>1. SUFFICES ASSUME src[p] \in Legacy PROVE Home = [there |-> TRUE, from |-> src[p]]
    OBVIOUS
  <2>2. ~Whole(src[p])
    BY DEF Whole
  <2>3. target.there = TRUE /\ target.from = src[p]
    BY <2>1, <2>2 DEF Inv, StoresInv
  <2> QED
    BY <2>3 DEF Home
<1>3. UNCHANGED <<Home, Contents>>
  BY ContentsKept DEF Home
<1> QED
  BY <1>1, <1>2, <1>3 DEF Relocation!Next, Relocation!Admit, Home, Contents, Using

LEMMA Relocated ==
  ASSUME Inv, Inv', NEW p \in Procs, src[p] \in Legacy, ~target.there, Using' = Using,
         target'.there, target'.from = src[p]
  PROVE  Relocation!Relocate(src[p])
<1>1. ~Home.there /\ Home' = [there |-> TRUE, from |-> src[p]]
  BY DEF Home, Inv, TypeOK
<1>2. UNCHANGED <<Contents, Using>>
  BY ContentsKept
<1> QED
  BY <1>1, <1>2 DEF Relocation!Relocate, Home, Contents, Using

LEMMA Left ==
  ASSUME Inv, Inv', NEW p \in Procs, End(p), pc[p] = "ready",
         target' \in {target, IF target.there THEN target ELSE [NoTarget EXCEPT !.there = TRUE]}
  PROVE  Relocation!Leave(p)
<1>1. src[p] \in Dirs /\ src[p] # NoDir
  BY DirsAssumption DEF Inv, ProcInv, MoveDone
<1>2. Using[p] # NoDir /\ Using' = [Using EXCEPT ![p] = NoDir]
  BY <1>1 DEF Using, End, Goto, Inv, TypeOK
<1>3. Home' \in {Home, IF Home.there THEN Home ELSE [there |-> TRUE, from |-> NoDir]}
  BY DEF Home, NoTarget
<1>4. UNCHANGED Contents
  BY ContentsKept
<1> QED
  BY <1>2, <1>3, <1>4 DEF Relocation!Leave, Home, Contents, Using

\* Every step of migrate_legacy_data_dir and around it is a step of the promise, or
\* none that shows.
LEMMA RelocationStep == Inv /\ Inv' /\ [Next]_vars => [Relocation!Next]_(Relocation!vars)
<1> SUFFICES ASSUME Inv, Inv', [Next]_vars PROVE [Relocation!Next]_(Relocation!vars)
  OBVIOUS
<1> USE DEF local
<1>1. CASE UNCHANGED vars
  BY <1>1, Unseen DEF vars, Home, Using
<1>2. ASSUME NEW p \in Procs, NEW d \in Dirs, Start(p, d) PROVE UNCHANGED Relocation!vars
  BY <1>2, OnlyGoing, Unseen DEF Start, Labels, Home
<1>3. ASSUME NEW p \in Procs, Finalize(p) PROVE UNCHANGED Relocation!vars
  <2>1. Home' = Home
    BY <1>3 DEF Finalize, Home, Inv, TypeOK
  <2> QED
    BY <1>3, <2>1, OnlyGoing, Unseen DEF Finalize, Labels
<1>4. ASSUME NEW p \in Procs, Unrecord(p) PROVE UNCHANGED Relocation!vars
  BY <1>4, OnlyGoing, Unseen DEF Unrecord, Labels, Home
<1>5. ASSUME NEW p \in Procs, Choose(p) PROVE UNCHANGED Relocation!vars
  BY <1>5, OnlyGoing, Unseen DEF Choose, Labels, Home, Inv, TypeOK
<1>6. ASSUME NEW p \in Procs, CheckLegacy(p) PROVE [Relocation!Next]_(Relocation!vars)
  <2>1. CASE legacy[src[p]].there
    BY <1>6, <2>1, OnlyGoing, Unseen DEF CheckLegacy, Labels, Home
  <2>2. CASE ~legacy[src[p]].there
    <3>1. src[p] \in Dirs
      BY <1>6 DEF CheckLegacy, Inv, ProcInv
    <3> QED
      BY <1>6, <2>2, <3>1, Admitted DEF CheckLegacy
  <2> QED
    BY <2>1, <2>2
<1>7. ASSUME NEW p \in Procs, CheckTarget(p) PROVE UNCHANGED Relocation!vars
  BY <1>7, OnlyGoing, Unseen DEF CheckTarget, Labels, Home
<1>8. ASSUME NEW p \in Procs, Record(p) PROVE UNCHANGED Relocation!vars
  BY <1>8, OnlyGoing, Unseen DEF Record, Labels, Home
<1>9. ASSUME NEW p \in Procs, Mark(p) PROVE UNCHANGED Relocation!vars
  BY <1>9, OnlyGoing, Unseen DEF Mark, Labels, Home
<1>10. ASSUME NEW p \in Procs, Move(p) PROVE [Relocation!Next]_(Relocation!vars)
  <2>1. src[p] \in Legacy
    BY <1>10 DEF Move, Inv, ProcInv, Moving
  <2>2. CASE src[p] \in Remote
    BY <1>10, <2>2, OnlyGoing, Unseen DEF Move, Labels, Home
  <2>3. CASE src[p] \notin Remote
    <3>1. Using' = Using
      BY <1>10, <2>3, OnlyGoing DEF Move, Labels
    <3>2. ~target.there /\ target'.there /\ target'.from = src[p]
      BY <1>10, <2>3 DEF Move, Moved
    <3> QED
      BY <2>1, <3>1, <3>2, Relocated DEF Relocation!Next
  <2> QED
    BY <2>2, <2>3
<1>11. ASSUME NEW p \in Procs, CopyFile(p) PROVE UNCHANGED Relocation!vars
  BY <1>11, Unseen DEF CopyFile, Home, Using
<1>12. ASSUME NEW p \in Procs, Copied(p) PROVE UNCHANGED Relocation!vars
  BY <1>12, OnlyGoing, Unseen DEF Copied, Labels, Home
<1>13. ASSUME NEW p \in Procs, Commit(p) PROVE [Relocation!Next]_(Relocation!vars)
  <2>1. src[p] \in Legacy
    BY <1>13 DEF Commit, Inv, ProcInv, Moving
  <2>2. Using' = Using
    BY <1>13, OnlyGoing DEF Commit, Labels
  <2>3. ~target.there /\ target'.there /\ target'.from = src[p]
    BY <1>13 DEF Commit, Moved
  <2> QED
    BY <2>1, <2>2, <2>3, Relocated DEF Relocation!Next
<1>14. ASSUME NEW p \in Procs, RemoveFile(p) PROVE UNCHANGED Relocation!vars
  BY <1>14, Unseen DEF RemoveFile, Home, Using
<1>15. ASSUME NEW p \in Procs, RemoveDir(p) PROVE UNCHANGED Relocation!vars
  BY <1>15, OnlyGoing, Unseen DEF RemoveDir, Labels, Home
<1>16. ASSUME NEW p \in Procs, Complete(p) PROVE UNCHANGED Relocation!vars
  <2>1. Home' = Home
    BY <1>16 DEF Complete, Home, Inv, TypeOK
  <2> QED
    BY <1>16, <2>1, OnlyGoing, Unseen DEF Complete, Labels
<1>17. ASSUME NEW p \in Procs, UnrecordMoved(p) PROVE [Relocation!Next]_(Relocation!vars)
  <2>1. src[p] \in Dirs /\ ~legacy[src[p]].there
    BY <1>17 DEF UnrecordMoved, Inv, ProcInv, MoveDone
  <2> QED
    BY <1>17, <2>1, Admitted DEF UnrecordMoved
<1>18. ASSUME NEW p \in Procs, Work(p) PROVE [Relocation!Next]_(Relocation!vars)
  BY <1>18, Left DEF Work, Relocation!Next
<1>19. ASSUME NEW p \in Procs, Stop(p) PROVE [Relocation!Next]_(Relocation!vars)
  <2>1. CASE pc[p] = "ready"
    BY <1>19, <2>1, Left DEF Stop, Relocation!Next
  <2>2. CASE pc[p] # "ready"
    <3>1. Using' = Using
      BY <1>19, <2>2 DEF Stop, End, Goto, Using, Inv, TypeOK
    <3> QED
      BY <1>19, <3>1, Unseen DEF Stop, Home
  <2> QED
    BY <2>1, <2>2
<1> QED
  BY <1>1, <1>2, <1>3, <1>4, <1>5, <1>6, <1>7, <1>8, <1>9, <1>10, <1>11, <1>12, <1>13,
     <1>14, <1>15, <1>16, <1>17, <1>18, <1>19 DEF Next, Migrate

\* However many processes move, by rename or by copy, and wherever they are stopped,
\* together they do what one atomic step would.
THEOREM ImplementsRelocationCorrect == Spec => ImplementsRelocation
<1>1. Init => Relocation!Init
  BY LegacyAssumption, DirsAssumption DEF Init, NoTarget, Relocation!Init
<1> QED
  BY <1>1, MigrationInvCorrect, RelocationStep, PTL
     DEF Spec, ImplementsRelocation, Relocation!Spec
=============================================================================
