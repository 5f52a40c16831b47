------------------------ MODULE ArtifactInstall_proofs ------------------------
(***************************************************************************)
(* Type correctness of ArtifactInstall, that it implements AtomicInstall,  *)
(* that it keeps the original files until a run has replaced them, and     *)
(* what a run leaves behind that succeeds, for any number of files.        *)
(***************************************************************************)
EXTENDS ArtifactInstall, TLAPS

\* The indices next to one, and the contents a step can write.
LEMMA Neighbours ==
    ASSUME TypeOK
    PROVE  /\ 1 \in Index /\ N \in Index
           /\ at # N => at + 1 \in Index
           /\ at # 1 => at - 1 \in Index
           /\ at - 1 # 0 => at - 1 \in Index
           /\ Absent \in Content /\ run \in Content
           /\ Absent # run /\ 0 \in Content
BY InstallAssumption DEF TypeOK, Index, Content, Absent

-----------------------------------------------------------------------------
(* Types.                                                                  *)

LEMMA TypesInit == Init => TypeOK
<1> SUFFICES ASSUME Init PROVE TypeOK
  OBVIOUS
<1>1. /\ Absent \in Content /\ 0 \in Content /\ 1 \in Index
      /\ 0 \in 0 .. MaxRuns
  BY InstallAssumption DEF Content, Absent, Index
<1>2. file \in [Index -> Content] /\ Nothing \in [Index -> Content]
  BY <1>1 DEF Init, Nothing
<1>3. /\ first \in [Index -> Content] /\ before \in [Index -> Content]
      /\ backup \in [Index -> Content]
  BY <1>2 DEF Init
<1>4. /\ failed \in BOOLEAN /\ completed \in BOOLEAN /\ broken \in BOOLEAN
  BY DEF Init
<1> QED
  BY <1>1, <1>2, <1>3, <1>4 DEF Init, TypeOK

LEMMA TypesStep == TypeOK /\ [Next]_vars => TypeOK'
<1> SUFFICES ASSUME TypeOK, [Next]_vars PROVE TypeOK'
  OBVIOUS
<1>a. /\ file \in [Index -> Content] /\ backup \in [Index -> Content]
      /\ staged \subseteq Index /\ installed \subseteq Index
      /\ orphans \subseteq Index \X Content
      /\ at \in Index
      /\ run \in 0 .. MaxRuns
      /\ first \in [Index -> Content] /\ before \in [Index -> Content]
  BY DEF TypeOK
<1>b. failed \in BOOLEAN /\ completed \in BOOLEAN /\ broken \in BOOLEAN
  BY DEF TypeOK
<1>c. /\ pc \in {"idle", "stage", "backup", "install", "undo", "restore", "cleanup", "unstage"}
      /\ result \in {"none", "ok", "error", "died"}
  BY DEF TypeOK
<1>1. CASE Start
  <2>1. Abandoned \in SUBSET (Index \X Content)
    BY <1>a DEF Abandoned
  <2>2. Nothing \in [Index -> Content]
    BY Neighbours DEF Nothing
  <2>3. run' \in 0 .. MaxRuns
    BY <1>1, <1>a, InstallAssumption DEF Start
  <2>4. failed' \in BOOLEAN /\ completed' \in BOOLEAN /\ broken' \in BOOLEAN
    BY <1>1, <1>b DEF Start
  <2> QED
    BY <1>1, <1>a, <2>1, <2>2, <2>3, <2>4, Neighbours DEF Start, TypeOK, Goto
<1>2. CASE Stage
  <2>1. /\ file' \in [Index -> Content] /\ backup' \in [Index -> Content]
        /\ staged' \subseteq Index /\ installed' \subseteq Index
        /\ orphans' \subseteq Index \X Content
    BY <1>2, <1>a, Neighbours DEF Stage, disk
  <2>2. at' \in Index
    BY <1>2, <1>a, Neighbours DEF Stage, Goto, RollbackFrom
  <2>3. pc' \in {"idle", "stage", "backup", "install", "undo", "restore", "cleanup", "unstage"}
    BY <1>2, <1>c DEF Stage, Goto, RollbackFrom
  <2>4. failed' \in BOOLEAN
    BY <1>2, <1>b DEF Stage, RollbackFrom
  <2>5. completed' \in BOOLEAN /\ broken' \in BOOLEAN
    BY <1>2, <1>b DEF Stage
  <2>6. /\ run' \in 0 .. MaxRuns /\ result' \in {"none", "ok", "error", "died"}
        /\ first' \in [Index -> Content] /\ before' \in [Index -> Content]
    BY <1>2, <1>a, <1>c DEF Stage
  <2> QED
    BY <2>1, <2>2, <2>3, <2>4, <2>5, <2>6 DEF TypeOK
<1>3. CASE BackUp
  <2>1. /\ file' \in [Index -> Content] /\ backup' \in [Index -> Content]
        /\ staged' \subseteq Index /\ installed' \subseteq Index
        /\ orphans' \subseteq Index \X Content
    BY <1>3, <1>a, Neighbours DEF BackUp, disk
  <2>2. at' \in Index
    BY <1>3, <1>a, Neighbours DEF BackUp, Goto, RollbackFrom
  <2>3. pc' \in {"idle", "stage", "backup", "install", "undo", "restore", "cleanup", "unstage"}
    BY <1>3, <1>c DEF BackUp, Goto, RollbackFrom
  <2>4. failed' \in BOOLEAN
    BY <1>3, <1>b DEF BackUp, RollbackFrom
  <2>5. completed' \in BOOLEAN /\ broken' \in BOOLEAN
    BY <1>3, <1>b DEF BackUp
  <2>6. /\ run' \in 0 .. MaxRuns /\ result' \in {"none", "ok", "error", "died"}
        /\ first' \in [Index -> Content] /\ before' \in [Index -> Content]
    BY <1>3, <1>a, <1>c DEF BackUp
  <2> QED
    BY <2>1, <2>2, <2>3, <2>4, <2>5, <2>6 DEF TypeOK
<1>4. CASE Install
  <2>1. /\ file' \in [Index -> Content] /\ backup' \in [Index -> Content]
        /\ staged' \subseteq Index /\ installed' \subseteq Index
        /\ orphans' \subseteq Index \X Content
    BY <1>4, <1>a, Neighbours DEF Install, disk
  <2>2. at' \in Index
    BY <1>4, <1>a, Neighbours DEF Install, Goto, RollbackFrom
  <2>3. pc' \in {"idle", "stage", "backup", "install", "undo", "restore", "cleanup", "unstage"}
    BY <1>4, <1>c DEF Install, Goto, RollbackFrom
  <2>4. failed' \in BOOLEAN
    BY <1>4, <1>b DEF Install, RollbackFrom
  <2>5. completed' \in BOOLEAN /\ broken' \in BOOLEAN
    BY <1>4, <1>b DEF Install
  <2>6. /\ run' \in 0 .. MaxRuns /\ result' \in {"none", "ok", "error", "died"}
        /\ first' \in [Index -> Content] /\ before' \in [Index -> Content]
    BY <1>4, <1>a, <1>c DEF Install
  <2> QED
    BY <2>1, <2>2, <2>3, <2>4, <2>5, <2>6 DEF TypeOK
<1>5. CASE Undo
  <2>1. /\ file' \in [Index -> Content] /\ backup' \in [Index -> Content]
        /\ staged' \subseteq Index /\ installed' \subseteq Index
        /\ orphans' \subseteq Index \X Content
    BY <1>5, <1>a, Neighbours DEF Undo, disk
  <2>2. at' \in Index
    BY <1>5, <1>a, Neighbours DEF Undo, Goto, RollbackFrom
  <2>3. pc' \in {"idle", "stage", "backup", "install", "undo", "restore", "cleanup", "unstage"}
    BY <1>5, <1>c DEF Undo, Goto, RollbackFrom
  <2>4. failed' \in BOOLEAN
    BY <1>5, <1>b DEF Undo, RollbackFrom
  <2>5. completed' \in BOOLEAN /\ broken' \in BOOLEAN
    BY <1>5, <1>b DEF Undo
  <2>6. /\ run' \in 0 .. MaxRuns /\ result' \in {"none", "ok", "error", "died"}
        /\ first' \in [Index -> Content] /\ before' \in [Index -> Content]
    BY <1>5, <1>a, <1>c DEF Undo
  <2> QED
    BY <2>1, <2>2, <2>3, <2>4, <2>5, <2>6 DEF TypeOK
<1>6. CASE Restore
  <2>1. /\ file' \in [Index -> Content] /\ backup' \in [Index -> Content]
        /\ staged' \subseteq Index /\ installed' \subseteq Index
        /\ orphans' \subseteq Index \X Content
    BY <1>6, <1>a, Neighbours DEF Restore, disk
  <2>2. at' \in Index
    BY <1>6, <1>a, Neighbours DEF Restore, Goto, RollbackFrom
  <2>3. pc' \in {"idle", "stage", "backup", "install", "undo", "restore", "cleanup", "unstage"}
    BY <1>6, <1>c DEF Restore, Goto, RollbackFrom
  <2>4. failed' \in BOOLEAN
    BY <1>6, <1>b DEF Restore, RollbackFrom
  <2>5. completed' \in BOOLEAN /\ broken' \in BOOLEAN
    BY <1>6, <1>b DEF Restore
  <2>6. /\ run' \in 0 .. MaxRuns /\ result' \in {"none", "ok", "error", "died"}
        /\ first' \in [Index -> Content] /\ before' \in [Index -> Content]
    BY <1>6, <1>a, <1>c DEF Restore
  <2> QED
    BY <2>1, <2>2, <2>3, <2>4, <2>5, <2>6 DEF TypeOK
<1>7. CASE Cleanup
  <2>1. /\ file' \in [Index -> Content] /\ backup' \in [Index -> Content]
        /\ staged' \subseteq Index /\ installed' \subseteq Index
        /\ orphans' \subseteq Index \X Content
    BY <1>7, <1>a, Neighbours DEF Cleanup, disk
  <2>2. at' \in Index
    BY <1>7, <1>a, Neighbours DEF Cleanup, Goto, RollbackFrom
  <2>3. pc' \in {"idle", "stage", "backup", "install", "undo", "restore", "cleanup", "unstage"}
    BY <1>7, <1>c DEF Cleanup, Goto, RollbackFrom
  <2>4. failed' \in BOOLEAN
    BY <1>7, <1>b DEF Cleanup, RollbackFrom
  <2>5. completed' \in BOOLEAN /\ broken' \in BOOLEAN
    BY <1>7, <1>b DEF Cleanup
  <2>6. /\ run' \in 0 .. MaxRuns /\ result' \in {"none", "ok", "error", "died"}
        /\ first' \in [Index -> Content] /\ before' \in [Index -> Content]
    BY <1>7, <1>a, <1>c DEF Cleanup
  <2> QED
    BY <2>1, <2>2, <2>3, <2>4, <2>5, <2>6 DEF TypeOK
<1>8. CASE Unstage
  <2>1. /\ file' \in [Index -> Content] /\ backup' \in [Index -> Content]
        /\ staged' \subseteq Index /\ installed' \subseteq Index
        /\ orphans' \subseteq Index \X Content
    BY <1>8, <1>a, Neighbours DEF Unstage, disk
  <2>2. at' \in Index
    BY <1>8, <1>a, Neighbours DEF Unstage, Goto, RollbackFrom
  <2>3. pc' \in {"idle", "stage", "backup", "install", "undo", "restore", "cleanup", "unstage"}
    BY <1>8, <1>c DEF Unstage, Goto, RollbackFrom
  <2>4. failed' \in BOOLEAN
    BY <1>8, <1>b DEF Unstage, RollbackFrom
  <2>5. completed' \in BOOLEAN /\ broken' \in BOOLEAN
    BY <1>8, <1>b DEF Unstage
  <2>6. /\ run' \in 0 .. MaxRuns /\ result' \in {"none", "ok", "error", "died"}
        /\ first' \in [Index -> Content] /\ before' \in [Index -> Content]
    BY <1>8, <1>a, <1>c DEF Unstage
  <2> QED
    BY <2>1, <2>2, <2>3, <2>4, <2>5, <2>6 DEF TypeOK
<1>9. CASE Die
  <2>1. /\ file' \in [Index -> Content] /\ backup' \in [Index -> Content]
        /\ staged' \subseteq Index /\ installed' \subseteq Index
        /\ orphans' \subseteq Index \X Content
    BY <1>9, <1>a, Neighbours DEF Die, disk
  <2>2. at' \in Index
    BY <1>9, <1>a, Neighbours DEF Die, Goto, RollbackFrom
  <2>3. pc' \in {"idle", "stage", "backup", "install", "undo", "restore", "cleanup", "unstage"}
    BY <1>9, <1>c DEF Die, Goto, RollbackFrom
  <2>4. failed' \in BOOLEAN
    BY <1>9, <1>b DEF Die, RollbackFrom
  <2>5. completed' \in BOOLEAN /\ broken' \in BOOLEAN
    BY <1>9, <1>b DEF Die
  <2>6. /\ run' \in 0 .. MaxRuns /\ result' \in {"none", "ok", "error", "died"}
        /\ first' \in [Index -> Content] /\ before' \in [Index -> Content]
    BY <1>9, <1>a, <1>c DEF Die
  <2> QED
    BY <2>1, <2>2, <2>3, <2>4, <2>5, <2>6 DEF TypeOK
<1>10. CASE UNCHANGED vars
  BY <1>10 DEF vars, disk, TypeOK
<1> QED
  BY <1>1, <1>2, <1>3, <1>4, <1>5, <1>6, <1>7, <1>8, <1>9, <1>10 DEF Next

\* Every variable keeps its type, whichever steps fail.
THEOREM InstallTypes == Spec => []TypeOK
BY TypesInit, TypesStep, PTL DEF Spec

-----------------------------------------------------------------------------
(* Where a run is that can undo what it does: the paths below the index    *)
(* are replaced, the ones above are untouched.                             *)

Replaced(i)  == file[i] = run /\ backup[i] = before[i]
Untouched(i) == file[i] = before[i] /\ backup[i] = Absent
Aside(i)     == file[i] = Absent /\ backup[i] = before[i]

Around ==
    /\ \A i \in Index : i < at => Replaced(i) /\ i \in installed
    /\ \A i \in Index : i > at => Untouched(i) /\ i \notin installed

InPlace == \A i \in Index : file[i] = run
Restored == \A i \in Index : file[i] = before[i]

PhaseInv ==
    /\ pc = "stage"   => \A i \in Index : Untouched(i) /\ i \notin installed
    /\ pc = "backup"  => Around /\ Untouched(at) /\ at \notin installed
    /\ pc = "install" => Around /\ Aside(at) /\ at \notin installed
    /\ pc = "undo"    => /\ Around /\ failed
                         /\ \/ Replaced(at) /\ at \in installed
                            \/ Aside(at) /\ at \notin installed
    /\ pc = "restore" => Around /\ Aside(at) /\ at \notin installed /\ failed
    /\ pc = "cleanup" => InPlace
    /\ pc = "unstage" => InPlace \/ (Restored /\ failed)

InstallInv == TypeOK /\ (~broken => PhaseInv)

LEMMA PhaseStart == Start => PhaseInv'
<1> SUFFICES ASSUME Start PROVE PhaseInv'
  OBVIOUS
<1>1. /\ pc' = "stage" /\ file' = file /\ before' = file
      /\ backup' = Nothing /\ installed' = {}
  BY DEF Start, Goto
<1> QED
  BY <1>1 DEF PhaseInv, Nothing, Untouched

LEMMA PhaseStep ==
    ASSUME ~broken', TypeOK, PhaseInv, [Next]_vars
    PROVE  PhaseInv'
<1>a. /\ file \in [Index -> Content] /\ backup \in [Index -> Content]
      /\ at \in Index /\ N \in Nat \ {0}
      /\ \A i \in Index : i \in Int
  BY InstallAssumption DEF TypeOK, Index
<1> USE DEF Around, Replaced, Untouched, Aside
<1>1. CASE Start
  BY <1>1, PhaseStart
<1>2. CASE Stage
  <2>1. pc = "stage" /\ UNCHANGED <<file, backup, installed, run, before>>
    BY <1>2 DEF Stage
  <2>2. \A i \in Index : Untouched(i) /\ i \notin installed
    BY <2>1 DEF PhaseInv
  <2>3. \/ pc' = "backup" /\ at' = 1
        \/ pc' = "stage"
        \/ pc' = "unstage" /\ failed'
    BY <1>2 DEF Stage, Goto
  <2>4. 1 \in Index /\ \A i \in Index : ~(i < 1)
    BY <1>a DEF Index
  <2> QED
    BY <2>1, <2>2, <2>3, <2>4 DEF PhaseInv, Restored
<1>3. CASE BackUp
  <2>1. /\ pc = "backup" /\ UNCHANGED <<installed, run, before>>
        /\ Around /\ Untouched(at) /\ at \notin installed
    BY <1>3 DEF BackUp, PhaseInv
  <2>2. CASE pc' = "install"
    <3>1. at' = at /\ Aside(at)' /\ \A i \in Index : i # at => file'[i] = file[i] /\ backup'[i] = backup[i]
      BY <1>3, <1>a, <2>1, <2>2 DEF BackUp, RollbackFrom, Goto
    <3> QED
      BY <2>1, <2>2, <3>1, <1>a DEF PhaseInv
  <2>3. CASE RollbackFrom(at - 1) /\ UNCHANGED <<file, backup>>
    <3>1. CASE at - 1 = 0
      <4>1. at = 1 /\ pc' = "unstage" /\ failed'
        BY <3>1, <2>3, <1>a DEF RollbackFrom, Goto, Index
      <4>2. \A i \in Index : i = 1 \/ i > 1
        BY DEF Index
      <4> QED
        BY <4>1, <4>2, <2>1, <2>3 DEF PhaseInv, Restored
    <3>2. CASE at - 1 # 0
      <4>1. pc' = "undo" /\ at' = at - 1 /\ at - 1 \in Index /\ at - 1 < at /\ failed'
        BY <3>2, <2>3, <1>a DEF RollbackFrom, Goto, Index
      <4>2. \A i \in Index : (i < at - 1 => i < at) /\ (i > at - 1 => i = at \/ i > at)
        BY <1>a
      <4> QED
        BY <4>1, <4>2, <2>1, <2>3 DEF PhaseInv
    <3> QED
      BY <3>1, <3>2
  <2> QED
    BY <1>3, <2>2, <2>3 DEF BackUp, Goto
<1>4. CASE Install
  <2>1. /\ pc = "install" /\ UNCHANGED <<backup, run, before>>
        /\ Around /\ Aside(at) /\ at \notin installed
    BY <1>4 DEF Install, PhaseInv
  <2>2. CASE /\ file' = [file EXCEPT ![at] = run]
             /\ installed' = installed \cup {at}
             /\ IF at = N THEN Goto("cleanup", 1) ELSE Goto("backup", at + 1)
    <3>1. file'[at] = run /\ \A i \in Index : i # at => file'[i] = file[i]
      BY <2>2, <1>a
    <3>2. CASE at = N
      <4>1. \A i \in Index : i < at \/ i = at
        BY <3>2, <1>a DEF Index
      <4>2. pc' = "cleanup"
        BY <3>2, <2>2 DEF Goto
      <4> QED
        BY <4>1, <4>2, <3>1, <2>1 DEF PhaseInv, InPlace
    <3>3. CASE at # N
      <4>1. pc' = "backup" /\ at' = at + 1 /\ at + 1 \in Index /\ at + 1 > at
        BY <3>3, <2>2, <1>a DEF Goto, Index
      <4>2. \A i \in Index : (i < at + 1 => i = at \/ i < at) /\ (i > at + 1 => i > at /\ i # at)
        BY <1>a
      <4> QED
        BY <4>1, <4>2, <3>1, <2>1, <2>2, <1>a DEF PhaseInv
    <3> QED
      BY <3>2, <3>3
  <2>3. CASE RollbackFrom(at) /\ UNCHANGED <<file, installed>>
    <3>1. pc' = "undo" /\ at' = at /\ failed'
      BY <2>3, <1>a DEF RollbackFrom, Goto, Index
    <3> QED
      BY <3>1, <2>1, <2>3 DEF PhaseInv
  <2> QED
    BY <1>4, <2>2, <2>3 DEF Install
<1>5. CASE Undo
  <2>1. /\ pc = "undo" /\ UNCHANGED <<backup, run, before, failed>> /\ Around /\ failed
        /\ installed' = installed \ {at} /\ pc' = "restore" /\ at' = at
        /\ \/ Replaced(at) /\ at \in installed
           \/ Aside(at) /\ at \notin installed
    BY <1>5 DEF Undo, PhaseInv, Goto
  <2>2. Aside(at)' /\ \A i \in Index : i # at => file'[i] = file[i]
    BY <1>5, <1>a, <2>1 DEF Undo
  <2>3. \A i \in Index : (i < at \/ i > at) => i # at
    BY <1>a
  <2> QED
    BY <2>1, <2>2, <2>3, <1>a DEF PhaseInv
<1>6. CASE Restore
  <2>1. /\ pc = "restore" /\ UNCHANGED <<installed, run, before, failed>>
        /\ Around /\ Aside(at) /\ at \notin installed /\ failed
    BY <1>6 DEF Restore, PhaseInv
  <2>2. /\ file'[at] = before'[at] /\ backup'[at] = Absent
        /\ \A i \in Index : i # at => file'[i] = file[i] /\ backup'[i] = backup[i]
    <3>1. CASE /\ backup[at] # Absent
               /\ file' = [file EXCEPT ![at] = backup[at]]
               /\ backup' = [backup EXCEPT ![at] = Absent]
      BY <3>1, <2>1, <1>a
    <3>2. CASE backup[at] = Absent /\ UNCHANGED <<file, backup>>
      BY <3>2, <2>1
    <3> QED
      BY <1>6, <3>1, <3>2 DEF Restore
  <2>3. CASE at = 1
    <3>1. pc' = "unstage" /\ \A i \in Index : i = at \/ i > at
      BY <1>6, <2>3, <1>a DEF Restore, Goto, Index
    <3>2. Restored'
      BY <2>1, <2>2, <3>1, <1>a DEF Restored
    <3>3. failed'
      BY <2>1
    <3> QED
      BY <3>1, <3>2, <3>3 DEF PhaseInv
  <2>4. CASE at # 1
    <3>1. pc' = "undo" /\ at' = at - 1 /\ at - 1 \in Index /\ at - 1 # at
      BY <1>6, <2>4, <1>a DEF Restore, Goto, Index
    <3>2. \A i \in Index : (i < at - 1 => i < at /\ i # at) /\ (i > at - 1 => i = at \/ (i > at /\ i # at))
      BY <1>a
    <3> QED
      BY <3>1, <3>2, <2>1, <2>2, <1>a DEF PhaseInv
  <2> QED
    BY <2>3, <2>4
<1>7. CASE Cleanup
  <2>1. pc = "cleanup" /\ UNCHANGED <<file, run, before>> /\ InPlace
    BY <1>7 DEF Cleanup, PhaseInv
  <2>2. pc' \in {"cleanup", "unstage"}
    BY <1>7 DEF Cleanup, Goto
  <2> QED
    BY <2>1, <2>2 DEF PhaseInv, InPlace
<1>8. CASE Unstage
  <2>1. pc = "unstage" /\ UNCHANGED <<file, run, before>> /\ (failed => failed')
    BY <1>8 DEF Unstage
  <2>2. pc' \in {"idle", "unstage"}
    BY <1>8 DEF Unstage, Goto
  <2>3. InPlace \/ (Restored /\ failed)
    BY <2>1 DEF PhaseInv
  <2> QED
    BY <2>1, <2>2, <2>3 DEF PhaseInv, InPlace, Restored
<1>9. CASE Die
  BY <1>9 DEF Die, Goto, PhaseInv
<1>10. CASE UNCHANGED vars
  BY <1>10 DEF vars, disk, PhaseInv, InPlace, Restored
<1> QED
  BY <1>1, <1>2, <1>3, <1>4, <1>5, <1>6, <1>7, <1>8, <1>9, <1>10 DEF Next

-----------------------------------------------------------------------------
(* The refinement.                                                         *)

LEMMA InstallInvHolds == Spec => []InstallInv
<1>1. Init => InstallInv
  <2> SUFFICES ASSUME Init PROVE InstallInv
    OBVIOUS
  <2>1. PhaseInv
    BY DEF Init, PhaseInv
  <2> QED
    BY <2>1, TypesInit DEF InstallInv
<1>2. InstallInv /\ [Next]_vars => InstallInv'
  <2> SUFFICES ASSUME InstallInv, [Next]_vars, ~broken' PROVE PhaseInv'
    BY TypesStep DEF InstallInv
  <2>1. CASE Start
    BY <2>1, PhaseStart
  <2>2. CASE ~Start
    <3>1. ~broken
      BY <2>2 DEF Next, Stage, BackUp, Install, Undo, Restore, Cleanup, Unstage, Die, vars
    <3> QED
      BY <3>1, PhaseStep DEF InstallInv
  <2> QED
    BY <2>1, <2>2
<1> QED
  BY <1>1, <1>2, PTL DEF Spec

LEMMA AtomicInit == Init => Atomic!Init
BY DEF Init, Atomic!Init, Atomic!Index, Atomic!Absent, Index, Absent

\* A run that dies has replaced, moved aside or not touched each path, and moved
\* aside without a replacement at most the one it works on.
LEMMA DieRefines ==
    ASSUME InstallInv, Die, ~broken
    PROVE  Atomic!Die
<1>1. /\ pc # "idle" /\ pc' = "idle" /\ result' = "died" /\ UNCHANGED <<file, run>>
      /\ ~broken'
  BY DEF Die, Goto, disk
<1>2. /\ file \in [Index -> Content] /\ at \in Index
      /\ \A i \in Index : i \in Int
      /\ pc \in {"idle", "stage", "backup", "install", "undo", "restore", "cleanup", "unstage"}
  BY DEF InstallInv, TypeOK, Index
<1>3. \A i \in Index : i < at \/ i > at \/ i = at
  BY <1>2
<1>4. \A i \in Index : file[i] \in {before[i], run, Absent} /\ (i # at => file[i] \in {before[i], run})
  <2>1. CASE pc \in {"backup", "install", "undo", "restore"}
    <3>1. Around /\ (Untouched(at) \/ Aside(at) \/ Replaced(at))
      BY <2>1 DEF InstallInv, PhaseInv
    <3> QED
      BY <3>1, <1>3 DEF Around, Untouched, Aside, Replaced
  <2>2. CASE pc \in {"stage", "cleanup", "unstage"}
    BY <2>2 DEF InstallInv, PhaseInv, Untouched, InPlace, Restored
  <2> QED
    BY <1>1, <1>2, <2>1, <2>2
<1>5. \A i, j \in Index :
         (/\ file[i] = Absent /\ before[i] # Absent
          /\ file[j] = Absent /\ before[j] # Absent) => i = j
  <2>1. Absent # run
    BY Neighbours DEF InstallInv
  <2> QED
    BY <2>1, <1>4
<1> QED
  BY <1>1, <1>2, <1>4, <1>5 DEF Atomic!Die, Atomic!Index, Atomic!Content, Atomic!Absent,
     Index, Content, Absent

\* A run that returns has replaced all paths or none.
LEMMA UnstageRefines ==
    ASSUME InstallInv, Unstage, ~broken
    PROVE  Atomic!Return \/ UNCHANGED Atomic!vars
<1>1. /\ pc = "unstage" /\ UNCHANGED <<file, run, before>> /\ ~broken'
      /\ file \in [Index -> Content] /\ before \in [Index -> Content]
  BY DEF Unstage, InstallInv, TypeOK
<1>2. CASE at # N
  <2>1. pc' = "unstage"
    BY <1>2 DEF Unstage, Goto
  <2> QED
    BY <1>1, <2>1 DEF Atomic!vars
<1>3. CASE at = N
  <2>1. pc' = "idle" /\ result' = (IF failed' THEN "error" ELSE "ok") /\ (failed => failed')
    BY <1>3 DEF Unstage, Goto
  <2>2. file = All(run) \/ (file = before /\ failed)
    <3>1. InPlace \/ (Restored /\ failed)
      BY <1>1 DEF InstallInv, PhaseInv
    <3>2. InPlace => file = All(run)
      BY <1>1 DEF InPlace, All
    <3>3. Restored => file = before
      BY <1>1 DEF Restored
    <3> QED
      BY <3>1, <3>2, <3>3
  <2>3. Atomic!All(run) = All(run)
    BY DEF Atomic!All, Atomic!Index, All, Index
  <2> QED
    BY <1>1, <2>1, <2>2, <2>3 DEF Atomic!Return
<1> QED
  BY <1>2, <1>3

\* The end of a run that could not undo what it did.
LEMMA BrokenRefines ==
    ASSUME InstallInv, Unstage \/ Die, broken
    PROVE  Atomic!Break \/ UNCHANGED Atomic!vars
<1>1. /\ pc # "idle" /\ UNCHANGED <<file, run, before>> /\ broken'
      /\ file \in [Index -> Content]
  BY DEF Unstage, Die, disk, InstallInv, TypeOK
<1>2. pc' = "idle" \/ pc' # "idle"
  OBVIOUS
<1> QED
  BY <1>1, <1>2 DEF Atomic!vars, Atomic!Break, Atomic!Index, Atomic!Content, Atomic!Absent,
     Index, Content, Absent

LEMMA AtomicStep == InstallInv /\ [Next]_vars => [Atomic!Next]_(Atomic!vars)
<1> SUFFICES ASSUME InstallInv, [Next]_vars
             PROVE  Atomic!Next \/ UNCHANGED Atomic!vars
  OBVIOUS
<1>1. CASE Start
  <2>1. /\ pc = "idle" /\ run < MaxRuns /\ pc' = "stage" /\ run' = run + 1 /\ before' = file
    BY <1>1 DEF Start, Goto
  <2>2. (IF broken THEN "broken" ELSE result) # "running"
    BY DEF InstallInv, TypeOK
  <2> QED
    BY <2>1, <2>2 DEF Atomic!Next, Atomic!Begin
<1>2. CASE \/ Stage \/ BackUp \/ Install \/ Undo \/ Restore \/ Cleanup
  <2>1. pc # "idle" /\ pc' # "idle" /\ UNCHANGED <<run, before>>
    BY <1>2 DEF Stage, BackUp, Install, Undo, Restore, Cleanup, RollbackFrom, Goto
  <2> QED
    BY <2>1 DEF Atomic!vars
<1>3. CASE Unstage
  BY <1>3, UnstageRefines, BrokenRefines DEF Atomic!Next
<1>4. CASE Die
  BY <1>4, DieRefines, BrokenRefines DEF Atomic!Next
<1>5. CASE UNCHANGED vars
  BY <1>5 DEF vars, disk, Atomic!vars
<1> QED
  BY <1>1, <1>2, <1>3, <1>4, <1>5 DEF Next

\* For any number of files: unless a run cannot undo what it did, it has installed all
\* of them or none when it returns, and leaves at most one missing when it dies.
THEOREM InstallIsAtomic == Spec => AllOrNothing
<1>1. Spec => []InstallInv
  BY InstallInvHolds
<1> QED
  BY <1>1, AtomicInit, AtomicStep, PTL DEF Spec, AllOrNothing, Atomic!Spec

-----------------------------------------------------------------------------
(* The originals, with any step failing.                                   *)

\* Where the original content of a path is.
Held(i) == file[i] = first[i] \/ backup[i] = first[i] \/ <<i, first[i]>> \in orphans

\* Nothing is moved aside twice, and what is removed or overwritten is new.
MovedInv ==
    /\ first \in [Index -> {Absent, 0}]
    /\ pc # "idle" => run # 0
    /\ pc \in {"stage", "backup", "install", "undo", "restore"} =>
          /\ \A i \in installed : file[i] = run
          /\ \A i \in Index : backup[i] # Absent => file[i] \in {Absent, run}
    /\ pc = "stage" => \A i \in Index : backup[i] = Absent /\ i \notin installed
    /\ pc = "backup" => \A i \in Index : i >= at => backup[i] = Absent /\ i \notin installed
    /\ pc = "install" =>
          /\ file[at] = Absent
          /\ at \notin installed
          /\ \A i \in Index : i > at => backup[i] = Absent /\ i \notin installed
    /\ pc = "restore" => at \notin installed
    /\ pc = "cleanup" => completed

KeptInv == TypeOK /\ MovedInv /\ OriginalKept

LEMMA MovedStep ==
    ASSUME TypeOK, MovedInv, [Next]_vars
    PROVE  MovedInv'
<1>a. /\ file \in [Index -> Content] /\ backup \in [Index -> Content]
      /\ at \in Index /\ N \in Nat \ {0} /\ run \in Nat /\ installed \subseteq Index
      /\ \A i \in Index : i \in Int
  BY InstallAssumption DEF TypeOK, Index
<1>b. Absent # run
  BY Neighbours
<1>1. CASE Start
  <2>1. /\ pc' = "stage" /\ backup' = Nothing /\ installed' = {} /\ run' = run + 1
        /\ UNCHANGED first
    BY <1>1 DEF Start, Goto
  <2>2. \A i \in Index : backup'[i] = Absent
    BY <2>1 DEF Nothing
  <2> QED
    BY <2>1, <2>2, <1>a DEF MovedInv
<1>2. CASE Stage
  <2>1. pc = "stage" /\ UNCHANGED <<file, backup, installed, run, first>>
    BY <1>2 DEF Stage
  <2>2. pc' \in {"backup", "stage", "unstage"}
    BY <1>2 DEF Stage, Goto
  <2> QED
    BY <2>1, <2>2, <1>a DEF MovedInv
<1>3. CASE BackUp
  <2>1. pc = "backup" /\ UNCHANGED <<installed, run, first>>
    BY <1>3 DEF BackUp
  <2>2. CASE file[at] = Absent /\ Goto("install", at) /\ UNCHANGED <<file, backup>>
    BY <2>1, <2>2, <1>a DEF MovedInv, Goto
  <2>3. CASE /\ backup' = [backup EXCEPT ![at] = file[at]]
             /\ file' = [file EXCEPT ![at] = Absent]
             /\ Goto("install", at)
    <3>1. /\ file'[at] = Absent /\ at \notin installed
          /\ \A i \in Index : i # at => file'[i] = file[i] /\ backup'[i] = backup[i]
      BY <2>1, <2>3, <1>a DEF MovedInv
    <3>2. \A i \in Index : i > at => i >= at /\ i # at
      BY <1>a
    <3> QED
      BY <2>1, <2>3, <3>1, <3>2, <1>a DEF MovedInv, Goto
  <2>4. CASE RollbackFrom(at - 1) /\ UNCHANGED <<file, backup>>
    <3>1. pc' \in {"undo", "unstage"}
      BY <2>4 DEF RollbackFrom, Goto
    <3> QED
      BY <2>1, <2>4, <3>1 DEF MovedInv
  <2> QED
    BY <1>3, <2>2, <2>3, <2>4 DEF BackUp
<1>4. CASE Install
  <2>1. pc = "install" /\ UNCHANGED <<backup, run, first>>
    BY <1>4 DEF Install
  <2>2. CASE /\ file' = [file EXCEPT ![at] = run]
             /\ installed' = installed \cup {at}
             /\ completed' = (completed \/ at = N)
             /\ IF at = N THEN Goto("cleanup", 1) ELSE Goto("backup", at + 1)
    <3>1. file'[at] = run /\ \A i \in Index : i # at => file'[i] = file[i]
      BY <2>2, <1>a
    <3>2. CASE at = N
      <4>1. pc' = "cleanup" /\ completed'
        BY <2>2, <3>2 DEF Goto
      <4> QED
        BY <2>1, <4>1 DEF MovedInv
    <3>3. CASE at # N
      <4>1. pc' = "backup" /\ at' = at + 1
        BY <2>2, <3>3 DEF Goto
      <4>2. \A i \in Index : i >= at + 1 => i > at /\ i # at
        BY <1>a
      <4> QED
        BY <2>1, <2>2, <3>1, <4>1, <4>2, <1>a DEF MovedInv
    <3> QED
      BY <3>2, <3>3
  <2>3. CASE RollbackFrom(at) /\ UNCHANGED <<file, installed>>
    <3>1. pc' \in {"undo", "unstage"}
      BY <2>3 DEF RollbackFrom, Goto
    <3> QED
      BY <2>1, <2>3, <3>1 DEF MovedInv
  <2> QED
    BY <1>4, <2>2, <2>3 DEF Install
<1>5. CASE Undo
  <2>1. /\ pc = "undo" /\ UNCHANGED <<backup, run, first>> /\ pc' = "restore" /\ at' = at
        /\ installed' = installed \ {at}
    BY <1>5 DEF Undo, Goto
  <2>2. file' = [file EXCEPT ![at] = Absent] \/ UNCHANGED file
    BY <1>5 DEF Undo
  <2>3. (\A i \in Index : i # at => file'[i] = file[i]) /\ file'[at] \in {Absent, file[at]}
    BY <2>2, <1>a
  <2> QED
    BY <2>1, <2>3, <1>a DEF MovedInv
<1>6. CASE Restore
  <2>1. /\ pc = "restore" /\ UNCHANGED <<installed, run, first>> /\ pc' \in {"undo", "unstage"}
    BY <1>6 DEF Restore, Goto
  <2>2. \/ file' = [file EXCEPT ![at] = backup[at]] /\ backup' = [backup EXCEPT ![at] = Absent]
        \/ UNCHANGED <<file, backup>>
    BY <1>6 DEF Restore
  <2>3. /\ \A i \in Index : i # at => file'[i] = file[i] /\ backup'[i] = backup[i]
        /\ backup'[at] = Absent \/ (file'[at] = file[at] /\ backup'[at] = backup[at])
    <3>1. CASE file' = [file EXCEPT ![at] = backup[at]] /\ backup' = [backup EXCEPT ![at] = Absent]
      BY <3>1, <1>a
    <3>2. CASE UNCHANGED <<file, backup>>
      BY <3>2
    <3> QED
      BY <2>2, <3>1, <3>2
  <2> QED
    BY <2>1, <2>3, <1>a DEF MovedInv
<1>7. CASE Cleanup
  <2>1. /\ pc = "cleanup" /\ UNCHANGED <<run, first, completed>> /\ pc' \in {"cleanup", "unstage"}
    BY <1>7 DEF Cleanup, Goto
  <2> QED
    BY <2>1 DEF MovedInv
<1>8. CASE Unstage
  <2>1. pc = "unstage" /\ UNCHANGED <<run, first>> /\ pc' \in {"idle", "unstage"}
    BY <1>8 DEF Unstage, Goto
  <2> QED
    BY <2>1 DEF MovedInv
<1>9. CASE Die
  <2>1. UNCHANGED first /\ pc' = "idle"
    BY <1>9 DEF Die, Goto
  <2> QED
    BY <2>1 DEF MovedInv
<1>10. CASE UNCHANGED vars
  BY <1>10 DEF vars, disk, MovedInv
<1> QED
  BY <1>1, <1>2, <1>3, <1>4, <1>5, <1>6, <1>7, <1>8, <1>9, <1>10 DEF Next

LEMMA KeptStep ==
    ASSUME TypeOK, MovedInv, OriginalKept, [Next]_vars
    PROVE  OriginalKept'
<1>a. /\ file \in [Index -> Content] /\ backup \in [Index -> Content] /\ at \in Index
      /\ first \in [Index -> {Absent, 0}] /\ run \in Nat
  BY DEF TypeOK, MovedInv
<1> SUFFICES ASSUME ~completed', NEW i \in Index, first'[i] # Absent
             PROVE  Held(i)'
  BY DEF OriginalKept, Held
<1>b. UNCHANGED first /\ ~completed
  <2>a. first' = first
    <3>1. CASE Start
      BY <3>1 DEF Start
    <3>2. CASE Stage
      BY <3>2 DEF Stage
    <3>3. CASE BackUp
      BY <3>3 DEF BackUp
    <3>4. CASE Install
      BY <3>4 DEF Install
    <3>5. CASE Undo
      BY <3>5 DEF Undo
    <3>6. CASE Restore
      BY <3>6 DEF Restore
    <3>7. CASE Cleanup
      BY <3>7 DEF Cleanup
    <3>8. CASE Unstage
      BY <3>8 DEF Unstage
    <3>9. CASE Die
      BY <3>9 DEF Die
    <3>10. CASE UNCHANGED vars
      BY <3>10 DEF vars
    <3> QED
      BY <3>1, <3>2, <3>3, <3>4, <3>5, <3>6, <3>7, <3>8, <3>9, <3>10 DEF Next
  <2>b. completed => completed'
    <3>1. CASE Start
      BY <3>1 DEF Start
    <3>2. CASE Stage
      BY <3>2 DEF Stage
    <3>3. CASE BackUp
      BY <3>3 DEF BackUp
    <3>4. CASE Install
      BY <3>4 DEF Install
    <3>5. CASE Undo
      BY <3>5 DEF Undo
    <3>6. CASE Restore
      BY <3>6 DEF Restore
    <3>7. CASE Cleanup
      BY <3>7 DEF Cleanup
    <3>8. CASE Unstage
      BY <3>8 DEF Unstage
    <3>9. CASE Die
      BY <3>9 DEF Die
    <3>10. CASE UNCHANGED vars
      BY <3>10 DEF vars
    <3> QED
      BY <3>1, <3>2, <3>3, <3>4, <3>5, <3>6, <3>7, <3>8, <3>9, <3>10 DEF Next
  <2> QED
    BY <2>a, <2>b
<1>c. Held(i) /\ first[i] = 0 /\ first[i] # Absent
  BY <1>a, <1>b DEF OriginalKept, Held
<1>1. CASE Start
  <2>1. Abandoned \subseteq orphans' /\ file' = file
    BY <1>1 DEF Start
  <2>2. orphans \subseteq Abandoned /\ (backup[i] # Absent => <<i, backup[i]>> \in Abandoned)
    BY DEF Abandoned
  <2> QED
    BY <1>b, <1>c, <2>1, <2>2 DEF Held
<1>2. CASE BackUp
  <2>1. orphans' = orphans /\ pc = "backup" /\ backup[at] = Absent
    BY <1>2, <1>a, InstallAssumption DEF BackUp, MovedInv, Index
  <2>2. CASE UNCHANGED <<file, backup>>
    BY <1>b, <1>c, <2>1, <2>2 DEF Held
  <2>3. CASE backup' = [backup EXCEPT ![at] = file[at]] /\ file' = [file EXCEPT ![at] = Absent]
    <3>1. backup'[at] = file[at]
      BY <2>3, <1>a
    <3>2. \A j \in Index : j # at => file'[j] = file[j] /\ backup'[j] = backup[j]
      BY <2>3, <1>a
    <3> QED
      BY <1>b, <1>c, <2>1, <3>1, <3>2 DEF Held
  <2> QED
    BY <1>2, <2>2, <2>3 DEF BackUp
<1>3. CASE Install
  <2>1. UNCHANGED <<orphans, backup>> /\ file[at] = Absent
    BY <1>3 DEF Install, MovedInv
  <2>2. \A j \in Index : j # at => file'[j] = file[j]
    BY <1>3, <1>a DEF Install
  <2> QED
    BY <1>b, <1>c, <2>1, <2>2 DEF Held
<1>4. CASE Undo
  <2>1. UNCHANGED <<orphans, backup>> /\ pc = "undo" /\ run # 0
    BY <1>4 DEF Undo, MovedInv
  <2>2. UNCHANGED file \/ (at \in installed /\ file' = [file EXCEPT ![at] = Absent])
    BY <1>4 DEF Undo
  <2>3. at \in installed => file[at] = run
    BY <2>1 DEF MovedInv
  <2>4. \A j \in Index : file'[j] = file[j] \/ file[j] = run
    BY <2>2, <2>3, <1>a
  <2> QED
    BY <1>b, <1>c, <2>1, <2>4 DEF Held
<1>5. CASE Restore
  <2>1. orphans' = orphans /\ pc = "restore" /\ run # 0
    BY <1>5 DEF Restore, MovedInv
  <2>2. CASE UNCHANGED <<file, backup>>
    BY <1>b, <1>c, <2>1, <2>2 DEF Held
  <2>3. CASE /\ backup[at] # Absent
             /\ file' = [file EXCEPT ![at] = backup[at]]
             /\ backup' = [backup EXCEPT ![at] = Absent]
    <3>1. file[at] \in {Absent, run}
      BY <2>1, <2>3, <1>a DEF MovedInv
    <3>2. file'[at] = backup[at] /\ \A j \in Index : j # at => file'[j] = file[j] /\ backup'[j] = backup[j]
      BY <2>3, <1>a
    <3> QED
      BY <1>b, <1>c, <2>1, <3>1, <3>2 DEF Held
  <2> QED
    BY <1>5, <2>2, <2>3 DEF Restore
<1>6. CASE Cleanup
  <2>1. completed
    BY <1>6 DEF Cleanup, MovedInv
  <2> QED
    BY <2>1, <1>b
<1>7. CASE Stage \/ Unstage \/ Die \/ UNCHANGED vars
  <2>1. UNCHANGED <<file, backup, orphans>>
    BY <1>7 DEF Stage, Unstage, Die, vars, disk
  <2> QED
    BY <2>1, <1>b, <1>c DEF Held
<1> QED
  BY <1>1, <1>2, <1>3, <1>4, <1>5, <1>6, <1>7 DEF Next

\* For any number of files and runs, whichever steps fail and wherever runs die: an
\* original is on disk until some run has all its files in place.
THEOREM InstallKeepsOriginals == Spec => []OriginalKept
<1>1. Init => KeptInv
  <2> SUFFICES ASSUME Init PROVE KeptInv
    OBVIOUS
  <2>1. MovedInv
    BY DEF Init, MovedInv
  <2>2. OriginalKept
    BY DEF Init, OriginalKept
  <2> QED
    BY <2>1, <2>2, TypesInit DEF KeptInv
<1>2. KeptInv /\ [Next]_vars => KeptInv'
  BY TypesStep, MovedStep, KeptStep DEF KeptInv
<1>3. KeptInv => OriginalKept
  BY DEF KeptInv
<1> QED
  BY <1>1, <1>2, <1>3, PTL DEF Spec

-----------------------------------------------------------------------------
(* What a run leaves behind when it returns without an error.  A run that  *)
(* has undone anything has failed, so one that has not failed came through *)
(* the cleanup, path by path.                                              *)

CleanInv ==
    /\ broken => failed
    /\ pc \in {"undo", "restore"} => failed
    /\ pc # "idle" => result = "none"
    /\ pc = "cleanup" => \A i \in Index : i < at => backup[i] = Absent
    /\ pc = "unstage" /\ ~failed =>
          /\ \A i \in Index : backup[i] = Absent
          /\ \A i \in Index : i < at => i \notin staged
    /\ SuccessIsClean

\* Steps of a run that do not end it say nothing of a success.
LEMMA StillRunning ==
    ASSUME CleanInv, pc # "idle", UNCHANGED result
    PROVE  result' = "none" /\ SuccessIsClean'
BY DEF CleanInv, SuccessIsClean

LEMMA CleanStep ==
    ASSUME InstallInv, CleanInv, [Next]_vars
    PROVE  CleanInv'
<1>a. /\ file \in [Index -> Content] /\ backup \in [Index -> Content]
      /\ at \in Index /\ N \in Nat \ {0} /\ staged \subseteq Index
      /\ \A i \in Index : i \in Int /\ 1 <= i /\ i <= N
  BY InstallAssumption DEF InstallInv, TypeOK, Index
<1>b. 1 \in Index /\ \A i \in Index : ~(i < 1)
  BY <1>a DEF Index
<1>1. CASE Start
  <2>1. result' = "none" /\ pc' = "stage" /\ ~broken'
    BY <1>1 DEF Start, Goto
  <2> QED BY <2>1 DEF CleanInv, SuccessIsClean
<1>2. CASE Stage
  <2>1. /\ pc = "stage" /\ UNCHANGED <<result, broken>>
        /\ \/ UNCHANGED failed /\ pc' \in {"backup", "stage"}
           \/ failed' /\ pc' = "unstage"
    BY <1>2 DEF Stage, Goto
  <2>2. result' = "none" /\ SuccessIsClean'
    BY <2>1, StillRunning
  <2> QED BY <2>1, <2>2 DEF CleanInv
<1>3. CASE BackUp
  <2>1. /\ pc = "backup" /\ UNCHANGED <<result, broken>>
        /\ \/ UNCHANGED failed /\ pc' = "install"
           \/ failed' /\ pc' \in {"unstage", "undo"}
    BY <1>3 DEF BackUp, Goto, RollbackFrom
  <2>2. result' = "none" /\ SuccessIsClean'
    BY <2>1, StillRunning
  <2> QED BY <2>1, <2>2 DEF CleanInv
<1>4. CASE Install
  <2>1. /\ pc = "install" /\ UNCHANGED <<result, broken>>
        /\ \/ UNCHANGED failed /\ (pc' = "backup" \/ (pc' = "cleanup" /\ at' = 1))
           \/ failed' /\ pc' \in {"unstage", "undo"}
    BY <1>4 DEF Install, Goto, RollbackFrom
  <2>2. result' = "none" /\ SuccessIsClean'
    BY <2>1, StillRunning
  <2> QED BY <1>b, <2>1, <2>2 DEF CleanInv
<1>5. CASE Undo
  <2>1. pc = "undo" /\ pc' = "restore" /\ failed /\ failed' = failed /\ result' = result
    BY <1>5 DEF Undo, Goto, CleanInv
  <2>2. result' = "none" /\ SuccessIsClean'
    BY <2>1, StillRunning
  <2> QED BY <2>1, <2>2 DEF CleanInv
<1>6. CASE Restore
  <2>1. pc = "restore" /\ pc' \in {"unstage", "undo"} /\ failed /\ failed' = failed /\ result' = result
    BY <1>6 DEF Restore, Goto, CleanInv
  <2>2. result' = "none" /\ SuccessIsClean'
    BY <2>1, StillRunning
  <2> QED BY <2>1, <2>2 DEF CleanInv
<1>7. CASE Cleanup
  <2>1. /\ pc = "cleanup" /\ UNCHANGED <<result, broken>>
        /\ \A i \in Index : i < at => backup[i] = Absent
    BY <1>7 DEF Cleanup, CleanInv
  <2>2. result' = "none" /\ SuccessIsClean'
    BY <2>1, StillRunning
  <2>3. CASE backup[at] # Absent /\ failed' = TRUE /\ Goto("unstage", 1)
    BY <2>1, <2>2, <2>3 DEF CleanInv, Goto
  <2>4. CASE /\ backup' = [backup EXCEPT ![at] = Absent]
             /\ IF at = N THEN Goto("unstage", 1) ELSE Goto("cleanup", at + 1)
             /\ UNCHANGED failed
    <3>1. \A i \in Index : i <= at => backup'[i] = Absent
      <4> SUFFICES ASSUME NEW i \in Index, i <= at PROVE backup'[i] = Absent
        OBVIOUS
      <4>1. i = at \/ i < at
        BY <1>a
      <4> QED BY <1>a, <2>1, <2>4, <4>1
    <3>2. CASE at = N
      <4>1. pc' = "unstage" /\ at' = 1 /\ \A i \in Index : backup'[i] = Absent
        BY <1>a, <2>4, <3>1, <3>2 DEF Goto
      <4> QED BY <1>b, <2>1, <2>2, <2>4, <4>1 DEF CleanInv
    <3>3. CASE at # N
      <4>1. pc' = "cleanup" /\ at' = at + 1 /\ \A i \in Index : i < at + 1 => i <= at
        BY <1>a, <2>4, <3>3 DEF Goto
      <4> QED BY <2>1, <2>2, <2>4, <3>1, <4>1 DEF CleanInv
    <3> QED BY <3>2, <3>3
  <2> QED BY <1>7, <2>3, <2>4 DEF Cleanup
<1>8. CASE Unstage
  <2>1. pc = "unstage" /\ result = "none" /\ UNCHANGED <<file, backup, run, broken>>
    BY <1>8 DEF Unstage, CleanInv
  <2>2. CASE failed'
    <3>1. \/ pc' = "unstage" /\ result' = result
          \/ pc' = "idle" /\ result' = "error"
      BY <1>8, <2>1, <2>2 DEF Unstage, Goto
    <3> QED BY <2>1, <2>2, <3>1 DEF CleanInv, SuccessIsClean
  <2>3. CASE ~failed'
    <3>1. staged' = staged \ {at} /\ ~failed /\ ~broken
      BY <1>8, <2>1, <2>3 DEF Unstage, CleanInv
    <3>2. /\ \A i \in Index : backup[i] = Absent
          /\ \A i \in Index : i < at => i \notin staged
      BY <2>1, <3>1 DEF CleanInv
    <3>3. InPlace
      BY <2>1, <3>1 DEF InstallInv, PhaseInv
    <3>4. CASE at # N
      <4>1. pc' = "unstage" /\ at' = at + 1 /\ result' = "none"
        BY <1>8, <2>1, <3>4 DEF Unstage, Goto
      <4>2. \A i \in Index : i < at + 1 => i = at \/ i < at
        BY <1>a
      <4> QED BY <2>1, <2>3, <3>1, <3>2, <4>1, <4>2 DEF CleanInv, SuccessIsClean
    <3>5. CASE at = N
      <4>1. pc' = "idle"
        BY <1>8, <3>5 DEF Unstage, Goto
      <4>2. file = All(run)
        BY <1>a, <3>3 DEF InPlace, All
      <4>3. backup = Nothing
        BY <1>a, <3>2 DEF Nothing
      <4>4. staged' = {}
        <5>1. \A i \in Index : i = at \/ i < at
          BY <1>a, <3>5
        <5> QED BY <1>a, <3>1, <3>2, <5>1
      <4>5. SuccessIsClean'
        BY <2>1, <4>2, <4>3, <4>4 DEF SuccessIsClean, All, Nothing
      <4> QED BY <2>1, <3>1, <4>1, <4>5 DEF CleanInv
    <3> QED BY <3>4, <3>5
  <2> QED BY <2>2, <2>3
<1>9. CASE Die
  <2>1. pc' = "idle" /\ result' = "died" /\ UNCHANGED <<broken, failed>>
    BY <1>9 DEF Die, Goto
  <2> QED BY <2>1 DEF CleanInv, SuccessIsClean
<1>10. CASE UNCHANGED vars
  BY <1>10 DEF vars, disk, CleanInv, SuccessIsClean, All, Nothing
<1> QED
  BY <1>1, <1>2, <1>3, <1>4, <1>5, <1>6, <1>7, <1>8, <1>9, <1>10 DEF Next

\* For any number of files and runs, and whichever steps fail: a run that returns
\* without an error has its files in place, nothing moved aside and no temporary file.
THEOREM InstallLeavesNothing == Spec => []SuccessIsClean
<1>1. Init => CleanInv
  BY DEF Init, CleanInv, SuccessIsClean
<1>2. InstallInv /\ CleanInv /\ [Next]_vars => CleanInv'
  BY CleanStep
<1>3. CleanInv => SuccessIsClean
  BY DEF CleanInv
<1> QED
  BY <1>1, <1>2, <1>3, InstallInvHolds, PTL DEF Spec

=============================================================================
