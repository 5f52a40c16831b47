--------------------------- MODULE ArtifactInstall ---------------------------
(***************************************************************************)
(* installArtifacts of the grammar generator: every file is written to a   *)
(* temporary name, then each old file is moved aside and the new one moved *)
(* in; an error undoes what was done, last file first.                     *)
(*                                                                         *)
(* Any step of the file system may fail, the ones that undo others too.    *)
(* The process may die between any two steps, and the generator may then   *)
(* be run again; the new run knows nothing of the temporary names the dead *)
(* one has left.                                                           *)
(***************************************************************************)
EXTENDS Integers, FiniteSets

CONSTANTS
    N,         \* number of files
    MaxRuns    \* bound: runs

ASSUME InstallAssumption == N \in Nat \ {0} /\ MaxRuns \in Nat

VARIABLES
    file,       \* disk, per path: the run that wrote it, 0 before all, -1 if absent
    backup,     \* disk, per path: what was moved aside by this run, -1 if nothing
    staged,     \* disk: the paths whose temporary file is there
    orphans,    \* disk: what dead runs and failed cleanups left moved aside
    pc, at,     \* the running run, and the index it works on
    installed,  \* its record of what it moved in
    failed,     \* it will return an error
    run, result,
    first,      \* history: the files before the first run
    before,     \* history: the files before this run
    completed,  \* history: some run had every new file in place
    broken      \* history: this run could not undo what it had done

disk == <<file, backup, staged, orphans>>
vars == <<disk, pc, at, installed, failed, run, result, first, before, completed, broken>>

Index   == 1 .. N
Absent  == -1
Content == Absent .. MaxRuns
Nothing == [i \in Index |-> Absent]
All(r)  == [i \in Index |-> r]

Init ==
    /\ file \in [Index -> {Absent, 0}]
    /\ first = file /\ before = file
    /\ backup = Nothing /\ staged = {} /\ orphans = {}
    /\ pc = "idle" /\ at = 1 /\ installed = {} /\ failed = FALSE
    /\ run = 0 /\ result = "none" /\ completed = FALSE /\ broken = FALSE

Goto(label, index) == pc' = label /\ at' = index

\* What is still moved aside when a run ends is nobody's any more.
Abandoned == orphans \cup {<<i, backup[i]>> : i \in {j \in Index : backup[j] # Absent}}

Start ==
    /\ pc = "idle" /\ run < MaxRuns
    /\ run' = run + 1 /\ result' = "none"
    /\ before' = file
    /\ backup' = Nothing /\ orphans' = Abandoned
    /\ staged' = {} /\ installed' = {} /\ failed' = FALSE /\ broken' = FALSE
    /\ Goto("stage", 1)
    /\ UNCHANGED <<file, first, completed>>

\* Nothing is moved before all files are staged.
Stage ==
    /\ pc = "stage"
    /\ \/ /\ staged' = staged \cup {at}
          /\ IF at = N THEN Goto("backup", 1) ELSE Goto("stage", at + 1)
          /\ UNCHANGED failed
       \/ /\ failed' = TRUE /\ Goto("unstage", 1)
          /\ UNCHANGED staged
    /\ UNCHANGED <<file, backup, orphans, installed, run, result, first, before, completed, broken>>

\* Mutant: an error undoes one file too few.
RollbackFromBelow(index) ==
    /\ failed' = TRUE
    /\ IF index <= 1 THEN Goto("unstage", 1) ELSE Goto("undo", index - 1)
\* Mutant: there is always a file to undo.
RollbackFromAlways(index) == failed' = TRUE /\ Goto("undo", index)
\* rollbackArtifacts, for the files up to an index.
RollbackFrom(index) ==
    /\ failed' = TRUE
    /\ IF index = 0 THEN Goto("unstage", 1) ELSE Goto("undo", index)

BackUp ==
    /\ pc = "backup"
    /\ \/ /\ file[at] = Absent
          /\ Goto("install", at)
          /\ UNCHANGED <<file, backup, failed>>
       \/ /\ file[at] # Absent
          /\ backup' = [backup EXCEPT ![at] = file[at]]
          /\ file' = [file EXCEPT ![at] = Absent]
          /\ Goto("install", at)
          /\ UNCHANGED failed
       \/ /\ RollbackFrom(at - 1)
          /\ UNCHANGED <<file, backup>>
    /\ UNCHANGED <<staged, orphans, installed, run, result, first, before, completed, broken>>

\* Mutant: the old file goes as soon as the new one is in place.
InstallDiscards ==
    /\ pc = "install"
    /\ \/ /\ file' = [file EXCEPT ![at] = run]
          /\ backup' = [backup EXCEPT ![at] = Absent]
          /\ staged' = staged \ {at}
          /\ installed' = installed \cup {at}
          /\ completed' = (completed \/ at = N)
          /\ IF at = N THEN Goto("cleanup", 1) ELSE Goto("backup", at + 1)
          /\ UNCHANGED failed
       \/ /\ RollbackFrom(at)
          /\ UNCHANGED <<file, backup, staged, installed, completed>>
    /\ UNCHANGED <<orphans, run, result, first, before, broken>>
Install ==
    /\ pc = "install"
    /\ \/ /\ file' = [file EXCEPT ![at] = run]
          /\ staged' = staged \ {at}
          /\ installed' = installed \cup {at}
          /\ completed' = (completed \/ at = N)
          /\ IF at = N THEN Goto("cleanup", 1) ELSE Goto("backup", at + 1)
          /\ UNCHANGED failed
       \/ /\ RollbackFrom(at)
          /\ UNCHANGED <<file, staged, installed, completed>>
    /\ UNCHANGED <<backup, orphans, run, result, first, before, broken>>

\* A file moved in is removed ...
Undo ==
    /\ pc = "undo"
    /\ \/ /\ at \in installed
          /\ file' = [file EXCEPT ![at] = Absent]
          /\ UNCHANGED broken
       \/ at \in installed /\ broken' = TRUE /\ UNCHANGED file
       \/ at \notin installed /\ UNCHANGED <<file, broken>>
    /\ installed' = installed \ {at}
    /\ Goto("restore", at)
    /\ UNCHANGED <<backup, staged, orphans, failed, run, result, first, before, completed>>

\* ... and the one that was moved aside moved back over it.
Restore ==
    /\ pc = "restore"
    /\ \/ /\ backup[at] # Absent
          /\ file' = [file EXCEPT ![at] = backup[at]]
          /\ backup' = [backup EXCEPT ![at] = Absent]
          /\ UNCHANGED broken
       \/ backup[at] # Absent /\ broken' = TRUE /\ UNCHANGED <<file, backup>>
       \/ backup[at] = Absent /\ UNCHANGED <<file, backup, broken>>
    /\ IF at = 1 THEN Goto("unstage", 1) ELSE Goto("undo", at - 1)
    /\ UNCHANGED <<staged, orphans, installed, failed, run, result, first, before, completed>>

\* Mutant: an old file that cannot be removed is passed over.
CleanupIgnored ==
    /\ pc = "cleanup"
    /\ \/ backup' = [backup EXCEPT ![at] = Absent]
       \/ UNCHANGED backup
    /\ IF at = N THEN Goto("unstage", 1) ELSE Goto("cleanup", at + 1)
    /\ UNCHANGED <<file, staged, orphans, installed, failed, run, result, first, before, completed, broken>>
\* With all files in place the old ones go; an error here undoes nothing.
Cleanup ==
    /\ pc = "cleanup"
    /\ \/ /\ backup' = [backup EXCEPT ![at] = Absent]
          /\ IF at = N THEN Goto("unstage", 1) ELSE Goto("cleanup", at + 1)
          /\ UNCHANGED failed
       \/ /\ backup[at] # Absent
          /\ failed' = TRUE /\ Goto("unstage", 1)
          /\ UNCHANGED backup
    /\ UNCHANGED <<file, staged, orphans, installed, run, result, first, before, completed, broken>>

\* The deferred function removes the temporary files that are left.
Unstage ==
    /\ pc = "unstage"
    /\ \/ staged' = staged \ {at} /\ UNCHANGED failed
       \/ at \in staged /\ failed' = TRUE /\ UNCHANGED staged
    /\ IF at # N THEN Goto("unstage", at + 1) /\ UNCHANGED result
       ELSE /\ Goto("idle", 1)
            /\ result' = IF failed' THEN "error" ELSE "ok"
    /\ UNCHANGED <<file, backup, orphans, installed, run, first, before, completed, broken>>

Die ==
    /\ pc # "idle"
    /\ Goto("idle", 1) /\ result' = "died"
    /\ UNCHANGED <<disk, installed, failed, run, first, before, completed, broken>>

Next ==
    \/ Start \/ Stage \/ BackUp \/ Install \/ Undo \/ Restore
    \/ Cleanup \/ Unstage \/ Die

Spec == Init /\ [][Next]_vars

-----------------------------------------------------------------------------
(* Properties.                                                             *)

TypeOK ==
    /\ file \in [Index -> Content] /\ backup \in [Index -> Content]
    /\ staged \subseteq Index /\ installed \subseteq Index
    /\ orphans \subseteq Index \X Content
    /\ pc \in {"idle", "stage", "backup", "install", "undo", "restore", "cleanup", "unstage"}
    /\ at \in Index
    /\ failed \in BOOLEAN /\ completed \in BOOLEAN /\ broken \in BOOLEAN
    /\ run \in 0 .. MaxRuns /\ result \in {"none", "ok", "error", "died"}
    /\ first \in [Index -> Content] /\ before \in [Index -> Content]

\* A run that returns has installed all files or none, and one that dies leaves
\* at most one file missing, unless the run could not undo what it had done.
Atomic == INSTANCE AtomicInstall WITH
              content <- IF pc = "idle" THEN file ELSE before,
              outcome <- IF pc # "idle" THEN "running" ELSE IF broken THEN "broken" ELSE result
AllOrNothing == Atomic!Spec

\* Until a run has all its files in place, what each path held at first is on disk,
\* under its name or moved aside, whichever steps fail and wherever runs die.
OriginalKept ==
    ~completed =>
        \A i \in Index :
            first[i] # Absent =>
                \/ file[i] = first[i]
                \/ backup[i] = first[i]
                \/ <<i, first[i]>> \in orphans

\* A run that returns without an error leaves its files and nothing else.
SuccessIsClean ==
    result = "ok" => file = All(run) /\ backup = Nothing /\ staged = {}
=============================================================================
