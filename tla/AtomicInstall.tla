---------------------------- MODULE AtomicInstall ----------------------------
(***************************************************************************)
(* What installing a set of files promises: a run that returns has put all *)
(* of its files in place or none of them.  A run that dies may leave       *)
(* something in between, and then at most one file is missing.  Only of a  *)
(* run that is broken, because it cannot undo what it did, nothing is said.*)
(***************************************************************************)
EXTENDS Integers

CONSTANTS
    N,        \* number of files
    MaxRuns   \* bound: runs

VARIABLES
    content,  \* per file: the run that wrote it, 0 before the first, -1 if absent
    run,      \* the current or last run
    outcome   \* of that run: "none", "running", "ok", "error", "died" or "broken"

vars == <<content, run, outcome>>

Index   == 1 .. N
Absent  == -1
Content == Absent .. MaxRuns

All(r) == [i \in Index |-> r]

Init ==
    /\ content \in [Index -> {Absent, 0}]
    /\ run = 0 /\ outcome = "none"

Begin ==
    /\ outcome # "running" /\ run < MaxRuns
    /\ run' = run + 1 /\ outcome' = "running"
    /\ UNCHANGED content

\* An error may be about what is left over, with every file in place.
Return ==
    /\ outcome = "running"
    /\ \/ outcome' = "ok" /\ content' = All(run)
       \/ outcome' = "error" /\ content' \in {content, All(run)}
    /\ UNCHANGED run

Die ==
    /\ outcome = "running" /\ outcome' = "died"
    /\ content' \in [Index -> Content]
    /\ \A i \in Index : content'[i] \in {content[i], run, Absent}
    /\ \A i, j \in Index :
          (/\ content'[i] = Absent /\ content[i] # Absent
           /\ content'[j] = Absent /\ content[j] # Absent) => i = j
    /\ UNCHANGED run

Break ==
    /\ outcome = "running" /\ outcome' = "broken"
    /\ content' \in [Index -> Content]
    /\ UNCHANGED run

Next == Begin \/ Return \/ Die \/ Break
Spec == Init /\ [][Next]_vars
=============================================================================
