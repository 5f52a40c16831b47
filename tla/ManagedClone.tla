----------------------------- MODULE ManagedClone -----------------------------
(***************************************************************************)
(* ensureManagedRepository of the validation command: a clone that is      *)
(* there already is taken if it is one of the expected origin; otherwise   *)
(* Git clones into a stage that is renamed, and a run that comes second    *)
(* takes the clone of the first.                                           *)
(***************************************************************************)
EXTENDS StagedDirectory

CONSTANTS
    Config,   \* the file that names the origin of a clone
    Expected  \* the origin of the manifest

ASSUME CloneAssumption == Config \in Names /\ Expected \in Values

LookForClone(r) ==
    /\ pc[r] = "start"
    /\ value' = [value EXCEPT ![r] = Expected]
    /\ Begin(r) /\ Goto(r, IF target = NoEntry THEN "stage" ELSE "validate")
    /\ UNCHANGED <<todo, result, failed>>

\* Mutant: a run that comes second gives up.
LookAgainNever(r) == pc[r] = "lost" /\ End(r, "error") /\ UNCHANGED <<tree, value, todo, failed>>
\* After a rename that failed, for whatever reason, what is at the target may do.
LookAgain(r) ==
    /\ pc[r] = "lost"
    /\ IF target = NoEntry THEN End(r, "error") ELSE Goto(r, "validate") /\ UNCHANGED result
    /\ UNCHANGED <<tree, value, todo, failed>>

\* validateManagedRepository looks at the target three times: it is a directory ...
ValidateDirectory(r) ==
    /\ pc[r] = "validate"
    /\ IF target.kind = "dir" THEN Goto(r, "worktree") /\ UNCHANGED result ELSE End(r, "error")
    /\ UNCHANGED <<tree, value, todo, failed>>

\* ... in a worktree, which a directory that is no clone may be inside of ...
ValidateWorktree(r) ==
    /\ pc[r] = "worktree"
    /\ \/ target.kind = "dir" /\ Goto(r, "origin") /\ UNCHANGED result
       \/ Config \notin {file[1] : file \in target.files} /\ End(r, "error")
    /\ UNCHANGED <<tree, value, todo, failed>>

\* ... whose origin is the expected; a worktree around it is of another origin.

ValidateOrigin(r) ==
    /\ pc[r] = "origin"
    /\ End(r, IF <<Config, Expected>> \in target.files THEN "ok" ELSE "error")
    /\ UNCHANGED <<tree, value, todo, failed>>

CloneStep(r) ==
    \/ LookForClone(r) \/ LookAgain(r) \/ ValidateDirectory(r) \/ ValidateWorktree(r)
    \/ ValidateOrigin(r) \/ StagedStep(r)
=============================================================================
