------------------------------- MODULE Staging -------------------------------
(***************************************************************************)
(* Runs of one program that makes a directory by staging: the release      *)
(* build or the managed clone.                                             *)
(***************************************************************************)
EXTENDS ReleaseBuild, ManagedClone

VARIABLE program

vars == <<staged, refs, program>>

Init ==
    /\ StagedInit /\ program \in {"build", "clone"}
    /\ head \in Values /\ tag \in Values /\ (program = "clone" => tag = head /\ head = Expected)
    /\ \A r \in Runs : value[r] = Expected

Building == program = "build" /\ UNCHANGED program
Cloning  == program = "clone" /\ UNCHANGED <<program, refs>>

Next ==
    \/ OthersChange /\ UNCHANGED <<refs, program>>
    \/ Building /\ MoveRefs
    \/ \E r \in Runs : \/ Building /\ BuildStep(r)
                       \/ Cloning /\ CloneStep(r)

Spec == Init /\ [][Next]_vars

-----------------------------------------------------------------------------
(* Properties.                                                             *)

\* Everything is in its type, and a run renames only what has all its files.
TypeOK ==
    /\ target \in Entry /\ stage \in [Runs -> Entry] /\ changes \in 0 .. MaxChanges
    /\ calm \subseteq Runs
    /\ pc \in [Runs -> {"start", "tag", "look", "stage", "fill", "lstat", "rename", "lost",
                        "validate", "worktree", "origin", "clean", "done", "dead"}]
    /\ value \in [Runs -> Values] /\ todo \in [Runs -> SUBSET Names]
    /\ result \in [Runs -> {"none", "ok", "error"}] /\ failed \in [Runs -> BOOLEAN]
    /\ \A r \in Runs : pc[r] \in {"lstat", "rename"} => todo[r] = {}
    /\ head \in Values /\ tag \in Values /\ program \in {"build", "clone"}

\* Whenever a run dies or fails, and whatever other runs do, what a run has put at the
\* target is all of its files, each of the one commit or origin the run began with.
TargetWhole ==
    \A r \in Runs :
        target.by = r => target.kind = "dir" /\ target.files = Names \X {value[r]}

\* What a clone has to be for the validation.
Cloned(entry) == entry.kind = "dir" /\ <<Config, Expected>> \in entry.files

\* What a run reports is so, and stays so, as long as others leave it in peace from its
\* first look on, whatever they did before and whatever other runs do meanwhile.  After
\* a build that succeeded, dist is its own and of the commit that HEAD and the tag both
\* name; one that failed, though no operation of it did, had another tag or was not
\* alone.  After ensureManagedRepository the target is a clone of the expected origin,
\* or, if it refused, is not, but for a clone that another run made only then.
ReportHolds ==
    \A r \in calm :
        /\ result[r] = "ok" =>
              IF program = "clone" THEN Cloned(target)
              ELSE target = Dir(r, Names \X {head}) /\ tag = head
        /\ result[r] = "error" /\ ~failed[r] =>
              IF program = "clone" THEN ~Cloned(target) \/ target.by \in Runs \ {r}
              ELSE tag # head \/ (target # NoEntry /\ target.by # r)

\* If nobody else interferes, the runs agree on the target, and what dead runs have left
\* behind is in nobody's way: only one build succeeds, and the artifacts are its own;
\* every clone that does not fail itself succeeds, and a build fails only because of
\* another one (or because the tag is of another commit).
RunsAgree ==
    changes = 0 =>
        /\ \A r \in Runs : result[r] = "ok" =>
              /\ target.kind = "dir" /\ target.by \in Runs
              /\ program = "build" => target.by = r
        /\ \A r \in Runs : result[r] = "error" /\ ~failed[r] =>
              program = "build" /\ (tag # head \/ target.by \in Runs \ {r})
=============================================================================
