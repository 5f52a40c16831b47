----------------------------- MODULE ReleaseBuild -----------------------------
(***************************************************************************)
(* Build of the release artifacts: the tag must name the commit that is    *)
(* checked out, dist must not exist, and what was built and validated of   *)
(* that commit, in a directory of the run's own, is copied to a stage file *)
(* by file and renamed to dist.                                            *)
(***************************************************************************)
EXTENDS StagedDirectory

VARIABLES head, tag    \* the commits that HEAD and the tag name

refs == <<head, tag>>

\* A commit, a checkout or a moved tag.
MoveRefs ==
    /\ changes < MaxChanges /\ changes' = changes + 1 /\ calm' = {}
    /\ head' \in Values /\ tag' \in Values
    /\ refs' # refs
    /\ UNCHANGED <<target, stage, running>>

\* validateReleaseCheckout, first half: the commit of HEAD is the one that is built.
ReadHead(r) ==
    /\ pc[r] = "start"
    /\ value' = [value EXCEPT ![r] = head]
    /\ Begin(r) /\ Goto(r, "tag")
    /\ UNCHANGED <<refs, todo, result, failed>>

\* Mutant: the tag is resolved and not compared.
ReadTagOnly(r) ==
    pc[r] = "tag" /\ Goto(r, "look") /\ UNCHANGED <<tree, refs, value, todo, result, failed>>
\* validateReleaseCheckout, second half.
ReadTag(r) ==
    /\ pc[r] = "tag"
    /\ IF tag = value[r] THEN Goto(r, "look") /\ UNCHANGED result ELSE End(r, "error")
    /\ UNCHANGED <<tree, refs, value, todo, failed>>

LookForDist(r) ==
    /\ pc[r] = "look"
    /\ IF target = NoEntry THEN Goto(r, "stage") /\ UNCHANGED result ELSE End(r, "error")
    /\ UNCHANGED <<tree, refs, value, todo, failed>>

\* The rename was refused.
PublishFails(r) ==
    /\ pc[r] = "lost"
    /\ End(r, "error")
    /\ UNCHANGED <<tree, refs, value, todo, failed>>

BuildStep(r) ==
    \/ ReadHead(r) \/ ReadTag(r) \/ LookForDist(r) \/ PublishFails(r)
    \/ StagedStep(r) /\ UNCHANGED refs
=============================================================================
