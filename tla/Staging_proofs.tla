---------------------------- MODULE Staging_proofs ----------------------------
(***************************************************************************)
(* What a run puts at the target is whole, and what a run reports is so,   *)
(* for any number of runs, files and changes by others.                    *)
(*                                                                         *)
(* That the target is whole is not inductive: a run renames its stage, so  *)
(* the stage must hold what has been written (StageInv), and a run that    *)
(* put something at the target must be past the steps that choose its      *)
(* value (MakerInv).                                                       *)
(***************************************************************************)
EXTENDS Staging, TLAPS

\* A stage holds exactly the files its run has written, and is the run's own.
StageOf(r) ==
    /\ pc[r] = "fill" => stage[r] = Dir(r, (Names \ todo[r]) \X {value[r]})
    /\ pc[r] \in {"lstat", "rename"} => stage[r] = Dir(r, Names \X {value[r]})
StageInv == \A r \in Runs : StageOf(r)

\* Only a run that is past its rename has made what is at the target.
MakerOf(r) == target.by = r => pc[r] \in {"clean", "done", "dead"}
MakerInv == \A r \in Runs : MakerOf(r)

IInv == TypeOK /\ StageInv /\ MakerInv /\ TargetWhole

-----------------------------------------------------------------------------
LEMMA EntryFacts ==
    /\ NoEntry \in Entry
    /\ \A by \in Runs \cup {Nobody} : \A files \in SUBSET (Names \X Values) :
          /\ Dir(by, files) \in Entry
          /\ Dir(by, files).kind = "dir" /\ Dir(by, files).by = by /\ Dir(by, files).files = files
    /\ NoEntry.kind = "none" /\ NoEntry.by = Nobody /\ NoEntry.files = {}
    /\ \A e \in Foreign : e \in Entry /\ e.by = Nobody
<1>1. NoEntry \in Entry /\ NoEntry.kind = "none" /\ NoEntry.by = Nobody /\ NoEntry.files = {}
  BY DEF NoEntry, Entry
<1>2. ASSUME NEW by \in Runs \cup {Nobody}, NEW files \in SUBSET (Names \X Values)
      PROVE  /\ Dir(by, files) \in Entry
             /\ Dir(by, files).kind = "dir" /\ Dir(by, files).by = by
             /\ Dir(by, files).files = files
  BY DEF Dir, Entry
<1>3. ASSUME NEW e \in Foreign
      PROVE  e \in Entry /\ e.by = Nobody
  <2>1. CASE e = [kind |-> "file", by |-> Nobody, files |-> {}]
    BY <2>1 DEF Entry
  <2>2. CASE e = Dir(Nobody, {})
    BY <1>2, <2>2
  <2>3. ASSUME NEW n \in Names, NEW v \in Values, e = Dir(Nobody, {<<n, v>>})
        PROVE  e \in Entry /\ e.by = Nobody
    BY <1>2, <2>3
  <2> QED
    <3>1. \/ e = [kind |-> "file", by |-> Nobody, files |-> {}]
          \/ e = Dir(Nobody, {})
          \/ \E n \in Names, v \in Values : e = Dir(Nobody, {<<n, v>>})
      BY <1>3 DEF Foreign
    <3> QED
      BY <2>1, <2>2, <2>3, <3>1
<1> QED
  BY <1>1, <1>2, <1>3

LEMMA InitIInv == Init => IInv
<1> SUFFICES ASSUME Init PROVE IInv
  OBVIOUS
<1>1. TypeOK
  BY EntryFacts, StagedAssumption DEF Init, StagedInit, TypeOK
<1>2. StageInv /\ MakerInv /\ TargetWhole
  BY EntryFacts, StagedAssumption
     DEF Init, StagedInit, StageInv, StageOf, MakerInv, MakerOf, TargetWhole
<1> QED
  BY <1>1, <1>2 DEF IInv

\* The steps of one run that leave the target and all stages alone, and change only its
\* own program counter, result and history.
LEMMA QuietStep ==
    ASSUME IInv, NEW r \in Runs, NEW label, NEW how \in {"none", "ok", "error"},
           UNCHANGED <<target, stage, todo>>, changes' \in 0 .. MaxChanges, calm' \subseteq Runs,
           pc' = [pc EXCEPT ![r] = label],
           label \in {"tag", "look", "stage", "lstat", "rename", "lost", "validate",
                      "worktree", "origin", "clean", "done", "dead"},
           pc[r] \notin {"clean", "done"} \/ label \in {"done", "dead"},
           label \in {"lstat", "rename"} =>
               todo[r] = {} /\ stage[r] = Dir(r, Names \X {value[r]}),
           \/ UNCHANGED value
           \/ /\ pc[r] = "start" /\ label \in {"tag", "stage", "validate"}
              /\ \E v \in Values : value' = [value EXCEPT ![r] = v],
           UNCHANGED result \/ result' = [result EXCEPT ![r] = how],
           failed' \in [Runs -> BOOLEAN],
           head' \in Values, tag' \in Values, program' = program,
           pc[r] # "dead"
    PROVE  IInv'
<1>1. TypeOK /\ StageInv /\ MakerInv /\ TargetWhole
  BY DEF IInv
<1>2. value' \in [Runs -> Values] /\ (\A s \in Runs \ {r} : value'[s] = value[s])
      /\ (pc[r] # "start" => value'[r] = value[r])
  BY <1>1 DEF TypeOK
<1>3. result' \in [Runs -> {"none", "ok", "error"}]
  BY <1>1 DEF TypeOK
<1>4. /\ pc' \in [Runs -> {"start", "tag", "look", "stage", "fill", "lstat", "rename", "lost",
                          "validate", "worktree", "origin", "clean", "done", "dead"}]
      /\ pc'[r] = label /\ \A s \in Runs \ {r} : pc'[s] = pc[s]
  BY <1>1 DEF TypeOK
<1>5. \A s \in Runs : pc'[s] \in {"lstat", "rename"} => todo'[s] = {}
  BY <1>1, <1>4 DEF TypeOK
<1>6. TypeOK'
  BY <1>1, <1>2, <1>3, <1>4, <1>5 DEF TypeOK
<1>7. ASSUME NEW s \in Runs PROVE StageOf(s)'
  <2>1. CASE s = r
    <3>1. label \in {"lstat", "rename"} => value'[r] = value[r]
      OBVIOUS
    <3> QED
      BY <1>4, <2>1, <3>1 DEF StageOf
  <2>2. CASE s # r
    BY <1>1, <1>2, <1>4, <2>2 DEF StageOf, StageInv
  <2> QED
    BY <2>1, <2>2
<1>8. ASSUME NEW s \in Runs PROVE MakerOf(s)'
  BY <1>1, <1>4 DEF MakerOf, MakerInv
<1>9. TargetWhole'
  <2>1. \A s \in Runs : target.by = s => value'[s] = value[s]
    BY <1>1, <1>2 DEF MakerInv, MakerOf
  <2> QED
    BY <1>1, <2>1 DEF TargetWhole
<1> QED
  BY <1>6, <1>7, <1>8, <1>9 DEF IInv, StageInv, MakerInv

\* A step that only changes the target, and makes its maker nobody.
LEMMA ForeignStep ==
    ASSUME IInv, target' \in Entry, target'.by = Nobody, changes' \in 0 .. MaxChanges,
           calm' \subseteq Runs,
           UNCHANGED <<stage, running, refs, program>>
    PROVE  IInv'
<1>1. TypeOK'
  BY DEF IInv, TypeOK, running, refs
<1>2. StageInv'
  BY DEF IInv, StageInv, StageOf, running
<1>3. MakerInv' /\ TargetWhole'
  BY StagedAssumption DEF MakerInv, MakerOf, TargetWhole
<1> QED
  BY <1>1, <1>2, <1>3 DEF IInv

-----------------------------------------------------------------------------
(* The steps of the staging.                                               *)

\* What a run does to its own stage, before it has made anything at the target.
LEMMA OwnStage ==
    ASSUME IInv, NEW r \in Runs, NEW e \in Entry, NEW left \in SUBSET Names,
           pc[r] \in {"stage", "fill"}, pc' = [pc EXCEPT ![r] = "fill"],
           stage' = [stage EXCEPT ![r] = e], todo' = [todo EXCEPT ![r] = left],
           e = Dir(r, (Names \ left) \X {value[r]}),
           UNCHANGED <<target, changes, calm, value, result, failed, refs, program>>
    PROVE  IInv'
<1>1. TypeOK /\ StageInv /\ MakerInv /\ TargetWhole
  BY DEF IInv
<1>2. TypeOK'
  BY <1>1 DEF TypeOK, refs
<1>3. ASSUME NEW s \in Runs PROVE StageOf(s)'
  <2>1. CASE s = r
    BY <1>1, <2>1 DEF StageOf, TypeOK
  <2>2. CASE s # r
    BY <1>1, <2>2 DEF StageOf, StageInv, TypeOK
  <2> QED
    BY <2>1, <2>2
<1>4. ASSUME NEW s \in Runs PROVE MakerOf(s)'
  BY <1>1 DEF MakerOf, MakerInv, TypeOK
<1>5. TargetWhole'
  BY <1>1 DEF TargetWhole
<1> QED
  BY <1>2, <1>3, <1>4, <1>5 DEF IInv, StageInv, MakerInv

LEMMA RenameStep ==
    ASSUME IInv, NEW r \in Runs, pc[r] = "rename", Replaceable(target),
           target' = stage[r], stage' = [stage EXCEPT ![r] = NoEntry], End(r, "ok"),
           UNCHANGED <<changes, calm, value, todo, failed, refs, program>>
    PROVE  IInv'
<1>1. TypeOK /\ StageInv /\ MakerInv /\ TargetWhole
  BY DEF IInv
<1>2. stage[r] = Dir(r, Names \X {value[r]}) /\ stage[r] \in Entry
  BY <1>1 DEF StageInv, StageOf, TypeOK
<1>3. Names \X {value[r]} \in SUBSET (Names \X Values)
  BY <1>1 DEF TypeOK
<1>4. target'.by = r /\ target'.kind = "dir" /\ target'.files = Names \X {value[r]}
  BY <1>2, <1>3, EntryFacts
<1>5. /\ pc' = [pc EXCEPT ![r] = "clean"] /\ result' = [result EXCEPT ![r] = "ok"]
  BY DEF End, Goto
<1>6. TypeOK'
  BY <1>1, <1>2, <1>5, EntryFacts DEF TypeOK, refs
<1>7. ASSUME NEW s \in Runs PROVE StageOf(s)'
  <2>1. CASE s = r
    BY <1>1, <1>5, <2>1 DEF StageOf, TypeOK
  <2>2. CASE s # r
    BY <1>1, <1>5, <2>2 DEF StageOf, StageInv, TypeOK
  <2> QED
    BY <2>1, <2>2
<1>8. MakerInv'
  BY <1>1, <1>4, <1>5 DEF MakerInv, MakerOf, TypeOK
<1>9. TargetWhole'
  BY <1>4 DEF TargetWhole
<1> QED
  BY <1>6, <1>7, <1>8, <1>9 DEF IInv, StageInv

LEMMA RemoveStep ==
    ASSUME IInv, NEW r \in Runs, pc[r] = "clean", pc' = [pc EXCEPT ![r] = "done"],
           stage' \in {stage, [stage EXCEPT ![r] = NoEntry]},
           UNCHANGED <<target, changes, calm, value, todo, result, failed, refs, program>>
    PROVE  IInv'
<1>1. TypeOK /\ StageInv /\ MakerInv /\ TargetWhole
  BY DEF IInv
<1>2. TypeOK'
  <2>1. stage' \in [Runs -> Entry]
    BY <1>1, EntryFacts DEF TypeOK
  <2> QED
    BY <1>1, <2>1 DEF TypeOK, refs
<1>3. ASSUME NEW s \in Runs PROVE StageOf(s)'
  <2>1. CASE s = r
    BY <1>1, <2>1 DEF StageOf, TypeOK
  <2>2. CASE s # r
    <3>1. stage'[s] = stage[s] /\ pc'[s] = pc[s]
      BY <1>1, <2>2 DEF TypeOK
    <3> QED
      BY <1>1, <3>1 DEF StageOf, StageInv
  <2> QED
    BY <2>1, <2>2
<1>4. MakerInv' /\ TargetWhole'
  BY <1>1 DEF MakerInv, MakerOf, TargetWhole, TypeOK
<1> QED
  BY <1>2, <1>3, <1>4 DEF IInv, StageInv

LEMMA StagedStepIInv ==
    ASSUME IInv, NEW r \in Runs, StagedStep(r), UNCHANGED <<refs, program>>
    PROVE  IInv'
<1>0. TypeOK /\ StageInv
  BY DEF IInv
<1>1. CASE MakeStage(r)
  <2>1. Dir(r, {}) \in Entry /\ Dir(r, {}) = Dir(r, (Names \ Names) \X {value[r]})
    <3>1. (Names \ Names) \X {value[r]} = {}
      OBVIOUS
    <3> QED
      BY <3>1, EntryFacts
  <2> QED
    BY <1>1, <2>1, OwnStage DEF MakeStage, Goto
<1>2. CASE FillStage(r)
  <2>1. PICK name \in todo[r] :
          /\ stage' = [stage EXCEPT ![r] = Dir(r, @.files \cup {<<name, value[r]>>})]
          /\ todo' = [todo EXCEPT ![r] = @ \ {name}]
    BY <1>2 DEF FillStage
  <2> DEFINE left == todo[r] \ {name}
             more == stage[r].files \cup {<<name, value[r]>>}
  <2>2. pc[r] = "fill" /\ UNCHANGED <<target, changes, calm, pc, value, result, failed>>
    BY <1>2 DEF FillStage
  <2>3. todo[r] \in SUBSET Names /\ value[r] \in Values /\ name \in Names
        /\ left \in SUBSET Names
    BY <1>0, <2>1 DEF TypeOK
  <2>4. stage[r].files = (Names \ todo[r]) \X {value[r]}
    <3>1. stage[r] = Dir(r, (Names \ todo[r]) \X {value[r]})
      BY <1>0, <2>2 DEF StageInv, StageOf
    <3>2. (Names \ todo[r]) \X {value[r]} \in SUBSET (Names \X Values)
      BY <2>3
    <3> QED
      BY <3>1, <3>2, EntryFacts
  <2>5. more = (Names \ left) \X {value[r]}
    BY <2>1, <2>3, <2>4
  <2>6. Dir(r, more) \in Entry
    <3>1. more \in SUBSET (Names \X Values)
      BY <2>3, <2>5
    <3> QED
      BY <3>1, EntryFacts
  <2>7. /\ stage' = [stage EXCEPT ![r] = Dir(r, more)]
        /\ todo' = [todo EXCEPT ![r] = left]
        /\ pc' = [pc EXCEPT ![r] = "fill"]
    BY <1>0, <2>1, <2>2 DEF TypeOK
  <2> HIDE DEF left, more
  <2> QED
    BY <2>2, <2>3, <2>5, <2>6, <2>7, OwnStage
<1>3. CASE FillEnd(r)
  <2>1. pc[r] = "fill" /\ todo[r] = {} /\ pc' = [pc EXCEPT ![r] = "lstat"]
        /\ UNCHANGED <<target, stage, changes, calm, value, todo, result, failed>>
    BY <1>3 DEF FillEnd, Filled, Goto, tree
  <2>2. stage[r] = Dir(r, Names \X {value[r]})
    <3>1. stage[r] = Dir(r, (Names \ todo[r]) \X {value[r]})
      BY <1>0, <2>1 DEF StageInv, StageOf
    <3>2. Names \ todo[r] = Names
      BY <2>1
    <3> QED
      BY <3>1, <3>2
  <2>3. changes' \in 0 .. MaxChanges /\ calm' \subseteq Runs /\ failed' \in [Runs -> BOOLEAN]
        /\ head' \in Values /\ tag' \in Values
    BY <1>0, <2>1 DEF TypeOK, refs
  <2> QED
    BY <2>1, <2>2, <2>3, QuietStep
<1>4. CASE LookBeforeRename(r)
  <2>1. /\ pc[r] = "lstat" /\ \E l \in {"lost", "rename"} : pc' = [pc EXCEPT ![r] = l]
        /\ UNCHANGED <<target, stage, changes, calm, value, todo, result, failed>>
    BY <1>4 DEF LookBeforeRename, Goto, tree
  <2>2. stage[r] = Dir(r, Names \X {value[r]}) /\ todo[r] = {}
    BY <1>0, <2>1 DEF StageInv, StageOf, TypeOK
  <2>3. changes' \in 0 .. MaxChanges /\ calm' \subseteq Runs /\ failed' \in [Runs -> BOOLEAN]
        /\ head' \in Values /\ tag' \in Values
    BY <1>0, <2>1 DEF TypeOK, refs
  <2> QED
    BY <2>1, <2>2, <2>3, QuietStep
<1>5. CASE Rename(r)
  <2>1. CASE Replaceable(target)
    BY <1>5, <2>1, RenameStep DEF Rename
  <2>2. CASE ~Replaceable(target)
    <3>1. /\ pc[r] = "rename" /\ pc' = [pc EXCEPT ![r] = "lost"]
          /\ UNCHANGED <<target, stage, changes, calm, value, todo, result, failed>>
      BY <1>5, <2>2 DEF Rename, Goto
    <3>2. changes' \in 0 .. MaxChanges /\ calm' \subseteq Runs /\ failed' \in [Runs -> BOOLEAN]
          /\ head' \in Values /\ tag' \in Values
      BY <1>0, <3>1 DEF TypeOK, refs
    <3> QED
      BY <3>1, <3>2, QuietStep
  <2> QED
    BY <2>1, <2>2
<1>6. CASE RemoveStage(r)
  BY <1>6, RemoveStep DEF RemoveStage, Goto
<1>7. CASE Fail(r) \/ RenameFails(r) \/ Die(r)
  <2>1. /\ UNCHANGED <<target, stage, changes, calm, value, todo>>
        /\ \E l \in {"clean", "lost", "dead"} :
              /\ pc' = [pc EXCEPT ![r] = l]
              /\ pc[r] \notin {"clean", "done"} \/ l = "dead"
        /\ pc[r] # "dead"
        /\ UNCHANGED result \/ result' = [result EXCEPT ![r] = "error"]
        /\ UNCHANGED failed \/ failed' = [failed EXCEPT ![r] = TRUE]
    BY <1>7 DEF Fail, RenameFails, Die, End, Goto, tree
  <2>2. changes' \in 0 .. MaxChanges /\ calm' \subseteq Runs /\ failed' \in [Runs -> BOOLEAN]
        /\ head' \in Values /\ tag' \in Values
    BY <1>0, <2>1 DEF TypeOK, refs
  <2> QED
    BY <2>1, <2>2, QuietStep
<1> QED
  BY <1>1, <1>2, <1>3, <1>4, <1>5, <1>6, <1>7 DEF StagedStep

-----------------------------------------------------------------------------
LEMMA BuildStepIInv ==
    ASSUME IInv, NEW r \in Runs, BuildStep(r), program' = program
    PROVE  IInv'
<1>0. TypeOK
  BY DEF IInv
<1>1. CASE StagedStep(r) /\ UNCHANGED refs
  BY <1>1, StagedStepIInv
<1>2. CASE ReadHead(r)
  <2>1. /\ pc[r] = "start" /\ pc' = [pc EXCEPT ![r] = "tag"]
        /\ value' = [value EXCEPT ![r] = head] /\ head \in Values
        /\ UNCHANGED <<target, stage, changes, refs, todo, result, failed>>
        /\ calm' = calm \cup {r}
    BY <1>0, <1>2 DEF ReadHead, Begin, Goto, tree, TypeOK
  <2>2. changes' \in 0 .. MaxChanges /\ calm' \subseteq Runs /\ failed' \in [Runs -> BOOLEAN]
        /\ head' \in Values /\ tag' \in Values
    BY <1>0, <2>1 DEF TypeOK, refs
  <2> QED
    BY <2>1, <2>2, QuietStep
<1>3. CASE ReadTag(r) \/ LookForDist(r) \/ PublishFails(r)
  <2>1. /\ UNCHANGED <<target, stage, changes, calm, value, refs, todo, failed>>
        /\ pc[r] \in {"tag", "look", "lost"}
        /\ \E l \in {"look", "stage", "clean"} : pc' = [pc EXCEPT ![r] = l]
        /\ UNCHANGED result \/ result' = [result EXCEPT ![r] = "error"]
    BY <1>3 DEF ReadTag, LookForDist, PublishFails, End, Goto, tree
  <2>2. changes' \in 0 .. MaxChanges /\ calm' \subseteq Runs /\ failed' \in [Runs -> BOOLEAN]
        /\ head' \in Values /\ tag' \in Values
    BY <1>0, <2>1 DEF TypeOK, refs
  <2> QED
    BY <2>1, <2>2, QuietStep
<1> QED
  BY <1>1, <1>2, <1>3 DEF BuildStep

LEMMA CloneStepIInv ==
    ASSUME IInv, NEW r \in Runs, CloneStep(r), UNCHANGED <<refs, program>>
    PROVE  IInv'
<1>0. TypeOK
  BY DEF IInv
<1>1. CASE StagedStep(r)
  BY <1>1, StagedStepIInv
<1>2. CASE LookForClone(r)
  <2>1. /\ pc[r] = "start" /\ \E l \in {"stage", "validate"} : pc' = [pc EXCEPT ![r] = l]
        /\ value' = [value EXCEPT ![r] = Expected]
        /\ UNCHANGED <<target, stage, changes, todo, result, failed>>
        /\ calm' = calm \cup {r}
    BY <1>2 DEF LookForClone, Begin, Goto, tree
  <2>2. changes' \in 0 .. MaxChanges /\ calm' \subseteq Runs /\ failed' \in [Runs -> BOOLEAN]
        /\ head' \in Values /\ tag' \in Values
    BY <1>0, <2>1 DEF TypeOK, refs
  <2> QED
    BY <2>1, <2>2, CloneAssumption, QuietStep
<1>3. CASE LookAgain(r) \/ ValidateDirectory(r) \/ ValidateWorktree(r) \/ ValidateOrigin(r)
  <2>1. /\ UNCHANGED <<target, stage, changes, calm, value, todo, failed>>
        /\ pc[r] \in {"lost", "validate", "worktree", "origin"}
        /\ \E l \in {"validate", "worktree", "origin", "clean"} : pc' = [pc EXCEPT ![r] = l]
        /\ \/ UNCHANGED result
           \/ \E how \in {"ok", "error"} : result' = [result EXCEPT ![r] = how]
    BY <1>3 DEF LookAgain, ValidateDirectory, ValidateWorktree, ValidateOrigin, End, Goto, tree
  <2>2. changes' \in 0 .. MaxChanges /\ calm' \subseteq Runs /\ failed' \in [Runs -> BOOLEAN]
        /\ head' \in Values /\ tag' \in Values
    BY <1>0, <2>1 DEF TypeOK, refs
  <2> QED
    BY <2>1, <2>2, QuietStep
<1> QED
  BY <1>1, <1>2, <1>3 DEF CloneStep

LEMMA StepIInv == IInv /\ [Next]_vars => IInv'
<1> SUFFICES ASSUME IInv, [Next]_vars PROVE IInv'
  OBVIOUS
<1>0. TypeOK
  BY DEF IInv
<1>1. CASE OthersChange /\ UNCHANGED <<refs, program>>
  <2>1. changes' \in 0 .. MaxChanges /\ calm' \subseteq Runs
    BY <1>0, <1>1, StagedAssumption DEF OthersChange, TypeOK
  <2>2. target' \in Entry /\ target'.by = Nobody
    <3>1. CASE target' \in Foreign
      BY <3>1, EntryFacts
    <3>2. CASE target' = NoEntry
      BY <3>2, EntryFacts
    <3>3. ASSUME NEW file \in target.files, target' = Dir(Nobody, target.files \ {file})
          PROVE  target' \in Entry /\ target'.by = Nobody
      <4>1. target.files \ {file} \in SUBSET (Names \X Values)
        BY <1>0, EntryFacts DEF TypeOK, Entry
      <4> QED
        BY <3>3, <4>1, EntryFacts
    <3> QED
      BY <1>1, <3>1, <3>2, <3>3 DEF OthersChange
  <2> QED
    BY <1>1, <2>1, <2>2, ForeignStep DEF OthersChange
<1>2. CASE Building /\ MoveRefs
  <2>1. TypeOK'
    BY <1>0, <1>2, StagedAssumption DEF MoveRefs, Building, TypeOK, running
  <2> QED
    BY <1>2, <2>1 DEF MoveRefs, running, IInv, StageInv, StageOf, MakerInv, MakerOf, TargetWhole
<1>3. ASSUME NEW r \in Runs, Building /\ BuildStep(r) PROVE IInv'
  BY <1>3, BuildStepIInv DEF Building
<1>4. ASSUME NEW r \in Runs, Cloning /\ CloneStep(r) PROVE IInv'
  BY <1>4, CloneStepIInv DEF Cloning
<1>5. CASE UNCHANGED vars
  BY <1>5 DEF vars, staged, tree, running, refs, IInv, TypeOK, StageInv, StageOf, MakerInv,
     MakerOf, TargetWhole
<1> QED
  BY <1>1, <1>2, <1>3, <1>4, <1>5 DEF Next

LEMMA Invariance == Spec => []IInv
BY InitIInv, StepIInv, PTL DEF Spec

-----------------------------------------------------------------------------
\* For any number of runs, files and changes: everything keeps its type, and only what
\* has all its files is renamed.
THEOREM StagingTypes == Spec => []TypeOK
<1>1. IInv => TypeOK
  BY DEF IInv
<1> QED
  BY <1>1, Invariance, PTL

\* However many runs there are and wherever they die, what a run has put at the target is
\* all of its files, of one commit or origin.
THEOREM StagingWhole == Spec => []TargetWhole
<1>1. IInv => TargetWhole
  BY DEF IInv
<1> QED
  BY <1>1, Invariance, PTL

-----------------------------------------------------------------------------
(* What holds while nobody else interferes.                                *)

\* What there is at the target is of a run.
Held == target = NoEntry \/ target.by \in Runs

\* Who has lost the race has lost it to a run; who is satisfied has a target.
AgreesOf(r) ==
    /\ result[r] = "ok" => target.by \in Runs /\ (program = "build" => target.by = r)
    /\ result[r] = "error" /\ ~failed[r] =>
          program = "build" /\ (tag # head \/ target.by \in Runs \ {r})
    /\ pc[r] = "lost" /\ ~failed[r] => target.by \in Runs \ {r}
    /\ pc[r] \in {"validate", "worktree", "origin"} => program = "clone" /\ target.by \in Runs
    /\ pc[r] = "tag" => program = "build" /\ value[r] = head
    /\ pc[r] = "look" => program = "build"
    /\ program = "clone" => value[r] = Expected
    /\ pc[r] \notin {"clean", "done", "dead"} => result[r] = "none"

AgreeInv == changes = 0 => Held /\ \A r \in Runs : AgreesOf(r)

\* What a run has made is not replaced, since it is not empty.
LEMMA MadeStays ==
    ASSUME IInv, target.by \in Runs
    PROVE  target # NoEntry /\ target.kind = "dir" /\ target.files # {} /\ ~Replaceable(target)
<1>1. target.kind = "dir" /\ target.files = Names \X {value[target.by]}
  BY DEF IInv, TargetWhole
<1>2. PICK n \in Names : TRUE
  BY StagedAssumption
<1>3. <<n, value[target.by]>> \in target.files
  BY <1>1, <1>2
<1> QED
  BY <1>1, <1>3, EntryFacts DEF Replaceable

\* The steps of a run that leave the target alone.
LEMMA QuietAgree ==
    ASSUME IInv, AgreeInv, NEW r \in Runs, changes = 0,
           UNCHANGED <<target, refs, program>>,
           AgreesOf(r)',
           \A s \in Runs \ {r} :
              /\ pc'[s] = pc[s] /\ result'[s] = result[s] /\ failed'[s] = failed[s]
              /\ value'[s] = value[s]
    PROVE  AgreeInv'
<1>1. Held'
  BY DEF AgreeInv, Held
<1>2. ASSUME NEW s \in Runs \ {r} PROVE AgreesOf(s)'
  BY <1>2 DEF AgreeInv, AgreesOf, refs
<1> QED
  BY <1>1, <1>2 DEF AgreeInv

LEMMA StagedStepAgree ==
    ASSUME IInv, AgreeInv, NEW r \in Runs, StagedStep(r), UNCHANGED <<refs, program>>
    PROVE  AgreeInv'
<1>0. TypeOK /\ MakerInv
  BY DEF IInv
<1>1. changes' = changes
  BY DEF StagedStep, MakeStage, FillStage, FillEnd, LookBeforeRename, Rename, RemoveStage, Fail,
     RenameFails, Die, tree
<1>2. SUFFICES ASSUME changes = 0 PROVE AgreeInv'
  BY <1>1 DEF AgreeInv
<1>3. Held /\ \A s \in Runs : AgreesOf(s)
  BY <1>2 DEF AgreeInv
<1>4. CASE MakeStage(r) \/ FillStage(r) \/ FillEnd(r) \/ RemoveStage(r) \/ Die(r)
  <2>1. /\ UNCHANGED <<target, value, result, failed>>
        /\ \/ UNCHANGED pc
           \/ \E l \in {"fill", "lstat"} :
                 pc' = [pc EXCEPT ![r] = l] /\ pc[r] \in {"stage", "fill"}
           \/ \E l \in {"done", "dead"} : pc' = [pc EXCEPT ![r] = l]
    BY <1>4 DEF MakeStage, FillStage, FillEnd, RemoveStage, Die, Goto, tree
  <2>2. AgreesOf(r)'
    BY <1>0, <1>3, <2>1 DEF AgreesOf, TypeOK, refs
  <2> QED
    BY <1>0, <1>2, <2>1, <2>2, QuietAgree DEF TypeOK
<1>5. CASE LookBeforeRename(r)
  <2>1. /\ UNCHANGED <<target, value, result, failed>> /\ pc[r] = "lstat"
        /\ pc' = [pc EXCEPT ![r] = IF target.kind = "dir" THEN "lost" ELSE "rename"]
    BY <1>5 DEF LookBeforeRename, Goto, tree
  <2>2. target.kind = "dir" => target.by \in Runs \ {r}
    BY <1>0, <1>3, <2>1, EntryFacts DEF Held, MakerInv, MakerOf
  <2>3. AgreesOf(r)'
    BY <1>0, <1>3, <2>1, <2>2 DEF AgreesOf, TypeOK, refs
  <2> QED
    BY <1>0, <1>2, <2>1, <2>3, QuietAgree DEF TypeOK
<1>6. CASE Rename(r)
  <2>1. pc[r] = "rename" /\ UNCHANGED <<value, failed>> /\ result[r] = "none"
    BY <1>3, <1>6 DEF Rename, AgreesOf
  <2>2. CASE Replaceable(target)
    <3>1. /\ target' = stage[r] /\ result' = [result EXCEPT ![r] = "ok"]
          /\ pc' = [pc EXCEPT ![r] = "clean"]
      BY <1>6, <2>2 DEF Rename, End, Goto
    <3>2. target'.by = r
      <4>1. stage[r] = Dir(r, Names \X {value[r]})
        BY <2>1 DEF IInv, StageInv, StageOf
      <4>2. Names \X {value[r]} \in SUBSET (Names \X Values)
        BY <1>0 DEF TypeOK
      <4> QED
        BY <3>1, <4>1, <4>2, EntryFacts
    <3>3. target.by \notin Runs
      BY <2>2, MadeStays
    <3>4. ASSUME NEW s \in Runs PROVE AgreesOf(s)'
      <4>1. CASE s = r
        BY <1>0, <1>3, <2>1, <3>1, <3>2, <4>1 DEF AgreesOf, TypeOK, refs
      <4>2. CASE s # r
        BY <1>0, <1>3, <2>1, <3>1, <3>2, <3>3, <4>2 DEF AgreesOf, TypeOK, refs
      <4> QED
        BY <4>1, <4>2
    <3> QED
      BY <3>2, <3>4 DEF AgreeInv, Held
  <2>3. CASE ~Replaceable(target)
    <3>1. pc' = [pc EXCEPT ![r] = "lost"] /\ UNCHANGED <<target, result>>
      BY <1>6, <2>3 DEF Rename, Goto
    <3>2. target.by \in Runs \ {r}
      BY <1>0, <1>3, <2>1, <2>3, EntryFacts DEF Held, Replaceable, MakerInv, MakerOf
    <3>3. AgreesOf(r)'
      BY <1>0, <1>3, <2>1, <3>1, <3>2 DEF AgreesOf, TypeOK, refs
    <3> QED
      BY <1>0, <1>2, <2>1, <3>1, <3>3, QuietAgree DEF TypeOK
  <2> QED
    BY <2>2, <2>3
<1>7. CASE Fail(r) \/ RenameFails(r)
  <2>1. /\ UNCHANGED <<target, value>> /\ failed' = [failed EXCEPT ![r] = TRUE]
        /\ pc[r] \notin {"clean", "done", "dead"}
        /\ \/ pc' = [pc EXCEPT ![r] = "clean"] /\ result' = [result EXCEPT ![r] = "error"]
           \/ pc' = [pc EXCEPT ![r] = "lost"] /\ UNCHANGED result
    BY <1>7 DEF Fail, RenameFails, End, Goto, tree
  <2>2. AgreesOf(r)'
    BY <1>0, <1>3, <2>1 DEF AgreesOf, TypeOK, refs
  <2> QED
    BY <1>0, <1>2, <2>1, <2>2, QuietAgree DEF TypeOK
<1> QED
  BY <1>4, <1>5, <1>6, <1>7 DEF StagedStep

LEMMA StepAgree == IInv /\ AgreeInv /\ [Next]_vars => AgreeInv'
<1> SUFFICES ASSUME IInv, AgreeInv, [Next]_vars PROVE AgreeInv'
  OBVIOUS
<1>0. TypeOK /\ MakerInv
  BY DEF IInv
<1>1. CASE OthersChange \/ MoveRefs
  <2>1. changes' = changes + 1 /\ changes \in Nat
    BY <1>0, <1>1 DEF OthersChange, MoveRefs, TypeOK
  <2> QED
    BY <2>1 DEF AgreeInv
<1>2. ASSUME NEW r \in Runs, Building /\ BuildStep(r) PROVE AgreeInv'
  <2>1. CASE StagedStep(r) /\ UNCHANGED refs
    BY <1>2, <2>1, StagedStepAgree DEF Building
  <2>2. CASE ReadHead(r) \/ ReadTag(r) \/ LookForDist(r) \/ PublishFails(r)
    <3>1. UNCHANGED <<target, changes, refs, program, failed>> /\ program = "build"
      BY <1>2, <2>2 DEF Building, Begin, ReadHead, ReadTag, LookForDist, PublishFails, tree
    <3>2. SUFFICES ASSUME changes = 0 PROVE AgreeInv'
      BY <3>1 DEF AgreeInv
    <3>3. Held /\ AgreesOf(r)
      BY <3>2 DEF AgreeInv
    <3>4. target.by = r => pc[r] \in {"clean", "done", "dead"}
      BY <1>0 DEF MakerInv, MakerOf
    <3>5. CASE ReadHead(r)
      <4>1. /\ pc' = [pc EXCEPT ![r] = "tag"] /\ value' = [value EXCEPT ![r] = head]
            /\ UNCHANGED result /\ pc[r] = "start"
        BY <3>5 DEF ReadHead, Goto
      <4>2. AgreesOf(r)'
        BY <1>0, <3>1, <3>3, <4>1 DEF AgreesOf, TypeOK, refs
      <4> QED
        BY <1>0, <3>1, <3>2, <4>1, <4>2, QuietAgree DEF TypeOK
    <3>6. CASE ReadTag(r)
      <4>1. /\ UNCHANGED value /\ pc[r] = "tag"
            /\ \/ pc' = [pc EXCEPT ![r] = "look"] /\ UNCHANGED result
               \/ /\ pc' = [pc EXCEPT ![r] = "clean"] /\ tag # value[r]
                  /\ result' = [result EXCEPT ![r] = "error"]
        BY <3>6 DEF ReadTag, End, Goto
      <4>2. AgreesOf(r)'
        BY <1>0, <3>1, <3>3, <4>1 DEF AgreesOf, TypeOK, refs
      <4> QED
        BY <1>0, <3>1, <3>2, <4>1, <4>2, QuietAgree DEF TypeOK
    <3>7. CASE LookForDist(r)
      <4>1. /\ UNCHANGED value /\ pc[r] = "look"
            /\ \/ pc' = [pc EXCEPT ![r] = "stage"] /\ UNCHANGED result
               \/ /\ pc' = [pc EXCEPT ![r] = "clean"] /\ target # NoEntry
                  /\ result' = [result EXCEPT ![r] = "error"]
        BY <3>7 DEF LookForDist, End, Goto
      <4>2. target # NoEntry => target.by \in Runs \ {r}
        BY <3>3, <3>4, <4>1 DEF Held
      <4>3. AgreesOf(r)'
        BY <1>0, <3>1, <3>3, <4>1, <4>2 DEF AgreesOf, TypeOK, refs
      <4> QED
        BY <1>0, <3>1, <3>2, <4>1, <4>3, QuietAgree DEF TypeOK
    <3>8. CASE PublishFails(r)
      <4>1. /\ UNCHANGED value /\ pc[r] = "lost" /\ pc' = [pc EXCEPT ![r] = "clean"]
            /\ result' = [result EXCEPT ![r] = "error"]
        BY <3>8 DEF PublishFails, End, Goto
      <4>2. AgreesOf(r)'
        BY <1>0, <3>1, <3>3, <4>1 DEF AgreesOf, TypeOK, refs
      <4> QED
        BY <1>0, <3>1, <3>2, <4>1, <4>2, QuietAgree DEF TypeOK
    <3> QED
      BY <2>2, <3>5, <3>6, <3>7, <3>8
  <2> QED
    BY <1>2, <2>1, <2>2 DEF BuildStep
<1>3. ASSUME NEW r \in Runs, Cloning /\ CloneStep(r) PROVE AgreeInv'
  <2>1. CASE StagedStep(r)
    BY <1>3, <2>1, StagedStepAgree DEF Cloning
  <2>2. CASE LookForClone(r) \/ LookAgain(r) \/ ValidateDirectory(r) \/ ValidateWorktree(r)
             \/ ValidateOrigin(r)
    <3>1. UNCHANGED <<target, changes, refs, program, failed>> /\ program = "clone"
      BY <1>3, <2>2 DEF Cloning, LookForClone, LookAgain, ValidateDirectory, ValidateWorktree,
         ValidateOrigin, Begin, tree
    <3>2. SUFFICES ASSUME changes = 0 PROVE AgreeInv'
      BY <3>1 DEF AgreeInv
    <3>3. Held /\ AgreesOf(r) /\ \A s \in Runs : value[s] = Expected
      BY <3>1, <3>2 DEF AgreeInv, AgreesOf
    <3>4. CASE LookForClone(r)
      <4>1. /\ value' = [value EXCEPT ![r] = Expected] /\ UNCHANGED result /\ pc[r] = "start"
            /\ \/ pc' = [pc EXCEPT ![r] = "stage"]
               \/ pc' = [pc EXCEPT ![r] = "validate"] /\ target # NoEntry
        BY <3>4 DEF LookForClone, Goto
      <4>2. AgreesOf(r)'
        BY <1>0, <3>1, <3>3, <4>1 DEF AgreesOf, TypeOK, refs, Held
      <4> QED
        BY <1>0, <3>1, <3>2, <4>1, <4>2, QuietAgree DEF TypeOK
    <3>5. CASE LookAgain(r)
      <4>1. /\ UNCHANGED value /\ pc[r] = "lost"
            /\ \/ /\ pc' = [pc EXCEPT ![r] = "clean"] /\ target = NoEntry
                  /\ result' = [result EXCEPT ![r] = "error"]
               \/ /\ pc' = [pc EXCEPT ![r] = "validate"] /\ target # NoEntry
                  /\ UNCHANGED result
        BY <3>5 DEF LookAgain, End, Goto
      <4>2. target = NoEntry => failed[r]
        BY <3>3, <4>1, EntryFacts, StagedAssumption DEF AgreesOf
      <4>3. AgreesOf(r)'
        BY <1>0, <3>1, <3>3, <4>1, <4>2 DEF AgreesOf, TypeOK, refs, Held
      <4> QED
        BY <1>0, <3>1, <3>2, <4>1, <4>3, QuietAgree DEF TypeOK
    <3>6. CASE ValidateDirectory(r) \/ ValidateWorktree(r) \/ ValidateOrigin(r)
      <4>1. target.by \in Runs
        BY <3>3, <3>6 DEF ValidateDirectory, ValidateWorktree, ValidateOrigin, AgreesOf
      <4>2. target.kind = "dir" /\ <<Config, Expected>> \in target.files
        BY <3>3, <4>1, CloneAssumption DEF IInv, TargetWhole
      <4>2a. Config \in {file[1] : file \in target.files}
        <5>1. <<Config, Expected>>[1] = Config
          OBVIOUS
        <5> QED
          BY <4>2, <5>1, Zenon
      <4>3. /\ UNCHANGED value /\ pc[r] \in {"validate", "worktree", "origin"}
            /\ \/ \E l \in {"worktree", "origin"} :
                      pc' = [pc EXCEPT ![r] = l] /\ UNCHANGED result
               \/ pc' = [pc EXCEPT ![r] = "clean"] /\ result' = [result EXCEPT ![r] = "ok"]
        BY <3>6, <4>2, <4>2a DEF ValidateDirectory, ValidateWorktree, ValidateOrigin, End, Goto
      <4>4. AgreesOf(r)'
        BY <1>0, <3>1, <3>3, <4>1, <4>3 DEF AgreesOf, TypeOK, refs
      <4> QED
        BY <1>0, <3>1, <3>2, <4>3, <4>4, QuietAgree DEF TypeOK
    <3> QED
      BY <2>2, <3>4, <3>5, <3>6
  <2> QED
    BY <1>3, <2>1, <2>2 DEF CloneStep
<1>4. CASE UNCHANGED vars
  BY <1>4 DEF vars, staged, tree, running, refs, AgreeInv, Held, AgreesOf
<1> QED
  BY <1>1, <1>2, <1>3, <1>4 DEF Next

LEMMA InitAgree == Init => AgreeInv
<1> SUFFICES ASSUME Init PROVE AgreeInv
  OBVIOUS
<1>1. Held
  BY DEF Init, StagedInit, Held
<1>2. ASSUME NEW r \in Runs PROVE AgreesOf(r)
  BY DEF Init, StagedInit, AgreesOf
<1> QED
  BY <1>1, <1>2 DEF AgreeInv

\* If nobody else interferes, any number of runs agree on what is at the target, and no
\* run fails because of another or of what a dead one has left, but for a second build.
THEOREM StagingAgrees == Spec => []RunsAgree
<1>1. IInv /\ AgreeInv => RunsAgree
  <2> SUFFICES ASSUME IInv, AgreeInv, changes = 0
               PROVE  /\ \A r \in Runs : result[r] = "ok" =>
                            /\ target.kind = "dir" /\ target.by \in Runs
                            /\ program = "build" => target.by = r
                      /\ \A r \in Runs : result[r] = "error" /\ ~failed[r] =>
                            program = "build" /\ (tag # head \/ target.by \in Runs \ {r})
    BY DEF RunsAgree
  <2>1. \A r \in Runs : AgreesOf(r)
    BY DEF AgreeInv
  <2>2. target.by \in Runs => target.kind = "dir"
    BY MadeStays
  <2> QED
    BY <2>1, <2>2 DEF AgreesOf
<1>2. Spec => []AgreeInv
  <2>1. IInv /\ AgreeInv /\ [Next]_vars => AgreeInv'
    BY StepAgree
  <2> QED
    BY <2>1, InitAgree, Invariance, PTL DEF Spec
<1> QED
  BY <1>1, <1>2, Invariance, PTL

-----------------------------------------------------------------------------
(* What a run reports while others leave it in peace.                      *)

\* What a run that nobody has disturbed knows of the refs and of the target.
Knows(r) ==
    /\ pc[r] # "start"
    /\ program = "build" => value[r] = head
    /\ program = "clone" => value[r] = Expected
    /\ program = "build" /\ pc[r] \notin {"tag", "clean", "done", "dead"} => tag = head
    /\ pc[r] \in {"tag", "look"} => program = "build"
    /\ pc[r] \in {"validate", "worktree", "origin"} => program = "clone"
    /\ pc[r] = "lost" /\ ~failed[r] => target # NoEntry
    /\ pc[r] \in {"worktree", "origin"} => target.kind = "dir"

Told(r) ==
    /\ result[r] = "ok" =>
          IF program = "clone" THEN Cloned(target)
          ELSE target = Dir(r, Names \X {head}) /\ tag = head
    /\ result[r] = "error" /\ ~failed[r] =>
          IF program = "clone" THEN ~Cloned(target) \/ target.by \in Runs \ {r}
          ELSE tag # head \/ (target # NoEntry /\ target.by # r)

ReportOf(r) ==
    /\ pc[r] \notin {"clean", "done", "dead"} => result[r] = "none"
    /\ r \in calm => Knows(r) /\ Told(r)

ReportInv == \A r \in Runs : ReportOf(r)

\* The other runs, when a run leaves the target alone.
LEMMA OthersKnow ==
    ASSUME ReportInv, NEW r \in Runs, UNCHANGED <<target, refs, program>>, ReportOf(r)',
           calm' \subseteq calm \cup {r},
           \A s \in Runs \ {r} :
              /\ pc'[s] = pc[s] /\ result'[s] = result[s] /\ failed'[s] = failed[s]
              /\ value'[s] = value[s]
    PROVE  ReportInv'
<1>1. ASSUME NEW s \in Runs \ {r} PROVE ReportOf(s)'
  <2>1. ReportOf(s) /\ (s \in calm' => s \in calm)
    BY DEF ReportInv
  <2>2. /\ pc'[s] = pc[s] /\ result'[s] = result[s] /\ failed'[s] = failed[s]
        /\ value'[s] = value[s] /\ target' = target /\ head' = head /\ tag' = tag
        /\ program' = program
    BY DEF refs
  <2>3. Cloned(target)' <=> Cloned(target)
    BY <2>2 DEF Cloned
  <2> QED
    BY <2>1, <2>2, <2>3 DEF ReportOf, Knows, Told
<1> QED
  BY <1>1 DEF ReportInv

\* What a run puts at the target, another run's clone included, is a clone.
LEMMA MadeIsCloned ==
    ASSUME NEW r \in Runs, IInv
    PROVE  /\ \A v \in Values : LET d == Dir(r, Names \X {v}) IN
                 /\ d.by = r /\ d.kind = "dir" /\ d # NoEntry /\ ~Replaceable(d)
           /\ Cloned(Dir(r, Names \X {Expected}))
           /\ Cloned(target) => ~Replaceable(target)
<1>1. ASSUME NEW v \in Values
      PROVE  /\ Dir(r, Names \X {v}).by = r /\ Dir(r, Names \X {v}).kind = "dir"
             /\ Dir(r, Names \X {v}).files = Names \X {v}
  <2>1. Names \X {v} \in SUBSET (Names \X Values)
    OBVIOUS
  <2> QED
    BY <2>1, EntryFacts
<1>2. ASSUME NEW v \in Values
      PROVE  LET d == Dir(r, Names \X {v}) IN
             /\ d.by = r /\ d.kind = "dir" /\ d # NoEntry /\ ~Replaceable(d)
  <2>1. PICK n \in Names : TRUE
    BY StagedAssumption
  <2>2. <<n, v>> \in Names \X {v}
    BY <2>1
  <2>3. Names \X {v} # {}
    BY <2>2
  <2> HIDE DEF Dir
  <2> QED
    BY <1>1, <2>3, EntryFacts DEF Replaceable
<1>3. Cloned(Dir(r, Names \X {Expected}))
  BY <1>1, CloneAssumption DEF Cloned
<1>4. Cloned(target) => ~Replaceable(target)
  BY DEF Cloned, Replaceable
<1> QED
  BY <1>2, <1>3, <1>4

LEMMA StagedStepReport ==
    ASSUME IInv, ReportInv, NEW r \in Runs, StagedStep(r), UNCHANGED <<refs, program>>
    PROVE  ReportInv'
<1>0. TypeOK /\ MakerOf(r) /\ ReportOf(r) /\ head' = head /\ tag' = tag /\ program' = program
  BY DEF IInv, MakerInv, ReportInv, refs
<1>1. CASE MakeStage(r) \/ FillStage(r) \/ FillEnd(r) \/ RemoveStage(r) \/ Die(r)
  <2>1. /\ UNCHANGED <<target, calm, value, result, failed>>
        /\ \/ UNCHANGED pc
           \/ \E l \in {"fill", "lstat"} :
                 pc' = [pc EXCEPT ![r] = l] /\ pc[r] \in {"stage", "fill"}
           \/ \E l \in {"done", "dead"} : pc' = [pc EXCEPT ![r] = l]
    BY <1>1 DEF MakeStage, FillStage, FillEnd, RemoveStage, Die, Goto, tree
  <2>2. Cloned(target)' <=> Cloned(target)
    BY <2>1 DEF Cloned
  <2>3. ReportOf(r)'
    BY <1>0, <2>1, <2>2 DEF ReportOf, Knows, Told, TypeOK
  <2> QED
    BY <1>0, <2>1, <2>3, OthersKnow DEF TypeOK
<1>2. CASE LookBeforeRename(r)
  <2>1. /\ UNCHANGED <<target, calm, value, result, failed>> /\ pc[r] = "lstat"
        /\ pc' = [pc EXCEPT ![r] = IF target.kind = "dir" THEN "lost" ELSE "rename"]
    BY <1>2 DEF LookBeforeRename, Goto, tree
  <2>2. (Cloned(target)' <=> Cloned(target)) /\ (target.kind = "dir" => target # NoEntry)
    BY <2>1, EntryFacts DEF Cloned
  <2>3. ReportOf(r)'
    BY <1>0, <2>1, <2>2 DEF ReportOf, Knows, Told, TypeOK
  <2> QED
    BY <1>0, <2>1, <2>3, OthersKnow DEF TypeOK
<1>3. CASE Rename(r)
  <2>1. /\ pc[r] = "rename" /\ UNCHANGED <<calm, value, failed>> /\ result[r] = "none"
        /\ value[r] \in Values
    BY <1>0, <1>3 DEF Rename, ReportOf, TypeOK
  <2>2. CASE Replaceable(target)
    <3>1. /\ target' = stage[r] /\ result' = [result EXCEPT ![r] = "ok"]
          /\ pc' = [pc EXCEPT ![r] = "clean"]
      BY <1>3, <2>2 DEF Rename, End, Goto
    <3>2. target' = Dir(r, Names \X {value[r]})
      BY <2>1, <3>1 DEF IInv, StageInv, StageOf
    <3>3. target'.by = r /\ target'.kind = "dir" /\ target' # NoEntry
      BY <2>1, <3>2, MadeIsCloned
    <3>4. ReportOf(r)'
      <4>1. r \in calm /\ program = "clone" => Cloned(target)'
        <5>1. r \in calm /\ program = "clone" => target' = Dir(r, Names \X {Expected})
          BY <1>0, <3>2 DEF ReportOf, Knows
        <5> QED
          BY <5>1, MadeIsCloned DEF Cloned
      <4>2. r \in calm /\ program # "clone" => tag = head /\ value[r] = head
        BY <1>0, <2>1 DEF ReportOf, Knows, TypeOK
      <4>3. r \in calm => Told(r)'
        BY <1>0, <3>1, <3>2, <4>1, <4>2 DEF Told, TypeOK
      <4>4. r \in calm => Knows(r)'
        BY <1>0, <2>1, <3>1 DEF Knows, ReportOf, TypeOK
      <4> QED
        BY <1>0, <2>1, <3>1, <4>3, <4>4 DEF ReportOf, TypeOK
    <3>5. ASSUME NEW s \in Runs \ {r} PROVE ReportOf(s)'
      <4>1. /\ pc'[s] = pc[s] /\ result'[s] = result[s] /\ failed'[s] = failed[s]
            /\ value'[s] = value[s] /\ head' = head /\ tag' = tag /\ program' = program
            /\ calm' = calm /\ ReportOf(s)
        BY <1>0, <2>1, <3>1 DEF TypeOK, ReportInv
      <4>2. ~Cloned(target) /\ (head \in Values => target # Dir(s, Names \X {head}))
        BY <2>2, MadeIsCloned
      <4>3. head \in Values
        BY <1>0 DEF TypeOK
      <4>4. s \in calm => Told(s)'
        BY <3>3, <4>1, <4>2, <4>3 DEF ReportOf, Told
      <4>5. s \in calm => Knows(s)'
        BY <3>3, <4>1 DEF ReportOf, Knows
      <4> QED
        BY <4>1, <4>4, <4>5 DEF ReportOf
    <3> QED
      BY <3>4, <3>5 DEF ReportInv
  <2>3. CASE ~Replaceable(target)
    <3>1. pc' = [pc EXCEPT ![r] = "lost"] /\ UNCHANGED <<target, result>>
      BY <1>3, <2>3 DEF Rename, Goto
    <3>2. target # NoEntry /\ (Cloned(target)' <=> Cloned(target))
      BY <2>3, <3>1, EntryFacts DEF Replaceable, Cloned
    <3>3. ReportOf(r)'
      BY <1>0, <2>1, <3>1, <3>2 DEF ReportOf, Knows, Told, TypeOK
    <3> QED
      BY <1>0, <2>1, <3>1, <3>3, OthersKnow DEF TypeOK
  <2> QED
    BY <2>2, <2>3
<1>4. CASE Fail(r) \/ RenameFails(r)
  <2>1. /\ UNCHANGED <<target, calm, value>> /\ failed' = [failed EXCEPT ![r] = TRUE]
        /\ pc[r] \notin {"clean", "done", "dead"}
        /\ \/ pc' = [pc EXCEPT ![r] = "clean"] /\ result' = [result EXCEPT ![r] = "error"]
           \/ pc' = [pc EXCEPT ![r] = "lost"] /\ UNCHANGED result /\ pc[r] = "rename"
    BY <1>4 DEF Fail, RenameFails, End, Goto, tree
  <2>2. ReportOf(r)'
    BY <1>0, <2>1 DEF ReportOf, Knows, Told, TypeOK
  <2> QED
    BY <1>0, <2>1, <2>2, OthersKnow DEF TypeOK
<1> QED
  BY <1>1, <1>2, <1>3, <1>4 DEF StagedStep

LEMMA BuildStepReport ==
    ASSUME IInv, ReportInv, NEW r \in Runs, Building, BuildStep(r)
    PROVE  ReportInv'
<1>0. TypeOK /\ MakerOf(r) /\ ReportOf(r) /\ program = "build" /\ program' = program
  BY DEF IInv, MakerInv, ReportInv, Building
<1>1. CASE StagedStep(r) /\ UNCHANGED refs
  BY <1>0, <1>1, StagedStepReport
<1>2. CASE ReadHead(r)
  <2>1. /\ pc[r] = "start" /\ pc' = [pc EXCEPT ![r] = "tag"]
        /\ value' = [value EXCEPT ![r] = head] /\ calm' = calm \cup {r}
        /\ UNCHANGED <<target, refs, result, failed>>
    BY <1>2 DEF ReadHead, Begin, Goto
  <2>2. ReportOf(r)'
    BY <1>0, <2>1 DEF ReportOf, Knows, Told, TypeOK, refs
  <2> QED
    BY <1>0, <2>1, <2>2, OthersKnow DEF TypeOK
<1>3. CASE ReadTag(r) \/ LookForDist(r) \/ PublishFails(r)
  <2>1. /\ UNCHANGED <<target, refs, calm, value, failed>>
        /\ \/ pc[r] = "tag" /\ tag = value[r] /\ pc' = [pc EXCEPT ![r] = "look"] /\ result' = result
           \/ pc[r] = "look" /\ pc' = [pc EXCEPT ![r] = "stage"] /\ result' = result
           \/ /\ \/ pc[r] = "tag" /\ tag # value[r]
                 \/ pc[r] = "look" /\ target # NoEntry
                 \/ pc[r] = "lost"
              /\ pc' = [pc EXCEPT ![r] = "clean"] /\ result' = [result EXCEPT ![r] = "error"]
    BY <1>3 DEF ReadTag, LookForDist, PublishFails, End, Goto, tree
  <2>2. pc[r] \in {"look", "lost"} => target.by # r
    BY <1>0 DEF MakerOf
  <2>3. Knows(r)' \/ r \notin calm'
    BY <1>0, <2>1 DEF ReportOf, Knows, TypeOK, refs
  <2>4. Told(r)' \/ r \notin calm'
    BY <1>0, <2>1, <2>2 DEF ReportOf, Knows, Told, TypeOK, refs
  <2>5. ReportOf(r)'
    BY <1>0, <2>1, <2>3, <2>4 DEF ReportOf, TypeOK
  <2> QED
    BY <1>0, <2>1, <2>5, OthersKnow DEF TypeOK
<1> QED
  BY <1>1, <1>2, <1>3 DEF BuildStep

LEMMA CloneStepReport ==
    ASSUME IInv, ReportInv, NEW r \in Runs, Cloning, CloneStep(r)
    PROVE  ReportInv'
<1>0. /\ TypeOK /\ ReportOf(r) /\ program = "clone" /\ program' = program
      /\ UNCHANGED refs
  BY DEF IInv, ReportInv, Cloning
<1>1. CASE StagedStep(r)
  BY <1>0, <1>1, StagedStepReport
<1>2. CASE LookForClone(r)
  <2>1. /\ pc[r] = "start" /\ \E l \in {"stage", "validate"} : pc' = [pc EXCEPT ![r] = l]
        /\ value' = [value EXCEPT ![r] = Expected] /\ calm' = calm \cup {r}
        /\ UNCHANGED <<target, result, failed>>
    BY <1>2 DEF LookForClone, Begin, Goto
  <2>2. ReportOf(r)'
    BY <1>0, <2>1 DEF ReportOf, Knows, Told, TypeOK, refs
  <2> QED
    BY <1>0, <2>1, <2>2, OthersKnow DEF TypeOK
<1>3. CASE LookAgain(r) \/ ValidateDirectory(r) \/ ValidateWorktree(r) \/ ValidateOrigin(r)
  <2>1. UNCHANGED <<target, calm, value, failed>>
    BY <1>3 DEF LookAgain, ValidateDirectory, ValidateWorktree, ValidateOrigin, tree
  <2>2. \/ pc[r] = "lost" /\ pc' = [pc EXCEPT ![r] = "validate"] /\ result' = result
        \/ /\ pc[r] = "lost" /\ target = NoEntry
           /\ pc' = [pc EXCEPT ![r] = "clean"] /\ result' = [result EXCEPT ![r] = "error"]
        \/ /\ pc[r] \in {"validate", "worktree"} /\ target.kind = "dir" /\ result' = result
           /\ \E l \in {"worktree", "origin"} : pc' = [pc EXCEPT ![r] = l]
        \/ /\ pc[r] \in {"validate", "worktree", "origin"} /\ ~Cloned(target)
           /\ pc' = [pc EXCEPT ![r] = "clean"] /\ result' = [result EXCEPT ![r] = "error"]
        \/ /\ pc[r] = "origin" /\ <<Config, Expected>> \in target.files
           /\ pc' = [pc EXCEPT ![r] = "clean"] /\ result' = [result EXCEPT ![r] = "ok"]
    <3>1. Config \notin {file[1] : file \in target.files} => ~Cloned(target)
      <4>1. <<Config, Expected>>[1] = Config
        OBVIOUS
      <4> QED
        BY <4>1, Zenon DEF Cloned
    <3>2. CASE LookAgain(r)
      BY <3>2 DEF LookAgain, End, Goto
    <3>3. CASE ValidateDirectory(r)
      BY <3>3 DEF ValidateDirectory, End, Goto, Cloned
    <3>4. CASE ValidateWorktree(r)
      BY <3>1, <3>4 DEF ValidateWorktree, End, Goto
    <3>5. CASE ValidateOrigin(r)
      BY <3>5 DEF ValidateOrigin, End, Goto, Cloned
    <3> QED
      BY <1>3, <3>2, <3>3, <3>4, <3>5
  <2>3. Cloned(target)' <=> Cloned(target)
    BY <2>1 DEF Cloned
  <2>4. pc[r] = "origin" /\ <<Config, Expected>> \in target.files /\ r \in calm => Cloned(target)
    BY <1>0 DEF ReportOf, Knows, Cloned
  <2>5. ReportOf(r)'
    BY <1>0, <2>1, <2>2, <2>3, <2>4 DEF ReportOf, Knows, Told, TypeOK, refs
  <2> QED
    BY <1>0, <2>1, <2>2, <2>5, OthersKnow DEF TypeOK
<1> QED
  BY <1>1, <1>2, <1>3 DEF CloneStep

LEMMA StepReport == IInv /\ ReportInv /\ [Next]_vars => ReportInv'
<1> SUFFICES ASSUME IInv, ReportInv, [Next]_vars PROVE ReportInv'
  OBVIOUS
<1>1. CASE (OthersChange /\ UNCHANGED <<refs, program>>) \/ (Building /\ MoveRefs)
  <2>1. calm' = {} /\ UNCHANGED <<pc, result>>
    BY <1>1 DEF OthersChange, MoveRefs, running
  <2> QED
    BY <2>1 DEF ReportInv, ReportOf
<1>2. ASSUME NEW r \in Runs, Building /\ BuildStep(r) PROVE ReportInv'
  BY <1>2, BuildStepReport
<1>3. ASSUME NEW r \in Runs, Cloning /\ CloneStep(r) PROVE ReportInv'
  BY <1>3, CloneStepReport
<1>4. CASE UNCHANGED vars
  BY <1>4 DEF vars, staged, tree, running, refs, ReportInv, ReportOf, Knows, Told, Cloned
<1> QED
  BY <1>1, <1>2, <1>3, <1>4 DEF Next

\* For any number of runs, whatever others did before a run begins: what it reports at
\* its end is so, and no other run makes it untrue; only what others do can.
THEOREM StagingReports == Spec => []ReportHolds
<1>1. Init => ReportInv
  BY DEF Init, StagedInit, ReportInv, ReportOf
<1>2. ReportInv /\ TypeOK => ReportHolds
  BY DEF ReportInv, ReportOf, Told, ReportHolds, TypeOK
<1> QED
  BY <1>1, <1>2, StepReport, Invariance, StagingTypes, PTL DEF Spec
=============================================================================
