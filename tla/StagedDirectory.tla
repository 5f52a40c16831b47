--------------------------- MODULE StagedDirectory ---------------------------
(***************************************************************************)
(* How a program makes a directory that others see whole or not at all: it *)
(* fills a directory of a fresh name beside the target and renames it.     *)
(* Go's os.Rename looks at the target before it calls rename(2): it        *)
(* refuses a directory, and rename(2) a file or a directory that is not    *)
(* empty; a directory that is empty by then is replaced.                   *)
(*                                                                         *)
(* Several runs of the program, at once or one after the other, have the   *)
(* same target; a run that dies leaves its stage behind.                   *)
(***************************************************************************)
EXTENDS Integers, FiniteSets

CONSTANTS
    Runs,
    Names,      \* the files of the directory
    Values,     \* what they hold
    Nobody,     \* the maker of what no run made
    MaxChanges  \* bound: changes of the target by others

ASSUME StagedAssumption == Nobody \notin Runs /\ Names # {} /\ MaxChanges \in Nat

NoEntry == [kind |-> "none", by |-> Nobody, files |-> {}]
Dir(by, files) == [kind |-> "dir", by |-> by, files |-> files]
Entry   == {NoEntry} \cup
           [kind : {"file", "dir"}, by : Runs \cup {Nobody}, files : SUBSET (Names \X Values)]

VARIABLES
    target,   \* what is at the path of the target
    stage,    \* of every run, what is at its fresh name
    pc,
    value,    \* what a run fills its files with
    todo,     \* the files a run has yet to write
    result,   \* how a run ends: "none" so far, "ok", "error"
    failed,   \* history: an operation of the run itself failed
    changes,
    calm      \* history: the runs that others have not interfered with since they began

tree    == <<target, stage, changes, calm>>
running == <<pc, value, todo, result, failed>>
staged  == <<tree, running>>

StagedInit ==
    /\ target = NoEntry /\ stage = [r \in Runs |-> NoEntry] /\ changes = 0 /\ calm = {}
    /\ pc = [r \in Runs |-> "start"] /\ value \in [Runs -> Values]
    /\ todo = [r \in Runs |-> {}] /\ result = [r \in Runs |-> "none"]
    /\ failed = [r \in Runs |-> FALSE]

Goto(r, label) == pc' = [pc EXCEPT ![r] = label]

\* The first thing a run looks at.
Begin(r) == calm' = calm \cup {r} /\ UNCHANGED <<target, stage, changes>>

\* The deferred removal of the stage comes last.
End(r, how) == Goto(r, "clean") /\ result' = [result EXCEPT ![r] = how]

\* Others put something at the target: nothing in it, anything else, a file of theirs;
\* or they remove it, at once or file by file.
Foreign == {[kind |-> "file", by |-> Nobody, files |-> {}], Dir(Nobody, {})}
             \cup {Dir(Nobody, {<<n, v>>}) : n \in Names, v \in Values}
OthersChange ==
    /\ changes < MaxChanges /\ changes' = changes + 1 /\ calm' = {}
    /\ \/ target = NoEntry /\ target' \in Foreign
       \/ target # NoEntry /\ target' = NoEntry
       \/ \E file \in target.files : target' = Dir(Nobody, target.files \ {file})
    /\ UNCHANGED <<stage, running>>

\* Mutant: the stages have one name, and what is there is taken over.
MakeStageAgain(r) ==
    /\ pc[r] = "stage"
    /\ stage' = [stage EXCEPT ![r] = Dir(r, UNION {stage[q].files : q \in Runs})]
    /\ todo' = [todo EXCEPT ![r] = Names]
    /\ Goto(r, "fill")
    /\ UNCHANGED <<target, changes, calm, value, result, failed>>
\* os.MkdirTemp: a name that is not in use, nor was.
MakeStage(r) ==
    /\ pc[r] = "stage"
    /\ stage' = [stage EXCEPT ![r] = Dir(r, {})]
    /\ todo' = [todo EXCEPT ![r] = Names]
    /\ Goto(r, "fill")
    /\ UNCHANGED <<target, changes, calm, value, result, failed>>

FillStage(r) ==
    /\ pc[r] = "fill"
    /\ \E name \in todo[r] :
          /\ stage' = [stage EXCEPT ![r] = Dir(r, @.files \cup {<<name, value[r]>>})]
          /\ todo' = [todo EXCEPT ![r] = @ \ {name}]
    /\ UNCHANGED <<target, changes, calm, pc, value, result, failed>>

\* Mutant: a file that is missing is not noticed.
FilledFirst(r) == Cardinality(todo[r]) < Cardinality(Names)
Filled(r) == todo[r] = {}

FillEnd(r) ==
    /\ pc[r] = "fill" /\ Filled(r)
    /\ Goto(r, "lstat")
    /\ UNCHANGED <<tree, value, todo, result, failed>>

\* os.Rename looks at the target itself.
LookBeforeRename(r) ==
    /\ pc[r] = "lstat"
    /\ Goto(r, IF target.kind = "dir" THEN "lost" ELSE "rename")
    /\ UNCHANGED <<tree, value, todo, result, failed>>

Replaceable(entry) == entry.kind = "none" \/ (entry.kind = "dir" /\ entry.files = {})

Rename(r) ==
    /\ pc[r] = "rename"
    /\ IF Replaceable(target)
       THEN target' = stage[r] /\ stage' = [stage EXCEPT ![r] = NoEntry] /\ End(r, "ok")
       ELSE Goto(r, "lost") /\ UNCHANGED <<target, stage, result>>
    /\ UNCHANGED <<changes, calm, value, todo, failed>>

\* os.RemoveAll; an error of it is ignored, and the stage stays.
RemoveStage(r) ==
    /\ pc[r] = "clean"
    /\ stage' \in {stage, [stage EXCEPT ![r] = NoEntry]}
    /\ Goto(r, "done")
    /\ UNCHANGED <<target, changes, calm, value, todo, result, failed>>

\* A system call, Git or the go command fails; or the process is killed.
Fail(r) ==
    /\ pc[r] \notin {"rename", "clean", "done", "dead"}
    /\ End(r, "error") /\ failed' = [failed EXCEPT ![r] = TRUE]
    /\ UNCHANGED <<tree, value, todo>>

RenameFails(r) ==
    /\ pc[r] = "rename"
    /\ Goto(r, "lost") /\ failed' = [failed EXCEPT ![r] = TRUE]
    /\ UNCHANGED <<tree, value, todo, result>>

Die(r) ==
    /\ pc[r] \notin {"start", "done", "dead"}
    /\ Goto(r, "dead")
    /\ UNCHANGED <<tree, value, todo, result, failed>>

StagedStep(r) ==
    \/ MakeStage(r) \/ FillStage(r) \/ FillEnd(r) \/ LookBeforeRename(r) \/ Rename(r)
    \/ RemoveStage(r) \/ Fail(r) \/ RenameFails(r) \/ Die(r)
=============================================================================
