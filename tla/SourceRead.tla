----------------------------- MODULE SourceRead -----------------------------
(***************************************************************************)
(* Reading a source by its path: the directories on the path are opened    *)
(* one after the other below the verified root, each compared with what    *)
(* was seen at its name; the file is read piece by piece; and then its     *)
(* path is followed a second time to see that the file is still there and  *)
(* has not been written to.  A file is read for its lines or copied into a *)
(* snapshot directory, where the copies share a budget of bytes.           *)
(***************************************************************************)
EXTENDS FileTree

CONSTANTS
    Path,     \* the path to read
    Limits    \* how many pieces may be read: a file's limit, or what is left of the budget

ASSUME SourceReadAssumption == Path \in Seq(Names) /\ Path # <<>> /\ Limits \subseteq Nat

VARIABLES
    op,        \* "lines" or "copy"
    limit,     \* what may be read
    remaining, \* the budget of the copies; limit is what there was of it before this one
    pc,
    again,     \* the path is followed for the second time
    at,        \* the directory that is open
    depth,     \* how far the path has been followed
    before,    \* what Lstat saw at the name that is to be opened
    opened,    \* the file: [inode, size, time] when it was opened
    finished,  \* ... and when everything was read: [size, time]
    text,      \* what has been read
    \* History.
    named,     \* what has been at the name since Lstat saw it
    held,      \* the contents of the file since it was opened
    first,     \* the files that had the path before the file was open
    last,      \* the files that have had the path since everything was read
    steady,    \* the directories on the path have stayed the same
    quiet      \* ... and so has the file

inputs  == <<op, limit>>
reader  == <<remaining, pc, again, at, depth, before, opened, finished, text>>
history == <<named, held, first, last, steady, quiet>>
vars    == <<tree, inputs, reader, history>>

NotOpen == [inode |-> None, size |-> 0, time |-> 0]

Directories == [k \in 0 .. Len(Path) - 1 |-> Named(SubSeq(Path, 1, k))]
HeldOpen    == {at, opened.inode}

\* History: what can be said of the state that a step leads to.
Observe ==
    /\ steady' = (steady /\ Directories' = Directories)
    /\ named' = IF pc' # "open" THEN {}
                ELSE (IF pc = "open" THEN named ELSE {}) \cup {entry'[at'][Path[depth']]}
    /\ quiet' = (quiet /\ steady' /\ UNCHANGED <<Named(Path), content>>)
    /\ held' = IF opened'.inode = None THEN {} ELSE held \cup {content'[opened'.inode]}
    /\ first' = IF opened'.inode = None THEN first \cup {Named(Path)'} ELSE first
    /\ last' = IF again' THEN last \cup {Named(Path)'} ELSE {}

Init ==
    /\ TreeInit
    /\ op \in {"lines", "copy"} /\ limit \in Limits /\ remaining = limit
    /\ pc = "root" /\ again = FALSE /\ at = None /\ depth = 1 /\ before = None
    /\ opened = NotOpen /\ finished = [size |-> 0, time |-> 0] /\ text = <<>>
    /\ named = {} /\ held = {} /\ first = {Named(Path)} /\ last = {} /\ steady = TRUE /\ quiet = TRUE

Running == pc \notin {"done", "error", "failed", "rootChanged", "large"}

Others ==
    /\ Running /\ Change(HeldOpen)
    /\ UNCHANGED <<inputs, reader>> /\ Observe

Goto(label) == pc' = label

Step(action) == Running /\ action /\ UNCHANGED <<tree, inputs>> /\ Observe

\* openVerifiedRoot.
OpenVerifiedRoot ==
    /\ pc = "root"
    /\ IF rootAt # TheRoot THEN Goto("rootChanged") /\ UNCHANGED <<at, depth>>
       ELSE Goto("lstat") /\ at' = rootAt /\ depth' = 1
    /\ UNCHANGED <<remaining, again, before, opened, finished, text>>

\* Mutant: off by one, the last name is taken for a directory too.
WantedLast == IF depth <= Len(Path) THEN "dir" ELSE "file"
Wanted == IF depth < Len(Path) THEN "dir" ELSE "file"

\* Lstat does not follow a link, and a link is refused.
Lstat ==
    /\ pc = "lstat"
    /\ before' = entry[at][Path[depth]]
    /\ IF before' # None /\ kind[before'] = Wanted THEN Goto("open") ELSE Goto("error")
    /\ UNCHANGED <<remaining, again, at, depth, opened, finished, text>>

\* Mutant: what is opened is not compared with what was seen.
SameFileAlways(i) == TRUE
SameFile(i) == i = before

\* OpenRoot and Stat of a directory on the path.  (The name may lead through a link by now.)
OpenDirectory ==
    /\ pc = "open" /\ Wanted = "dir"
    /\ \/ \E i \in Opening(at, Path[depth]) :
             /\ kind[i] = "dir" /\ SameFile(i)
             /\ Goto("lstat") /\ at' = i /\ depth' = depth + 1
       \/ /\ \/ Opening(at, Path[depth]) = {}
             \/ \E i \in Opening(at, Path[depth]) : kind[i] # "dir" \/ ~SameFile(i)
          /\ Goto("error") /\ UNCHANGED <<at, depth>>
    /\ UNCHANGED <<remaining, again, before, opened, finished, text>>

\* Mutant: the time of the file is not compared.
UnchangedBySize(i) == i = opened.inode /\ finished.size = opened.size
\* Mutant: the file is not looked up again.
UnchangedByHandle(i) == finished.size = opened.size /\ finished.time = opened.time
\* verifyRelativeRegularFileUnchanged.
Unchanged(i) == i = opened.inode /\ finished.size = opened.size /\ finished.time = opened.time

\* OpenFile and Stat of the file, which is refused when it is too large; the second time,
\* the two are compared.
OpenFile ==
    /\ pc = "open" /\ Wanted = "file"
    /\ \/ \E i \in Opening(at, Path[depth]) :
             /\ kind[i] = "file" /\ SameFile(i)
             /\ IF again
                THEN Goto(IF Unchanged(i) THEN "done" ELSE "error") /\ UNCHANGED opened
                ELSE /\ Goto(IF Len(content[i]) > limit THEN "large" ELSE "read")
                     /\ opened' = [inode |-> i, size |-> Len(content[i]), time |-> time[i]]
       \/ /\ \/ Opening(at, Path[depth]) = {}
             \/ \E i \in Opening(at, Path[depth]) : kind[i] # "file" \/ ~SameFile(i)
          /\ Goto("error") /\ UNCHANGED opened
    /\ at' = None
    /\ UNCHANGED <<remaining, again, depth, before, finished, text>>

\* There is more to be read; one piece beyond the limit shows that there is too much.
More == Len(text) < Len(content[opened.inode]) /\ Len(text) <= limit

\* Mutant: reaching the limit is taken for exceeding it.
TooMuchAtLimit == op = "copy" /\ Len(text) >= limit
TooMuch == op = "copy" /\ Len(text) > limit

\* The reader goes on until there is nothing more.  What was copied is taken off the
\* budget before the file is looked at again.
ReadPiece ==
    /\ pc = "read"
    /\ \/ /\ More
          /\ text' = Append(text, content[opened.inode][Len(text) + 1])
          /\ UNCHANGED <<pc, remaining>>
       \/ /\ ~More
          /\ Goto(IF TooMuch THEN "large" ELSE "stat")
          /\ remaining' = IF op = "copy" /\ ~TooMuch THEN remaining - Len(text) ELSE remaining
          /\ UNCHANGED text
    /\ UNCHANGED <<again, at, depth, before, opened, finished>>

StatAgain ==
    /\ pc = "stat"
    /\ finished' = [size |-> Len(content[opened.inode]), time |-> time[opened.inode]]
    /\ again' = TRUE /\ Goto("root")
    /\ UNCHANGED <<remaining, at, depth, before, opened, text>>

\* A system call fails, a line is too long, or the context is cancelled.
Fail ==
    /\ Goto("failed")
    /\ UNCHANGED <<remaining, again, at, depth, before, opened, finished, text>>

Next ==
    \/ Others
    \/ Step(OpenVerifiedRoot) \/ Step(Lstat) \/ Step(OpenDirectory) \/ Step(OpenFile)
    \/ Step(ReadPiece) \/ Step(StatAgain) \/ Step(Fail)

Spec == Init /\ [][Next]_vars

-----------------------------------------------------------------------------
(* Properties.                                                             *)

TypeOK ==
    /\ TreeTypeOK
    /\ op \in {"lines", "copy"} /\ limit \in Nat /\ remaining \in 0 .. limit
    /\ pc \in {"root", "lstat", "open", "read", "stat", "done", "error", "failed",
              "rootChanged", "large"}
    /\ again \in BOOLEAN /\ at \in Inodes \cup {None} /\ depth \in 1 .. Len(Path)
    /\ before \in Inodes \cup {None}
    /\ opened \in [inode : Inodes \cup {None}, size : Nat, time : Nat]
    /\ finished \in [size : Nat, time : Nat]
    /\ text \in Seq(Values)

\* No torn read: what is returned is what the file held at one moment after it was
\* opened, however often it is written to.
ReadIsSnapshot == pc = "done" => text \in held

\* Whatever is put at a name between looking at it and opening it, links included: only
\* a directory is entered, and only a file opened, that has had the name itself since.
NeverThroughLink ==
    [][/\ pc = "open" /\ at' \notin {at, None} => at' \in named
       /\ opened' # opened => opened'.inode \in named]_vars

\* If the directories on the path are left alone, the file that was read had the path,
\* without any link, before it was opened and again after it was read.  And if what it
\* names is left alone too, the read is not refused unless there is no such file, and it
\* gets all of it.
ReadAtPath == pc = "done" /\ steady => opened.inode \in first \cap last
IsFile == Named(Path) # None /\ kind[Named(Path)] = "file"
QuietRead ==
    quiet =>
        /\ pc = "error" => ~IsFile
        /\ pc = "done" => IsFile /\ text = content[Named(Path)]
ReadOfPath == ReadAtPath /\ QuietRead

\* A file may grow while it is read: no more is returned than may be read, a file is
\* refused for its size only if it did hold too much, and what a copy takes off the
\* budget is what it copied, whether the copy can be used or not.
LimitKept ==
    /\ pc = "done" => Len(text) <= limit
    /\ pc = "large" => \E c \in held : Len(c) > limit
    /\ op = "copy" /\ again => remaining = limit - Len(text)
    /\ op = "lines" \/ pc = "large" => remaining = limit
=============================================================================
