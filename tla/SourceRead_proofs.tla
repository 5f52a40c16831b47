-------------------------- MODULE SourceRead_proofs --------------------------
(***************************************************************************)
(* What a read returns was in the file at one moment, no link is followed, *)
(* and what is read is what the path names when nobody moves it: for every *)
(* tree, path and number of changes by others.                             *)
(***************************************************************************)
EXTENDS SourceRead, SequenceTheorems, WellFoundedInduction, TLAPS

USE DEF None, TheRoot

LEMMA ContentsAreSequences == ASSUME NEW c \in Contents PROVE c \in Seq(Values)
BY FileTreeAssumption DEF Contents

LEMMA TreeInitOK == TreeInit => TreeTypeOK
BY FileTreeAssumption DEF TreeInit, TreeTypeOK

-----------------------------------------------------------------------------
(* The other processes.                                                    *)

LEMMA RenameOK ==
    ASSUME TreeTypeOK, NEW d \in Inodes, NEW e \in Inodes, NEW n \in Names, NEW m \in Names,
           Rename(d, n, e, m)
    PROVE  entry' \in [Inodes -> [Names -> Inodes \cup {None}]]
           /\ UNCHANGED <<rootAt, kind, content, time>>
<1> DEFINE i == entry[d][n]
           E1 == [entry EXCEPT ![d][n] = None]
<1>1. i \in Inodes \cup {None} BY DEF TreeTypeOK
<1>2. E1 \in [Inodes -> [Names -> Inodes \cup {None}]] BY DEF TreeTypeOK
<1>3. entry' = [E1 EXCEPT ![e][m] = i] BY DEF Rename
<1>4. [E1 EXCEPT ![e][m] = i] \in [Inodes -> [Names -> Inodes \cup {None}]]
  <2> HIDE DEF E1, i
  <2> QED BY <1>1, <1>2
<1> QED BY <1>3, <1>4 DEF Rename

LEMMA CreateOK ==
    ASSUME TreeTypeOK, NEW d \in Inodes, NEW n \in Names, NEW i \in Inodes, NEW kept,
           NEW k \in {"dir", "file", "link"}, Create(d, n, i, k, kept),
           changes' \in 0 .. MaxChanges
    PROVE  /\ TreeTypeOK'
           /\ i \notin kept
           /\ \A j \in Inodes \ {i} : content'[j] = content[j] /\ time'[j] = time[j]
<1>1. entry' \in [Inodes -> [Names -> Inodes \cup {None}]] BY DEF Create, TreeTypeOK
<1>2. kind' \in [Inodes -> {"dir", "file", "link"}] BY DEF Create, TreeTypeOK
<1>3. <<>> \in Contents
  <2>1. 0 \in 0 .. MaxSize BY FileTreeAssumption
  <2>2. <<>> \in [1 .. 0 -> Values] OBVIOUS
  <2> QED BY <2>1, <2>2 DEF Contents
<1>4. content' \in [Inodes -> Contents] BY <1>3 DEF Create, TreeTypeOK
<1>5. time' \in [Inodes -> Nat] BY DEF Create, TreeTypeOK
<1>6. rootAt' \in Inodes BY DEF Create, TreeTypeOK
<1>7. i \notin kept BY DEF Create
<1>8. \A j \in Inodes \ {i} : content'[j] = content[j] /\ time'[j] = time[j]
  BY DEF Create, TreeTypeOK
<1> QED BY <1>1, <1>2, <1>4, <1>5, <1>6, <1>7, <1>8 DEF TreeTypeOK

LEMMA WriteOK ==
    ASSUME TreeTypeOK, NEW i \in Inodes, NEW new \in Contents, WriteFile(i, new)
    PROVE  /\ content' \in [Inodes -> Contents] /\ time' \in [Inodes -> Nat]
           /\ UNCHANGED <<rootAt, entry, kind>>
           /\ time'[i] = time[i] + 1
           /\ \A j \in Inodes \ {i} : content'[j] = content[j] /\ time'[j] = time[j]
<1>1. content' = [content EXCEPT ![i] = new] /\ time' = [time EXCEPT ![i] = @ + 1]
  BY DEF WriteFile
<1> QED BY <1>1 DEF WriteFile, TreeTypeOK

\* What others do keeps the types; and a file that is held open keeps its content as long
\* as it keeps its time.
LEMMA ChangeOK ==
    ASSUME TreeTypeOK, NEW kept, Change(kept)
    PROVE  /\ TreeTypeOK'
           /\ \A i \in Inodes \cap kept :
                 /\ time'[i] >= time[i]
                 /\ time'[i] = time[i] => content'[i] = content[i]
<1>1. changes' \in 0 .. MaxChanges BY FileTreeAssumption DEF Change, TreeTypeOK
<1>2. \A i \in Inodes : time[i] \in Nat BY DEF TreeTypeOK
<1>3. CASE \E d, e \in Inodes, n, m \in Names : Rename(d, n, e, m)
  <2>1. PICK d \in Inodes, e \in Inodes, n \in Names, m \in Names : Rename(d, n, e, m) BY <1>3
  <2> QED BY <1>1, <1>2, <2>1, RenameOK DEF TreeTypeOK
<1>4. CASE \E d \in Inodes, n \in Names : Unlink(d, n)
  <2>1. PICK d \in Inodes, n \in Names : Unlink(d, n) BY <1>4
  <2>2. entry' \in [Inodes -> [Names -> Inodes \cup {None}]] BY <2>1 DEF Unlink, TreeTypeOK
  <2> QED BY <1>1, <1>2, <2>1, <2>2 DEF Unlink, TreeTypeOK
<1>5. CASE \E d, i \in Inodes, n \in Names, k \in {"dir", "file", "link"} : Create(d, n, i, k, kept)
  <2>1. PICK d \in Inodes, i \in Inodes, n \in Names, k \in {"dir", "file", "link"} :
            Create(d, n, i, k, kept) BY <1>5
  <2>2. TreeTypeOK' /\ i \notin kept
        /\ \A j \in Inodes \ {i} : content'[j] = content[j] /\ time'[j] = time[j]
    BY <1>1, <2>1, CreateOK
  <2> QED BY <1>2, <2>2
<1>6. CASE \E i \in Inodes, new \in Contents : WriteFile(i, new)
  <2>1. PICK i \in Inodes, new \in Contents : WriteFile(i, new) BY <1>6
  <2>2. /\ content' \in [Inodes -> Contents] /\ time' \in [Inodes -> Nat]
        /\ UNCHANGED <<rootAt, entry, kind>>
        /\ time'[i] = time[i] + 1
        /\ \A j \in Inodes \ {i} : content'[j] = content[j] /\ time'[j] = time[j]
    BY <2>1, WriteOK
  <2>3. TreeTypeOK' BY <1>1, <2>2 DEF TreeTypeOK
  <2>4. ASSUME NEW j \in Inodes
        PROVE  time'[j] >= time[j] /\ (time'[j] = time[j] => content'[j] = content[j])
    <3>1. CASE j = i BY <1>2, <2>2, <3>1
    <3>2. CASE j # i BY <1>2, <2>2, <3>2
    <3> QED BY <3>1, <3>2
  <2> QED BY <2>3, <2>4
<1>7. CASE \E i \in Inodes : ReplaceRoot(i)
  <2>1. PICK i \in Inodes : ReplaceRoot(i) BY <1>7
  <2> QED BY <1>1, <1>2, <2>1 DEF ReplaceRoot, TreeTypeOK
<1> QED BY <1>3, <1>4, <1>5, <1>6, <1>7 DEF Change

-----------------------------------------------------------------------------
(* The reader.                                                             *)

\* What is open is open when it is needed.
OpenOK ==
    /\ pc \in {"lstat", "open"} => at # None
    /\ pc \in {"read", "stat"} \/ again => opened.inode # None
    /\ ~again /\ pc \in {"root", "lstat", "open"} => opened.inode = None /\ text = <<>>
    /\ pc \in {"read", "stat"} => ~again
    /\ pc = "open" => before \in named
    /\ pc = "done" => again

\* As long as the file keeps the time it had when it was opened, what has been read of it
\* is the beginning of what it holds.
TextOK ==
    opened.inode # None =>
        /\ content[opened.inode] \in held
        /\ time[opened.inode] >= opened.time
        /\ time[opened.inode] = opened.time =>
              /\ pc = "read" =>
                    /\ Len(text) <= Len(content[opened.inode])
                    /\ \A k \in 1 .. Len(text) : text[k] = content[opened.inode][k]
              /\ pc = "stat" => text = content[opened.inode]
              /\ pc \in {"read", "stat"} => Len(content[opened.inode]) <= limit

\* A file that has the same time when everything is read held what was read.
FinishedOK ==
    /\ again => (finished.time = opened.time => text \in held /\ Len(text) <= limit)
    /\ pc = "done" => finished.time = opened.time

\* Where the budget stands; and the file did hold what is too much.
LimitOK ==
    /\ ~again /\ pc \notin {"stat", "failed"} => remaining = limit
    /\ op = "lines" => remaining = limit
    /\ op = "copy" /\ (again \/ pc = "stat") => remaining = limit - Len(text)
    /\ pc = "read" /\ text # <<>> => \E c \in held : Len(c) >= Len(text)
    /\ pc = "large" => ~again /\ \E c \in held : Len(c) > limit

ReadInv == TypeOK /\ OpenOK /\ TextOK /\ FinishedOK /\ LimitOK

LEMMA NothingRead == <<>> \in Contents /\ <<>> \in Seq(Values)
BY FileTreeAssumption DEF Contents

LEMMA NameOK == TypeOK => Path[depth] \in Names /\ Len(Path) \in Nat /\ depth \in Nat
BY SourceReadAssumption DEF TypeOK

LEMMA ReadInitOK == Init => ReadInv
<1> SUFFICES ASSUME Init PROVE ReadInv OBVIOUS
<1>1. TreeTypeOK BY TreeInitOK DEF Init
<1>2. Len(Path) \in Nat /\ Len(Path) >= 1 BY SourceReadAssumption
<1>3. NotOpen \in [inode : Inodes \cup {None}, size : Nat, time : Nat] BY DEF NotOpen
<1>4. TypeOK
  <2>1. finished \in [size : Nat, time : Nat] BY DEF Init
  <2>2. opened \in [inode : Inodes \cup {None}, size : Nat, time : Nat] BY <1>3 DEF Init
  <2>3. text \in Seq(Values) BY NothingRead DEF Init
  <2>4. depth \in 1 .. Len(Path) BY <1>2 DEF Init
  <2>5. limit \in Nat /\ remaining \in 0 .. limit BY SourceReadAssumption DEF Init
  <2> QED BY <1>1, <2>1, <2>2, <2>3, <2>4, <2>5 DEF Init, TypeOK
<1>5. opened.inode = None BY DEF Init, NotOpen
<1>6. OpenOK BY <1>5 DEF Init, OpenOK
<1>7. TextOK BY <1>5 DEF TextOK
<1>8. FinishedOK BY DEF Init, FinishedOK
<1>9. LimitOK BY DEF Init, LimitOK
<1> QED BY <1>4, <1>6, <1>7, <1>8, <1>9 DEF ReadInv

LEMMA OthersOK == ReadInv /\ Others => ReadInv'
<1> SUFFICES ASSUME ReadInv, Others PROVE ReadInv' OBVIOUS
<1> USE DEF ReadInv
<1>1. UNCHANGED <<inputs, reader>> /\ Observe /\ Change(HeldOpen) /\ pc # "large" BY DEF Others, Running
<1>2. /\ TreeTypeOK'
      /\ \A i \in Inodes \cap HeldOpen :
            time'[i] >= time[i] /\ (time'[i] = time[i] => content'[i] = content[i])
  BY <1>1, ChangeOK DEF TypeOK
<1> USE DEF inputs
<1>3. TypeOK' BY <1>1, <1>2 DEF reader, TypeOK
<1>4. OpenOK'
  <2>1. pc = "open" => named' = named \cup {entry'[at'][Path[depth']]} BY <1>1 DEF Observe, reader
  <2> QED BY <1>1, <2>1 DEF reader, OpenOK
<1>5. opened.inode # None => held' = held \cup {content'[opened.inode]} BY <1>1 DEF Observe, reader
<1>6. TextOK'
  <2> SUFFICES ASSUME opened.inode # None PROVE TextOK' BY <1>1 DEF TextOK, reader
  <2>1. opened.inode \in Inodes \cap HeldOpen BY DEF HeldOpen, TypeOK
  <2>2. time'[opened.inode] >= time[opened.inode]
        /\ (time'[opened.inode] = time[opened.inode] => content'[opened.inode] = content[opened.inode])
    BY <1>2, <2>1
  <2>3. time[opened.inode] \in Nat /\ time'[opened.inode] \in Nat /\ opened.time \in Nat
    BY <1>2, <2>1 DEF TypeOK, TreeTypeOK
  <2>4. time'[opened.inode] = opened.time => time[opened.inode] = opened.time
    BY <2>2, <2>3 DEF TextOK
  <2>5. time'[opened.inode] >= opened.time BY <2>2, <2>3 DEF TextOK
  <2> QED BY <1>1, <1>5, <2>2, <2>4, <2>5 DEF TextOK, reader
<1>7. FinishedOK'
  <2>1. again => held \subseteq held' BY <1>5 DEF OpenOK
  <2> QED BY <1>1, <2>1 DEF FinishedOK, reader
<1>8. LimitOK'
  <2>1. pc = "read" => held \subseteq held' BY <1>5 DEF OpenOK
  <2> QED BY <1>1, <2>1 DEF LimitOK, reader
<1> QED BY <1>3, <1>4, <1>6, <1>7, <1>8

\* A step of the reader that leaves the file and the text alone, and does not get past
\* reading, keeps what is known of the text.
LEMMA TextKept ==
    ASSUME ReadInv, UNCHANGED <<tree, inputs>>, Observe,
           UNCHANGED <<remaining, opened, text, finished, again>>,
           pc' \notin {"read", "stat", "large"}, pc' = "done" => finished.time = opened.time,
           pc \notin {"stat", "failed"} \/ pc' = "failed"
    PROVE  TextOK' /\ FinishedOK' /\ LimitOK'
<1> USE DEF ReadInv, tree, inputs
<1>1. opened.inode # None => held' = held \cup {content[opened.inode]} BY DEF Observe
<1>2. again => opened.inode # None BY DEF OpenOK
<1>3. TextOK' /\ FinishedOK' BY <1>1, <1>2 DEF TextOK, FinishedOK
<1>4. LimitOK' BY DEF LimitOK
<1> QED BY <1>3, <1>4

LEMMA RootOK == ReadInv /\ Step(OpenVerifiedRoot) => ReadInv'
<1> SUFFICES ASSUME ReadInv, Step(OpenVerifiedRoot) PROVE ReadInv' OBVIOUS
<1> USE DEF ReadInv
<1>1. OpenVerifiedRoot /\ UNCHANGED <<tree, inputs>> /\ Observe BY DEF Step
<1>2. Len(Path) \in Nat /\ Len(Path) >= 1 BY SourceReadAssumption
<1>3. TypeOK'
  <2>1. /\ UNCHANGED <<remaining, again, before, opened, finished, text>>
        /\ pc' \in {"rootChanged", "lstat"} /\ at' \in {at, rootAt} /\ depth' \in {depth, 1}
    BY <1>1 DEF OpenVerifiedRoot, Goto
  <2>2. at' \in Inodes \cup {None} /\ depth' \in 1 .. Len(Path)
    BY <1>2, <2>1, NameOK DEF TypeOK, TreeTypeOK
  <2>3. TreeTypeOK' BY <1>1 DEF TypeOK, TreeTypeOK, tree
  <2>4. UNCHANGED <<op, limit>> BY <1>1 DEF inputs
  <2> QED BY <2>1, <2>2, <2>3, <2>4 DEF TypeOK
<1>4. OpenOK' BY <1>1 DEF OpenVerifiedRoot, Goto, OpenOK
<1>5. TextOK' /\ FinishedOK' /\ LimitOK'
  <2>1. /\ UNCHANGED <<remaining, opened, text, finished, again>>
        /\ pc' \in {"rootChanged", "lstat"} /\ pc = "root"
    BY <1>1 DEF OpenVerifiedRoot, Goto
  <2> QED BY <1>1, <2>1, TextKept
<1> QED BY <1>3, <1>4, <1>5

LEMMA LstatOK == ReadInv /\ Step(Lstat) => ReadInv'
<1> SUFFICES ASSUME ReadInv, Step(Lstat) PROVE ReadInv' OBVIOUS
<1> USE DEF ReadInv
<1>1. Lstat /\ UNCHANGED <<tree, inputs>> /\ Observe BY DEF Step
<1>2. at \in Inodes BY <1>1 DEF Lstat, OpenOK, TypeOK
<1>3. before' \in Inodes \cup {None} BY <1>1, <1>2, NameOK DEF Lstat, TypeOK, TreeTypeOK
<1>4. TypeOK' BY <1>1, <1>3 DEF Lstat, Goto, TypeOK, TreeTypeOK, tree, inputs
<1>5. OpenOK'
  <2>1. pc' = "open" => named' = {before'} BY <1>1 DEF Lstat, Observe, tree
  <2> QED BY <1>1, <2>1 DEF Lstat, Goto, OpenOK
<1>6. TextOK' /\ FinishedOK' /\ LimitOK'
  <2>1. /\ UNCHANGED <<remaining, opened, text, finished, again>>
        /\ pc' \in {"open", "error"} /\ pc = "lstat"
    BY <1>1 DEF Lstat, Goto
  <2> QED BY <1>1, <2>1, TextKept
<1> QED BY <1>4, <1>5, <1>6

LEMMA DirectoryOK == ReadInv /\ Step(OpenDirectory) => ReadInv'
<1> SUFFICES ASSUME ReadInv, Step(OpenDirectory) PROVE ReadInv' OBVIOUS
<1> USE DEF ReadInv
<1>1. OpenDirectory /\ UNCHANGED <<tree, inputs>> /\ Observe BY DEF Step
<1>2. depth < Len(Path) BY <1>1 DEF OpenDirectory, Wanted
<1>3. /\ UNCHANGED <<remaining, again, before, opened, finished, text>> /\ pc = "open"
      /\ \/ pc' = "lstat" /\ at' = before /\ before \in Inodes /\ depth' = depth + 1
         \/ pc' = "error" /\ UNCHANGED <<at, depth>>
  <2>1. Opening(at, Path[depth]) \subseteq Inodes
    <3>1. at \in Inodes BY <1>1 DEF OpenDirectory, OpenOK, TypeOK
    <3>2. entry[at][Path[depth]] \in Inodes \cup {None} BY <3>1, NameOK DEF TypeOK, TreeTypeOK
    <3> QED BY <3>2 DEF Opening, Linked
  <2> QED BY <1>1, <2>1 DEF OpenDirectory, SameFile, Goto
<1>4. TypeOK'
  <2>1. at' \in Inodes \cup {None} /\ depth' \in 1 .. Len(Path)
    BY <1>2, <1>3, NameOK DEF TypeOK
  <2>2. TreeTypeOK' BY <1>1 DEF TypeOK, TreeTypeOK, tree
  <2>3. UNCHANGED <<op, limit>> BY <1>1 DEF inputs
  <2> QED BY <1>3, <2>1, <2>2, <2>3 DEF TypeOK
<1>5. OpenOK' BY <1>1, <1>3, FileTreeAssumption DEF OpenDirectory, OpenOK
<1>6. TextOK' /\ FinishedOK' /\ LimitOK' BY <1>1, <1>3, TextKept
<1> QED BY <1>4, <1>5, <1>6

LEMMA FileOK == ReadInv /\ Step(OpenFile) => ReadInv'
<1> SUFFICES ASSUME ReadInv, Step(OpenFile) PROVE ReadInv' OBVIOUS
<1> USE DEF ReadInv
<1>1. OpenFile /\ UNCHANGED <<tree, inputs>> /\ Observe BY DEF Step
<1>2. UNCHANGED <<remaining, again, depth, before, finished, text>> /\ at' = None /\ pc = "open"
  BY <1>1 DEF OpenFile
<1>3. Opening(at, Path[depth]) \subseteq Inodes
  <2>1. at \in Inodes BY <1>1 DEF OpenFile, OpenOK, TypeOK
  <2>2. entry[at][Path[depth]] \in Inodes \cup {None} BY <2>1, NameOK DEF TypeOK, TreeTypeOK
  <2> QED BY <2>2 DEF Opening, Linked
<1>4. \/ /\ ~again
         /\ \E i \in Inodes :
               /\ opened' = [inode |-> i, size |-> Len(content[i]), time |-> time[i]]
               /\ pc' = IF Len(content[i]) > limit THEN "large" ELSE "read"
      \/ again /\ pc' = "done" /\ UNCHANGED opened /\ finished.time = opened.time
      \/ pc' = "error" /\ UNCHANGED opened
  BY <1>1, <1>3 DEF OpenFile, Unchanged, Goto
<1>5. CASE pc' \notin {"read", "large"}
  <2>1. TypeOK' BY <1>1, <1>2, <1>4, <1>5 DEF TypeOK, TreeTypeOK, tree, inputs
  <2>2. OpenOK' BY <1>1, <1>2, <1>4, <1>5 DEF OpenFile, OpenOK
  <2>3. TextOK' /\ FinishedOK' /\ LimitOK' BY <1>1, <1>2, <1>4, <1>5, TextKept
  <2> QED BY <2>1, <2>2, <2>3
<1>6. CASE pc' \in {"read", "large"}
  <2>1. PICK i \in Inodes : /\ opened' = [inode |-> i, size |-> Len(content[i]), time |-> time[i]]
                            /\ pc' = IF Len(content[i]) > limit THEN "large" ELSE "read"
    BY <1>4, <1>6
  <2>2. ~again BY <1>4, <1>6
  <2>3. content[i] \in Seq(Values) /\ time[i] \in Nat /\ Len(content[i]) \in Nat /\ limit \in Nat
    BY ContentsAreSequences DEF TypeOK, TreeTypeOK
  <2>4. opened' \in [inode : Inodes \cup {None}, size : Nat, time : Nat] BY <2>1, <2>3
  <2>5. TypeOK' BY <1>1, <1>2, <1>6, <2>4 DEF TypeOK, TreeTypeOK, tree, inputs
  <2>6. opened'.inode = i /\ i # None /\ opened'.time = time[i] BY <2>1, FileTreeAssumption
  <2>7. OpenOK' BY <1>2, <1>6, <2>2, <2>6 DEF OpenOK
  <2>8. text = <<>> BY <1>1, <2>2 DEF OpenFile, OpenOK
  <2>9. content[i] \in held' BY <1>1, <2>6 DEF Observe, tree
  <2>10. pc' = "read" => Len(content[i]) <= limit BY <2>1, <2>3
  <2>11. TextOK' BY <1>1, <1>2, <1>6, <2>3, <2>6, <2>8, <2>9, <2>10 DEF TextOK, tree, inputs
  <2>12. FinishedOK' BY <1>2, <1>6, <2>2 DEF FinishedOK
  <2>13. LimitOK'
    <3>1. pc' = "large" => Len(content[i]) > limit BY <2>1
    <3> QED BY <1>1, <1>2, <1>6, <2>2, <2>8, <2>9, <3>1 DEF LimitOK, inputs
  <2> QED BY <2>5, <2>7, <2>11, <2>12, <2>13
<1> QED BY <1>5, <1>6

LEMMA SameSequence ==
    ASSUME NEW s \in Seq(Values), NEW t \in Seq(Values), Len(s) = Len(t),
           \A k \in 1 .. Len(s) : s[k] = t[k]
    PROVE  s = t
OBVIOUS

LEMMA PieceOK == ReadInv /\ Step(ReadPiece) => ReadInv'
<1> SUFFICES ASSUME ReadInv, Step(ReadPiece) PROVE ReadInv' OBVIOUS
<1> USE DEF ReadInv
<1>1. ReadPiece /\ UNCHANGED <<tree, inputs>> /\ Observe BY DEF Step
<1> DEFINE i == opened.inode
           c == content[i]
<1>2. UNCHANGED <<again, at, depth, before, opened, finished>> /\ pc = "read" BY <1>1 DEF ReadPiece
<1>3. i \in Inodes /\ i # None BY <1>2 DEF OpenOK, TypeOK
<1>4. c \in Seq(Values) /\ Len(c) \in Nat BY <1>3, ContentsAreSequences DEF TypeOK, TreeTypeOK
<1>5. text \in Seq(Values) /\ Len(text) \in Nat /\ limit \in Nat BY DEF TypeOK
<1>6. c \in held' BY <1>1, <1>2, <1>3 DEF Observe, tree
<1>7. CASE /\ Len(text) < Len(c) /\ text' = Append(text, c[Len(text) + 1]) /\ pc' = "read"
           /\ remaining' = remaining
  <2>1. c[Len(text) + 1] \in Values BY <1>4, <1>5, <1>7
  <2>2. text' \in Seq(Values) /\ Len(text') = Len(text) + 1 BY <1>5, <1>7, <2>1
  <2>3. TypeOK' BY <1>1, <1>2, <1>7, <2>2 DEF TypeOK, TreeTypeOK, tree, inputs
  <2>4. OpenOK' BY <1>2, <1>7 DEF OpenOK
  <2>5. ASSUME time[i] = opened.time, NEW k \in 1 .. Len(text') PROVE text'[k] = c[k]
    <3>1. CASE k \in 1 .. Len(text)
      <4>1. text[k] = c[k] BY <1>2, <1>3, <2>5, <3>1 DEF TextOK
      <4> QED BY <1>5, <1>7, <2>1, <3>1, <4>1
    <3>2. CASE k = Len(text) + 1 BY <1>5, <1>7, <2>1, <3>2
    <3> QED BY <1>5, <2>2, <2>5, <3>1, <3>2
  <2>6. TextOK'
    <3>1. content'[opened'.inode] = c /\ time'[opened'.inode] = time[i] /\ opened'.time = opened.time
      BY <1>1, <1>2 DEF tree
    <3>2. time[i] >= opened.time BY <1>3 DEF TextOK
    <3>3. Len(text') <= Len(c) BY <1>4, <1>5, <1>7, <2>2
    <3>4. time[i] = opened.time => Len(c) <= limit BY <1>2, <1>3 DEF TextOK
    <3>5. limit' = limit BY <1>1 DEF inputs
    <3> HIDE DEF i, c
    <3> QED BY <1>2, <1>6, <1>7, <2>5, <3>1, <3>2, <3>3, <3>4, <3>5 DEF TextOK
  <2>7. FinishedOK' BY <1>1, <1>2, <1>3, <1>7 DEF FinishedOK, OpenOK, TextOK
  <2>8. LimitOK'
    <3>1. Len(c) >= Len(text') BY <1>4, <1>5, <1>7, <2>2
    <3>2. remaining = limit /\ ~again BY <1>2 DEF LimitOK, OpenOK
    <3> HIDE DEF c
    <3> QED BY <1>1, <1>2, <1>6, <1>7, <3>1, <3>2 DEF LimitOK, inputs
  <2> QED BY <2>3, <2>4, <2>6, <2>7, <2>8
<1>8. ASSUME ~(Len(text) < Len(c) /\ Len(text) <= limit), text' = text, ~TooMuch, pc' = "stat",
             remaining' = IF op = "copy" THEN remaining - Len(text) ELSE remaining
      PROVE  ReadInv'
  <2>1. remaining = limit /\ ~again BY <1>2 DEF LimitOK, OpenOK
  <2>2. remaining' \in 0 .. limit BY <1>5, <1>8, <2>1 DEF TooMuch
  <2>3. TypeOK' BY <1>1, <1>2, <1>8, <2>2 DEF TypeOK, TreeTypeOK, tree, inputs
  <2>4. OpenOK' BY <1>2, <1>8 DEF OpenOK
  <2>5. time[i] = opened.time => text = c /\ Len(c) <= limit
    <3> SUFFICES ASSUME time[i] = opened.time PROVE text = c /\ Len(c) <= limit OBVIOUS
    <3>1. /\ Len(text) <= Len(c) /\ \A k \in 1 .. Len(text) : text[k] = c[k]
          /\ Len(c) <= limit
      BY <1>2, <1>3 DEF TextOK
    <3>2. Len(text) = Len(c) BY <1>4, <1>5, <1>8, <3>1
    <3> HIDE DEF c
    <3> QED BY <1>4, <1>5, <3>1, <3>2, SameSequence
  <2>6. TextOK' BY <1>1, <1>2, <1>3, <1>6, <1>8, <2>5 DEF TextOK, tree, inputs
  <2>7. FinishedOK' BY <1>1, <1>2, <1>3, <1>8 DEF FinishedOK, OpenOK, TextOK, Observe, tree, inputs
  <2>8. LimitOK' BY <1>1, <1>2, <1>8, <2>1 DEF LimitOK, inputs
  <2> QED BY <2>3, <2>4, <2>6, <2>7, <2>8
<1>9. ASSUME text' = text, TooMuch, pc' = "large", remaining' = remaining
      PROVE  ReadInv'
  <2>1. remaining = limit /\ ~again BY <1>2 DEF LimitOK, OpenOK
  <2>2. held' = held \cup {c} BY <1>1, <1>2, <1>3 DEF Observe, tree
  <2>3. \E d \in held' : Len(d) > limit
    <3>1. Len(text) > limit BY <1>9 DEF TooMuch
    <3>2. text # <<>> BY <1>5, <3>1
    <3>3. PICK d \in held : Len(d) >= Len(text) BY <1>2, <3>2 DEF LimitOK
    <3>4. d \in held' /\ (Len(d) \in Int => Len(d) > limit) BY <1>5, <2>2, <3>1, <3>3
    <3> QED BY <3>4
  <2>4. TypeOK' BY <1>1, <1>2, <1>9 DEF TypeOK, TreeTypeOK, tree, inputs
  <2>5. OpenOK' BY <1>2, <1>9 DEF OpenOK
  <2>6. TextOK' BY <1>1, <1>2, <1>3, <1>6, <1>9 DEF TextOK, tree
  <2>7. FinishedOK' BY <1>2, <1>9, <2>1 DEF FinishedOK
  <2>8. LimitOK' BY <1>1, <1>2, <1>9, <2>1, <2>3 DEF LimitOK, inputs
  <2> QED BY <2>4, <2>5, <2>6, <2>7, <2>8
<1>10. \/ /\ Len(text) < Len(c) /\ text' = Append(text, c[Len(text) + 1]) /\ pc' = "read"
          /\ remaining' = remaining
       \/ /\ ~(Len(text) < Len(c) /\ Len(text) <= limit) /\ text' = text
          /\ \/ /\ ~TooMuch /\ pc' = "stat"
                /\ remaining' = IF op = "copy" THEN remaining - Len(text) ELSE remaining
             \/ TooMuch /\ pc' = "large" /\ remaining' = remaining
  BY <1>1 DEF ReadPiece, More, Goto
<1> QED BY <1>7, <1>8, <1>9, <1>10

LEMMA StatOK == ReadInv /\ Step(StatAgain) => ReadInv'
<1> SUFFICES ASSUME ReadInv, Step(StatAgain) PROVE ReadInv' OBVIOUS
<1> USE DEF ReadInv
<1>1. StatAgain /\ UNCHANGED <<tree, inputs>> /\ Observe BY DEF Step
<1> DEFINE i == opened.inode
<1>2. /\ UNCHANGED <<remaining, at, depth, before, opened, text>> /\ pc = "stat" /\ pc' = "root" /\ again' = TRUE
      /\ finished' = [size |-> Len(content[i]), time |-> time[i]]
  BY <1>1 DEF StatAgain, Goto
<1>3. i \in Inodes /\ i # None BY <1>2 DEF OpenOK, TypeOK
<1>4. content[i] \in Seq(Values) /\ time[i] \in Nat /\ Len(content[i]) \in Nat
  BY <1>3, ContentsAreSequences DEF TypeOK, TreeTypeOK
<1>5. finished' \in [size : Nat, time : Nat] /\ finished'.time = time[i] BY <1>2, <1>4
<1>6. TypeOK' BY <1>1, <1>2, <1>5 DEF TypeOK, TreeTypeOK, tree, inputs
<1>7. OpenOK' BY <1>2, <1>3 DEF OpenOK
<1>8. held' = held \cup {content[i]} BY <1>1, <1>2, <1>3 DEF Observe, tree
<1>9. TextOK' BY <1>1, <1>2, <1>3, <1>8 DEF TextOK, tree
<1>10. FinishedOK'
  <2>1. time[i] = opened.time => text = content[i] /\ Len(content[i]) <= limit BY <1>2, <1>3 DEF TextOK
  <2> QED BY <1>1, <1>2, <1>5, <1>8, <2>1 DEF FinishedOK, inputs
<1>11. LimitOK' BY <1>1, <1>2 DEF LimitOK, inputs
<1> QED BY <1>6, <1>7, <1>9, <1>10, <1>11

LEMMA FailOK == ReadInv /\ Step(Fail) => ReadInv'
<1> SUFFICES ASSUME ReadInv, Step(Fail) PROVE ReadInv' OBVIOUS
<1> USE DEF ReadInv
<1>1. Fail /\ UNCHANGED <<tree, inputs>> /\ Observe BY DEF Step
<1>2. UNCHANGED <<remaining, again, at, depth, before, opened, finished, text>> /\ pc' = "failed"
  BY <1>1 DEF Fail, Goto
<1>3. TypeOK' BY <1>1, <1>2 DEF TypeOK, TreeTypeOK, tree, inputs
<1>4. OpenOK' BY <1>2 DEF OpenOK
<1>5. TextOK' /\ FinishedOK' /\ LimitOK' BY <1>1, <1>2, TextKept
<1> QED BY <1>3, <1>4, <1>5

\* ReadInv is inductive.
LEMMA ReadInvNext == ReadInv /\ [Next]_vars => ReadInv'
<1> SUFFICES ASSUME ReadInv, [Next]_vars PROVE ReadInv' OBVIOUS
<1>1. CASE Others BY <1>1, OthersOK
<1>2. CASE Step(OpenVerifiedRoot) BY <1>2, RootOK
<1>3. CASE Step(Lstat) BY <1>3, LstatOK
<1>4. CASE Step(OpenDirectory) BY <1>4, DirectoryOK
<1>5. CASE Step(OpenFile) BY <1>5, FileOK
<1>6. CASE Step(ReadPiece) BY <1>6, PieceOK
<1>7. CASE Step(StatAgain) BY <1>7, StatOK
<1>8. CASE Step(Fail) BY <1>8, FailOK
<1>9. CASE UNCHANGED vars
  BY <1>9 DEF vars, tree, inputs, reader, history, ReadInv, TypeOK, TreeTypeOK, OpenOK, TextOK,
              FinishedOK, LimitOK
<1> QED BY <1>1, <1>2, <1>3, <1>4, <1>5, <1>6, <1>7, <1>8, <1>9 DEF Next

LEMMA ReadInvHolds == Spec => []ReadInv
BY ReadInitOK, ReadInvNext, PTL DEF Spec

-----------------------------------------------------------------------------
(* The theorems.                                                           *)

\* readRelativeLines and the descent keep their state in its types, for every tree.
THEOREM ReadTypes == Spec => []TypeOK
<1>1. ReadInv => TypeOK BY DEF ReadInv
<1> QED BY <1>1, ReadInvHolds, PTL

\* No torn read: the two comparisons of size, time and identity are enough, whatever is
\* written, moved, replaced or created between any two system calls.
THEOREM ReadSnapshot == Spec => []ReadIsSnapshot
<1>1. ReadInv => ReadIsSnapshot BY DEF ReadInv, OpenOK, FinishedOK, ReadIsSnapshot
<1> QED BY <1>1, ReadInvHolds, PTL

\* The limit of a read and the budget of the copies hold whatever becomes of the file.
THEOREM ReadLimit == Spec => []LimitKept
<1>1. ReadInv => LimitKept BY DEF ReadInv, TypeOK, OpenOK, FinishedOK, LimitOK, LimitKept
<1> QED BY <1>1, ReadInvHolds, PTL

\* What is entered or opened has had the name itself since it was looked at.
THEOREM ReadByName == Spec => NeverThroughLink
<1> DEFINE A == /\ pc = "open" /\ at' \notin {at, None} => at' \in named
                /\ opened' # opened => opened'.inode \in named
<1>1. ReadInv /\ Next => A
  <2> SUFFICES ASSUME ReadInv, Next PROVE A OBVIOUS
  <2>1. CASE Others BY <2>1 DEF Others, reader
  <2>2. CASE Step(OpenDirectory)
    BY <2>2 DEF Step, OpenDirectory, SameFile, ReadInv, OpenOK
  <2>3. CASE Step(OpenFile)
    <3>1. UNCHANGED opened \/ \E i : opened' = [inode |-> i, size |-> Len(content[i]), time |-> time[i]]
                                      /\ i = before
      BY <2>3 DEF Step, OpenFile, SameFile
    <3> QED BY <2>3, <3>1 DEF Step, OpenFile, ReadInv, OpenOK
  <2>4. CASE Step(OpenVerifiedRoot) BY <2>4 DEF Step, OpenVerifiedRoot
  <2>5. CASE Step(Lstat) BY <2>5 DEF Step, Lstat
  <2>6. CASE Step(ReadPiece) BY <2>6 DEF Step, ReadPiece
  <2>7. CASE Step(StatAgain) BY <2>7 DEF Step, StatAgain
  <2>8. CASE Step(Fail) BY <2>8 DEF Step, Fail
  <2> QED BY <2>1, <2>2, <2>3, <2>4, <2>5, <2>6, <2>7, <2>8 DEF Next
<1>2. ReadInv /\ [Next]_vars => [A]_vars
  <2> HIDE DEF A
  <2> QED BY <1>1
<1> QED BY <1>2, ReadInvHolds, PTL DEF Spec, NeverThroughLink

-----------------------------------------------------------------------------
(* What a path names.  Named is a recursive function over the path: that   *)
(* it exists, and how it goes from one directory to the next, is proved by *)
(* looking at the least place where it would go wrong.                     *)

\* A set of numbers has a least member.
LEMMA Least ==
    ASSUME NEW T, T \subseteq Nat, T # {}
    PROVE  \E x \in T : \A y \in T : ~(y < x)
<1> DEFINE R == {s \in Nat \X Nat : s[1] < s[2]}
<1>1. IsWellFoundedOn(R, Nat) BY NatLessThanWellFounded DEF OpToRel
<1>2. \E x \in T : \A y \in T : ~(<<y, x>> \in R) BY <1>1, WFMin, Zenon
<1>3. ASSUME NEW x \in T, NEW y \in T, y < x PROVE <<y, x>> \in R BY <1>3
<1> QED BY <1>2, <1>3, Zenon

\* One name further from a directory; from anything else, nowhere.
Further(i, name) == IF i = None \/ kind[i] # "dir" THEN None ELSE entry[i][name]
Beginning == IF rootAt = TheRoot THEN TheRoot ELSE None

\* The inodes on a path, as far as it leads.
Trail(f, path) ==
    f = [k \in 0 .. Len(path) |-> IF k = 0 THEN Beginning ELSE Further(f[k - 1], path[k])]

LEMMA NamedByTrail ==
    ASSUME NEW path PROVE Named(path) = (CHOOSE f : Trail(f, path))[Len(path)]
BY DEF Named, Trail, Beginning, Further

LEMMA TrailTo ==
    ASSUME NEW path, Len(path) \in Nat, NEW n \in Nat
    PROVE  \E f : f = [k \in 0 .. n |-> IF k = 0 THEN Beginning ELSE Further(f[k - 1], path[k])]
<1> DEFINE Is(f, m) == f = [k \in 0 .. m |-> IF k = 0 THEN Beginning ELSE Further(f[k - 1], path[k])]
           T == {m \in Nat : ~\E f : Is(f, m)}
<1>1. CASE T = {}
  BY <1>1
<1>2. CASE T # {}
  <2>1. PICK m \in T : \A y \in T : ~(y < m)
    BY <1>2, Least
  <2>2. CASE m = 0
    <3> DEFINE g == [k \in 0 .. 0 |-> Beginning]
    <3>1. Is(g, 0) OBVIOUS
    <3> QED BY <2>1, <2>2, <3>1
  <2>3. CASE m # 0
    <3>1. m \in Nat /\ m - 1 \in Nat /\ m - 1 < m /\ m - 1 \notin T
      <4>1. m \in Nat
        BY <2>1
      <4>2. m - 1 \in Nat /\ m - 1 < m
        BY <4>1, <2>3
      <4> HIDE DEF T
      <4> QED BY <2>1, <4>1, <4>2
    <3>2. PICK f : Is(f, m - 1)
      BY <3>1
    <3> DEFINE g == [k \in 0 .. m |-> IF k = m THEN Further(f[m - 1], path[m]) ELSE f[k]]
               h == [k \in 0 .. m |-> IF k = 0 THEN Beginning ELSE Further(g[k - 1], path[k])]
    <3>3. ASSUME NEW k \in 0 .. m PROVE g[k] = h[k]
      <4>1. CASE k = m
        BY <3>1, <4>1, <2>3
      <4>2. CASE k # m
        <5>1. k \in 0 .. m - 1 /\ (k # 0 => k - 1 \in 0 .. m /\ k - 1 # m)
          BY <3>1, <4>2
        <5>2. g[k] = f[k] /\ (k # 0 => g[k - 1] = f[k - 1])
          BY <4>2, <5>1
        <5>3. f[k] = IF k = 0 THEN Beginning ELSE Further(f[k - 1], path[k])
          BY <3>2, <5>1
        <5>4. h[k] = IF k = 0 THEN Beginning ELSE Further(g[k - 1], path[k])
          OBVIOUS
        <5> QED BY <5>2, <5>3, <5>4, Zenon
      <4> QED BY <4>1, <4>2
    <3>4. g = h
      BY <3>3
    <3>5. Is(g, m)
      BY <3>4
    <3> HIDE DEF g, h
    <3> QED BY <2>1, <3>5
  <2> QED BY <2>2, <2>3
<1> QED BY <1>1, <1>2

Follows(f, p, m) ==
    \A k \in 0 .. m : f[k] = IF k = 0 THEN Beginning ELSE Further(f[k - 1], p[k])

\* What a path names is what its last name names in what the rest of it names.
LEMMA NamedTrail ==
    ASSUME NEW path, Len(path) \in Nat
    PROVE  \E f : Named(path) = f[Len(path)] /\ Follows(f, path, Len(path))
<1> DEFINE f == CHOOSE f : Trail(f, path)
<1>1. Trail(f, path)
  BY TrailTo DEF Trail
<1>2. Named(path) = f[Len(path)]
  BY NamedByTrail
<1> HIDE DEF f
<1>3. ASSUME NEW k \in 0 .. Len(path)
      PROVE  f[k] = IF k = 0 THEN Beginning ELSE Further(f[k - 1], path[k])
  BY <1>1 DEF Trail
<1> QED BY <1>2, <1>3 DEF Follows

Prefix(k) == SubSeq(Path, 1, k)

LEMMA PrefixIs ==
    ASSUME NEW n \in 0 .. Len(Path)
    PROVE  Len(Prefix(n)) = n /\ \A k \in 1 .. n : Prefix(n)[k] = Path[k]
<1>1. Path \in Seq(Names) /\ Len(Path) \in Nat /\ n \in Int
  BY SourceReadAssumption
<1>2. \A i \in 1 .. n : Path[i] \in Names
  BY <1>1
<1>3. /\ Len(Prefix(n)) = (IF 1 <= n THEN n - 1 + 1 ELSE 0)
      /\ \A i \in 1 .. n - 1 + 1 : Prefix(n)[i] = Path[1 + i - 1]
  BY <1>1, <1>2, SubSeqProperties DEF Prefix
<1>4. n \in Nat /\ n - 1 + 1 = n /\ (~(1 <= n) => n = 0) /\ \A i \in 1 .. n : 1 + i - 1 = i
  BY <1>1
<1> QED BY <1>3, <1>4

\* Paths that begin alike lead to the same inodes.
LEMMA TrailsAgree ==
    ASSUME NEW m \in 0 .. Len(Path), NEW f, Follows(f, Prefix(m), m), NEW g, Follows(g, Path, m)
    PROVE  f[m] = g[m]
<1> DEFINE T == {k \in 0 .. m : f[k] # g[k]}
<1>0. T \subseteq Nat /\ m \in 0 .. m /\ \A k \in 1 .. m : Prefix(m)[k] = Path[k]
  BY PrefixIs, SourceReadAssumption
<1> SUFFICES ASSUME T # {} PROVE FALSE
  BY <1>0
<1>1. PICK k \in T : \A y \in T : ~(y < k)
  <2> HIDE DEF T
  <2> QED BY <1>0, Least
<1>2. k \in 0 .. m /\ f[k] # g[k]
  OBVIOUS
<1>3. CASE k = 0
  BY <1>2, <1>3 DEF Follows
<1>4. CASE k # 0
  <2>1. k - 1 \in 0 .. m /\ k - 1 < k /\ k \in 1 .. m
    BY <1>2, <1>4
  <2>2. f[k - 1] = g[k - 1]
    BY <1>1, <2>1
  <2>3. /\ f[k] = Further(f[k - 1], Prefix(m)[k]) /\ g[k] = Further(g[k - 1], Path[k])
        /\ Prefix(m)[k] = Path[k]
    BY <1>0, <1>2, <1>4, <2>1 DEF Follows
  <2> QED BY <1>2, <2>2, <2>3
<1> QED BY <1>3, <1>4

LEMMA NamedSteps ==
    /\ Named(Prefix(0)) = Beginning
    /\ \A k \in 1 .. Len(Path) : Named(Prefix(k)) = Further(Named(Prefix(k - 1)), Path[k])
    /\ Named(Path) = Named(Prefix(Len(Path)))
<1>1. Len(Path) \in Nat /\ Path \in Seq(Names)
  BY SourceReadAssumption
<1>2. PICK w : Named(Path) = w[Len(Path)] /\ Follows(w, Path, Len(Path))
  BY <1>1, NamedTrail
<1>3. ASSUME NEW n \in 0 .. Len(Path) PROVE Named(Prefix(n)) = w[n]
  <2>1. n \in Nat /\ Len(Prefix(n)) = n /\ n \in 0 .. n /\ \A k \in 0 .. n : k \in 0 .. Len(Path)
    BY <1>1, PrefixIs
  <2>2. PICK f : Named(Prefix(n)) = f[n] /\ Follows(f, Prefix(n), n)
    BY <2>1, NamedTrail
  <2>3. Follows(w, Path, n)
    BY <1>2, <2>1 DEF Follows
  <2>4. f[n] = w[n]
    BY <2>2, <2>3, TrailsAgree
  <2> QED BY <2>2, <2>4
<1>4. 0 \in 0 .. Len(Path) /\ Len(Path) \in 0 .. Len(Path)
  BY <1>1
<1>5. ASSUME NEW k \in 1 .. Len(Path)
      PROVE  Named(Prefix(k)) = Further(Named(Prefix(k - 1)), Path[k])
  <2>1. k \in 0 .. Len(Path) /\ k - 1 \in 0 .. Len(Path) /\ k # 0
    BY <1>1
  <2> QED BY <1>2, <1>3, <2>1 DEF Follows
<1>6. Named(Prefix(0)) = Beginning
  BY <1>2, <1>3, <1>4 DEF Follows
<1> QED BY <1>2, <1>3, <1>4, <1>5, <1>6

\* Where the path leads no further before its end, it names nothing.
LEMMA DeadEnd ==
    ASSUME NEW n \in 0 .. Len(Path) - 1,
           Named(Prefix(n)) = None \/ kind[Named(Prefix(n))] # "dir"
    PROVE  Named(Path) = None
<1> DEFINE T == {k \in n + 1 .. Len(Path) : Named(Prefix(k)) # None}
<1>0. Len(Path) \in Nat /\ n \in Nat /\ n + 1 \in 1 .. Len(Path) /\ Len(Path) \in n + 1 .. Len(Path)
  BY SourceReadAssumption
<1>1. CASE T = {}
  BY <1>0, <1>1, NamedSteps
<1>2. CASE T # {}
  <2>1. T \subseteq Nat
    BY <1>0
  <2>2. PICK k \in T : \A y \in T : ~(y < k)
    BY <1>2, <2>1, Least
  <2>3. k \in n + 1 .. Len(Path) /\ Named(Prefix(k)) # None
    OBVIOUS
  <2>4. k \in 1 .. Len(Path) /\ Named(Prefix(k)) = Further(Named(Prefix(k - 1)), Path[k])
    BY <1>0, <2>3, NamedSteps
  <2>5. CASE k = n + 1
    <3>1. k - 1 = n
      BY <1>0, <2>5
    <3> QED BY <2>3, <2>4, <3>1 DEF Further
  <2>6. CASE k # n + 1
    <3>1. k - 1 \in n + 1 .. Len(Path) /\ k - 1 < k
      BY <1>0, <2>3, <2>6
    <3>2. k - 1 \notin T
      <4> HIDE DEF T
      <4> QED BY <2>2, <3>1
    <3>3. Named(Prefix(k - 1)) = None
      BY <3>1, <3>2
    <3> QED BY <2>3, <2>4, <3>3 DEF Further
  <2> QED BY <2>5, <2>6
<1> QED BY <1>1, <1>2

-----------------------------------------------------------------------------
(* The path.  Where the descent stands while the directories on the path   *)
(* have stayed the same, and what it holds open while the file has too.    *)

Descent ==
    /\ kind[TheRoot] = "dir"
    /\ pc \in {"lstat", "open"} => kind[at] = "dir"
    /\ pc = "open" => before # None
    /\ steady /\ pc \in {"lstat", "open"} => at = Directories[depth - 1]
    /\ steady /\ pc = "open" /\ depth < Len(Path) =>
          before = Directories[depth] /\ kind[before] = "dir"
    /\ steady /\ pc = "open" /\ depth = Len(Path) =>
          before \in (IF again THEN last ELSE first)

OpenedAtPath ==
    /\ opened.inode # None /\ steady => opened.inode \in first
    /\ pc = "done" /\ steady => opened.inode \in last

QuietInv ==
    /\ quiet => steady
    /\ quiet /\ pc = "open" /\ depth = Len(Path) => before = Named(Path) /\ kind[before] = "file"
    /\ quiet /\ opened.inode # None =>
          /\ opened.inode = Named(Path) /\ kind[opened.inode] = "file"
          /\ time[opened.inode] = opened.time /\ opened.size = Len(content[opened.inode])
    /\ quiet /\ again =>
          /\ finished.size = opened.size /\ finished.time = opened.time
          /\ text = content[opened.inode]

PathInv == Descent /\ OpenedAtPath /\ QuietInv /\ QuietRead


\* While somebody holds an inode or something names it, it stays what it is; and a file
\* that is held has been written to if its time has moved on.
LEMMA ChangeKeeps ==
    ASSUME TreeTypeOK, NEW kept, Change(kept), NEW i \in Inodes
    PROVE  /\ i \in Linked \cup kept => kind'[i] = kind[i]
           /\ i \in kept /\ content' = content => time'[i] = time[i]
<1>1. CASE \E d, e \in Inodes, n, m \in Names : Rename(d, n, e, m)
  BY <1>1 DEF Rename
<1>2. CASE \E d \in Inodes, n \in Names : Unlink(d, n)
  BY <1>2 DEF Unlink
<1>3. CASE \E d, j \in Inodes, n \in Names, k \in {"dir", "file", "link"} : Create(d, n, j, k, kept)
  <2>1. PICK d \in Inodes, j \in Inodes, n \in Names, k \in {"dir", "file", "link"} :
            Create(d, n, j, k, kept)
    BY <1>3
  <2>2. /\ j \notin Linked \cup kept
        /\ kind' = [kind EXCEPT ![j] = k] /\ time' = [time EXCEPT ![j] = @ + 1]
    BY <2>1 DEF Create
  <2> QED BY <2>2 DEF TreeTypeOK
<1>4. CASE \E j \in Inodes, new \in Contents : WriteFile(j, new)
  <2>1. PICK j \in Inodes, new \in Contents : WriteFile(j, new)
    BY <1>4
  <2>2. kind' = kind /\ content' # content
    BY <2>1 DEF WriteFile, TreeTypeOK
  <2> QED BY <2>2
<1>5. CASE \E j \in Inodes : ReplaceRoot(j)
  BY <1>5 DEF ReplaceRoot
<1> QED BY <1>1, <1>2, <1>3, <1>4, <1>5 DEF Change

LEMMA SameNames ==
    ASSUME UNCHANGED <<rootAt, entry, kind>>
    PROVE  Named(Path)' = Named(Path) /\ Directories' = Directories
BY DEF Named, Directories

\* The name that is looked at, in the directory that is open, is the next on the path.
LEMMA AtName ==
    ASSUME ReadInv, Descent, pc \in {"lstat", "open"}, steady
    PROVE  /\ at \in Inodes /\ depth \in Nat /\ entry[at][Path[depth]] \in Inodes \cup {None}
           /\ Named(Prefix(depth)) = entry[at][Path[depth]]
           /\ depth < Len(Path) => Directories[depth] = entry[at][Path[depth]]
           /\ depth = Len(Path) => Named(Path) = entry[at][Path[depth]]
           /\ depth < Len(Path) \/ depth = Len(Path)
<1>1. /\ depth \in 1 .. Len(Path) /\ at \in Inodes /\ at # None /\ kind[at] = "dir"
      /\ at = Directories[depth - 1] /\ Len(Path) \in Nat
      /\ entry[at][Path[depth]] \in Inodes \cup {None}
  BY NameOK DEF ReadInv, OpenOK, TypeOK, TreeTypeOK, Descent
<1>2. depth - 1 \in 0 .. Len(Path) - 1 /\ (depth < Len(Path) => depth \in 0 .. Len(Path) - 1)
  BY <1>1
<1>3. \A k \in 0 .. Len(Path) - 1 : Directories[k] = Named(Prefix(k))
  BY DEF Directories, Prefix
<1>4. Named(Prefix(depth)) = Further(Named(Prefix(depth - 1)), Path[depth])
  BY <1>1, NamedSteps
<1>5. Named(Prefix(depth)) = entry[at][Path[depth]]
  BY <1>1, <1>2, <1>3, <1>4 DEF Further
<1> QED BY <1>1, <1>2, <1>3, <1>5, NamedSteps

\* A step of the reader keeps what it has not to do with.
LEMMA OpenedKept ==
    ASSUME ReadInv, PathInv, Observe,
           UNCHANGED <<tree, opened, finished, again>>, again => UNCHANGED text
    PROVE  /\ kind'[TheRoot] = "dir" /\ UNCHANGED <<entry, kind, content>>
           /\ opened'.inode # None /\ steady' => opened'.inode \in first'
           /\ quiet' => steady'
           /\ quiet' /\ opened'.inode # None =>
                 /\ opened'.inode = Named(Path)' /\ kind'[opened'.inode] = "file"
                 /\ time'[opened'.inode] = opened'.time
                 /\ opened'.size = Len(content'[opened'.inode])
           /\ quiet' /\ again' =>
                 /\ finished'.size = opened'.size /\ finished'.time = opened'.time
                 /\ text' = content'[opened'.inode]
           /\ steady' => steady /\ Directories' = Directories
           /\ quiet' => quiet
           /\ Named(Path)' = Named(Path)
           /\ first \subseteq first' /\ (again => last \subseteq last')
<1>1. /\ UNCHANGED <<rootAt, entry, kind, content, time>>
      /\ Named(Path)' = Named(Path) /\ Directories' = Directories
  BY SameNames DEF tree
<1>2. /\ steady' => steady
      /\ quiet' => quiet /\ steady'
      /\ first \subseteq first' /\ (again => last \subseteq last')
  BY DEF Observe
<1> QED BY <1>1, <1>2 DEF PathInv, Descent, OpenedAtPath, QuietInv


LEMMA OthersPath == ReadInv /\ PathInv /\ Others => PathInv'
<1> SUFFICES ASSUME ReadInv, PathInv, Others PROVE PathInv' OBVIOUS
<1> USE DEF PathInv
<1>1. /\ UNCHANGED <<pc, again, at, depth, before, opened, finished, text>>
      /\ Observe /\ Change(HeldOpen) /\ pc \notin {"done", "error"} /\ TreeTypeOK
  BY DEF Others, Running, reader, ReadInv, TypeOK
<1>2. \A i \in Inodes : /\ i \in Linked \cup HeldOpen => kind'[i] = kind[i]
                        /\ i \in HeldOpen /\ content' = content => time'[i] = time[i]
  BY <1>1, ChangeKeeps
<1>3. /\ steady' => steady /\ Directories' = Directories
      /\ quiet' => quiet /\ steady' /\ Named(Path)' = Named(Path) /\ content' = content
      /\ first \subseteq first' /\ (again => last \subseteq last')
  BY <1>1 DEF Observe
<1>4. kind'[TheRoot] = "dir"
  BY <1>2, FileTreeAssumption DEF Descent, Linked
<1>5. pc \in {"lstat", "open"} => kind'[at] = "dir"
  BY <1>2 DEF Descent, ReadInv, OpenOK, TypeOK, HeldOpen
<1>6. steady' /\ pc = "open" /\ kind[before] \in {"dir", "file"} /\ before = entry[at][Path[depth]]
        => kind'[before] = kind[before]
  <2> SUFFICES ASSUME steady', pc = "open", before = entry[at][Path[depth]]
               PROVE  kind'[before] = kind[before]
    OBVIOUS
  <2>1. at \in Inodes /\ Path[depth] \in Names /\ before \in Inodes
    BY <1>3, AtName, NameOK DEF Descent, ReadInv, TypeOK
  <2>2. before \in Linked
    BY <2>1 DEF Linked
  <2> QED BY <1>2, <2>1, <2>2
<1>7. Descent'
  <2>1. steady' /\ pc = "open" /\ depth < Len(Path) =>
            before = Directories'[depth] /\ kind'[before] = "dir"
    BY <1>3, <1>6, AtName DEF Descent
  <2>2. steady' /\ pc = "open" /\ depth = Len(Path) =>
            before \in (IF again THEN last' ELSE first')
    BY <1>3 DEF Descent
  <2> QED BY <1>1, <1>3, <1>4, <1>5, <2>1, <2>2 DEF Descent
<1>8. OpenedAtPath'
  BY <1>1, <1>3 DEF OpenedAtPath
<1>9. QuietInv'
  <2>1. quiet' /\ pc = "open" /\ depth = Len(Path) =>
            before = Named(Path)' /\ kind'[before] = "file"
    BY <1>3, <1>6, AtName DEF QuietInv
  <2>2. quiet' /\ opened.inode # None =>
            /\ opened.inode = Named(Path)' /\ kind'[opened.inode] = "file"
            /\ time'[opened.inode] = opened.time /\ opened.size = Len(content'[opened.inode])
    BY <1>2, <1>3 DEF QuietInv, ReadInv, TypeOK, HeldOpen
  <2> QED BY <1>1, <1>3, <2>1, <2>2 DEF QuietInv
<1> QED BY <1>1, <1>7, <1>8, <1>9 DEF QuietRead

LEMMA RootPath == ReadInv /\ PathInv /\ Step(OpenVerifiedRoot) => PathInv'
<1> SUFFICES ASSUME ReadInv, PathInv, Step(OpenVerifiedRoot) PROVE PathInv' OBVIOUS
<1>1. /\ UNCHANGED <<tree, again, before, opened, finished, text>> /\ Observe
      /\ \/ pc' = "rootChanged"
         \/ pc' = "lstat" /\ at' = rootAt /\ depth' = 1 /\ rootAt = TheRoot
  BY DEF Step, OpenVerifiedRoot, Goto
<1>2. Len(Path) \in Nat /\ Len(Path) >= 1 /\ 0 \in 0 .. Len(Path) - 1
  BY SourceReadAssumption
<1>3. rootAt = TheRoot => Directories[0] = TheRoot
  BY <1>2, NamedSteps DEF Directories, Prefix, Beginning
<1>4. Descent'
  BY <1>1, <1>3, OpenedKept DEF Descent
<1>5. OpenedAtPath' /\ QuietInv'
  BY <1>1, OpenedKept DEF OpenedAtPath, QuietInv
<1> QED BY <1>1, <1>4, <1>5 DEF PathInv, QuietRead

LEMMA LstatPath == ReadInv /\ PathInv /\ Step(Lstat) => PathInv'
<1> SUFFICES ASSUME ReadInv, PathInv, Step(Lstat) PROVE PathInv' OBVIOUS
<1>1. /\ UNCHANGED <<tree, again, at, depth, opened, finished, text>> /\ Observe
      /\ pc = "lstat" /\ before' = entry[at][Path[depth]]
      /\ \/ pc' = "open" /\ before' # None /\ kind[before'] = Wanted
         \/ pc' = "error" /\ (before' = None \/ kind[before'] # Wanted)
  BY DEF Step, Lstat, Goto
<1>2. Descent
  BY DEF PathInv
<1>3. /\ steady' => steady /\ Directories' = Directories
      /\ quiet' => quiet /\ steady' /\ steady
      /\ Named(Path)' = Named(Path) /\ UNCHANGED kind
  BY <1>1, OpenedKept
<1>4. /\ steady /\ depth < Len(Path) => before' = Directories[depth] /\ before' = Named(Prefix(depth))
      /\ steady /\ depth = Len(Path) => before' = Named(Path)
      /\ steady => depth < Len(Path) \/ depth = Len(Path)
      /\ depth < Len(Path) => Wanted = "dir"
      /\ depth = Len(Path) => Wanted = "file"
  BY <1>1, <1>2, AtName, NameOK DEF Wanted, ReadInv
<1>5. CASE pc' = "open"
  <2>1. kind'[at'] = "dir" /\ (steady' => at' = Directories'[depth' - 1]) /\ before' # None
    BY <1>1, <1>3, <1>5 DEF Descent, PathInv
  <2>2. steady' /\ depth = Len(Path) => before' \in (IF again THEN last' ELSE first')
    <3>1. again => last' = last \cup {Named(Path)'}
      BY <1>1 DEF Observe
    <3>2. ~again => first' = first \cup {Named(Path)'}
      BY <1>1 DEF Observe, ReadInv, OpenOK
    <3> QED BY <1>3, <1>4, <3>1, <3>2
  <2>3. steady' /\ depth < Len(Path) => before' = Directories'[depth] /\ kind'[before'] = "dir"
    BY <1>1, <1>3, <1>4, <1>5
  <2>4. Descent'
    BY <1>1, <1>5, <2>1, <2>2, <2>3, OpenedKept DEF Descent
  <2>5. quiet' /\ depth = Len(Path) => before' = Named(Path)' /\ kind'[before'] = "file"
    BY <1>1, <1>3, <1>4, <1>5
  <2>6. OpenedAtPath' /\ QuietInv'
    BY <1>1, <1>5, <2>5, OpenedKept DEF OpenedAtPath, QuietInv
  <2> QED BY <1>5, <2>4, <2>6 DEF PathInv, QuietRead
<1>6. CASE pc' = "error"
  <2>1. quiet' => ~IsFile'
    <3> SUFFICES ASSUME quiet' PROVE Named(Path) = None \/ kind[Named(Path)] # "file"
      BY <1>3 DEF IsFile
    <3>1. CASE depth < Len(Path)
      <4>1. depth \in 0 .. Len(Path) - 1
        BY <3>1, SourceReadAssumption DEF ReadInv, TypeOK
      <4>2. Named(Prefix(depth)) = None \/ kind[Named(Prefix(depth))] # "dir"
        BY <1>1, <1>3, <1>4, <1>6, <3>1
      <4> QED BY <4>1, <4>2, DeadEnd
    <3>2. CASE depth = Len(Path)
      BY <1>1, <1>3, <1>4, <1>6, <3>2
    <3> QED BY <1>3, <1>4, <3>1, <3>2
  <2>2. Descent' /\ OpenedAtPath' /\ QuietInv'
    BY <1>1, <1>6, OpenedKept DEF Descent, OpenedAtPath, QuietInv
  <2> QED BY <1>6, <2>1, <2>2 DEF PathInv, QuietRead
<1> QED BY <1>1, <1>5, <1>6

\* What is still there, and no link, is all that opening its name can lead to.
LEMMA OnlyOne ==
    ASSUME before = entry[at][Path[depth]], before # None, kind[before] \in {"dir", "file"}
    PROVE  Opening(at, Path[depth]) = {before}
BY DEF Opening

LEMMA DirectoryPath == ReadInv /\ PathInv /\ Step(OpenDirectory) => PathInv'
<1> SUFFICES ASSUME ReadInv, PathInv, Step(OpenDirectory) PROVE PathInv' OBVIOUS
<1>1. /\ UNCHANGED <<tree, again, before, opened, finished, text>> /\ Observe
      /\ pc = "open" /\ depth < Len(Path) /\ depth \in Nat /\ Descent
  BY NameOK DEF Step, OpenDirectory, Wanted, ReadInv, PathInv
<1>2. /\ steady' => steady /\ Directories' = Directories
      /\ quiet' => quiet /\ steady' /\ steady
      /\ UNCHANGED kind
  BY <1>1, OpenedKept
<1>3. CASE /\ pc' = "lstat" /\ at' = before /\ kind[before] = "dir" /\ depth' = depth + 1
  <2>1. steady' => at' = Directories'[depth' - 1]
    <3>1. depth' - 1 = depth
      BY <1>1, <1>3
    <3> QED BY <1>1, <1>2, <1>3, <3>1 DEF Descent
  <2>2. Descent' /\ OpenedAtPath' /\ QuietInv'
    BY <1>1, <1>2, <1>3, <2>1, OpenedKept DEF Descent, OpenedAtPath, QuietInv
  <2> QED BY <1>3, <2>2 DEF PathInv, QuietRead
<1>4. CASE /\ pc' = "error"
           /\ \/ Opening(at, Path[depth]) = {}
              \/ \E i \in Opening(at, Path[depth]) : kind[i] # "dir" \/ i # before
  <2>1. ~quiet'
    <3> SUFFICES ASSUME quiet' PROVE FALSE
      OBVIOUS
    <3>1. before = entry[at][Path[depth]] /\ before # None /\ kind[before] = "dir"
      BY <1>1, <1>2, AtName DEF Descent
    <3>2. Opening(at, Path[depth]) = {before}
      BY <3>1, OnlyOne
    <3> QED BY <1>4, <3>1, <3>2
  <2>2. Descent' /\ OpenedAtPath' /\ QuietInv'
    BY <1>1, <1>4, OpenedKept DEF Descent, OpenedAtPath, QuietInv
  <2> QED BY <1>4, <2>1, <2>2 DEF PathInv, QuietRead
<1> QED
  <2>1. OpenDirectory
    BY DEF Step
  <2> QED BY <1>3, <1>4, <2>1 DEF OpenDirectory, SameFile, Goto


LEMMA FilePath == ReadInv /\ PathInv /\ Step(OpenFile) => PathInv'
<1> SUFFICES ASSUME ReadInv, PathInv, Step(OpenFile) PROVE PathInv' OBVIOUS
<1>1. /\ UNCHANGED <<tree, again, depth, before, finished, text>> /\ Observe
      /\ pc = "open" /\ depth = Len(Path) /\ Descent /\ before \in Inodes /\ before # None
  <2>1. OpenFile /\ UNCHANGED tree /\ Observe
    BY DEF Step
  <2>2. depth = Len(Path)
    BY <2>1, NameOK, SourceReadAssumption DEF OpenFile, Wanted, ReadInv, TypeOK
  <2> QED BY <2>1, <2>2 DEF OpenFile, PathInv, Descent, ReadInv, TypeOK
<1>2. /\ steady' => steady
      /\ quiet' => quiet /\ steady' /\ steady
      /\ Named(Path)' = Named(Path) /\ UNCHANGED <<kind, content, time>>
      /\ again => last \subseteq last'
      /\ ~again => opened.inode = None
  <2>1. Named(Path)' = Named(Path)
    BY <1>1, SameNames DEF tree
  <2> QED BY <1>1, <2>1 DEF Observe, tree, ReadInv, OpenOK
<1>3. kind'[TheRoot] = "dir"
  BY <1>2 DEF PathInv, Descent
<1>4. quiet => /\ before = Named(Path) /\ before = entry[at][Path[depth]]
               /\ kind[before] = "file" /\ Opening(at, Path[depth]) = {before}
  <2> SUFFICES ASSUME quiet PROVE /\ before = Named(Path) /\ before = entry[at][Path[depth]]
                                  /\ kind[before] = "file" /\ Opening(at, Path[depth]) = {before}
    OBVIOUS
  <2>1. before = Named(Path) /\ kind[before] = "file" /\ steady
    BY <1>1 DEF PathInv, QuietInv
  <2>2. before = entry[at][Path[depth]]
    BY <1>1, <2>1, AtName
  <2> QED BY <1>1, <2>1, <2>2, OnlyOne
<1>5. CASE /\ ~again /\ pc' \in {"large", "read"}
           /\ opened' = [inode |-> before, size |-> Len(content[before]), time |-> time[before]]
  <2>1. steady' => before \in first'
    BY <1>1, <1>2, <1>5 DEF Descent, Observe
  <2>2. Descent' /\ OpenedAtPath' /\ QuietInv'
    BY <1>1, <1>2, <1>3, <1>4, <1>5, <2>1 DEF Descent, OpenedAtPath, QuietInv
  <2> QED BY <1>5, <2>2 DEF PathInv, QuietRead
<1>6. CASE again /\ UNCHANGED opened /\ pc' = (IF Unchanged(before) THEN "done" ELSE "error")
  <2>1. Unchanged(before) /\ steady' => opened.inode \in last'
    BY <1>1, <1>2, <1>6 DEF Descent, Unchanged
  <2>2. quiet => Unchanged(before)
    <3>1. quiet => before = opened.inode
      BY <1>4, <1>6 DEF PathInv, QuietInv, ReadInv, OpenOK
    <3> QED BY <1>6, <3>1 DEF PathInv, QuietInv, Unchanged
  <2>3. Descent' /\ OpenedAtPath' /\ QuietInv'
    BY <1>1, <1>6, <2>1, OpenedKept DEF Descent, OpenedAtPath, QuietInv
  <2>4. quiet' /\ pc' = "done" => IsFile' /\ text' = content'[Named(Path)']
    <3> SUFFICES ASSUME quiet', pc' = "done"
                 PROVE  /\ Named(Path) # None /\ kind[Named(Path)] = "file"
                        /\ text = content[Named(Path)]
      BY <1>1, <1>2 DEF IsFile
    <3>1. opened.inode = Named(Path) /\ text = content[opened.inode]
      BY <1>2, <1>6 DEF PathInv, QuietInv, ReadInv, OpenOK
    <3> QED BY <1>1, <1>2, <1>4, <3>1
  <2> QED BY <1>2, <1>6, <2>2, <2>3, <2>4 DEF PathInv, QuietRead
<1>7. CASE /\ pc' = "error" /\ UNCHANGED opened
           /\ \/ Opening(at, Path[depth]) = {}
              \/ \E i \in Opening(at, Path[depth]) : kind[i] # "file" \/ i # before
  <2>1. ~quiet'
    BY <1>2, <1>4, <1>7
  <2>2. Descent' /\ OpenedAtPath' /\ QuietInv'
    BY <1>1, <1>7, OpenedKept DEF Descent, OpenedAtPath, QuietInv
  <2> QED BY <1>7, <2>1, <2>2 DEF PathInv, QuietRead
<1> QED
  <2>1. OpenFile
    BY DEF Step
  <2> QED BY <1>5, <1>6, <1>7, <2>1 DEF OpenFile, SameFile, Goto

LEMMA PiecePath == ReadInv /\ PathInv /\ Step(ReadPiece) => PathInv'
<1> SUFFICES ASSUME ReadInv, PathInv, Step(ReadPiece) PROVE PathInv' OBVIOUS
<1>1. /\ UNCHANGED <<tree, again, at, depth, before, opened, finished>> /\ Observe /\ ~again
      /\ pc' \in {"read", "large", "stat"}
  BY DEF Step, ReadPiece, Goto, ReadInv, OpenOK
<1>2. Descent' /\ OpenedAtPath' /\ QuietInv'
  BY <1>1, OpenedKept DEF Descent, OpenedAtPath, QuietInv
<1> QED BY <1>1, <1>2 DEF PathInv, QuietRead

LEMMA StatPath == ReadInv /\ PathInv /\ Step(StatAgain) => PathInv'
<1> SUFFICES ASSUME ReadInv, PathInv, Step(StatAgain) PROVE PathInv' OBVIOUS
<1>1. /\ UNCHANGED <<tree, at, depth, before, opened, text>> /\ Observe
      /\ pc = "stat" /\ pc' = "root" /\ opened.inode # None
      /\ finished' = [size |-> Len(content[opened.inode]), time |-> time[opened.inode]]
  BY DEF Step, StatAgain, Goto, ReadInv, OpenOK
<1>2. /\ UNCHANGED <<kind, content, time>> /\ Named(Path)' = Named(Path)
      /\ steady' => steady
      /\ quiet' => quiet /\ steady'
      /\ first \subseteq first'
  BY <1>1, SameNames DEF tree, Observe
<1>3. quiet => /\ time[opened.inode] = opened.time /\ opened.size = Len(content[opened.inode])
               /\ opened.inode = Named(Path) /\ kind[opened.inode] = "file"
               /\ text = content[opened.inode]
  BY <1>1 DEF PathInv, QuietInv, ReadInv, TextOK
<1>4. Descent' /\ OpenedAtPath'
  BY <1>1, <1>2 DEF PathInv, Descent, OpenedAtPath
<1>5. QuietInv'
  BY <1>1, <1>2, <1>3 DEF QuietInv
<1> QED BY <1>1, <1>4, <1>5 DEF PathInv, QuietRead

LEMMA FailPath == ReadInv /\ PathInv /\ Step(Fail) => PathInv'
<1> SUFFICES ASSUME ReadInv, PathInv, Step(Fail) PROVE PathInv' OBVIOUS
<1>1. /\ UNCHANGED <<tree, again, opened, finished, text>> /\ Observe /\ pc' = "failed"
  BY DEF Step, Fail, Goto
<1>2. Descent' /\ OpenedAtPath' /\ QuietInv'
  BY <1>1, OpenedKept DEF Descent, OpenedAtPath, QuietInv
<1> QED BY <1>1, <1>2 DEF PathInv, QuietRead

LEMMA SamePath == PathInv /\ UNCHANGED vars => PathInv'
<1> SUFFICES ASSUME PathInv, UNCHANGED vars PROVE PathInv' OBVIOUS
<1>1. UNCHANGED <<rootAt, entry, kind, content, time, reader, history>>
  BY DEF vars, tree
<1>2. Named(Path)' = Named(Path) /\ Directories' = Directories
  BY <1>1, SameNames
<1>3. Descent' /\ OpenedAtPath' /\ QuietInv'
  BY <1>1, <1>2 DEF reader, history, PathInv, Descent, OpenedAtPath, QuietInv
<1> QED BY <1>1, <1>2, <1>3 DEF reader, history, PathInv, QuietRead, IsFile

LEMMA InitPath == Init => PathInv
<1> SUFFICES ASSUME Init PROVE PathInv OBVIOUS
<1>1. kind[TheRoot] = "dir" /\ opened.inode = None
  BY DEF Init, TreeInit, NotOpen
<1> QED BY <1>1 DEF Init, PathInv, Descent, OpenedAtPath, QuietInv, QuietRead

\* For every tree, path and number of changes by others: while the directories on the path
\* stay the same, the file that is read had the path when it was opened and again when
\* everything was read; while nothing happens to it, it is read whole and not refused.
THEOREM ReadByPath == Spec => []ReadOfPath
<1>1. Init => ReadInv /\ PathInv
  BY ReadInitOK, InitPath
<1>2. ReadInv /\ PathInv /\ [Next]_vars => (ReadInv /\ PathInv)'
  BY ReadInvNext, OthersPath, RootPath, LstatPath, DirectoryPath, FilePath, PiecePath, StatPath,
     FailPath, SamePath DEF Next
<1>3. ReadInv /\ PathInv => ReadOfPath
  BY DEF PathInv, OpenedAtPath, QuietInv, ReadInv, OpenOK, ReadOfPath, ReadAtPath
<1> QED BY <1>1, <1>2, <1>3, PTL DEF Spec

=============================================================================
