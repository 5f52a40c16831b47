------------------------ MODULE RepositoryWalk_proofs ------------------------
(***************************************************************************)
(* A walk finds nothing twice, nothing that is not wanted and no more than *)
(* its limits, and if it succeeds every file that was there all the time:  *)
(* for every tree, every limit and any number of changes by others.  In a  *)
(* repository that is left alone it finds exactly what is wanted, in       *)
(* order, or there was more than a limit allows.                           *)
(***************************************************************************)
EXTENDS RepositoryWalk, SequenceTheorems, FiniteSetTheorems, WellFoundedInduction, TLAPS

USE DEF None, TheRoot

-----------------------------------------------------------------------------
(* What a path names.                                                      *)

LEMMA Least ==
    ASSUME NEW T, T \subseteq Nat, T # {}
    PROVE  \E x \in T : \A y \in T : ~(y < x)
<1> DEFINE R == {s \in Nat \X Nat : s[1] < s[2]}
<1>1. IsWellFoundedOn(R, Nat) BY NatLessThanWellFounded DEF OpToRel
<1>2. \E x \in T : \A y \in T : ~(<<y, x>> \in R) BY <1>1, WFMin, Zenon
<1>3. ASSUME NEW x \in T, NEW y \in T, y < x PROVE <<y, x>> \in R BY <1>3
<1> QED BY <1>2, <1>3, Zenon

\* One name further from a directory; from anything else, nowhere.
Further(i, name) == IF i = None \/ kind[i] # "dir" THEN None ELSE entry[i][name]
Beginning == IF rootAt = TheRoot THEN TheRoot ELSE None

\* The inodes on a path, as far as it leads.
Trail(f, path) ==
    f = [k \in 0 .. Len(path) |-> IF k = 0 THEN Beginning ELSE Further(f[k - 1], path[k])]

LEMMA NamedByTrail ==
    ASSUME NEW path PROVE Named(path) = (CHOOSE f : Trail(f, path))[Len(path)]
BY DEF Named, Trail, Beginning, Further

LEMMA TrailTo ==
    ASSUME NEW path, Len(path) \in Nat, NEW n \in Nat
    PROVE  \E f : f = [k \in 0 .. n |-> IF k = 0 THEN Beginning ELSE Further(f[k - 1], path[k])]
<1> DEFINE Is(f, m) == f = [k \in 0 .. m |-> IF k = 0 THEN Beginning ELSE Further(f[k - 1], path[k])]
           T == {m \in Nat : ~\E f : Is(f, m)}
<1>1. CASE T = {}
  BY <1>1
<1>2. CASE T # {}
  <2>1. PICK m \in T : \A y \in T : ~(y < m)
    BY <1>2, Least
  <2>2. CASE m = 0
    <3> DEFINE g == [k \in 0 .. 0 |-> Beginning]
    <3>1. Is(g, 0) OBVIOUS
    <3> QED BY <2>1, <2>2, <3>1
  <2>3. CASE m # 0
    <3>1. m \in Nat /\ m - 1 \in Nat /\ m - 1 < m /\ m - 1 \notin T
      <4>1. m \in Nat
        BY <2>1
      <4>2. m - 1 \in Nat /\ m - 1 < m
        BY <4>1, <2>3
      <4> HIDE DEF T
      <4> QED BY <2>1, <4>1, <4>2
    <3>2. PICK f : Is(f, m - 1)
      BY <3>1
    <3> DEFINE g == [k \in 0 .. m |-> IF k = m THEN Further(f[m - 1], path[m]) ELSE f[k]]
               h == [k \in 0 .. m |-> IF k = 0 THEN Beginning ELSE Further(g[k - 1], path[k])]
    <3>3. ASSUME NEW k \in 0 .. m PROVE g[k] = h[k]
      <4>1. CASE k = m
        BY <3>1, <4>1, <2>3
      <4>2. CASE k # m
        <5>1. k \in 0 .. m - 1 /\ (k # 0 => k - 1 \in 0 .. m /\ k - 1 # m)
          BY <3>1, <4>2
        <5>2. g[k] = f[k] /\ (k # 0 => g[k - 1] = f[k - 1])
          BY <4>2, <5>1
        <5>3. f[k] = IF k = 0 THEN Beginning ELSE Further(f[k - 1], path[k])
          BY <3>2, <5>1
        <5>4. h[k] = IF k = 0 THEN Beginning ELSE Further(g[k - 1], path[k])
          OBVIOUS
        <5> QED BY <5>2, <5>3, <5>4, Zenon
      <4> QED BY <4>1, <4>2
    <3>4. g = h
      BY <3>3
    <3>5. Is(g, m)
      BY <3>4
    <3> HIDE DEF g, h
    <3> QED BY <2>1, <3>5
  <2> QED BY <2>2, <2>3
<1> QED BY <1>1, <1>2

Follows(f, p, m) ==
    \A k \in 0 .. m : f[k] = IF k = 0 THEN Beginning ELSE Further(f[k - 1], p[k])

\* What a path names is what its last name names in what the rest of it names.
LEMMA NamedTrail ==
    ASSUME NEW path, Len(path) \in Nat
    PROVE  \E f : Named(path) = f[Len(path)] /\ Follows(f, path, Len(path))
<1> DEFINE f == CHOOSE f : Trail(f, path)
<1>1. Trail(f, path)
  BY TrailTo DEF Trail
<1>2. Named(path) = f[Len(path)]
  BY NamedByTrail
<1> HIDE DEF f
<1>3. ASSUME NEW k \in 0 .. Len(path)
      PROVE  f[k] = IF k = 0 THEN Beginning ELSE Further(f[k - 1], path[k])
  BY <1>1 DEF Trail
<1> QED BY <1>2, <1>3 DEF Follows

AlikeTo(p, q, m) == \A k \in 1 .. m : p[k] = q[k]

\* Paths that begin alike lead to the same inodes.
LEMMA TrailsAgree ==
    ASSUME NEW m \in Nat, NEW p, NEW q, AlikeTo(p, q, m),
           NEW f, Follows(f, p, m), NEW g, Follows(g, q, m)
    PROVE  f[m] = g[m]
<1> DEFINE T == {k \in 0 .. m : f[k] # g[k]}
<1>0. T \subseteq Nat /\ m \in 0 .. m
  OBVIOUS
<1> SUFFICES ASSUME T # {} PROVE FALSE
  BY <1>0
<1>1. PICK k \in T : \A y \in T : ~(y < k)
  <2> HIDE DEF T
  <2> QED BY <1>0, Least
<1>2. k \in 0 .. m /\ f[k] # g[k]
  OBVIOUS
<1>3. CASE k = 0
  BY <1>2, <1>3 DEF Follows
<1>4. CASE k # 0
  <2>1. k - 1 \in 0 .. m /\ k - 1 < k /\ k \in 1 .. m
    BY <1>2, <1>4
  <2>2. f[k - 1] = g[k - 1]
    BY <1>1, <2>1
  <2>3. f[k] = Further(f[k - 1], p[k]) /\ g[k] = Further(g[k - 1], q[k]) /\ p[k] = q[k]
    BY <1>2, <1>4, <2>1 DEF Follows, AlikeTo
  <2> QED BY <1>2, <2>2, <2>3
<1> QED BY <1>3, <1>4

\* What a path names is one name further than what the path before names.
LEMMA NamedAppend ==
    ASSUME NEW q \in Seq(Names), NEW n \in Names
    PROVE  Named(Append(q, n)) = Further(Named(q), n)
<1> DEFINE p == Append(q, n)
           m == Len(q)
<1>1. /\ m \in Nat /\ Len(p) = m + 1 /\ m + 1 \in Nat /\ m + 1 # 0 /\ m + 1 - 1 = m
      /\ m + 1 \in 0 .. m + 1 /\ \A k \in 0 .. m : k \in 0 .. m + 1
      /\ p[m + 1] = n /\ \A k \in 1 .. m : p[k] = q[k]
  BY AppendProperties
<1> HIDE DEF p
<1>2. PICK f : Named(p) = f[Len(p)] /\ Follows(f, p, Len(p))
  BY <1>1, NamedTrail
<1>3. PICK g : Named(q) = g[m] /\ Follows(g, q, m)
  BY <1>1, NamedTrail
<1>4. Follows(f, p, m)
  BY <1>1, <1>2 DEF Follows
<1>5. f[m] = g[m]
  <2>1. AlikeTo(p, q, m)
    BY <1>1 DEF AlikeTo
  <2>2. m \in Nat
    BY <1>1
  <2>3. Follows(g, q, m)
    BY <1>3
  <2> HIDE DEF m
  <2> QED BY <1>4, <2>1, <2>2, <2>3, TrailsAgree
<1>6. f[m + 1] = Further(f[m], n)
  BY <1>1, <1>2 DEF Follows
<1> QED BY <1>1, <1>2, <1>3, <1>5, <1>6 DEF p

LEMMA NamedEmpty == Named(<<>>) = Beginning
<1>1. Len(<<>>) = 0 /\ 0 \in Nat /\ 0 \in 0 .. 0
  OBVIOUS
<1>2. PICK f : Named(<<>>) = f[0] /\ Follows(f, <<>>, 0)
  BY <1>1, NamedTrail
<1> QED BY <1>1, <1>2 DEF Follows

Pre(p, k) == SubSeq(p, 1, k)

LEMMA PreFacts ==
    ASSUME NEW p \in Seq(Names), NEW k \in 0 .. Len(p)
    PROVE  /\ Pre(p, k) \in Seq(Names) /\ Len(Pre(p, k)) = k
           /\ \A i \in 1 .. k : Pre(p, k)[i] = p[i]
<1>1. Len(p) \in Nat /\ k \in Nat /\ \A i \in 1 .. k : p[i] \in Names
  OBVIOUS
<1>2. /\ Pre(p, k) \in Seq(Names) /\ Len(Pre(p, k)) = (IF 1 <= k THEN k - 1 + 1 ELSE 0)
      /\ \A i \in 1 .. k - 1 + 1 : Pre(p, k)[i] = p[1 + i - 1]
  BY <1>1, SubSeqProperties DEF Pre
<1>3. k - 1 + 1 = k /\ (~(1 <= k) => k = 0) /\ \A i \in 1 .. k : 1 + i - 1 = i
  BY <1>1
<1> QED BY <1>2, <1>3

LEMMA PreEnds ==
    ASSUME NEW p \in Seq(Names)
    PROVE  Pre(p, 0) = <<>> /\ Pre(p, Len(p)) = p
BY SubSeqEmpty, SubSeqFull DEF Pre

LEMMA PreNext ==
    ASSUME NEW p \in Seq(Names), NEW k \in 0 .. Len(p) - 1
    PROVE  Pre(p, k + 1) = Append(Pre(p, k), p[k + 1]) /\ p[k + 1] \in Names
<1>1. k \in 0 .. Len(p) /\ k + 1 \in 0 .. Len(p) /\ k \in Nat /\ k + 1 \in 1 .. Len(p)
  OBVIOUS
<1> DEFINE a == Pre(p, k + 1)
           b == Append(Pre(p, k), p[k + 1])
<1>2. p[k + 1] \in Names
  BY <1>1
<1>3. a \in Seq(Names) /\ Len(a) = k + 1 /\ \A i \in 1 .. k + 1 : a[i] = p[i]
  BY <1>1, PreFacts
<1>4. Pre(p, k) \in Seq(Names) /\ Len(Pre(p, k)) = k /\ \A i \in 1 .. k : Pre(p, k)[i] = p[i]
  BY <1>1, PreFacts
<1>5. /\ b \in Seq(Names) /\ Len(b) = k + 1 /\ b[k + 1] = p[k + 1]
      /\ \A i \in 1 .. k : b[i] = p[i]
  BY <1>2, <1>4, AppendProperties
<1> HIDE DEF a, b
<1>6. \A i \in 1 .. k + 1 : a[i] = b[i]
  BY <1>1, <1>3, <1>5
<1>7. a = b
  BY <1>3, <1>5, <1>6, SeqEqual
<1> QED BY <1>2, <1>7 DEF a, b

LEMMA NamedPre ==
    ASSUME NEW p \in Seq(Names), NEW k \in 0 .. Len(p) - 1
    PROVE  Named(Pre(p, k + 1)) = Further(Named(Pre(p, k)), p[k + 1])
<1>1. k \in 0 .. Len(p)
  OBVIOUS
<1> QED BY <1>1, PreFacts, PreNext, NamedAppend

LEMMA NamedInode ==
    ASSUME TreeTypeOK, NEW p \in Seq(Names), NEW k \in 0 .. Len(p)
    PROVE  Named(Pre(p, k)) \in Inodes \cup {None}
<1> DEFINE T == {j \in 0 .. Len(p) : Named(Pre(p, j)) \notin Inodes \cup {None}}
<1>0. T \subseteq Nat
  OBVIOUS
<1> SUFFICES ASSUME T # {} PROVE FALSE
  OBVIOUS
<1>1. PICK j \in T : \A y \in T : ~(y < j)
  <2> HIDE DEF T
  <2> QED BY <1>0, Least
<1>2. j \in 0 .. Len(p) /\ Named(Pre(p, j)) \notin Inodes \cup {None}
  OBVIOUS
<1>3. CASE j = 0
  BY <1>2, <1>3, PreEnds, NamedEmpty, FileTreeAssumption DEF Beginning
<1>4. CASE j # 0
  <2>1. j - 1 \in 0 .. Len(p) - 1 /\ j - 1 \in 0 .. Len(p) /\ j - 1 < j /\ j - 1 + 1 = j
    BY <1>2, <1>4
  <2>2. Named(Pre(p, j - 1)) \in Inodes \cup {None}
    <3>1. j - 1 \notin T
      <4> HIDE DEF T
      <4> QED BY <1>1, <2>1
    <3> QED BY <2>1, <3>1
  <2>3. Named(Pre(p, j)) = Further(Named(Pre(p, j - 1)), p[j])
    BY <2>1, NamedPre
  <2>4. p[j] \in Names
    BY <2>1, PreNext
  <2> QED BY <1>2, <2>2, <2>3, <2>4 DEF Further, TreeTypeOK
<1> QED BY <1>3, <1>4

\* A path that names something leads through directories.
LEMMA OnTheWay ==
    ASSUME TreeTypeOK, NEW p \in Seq(Names), Named(p) # None, NEW k \in 0 .. Len(p) - 1
    PROVE  /\ Named(Pre(p, k)) \in Inodes /\ kind[Named(Pre(p, k))] = "dir"
           /\ Named(Pre(p, k + 1)) = entry[Named(Pre(p, k))][p[k + 1]]
           /\ Named(Pre(p, k + 1)) # None
<1> DEFINE T == {j \in k + 1 .. Len(p) : Named(Pre(p, j)) # None}
<1>0. Len(p) \in Nat /\ k \in Nat /\ T \subseteq Nat /\ k + 1 \in 0 .. Len(p) /\ k \in 0 .. Len(p)
  OBVIOUS
<1>1. Len(p) \in T
  BY <1>0, PreEnds
<1>2. PICK j \in T : \A y \in T : ~(y < j)
  <2> HIDE DEF T
  <2> QED BY <1>0, <1>1, Least
<1>3. j \in k + 1 .. Len(p) /\ Named(Pre(p, j)) # None
  OBVIOUS
<1>4. /\ j - 1 \in 0 .. Len(p) - 1 /\ j - 1 + 1 = j /\ j - 1 < j
      /\ j # k + 1 => j - 1 \in k + 1 .. Len(p)
  BY <1>0, <1>3
<1>5. Named(Pre(p, j)) = Further(Named(Pre(p, j - 1)), p[j])
  BY <1>4, NamedPre
<1>6. j = k + 1
  <2> SUFFICES ASSUME j # k + 1 PROVE FALSE
    OBVIOUS
  <2>1. j - 1 \notin T
    <3> HIDE DEF T
    <3> QED BY <1>2, <1>4
  <2>2. Named(Pre(p, j - 1)) = None
    BY <1>4, <2>1
  <2> QED BY <1>3, <1>5, <2>2 DEF Further
<1>7. j - 1 = k
  BY <1>0, <1>6
<1>8. Named(Pre(p, k)) \in Inodes \cup {None}
  BY <1>0, NamedInode
<1> HIDE DEF T
<1> QED BY <1>3, <1>5, <1>6, <1>7, <1>8 DEF Further

LEMMA NamedIsLinked ==
    ASSUME TreeTypeOK, NEW p \in Seq(Names), Named(p) # None
    PROVE  Named(p) \in Inodes /\ Named(p) \in Linked
<1>1. CASE p = <<>>
  BY <1>1, NamedEmpty, FileTreeAssumption DEF Beginning, Linked
<1>2. CASE p # <<>>
  <2>1. Len(p) - 1 \in 0 .. Len(p) - 1 /\ Len(p) - 1 + 1 = Len(p) /\ Len(p) \in 0 .. Len(p)
    BY <1>2
  <2>2. /\ Named(Pre(p, Len(p) - 1)) \in Inodes /\ p[Len(p)] \in Names
        /\ Named(Pre(p, Len(p))) = entry[Named(Pre(p, Len(p) - 1))][p[Len(p)]]
    BY <2>1, OnTheWay, PreNext
  <2>3. Named(p) \in Inodes
    BY <2>1, NamedInode, PreEnds
  <2> QED BY <2>2, <2>3, PreEnds DEF Linked
<1> QED BY <1>1, <1>2

-----------------------------------------------------------------------------
(* The other processes.                                                    *)

LEMMA TreeInitOK == TreeInit => TreeTypeOK
BY FileTreeAssumption DEF TreeInit, TreeTypeOK

LEMMA RenameOK ==
    ASSUME TreeTypeOK, NEW d \in Inodes, NEW e \in Inodes, NEW n \in Names, NEW m \in Names,
           Rename(d, n, e, m)
    PROVE  entry' \in [Inodes -> [Names -> Inodes \cup {None}]]
           /\ UNCHANGED <<rootAt, kind, content, time>>
<1> DEFINE i == entry[d][n]
           E1 == [entry EXCEPT ![d][n] = None]
<1>1. i \in Inodes \cup {None} BY DEF TreeTypeOK
<1>2. E1 \in [Inodes -> [Names -> Inodes \cup {None}]] BY DEF TreeTypeOK
<1>3. entry' = [E1 EXCEPT ![e][m] = i] BY DEF Rename
<1>4. [E1 EXCEPT ![e][m] = i] \in [Inodes -> [Names -> Inodes \cup {None}]]
  <2> HIDE DEF E1, i
  <2> QED BY <1>1, <1>2
<1> QED BY <1>3, <1>4 DEF Rename

LEMMA CreateOK ==
    ASSUME TreeTypeOK, NEW d \in Inodes, NEW n \in Names, NEW i \in Inodes, NEW kept,
           NEW k \in {"dir", "file", "link"}, Create(d, n, i, k, kept),
           changes' \in 0 .. MaxChanges
    PROVE  /\ TreeTypeOK'
           /\ i \notin kept
           /\ \A j \in Inodes \ {i} : content'[j] = content[j] /\ time'[j] = time[j]
<1>1. entry' \in [Inodes -> [Names -> Inodes \cup {None}]] BY DEF Create, TreeTypeOK
<1>2. kind' \in [Inodes -> {"dir", "file", "link"}] BY DEF Create, TreeTypeOK
<1>3. <<>> \in Contents
  <2>1. 0 \in 0 .. MaxSize BY FileTreeAssumption
  <2>2. <<>> \in [1 .. 0 -> Values] OBVIOUS
  <2> QED BY <2>1, <2>2 DEF Contents
<1>4. content' \in [Inodes -> Contents] BY <1>3 DEF Create, TreeTypeOK
<1>5. time' \in [Inodes -> Nat] BY DEF Create, TreeTypeOK
<1>6. rootAt' \in Inodes BY DEF Create, TreeTypeOK
<1>7. i \notin kept BY DEF Create
<1>8. \A j \in Inodes \ {i} : content'[j] = content[j] /\ time'[j] = time[j]
  BY DEF Create, TreeTypeOK
<1> QED BY <1>1, <1>2, <1>4, <1>5, <1>6, <1>7, <1>8 DEF TreeTypeOK

LEMMA WriteOK ==
    ASSUME TreeTypeOK, NEW i \in Inodes, NEW new \in Contents, WriteFile(i, new)
    PROVE  /\ content' \in [Inodes -> Contents] /\ time' \in [Inodes -> Nat]
           /\ UNCHANGED <<rootAt, entry, kind>>
           /\ time'[i] = time[i] + 1
           /\ \A j \in Inodes \ {i} : content'[j] = content[j] /\ time'[j] = time[j]
<1>1. content' = [content EXCEPT ![i] = new] /\ time' = [time EXCEPT ![i] = @ + 1]
  BY DEF WriteFile
<1> QED BY <1>1 DEF WriteFile, TreeTypeOK

\* What others do keeps the types; and a file that is held open keeps its content as long
\* as it keeps its time.
LEMMA ChangeTypes ==
    ASSUME TreeTypeOK, NEW kept, Change(kept)
    PROVE  /\ TreeTypeOK'
           /\ \A i \in Inodes \cap kept :
                 /\ time'[i] >= time[i]
                 /\ time'[i] = time[i] => content'[i] = content[i]
<1>1. changes' \in 0 .. MaxChanges BY FileTreeAssumption DEF Change, TreeTypeOK
<1>2. \A i \in Inodes : time[i] \in Nat BY DEF TreeTypeOK
<1>3. CASE \E d, e \in Inodes, n, m \in Names : Rename(d, n, e, m)
  <2>1. PICK d \in Inodes, e \in Inodes, n \in Names, m \in Names : Rename(d, n, e, m) BY <1>3
  <2> QED BY <1>1, <1>2, <2>1, RenameOK DEF TreeTypeOK
<1>4. CASE \E d \in Inodes, n \in Names : Unlink(d, n)
  <2>1. PICK d \in Inodes, n \in Names : Unlink(d, n) BY <1>4
  <2>2. entry' \in [Inodes -> [Names -> Inodes \cup {None}]] BY <2>1 DEF Unlink, TreeTypeOK
  <2> QED BY <1>1, <1>2, <2>1, <2>2 DEF Unlink, TreeTypeOK
<1>5. CASE \E d, i \in Inodes, n \in Names, k \in {"dir", "file", "link"} : Create(d, n, i, k, kept)
  <2>1. PICK d \in Inodes, i \in Inodes, n \in Names, k \in {"dir", "file", "link"} :
            Create(d, n, i, k, kept) BY <1>5
  <2>2. TreeTypeOK' /\ i \notin kept
        /\ \A j \in Inodes \ {i} : content'[j] = content[j] /\ time'[j] = time[j]
    BY <1>1, <2>1, CreateOK
  <2> QED BY <1>2, <2>2
<1>6. CASE \E i \in Inodes, new \in Contents : WriteFile(i, new)
  <2>1. PICK i \in Inodes, new \in Contents : WriteFile(i, new) BY <1>6
  <2>2. /\ content' \in [Inodes -> Contents] /\ time' \in [Inodes -> Nat]
        /\ UNCHANGED <<rootAt, entry, kind>>
        /\ time'[i] = time[i] + 1
        /\ \A j \in Inodes \ {i} : content'[j] = content[j] /\ time'[j] = time[j]
    BY <2>1, WriteOK
  <2>3. TreeTypeOK' BY <1>1, <2>2 DEF TreeTypeOK
  <2>4. ASSUME NEW j \in Inodes
        PROVE  time'[j] >= time[j] /\ (time'[j] = time[j] => content'[j] = content[j])
    <3>1. CASE j = i BY <1>2, <2>2, <3>1
    <3>2. CASE j # i BY <1>2, <2>2, <3>2
    <3> QED BY <3>1, <3>2
  <2> QED BY <2>3, <2>4
<1>7. CASE \E i \in Inodes : ReplaceRoot(i)
  <2>1. PICK i \in Inodes : ReplaceRoot(i) BY <1>7
  <2> QED BY <1>1, <1>2, <2>1 DEF ReplaceRoot, TreeTypeOK
<1> QED BY <1>3, <1>4, <1>5, <1>6, <1>7 DEF Change

\* While somebody holds an inode or something names it, it stays what it is; and a file
\* that is held has been written to if its time has moved on.
LEMMA ChangeKeeps ==
    ASSUME TreeTypeOK, NEW kept, Change(kept), NEW i \in Inodes
    PROVE  /\ i \in Linked \cup kept => kind'[i] = kind[i]
           /\ i \in kept /\ content' = content => time'[i] = time[i]
<1>1. CASE \E d, e \in Inodes, n, m \in Names : Rename(d, n, e, m)
  BY <1>1 DEF Rename
<1>2. CASE \E d \in Inodes, n \in Names : Unlink(d, n)
  BY <1>2 DEF Unlink
<1>3. CASE \E d, j \in Inodes, n \in Names, k \in {"dir", "file", "link"} : Create(d, n, j, k, kept)
  <2>1. PICK d \in Inodes, j \in Inodes, n \in Names, k \in {"dir", "file", "link"} :
            Create(d, n, j, k, kept)
    BY <1>3
  <2>2. /\ j \notin Linked \cup kept
        /\ kind' = [kind EXCEPT ![j] = k] /\ time' = [time EXCEPT ![j] = @ + 1]
    BY <2>1 DEF Create
  <2> QED BY <2>2 DEF TreeTypeOK
<1>4. CASE \E j \in Inodes, new \in Contents : WriteFile(j, new)
  <2>1. PICK j \in Inodes, new \in Contents : WriteFile(j, new)
    BY <1>4
  <2>2. kind' = kind /\ content' # content
    BY <2>1 DEF WriteFile, TreeTypeOK
  <2> QED BY <2>2
<1>5. CASE \E j \in Inodes : ReplaceRoot(j)
  BY <1>5 DEF ReplaceRoot
<1> QED BY <1>1, <1>2, <1>3, <1>4, <1>5 DEF Change

-----------------------------------------------------------------------------
(* Sorting.                                                                *)

\* The first m elements can be put in order as f says.
Arranged(f, s, m) ==
    /\ f \in [1 .. m -> 1 .. m]
    /\ \A i, j \in 1 .. m : f[i] = f[j] => i = j
    /\ \A v \in 1 .. m : \E i \in 1 .. m : f[i] = v
    /\ \A j, k \in 1 .. m : j < k => ~Before(s[f[k]], s[f[j]])

Different(s, m) ==
    /\ \A i \in 1 .. m : s[i] \in Sortable
    /\ \A i, j \in 1 .. m : i # j => s[i] # s[j]

LEMMA BeforeOrders ==
    /\ \A p, q \in Sortable : p # q => (Before(q, p) <=> ~Before(p, q))
    /\ \A p, q, r \in Sortable : Before(p, q) /\ Before(q, r) => Before(p, r)
BY RepositoryWalkAssumption

\* One more element is put before the first one that comes after it.
LEMMA Inserted ==
    ASSUME NEW m \in Nat, m # 0, NEW s, Different(s, m), NEW f, Arranged(f, s, m - 1)
    PROVE  \E g : Arranged(g, s, m)
<1> DEFINE x == s[m]
           C == {i \in 1 .. m : i = m \/ Before(x, s[f[i]])}
<1>0. /\ C \subseteq Nat /\ m \in C /\ m - 1 \in Nat /\ m \in 1 .. m
      /\ \A i \in 1 .. m - 1 : f[i] \in 1 .. m - 1 /\ f[i] \in 1 .. m /\ f[i] # m
  <2>1. C \subseteq Nat /\ m \in C /\ m - 1 \in Nat /\ m \in 1 .. m
    OBVIOUS
  <2>2. f \in [1 .. m - 1 -> 1 .. m - 1]
    BY DEF Arranged
  <2>3. \A v \in 1 .. m - 1 : v \in 1 .. m /\ v # m
    OBVIOUS
  <2> HIDE DEF C
  <2> QED BY <2>1, <2>2, <2>3
<1>1. PICK c \in C : \A y \in C : ~(y < c)
  <2> HIDE DEF C
  <2> QED BY <1>0, Least
<1>2. c \in 1 .. m /\ (c # m => Before(x, s[f[c]]))
  OBVIOUS
<1>3. ASSUME NEW i \in 1 .. m, i < c PROVE i \in 1 .. m - 1 /\ ~Before(x, s[f[i]])
  <2>1. i \notin C
    <3> HIDE DEF C
    <3> QED BY <1>1, <1>3
  <2>2. i \in 1 .. m - 1
    BY <1>2, <1>3
  <2> QED BY <2>1, <2>2
<1> HIDE DEF C
<1> DEFINE g == [i \in 1 .. m |-> IF i < c THEN f[i] ELSE IF i = c THEN m ELSE f[i - 1]]
<1>4. ASSUME NEW i \in 1 .. m
      PROVE  /\ i < c => i \in 1 .. m - 1 /\ g[i] = f[i]
             /\ i = c => g[i] = m
             /\ i > c => i - 1 \in 1 .. m - 1 /\ c <= i - 1 /\ g[i] = f[i - 1]
  BY <1>2
<1>5. g \in [1 .. m -> 1 .. m]
  <2>1. \A i \in 1 .. m : g[i] \in 1 .. m
    <3> HIDE DEF g
    <3> QED BY <1>0, <1>2, <1>4
  <2>2. g = [i \in 1 .. m |-> g[i]]
    OBVIOUS
  <2> HIDE DEF g
  <2> QED BY <2>1, <2>2
<1> HIDE DEF g, x
<1>6. ASSUME NEW i \in 1 .. m, NEW j \in 1 .. m, i < j PROVE g[i] # g[j]
  <2>0. i \in Int /\ j \in Int /\ c \in Int /\ i # j
    BY <1>2, <1>6
  <2>1. \A a, b \in 1 .. m - 1 : f[a] = f[b] => a = b
    BY DEF Arranged
  <2>2. CASE j < c
    BY <1>4, <1>6, <2>0, <2>1, <2>2
  <2>3. CASE j = c
    BY <1>0, <1>4, <1>6, <2>0, <2>3
  <2>4. CASE j > c /\ i < c
    BY <1>4, <1>6, <2>0, <2>1, <2>4
  <2>5. CASE j > c /\ i = c
    BY <1>0, <1>4, <1>6, <2>0, <2>5
  <2>6. CASE j > c /\ i > c
    BY <1>4, <1>6, <2>0, <2>1, <2>6
  <2> QED BY <2>0, <2>2, <2>3, <2>4, <2>5, <2>6
<1>7. ASSUME NEW v \in 1 .. m PROVE \E i \in 1 .. m : g[i] = v
  <2>1. CASE v = m
    BY <1>2, <1>4, <2>1
  <2>2. CASE v # m
    <3>1. v \in 1 .. m - 1
      BY <2>2
    <3>2. PICK i \in 1 .. m - 1 : f[i] = v
      BY <3>1 DEF Arranged
    <3>3. CASE i < c
      BY <1>4, <3>2, <3>3
    <3>4. CASE i >= c
      <4>1. i + 1 \in 1 .. m /\ i + 1 > c /\ i + 1 - 1 = i
        BY <1>2, <3>4
      <4> QED BY <1>4, <3>2, <4>1
    <3> QED BY <1>2, <3>3, <3>4
  <2> QED BY <2>1, <2>2
<1>8. ASSUME NEW j \in 1 .. m, NEW k \in 1 .. m, j < k PROVE ~Before(s[g[k]], s[g[j]])
  <2>0. j \in Int /\ k \in Int /\ c \in Int
    BY <1>2
  <2>1. \A a, b \in 1 .. m - 1 : a < b => ~Before(s[f[b]], s[f[a]])
    BY DEF Arranged
  <2>2. /\ x \in Sortable
        /\ \A a \in 1 .. m - 1 : s[f[a]] \in Sortable /\ s[f[a]] # x
    BY <1>0 DEF Different, x
  <2>3. CASE k < c
    <3>1. j < c
      BY <1>8, <2>0, <2>3
    <3> QED BY <1>4, <1>8, <2>1, <2>3, <3>1
  <2>4. CASE k = c
    BY <1>3, <1>4, <1>8, <2>4 DEF x
  <2>5. CASE k > c /\ j < c
    <3>1. j < k - 1
      BY <2>0, <2>5
    <3> QED BY <1>4, <2>1, <2>5, <3>1
  <2>6. CASE k > c /\ j = c
    <3>1. c \in 1 .. m - 1 /\ k - 1 \in 1 .. m - 1 /\ c # m /\ (c = k - 1 \/ c < k - 1)
      BY <1>2, <2>0, <2>6
    <3>2. Before(x, s[f[c]])
      BY <1>2, <3>1
    <3>3. ~Before(s[f[k - 1]], x)
      <4>1. CASE c = k - 1
        BY <2>2, <3>1, <3>2, <4>1, BeforeOrders
      <4>2. CASE c < k - 1
        BY <2>1, <2>2, <3>1, <3>2, <4>2, BeforeOrders
      <4> QED BY <3>1, <4>1, <4>2
    <3> QED BY <1>4, <2>6, <3>3 DEF x
  <2>7. CASE k > c /\ j > c
    <3>1. j - 1 < k - 1
      BY <1>8, <2>0
    <3> QED BY <1>4, <2>1, <2>7, <3>1
  <2> QED BY <2>0, <2>3, <2>4, <2>5, <2>6, <2>7
<1>9. \A i, j \in 1 .. m : g[i] = g[j] => i = j
  <2> SUFFICES ASSUME NEW i \in 1 .. m, NEW j \in 1 .. m, g[i] = g[j] PROVE i = j
    OBVIOUS
  <2>1. ~(i < j) /\ ~(j < i)
    BY <1>6
  <2> QED BY <2>1
<1> QED BY <1>5, <1>7, <1>8, <1>9 DEF Arranged

LEMMA DifferentLess ==
    ASSUME NEW n \in Nat, NEW m \in 0 .. n, NEW s, Different(s, n) PROVE Different(s, m)
BY DEF Different

LEMMA CanBeArranged ==
    ASSUME NEW n \in Nat, NEW s, Different(s, n)
    PROVE  \E f : Arranged(f, s, n)
<1> DEFINE T == {m \in 0 .. n : ~\E f : Arranged(f, s, m)}
<1>0. T \subseteq Nat /\ n \in 0 .. n
  OBVIOUS
<1> SUFFICES ASSUME T # {} PROVE FALSE
  BY <1>0
<1>1. PICK m \in T : \A y \in T : ~(y < m)
  <2> HIDE DEF T
  <2> QED BY <1>0, Least
<1>2. m \in 0 .. n /\ ~\E f : Arranged(f, s, m)
  OBVIOUS
<1>3. CASE m = 0
  <2> DEFINE e == [i \in 1 .. 0 |-> i]
  <2>1. Arranged(e, s, 0)
    BY DEF Arranged
  <2> QED BY <1>2, <1>3, <2>1
<1>4. CASE m # 0
  <2>1. m - 1 \in 0 .. n /\ m - 1 < m /\ m \in Nat
    BY <1>2, <1>4
  <2>2. m - 1 \notin T
    <3> HIDE DEF T
    <3> QED BY <1>1, <2>1
  <2>3. PICK f : Arranged(f, s, m - 1)
    BY <2>1, <2>2
  <2>4. Different(s, m)
    BY <1>2, DifferentLess
  <2>5. \E g : Arranged(g, s, m)
    BY <1>4, <2>1, <2>3, <2>4, Inserted
  <2> QED BY <1>2, <2>5
<1> QED BY <1>3, <1>4

\* Sorting only puts the paths in another order.
LEMMA SortedIs ==
    ASSUME NEW s \in Seq(Seq(Names)), Different(s, Len(s))
    PROVE  /\ Sorted(s) \in Seq(Seq(Names)) /\ Len(Sorted(s)) = Len(s)
           /\ \A k \in 1 .. Len(s) : \E i \in 1 .. Len(s) : Sorted(s)[k] = s[i]
           /\ \A i \in 1 .. Len(s) : \E k \in 1 .. Len(s) : Sorted(s)[k] = s[i]
           /\ \A j, k \in 1 .. Len(s) : j # k => Sorted(s)[j] # Sorted(s)[k]
           /\ \A j, k \in 1 .. Len(s) : j < k => ~Before(Sorted(s)[k], Sorted(s)[j])
<1> DEFINE n == Len(s)
           InOrder(f) == \A j, k \in 1 .. n : j < k => ~Before(s[f[k]], s[f[j]])
           order == CHOOSE f \in Bijection(1 .. n, 1 .. n) : InOrder(f)
           t == [k \in 1 .. n |-> s[order[k]]]
<1>1. n \in Nat /\ DOMAIN s = 1 .. n /\ \A k \in 1 .. n : s[k] \in Seq(Names)
  OBVIOUS
<1>2. \A f : f \in Bijection(1 .. n, 1 .. n) <=>
             /\ f \in [1 .. n -> 1 .. n]
             /\ \A i, j \in 1 .. n : f[i] = f[j] => i = j
             /\ \A v \in 1 .. n : \E i \in 1 .. n : f[i] = v
  BY DEF Bijection, Injection, Surjection, IsInjective
<1>3. \E f \in Bijection(1 .. n, 1 .. n) : InOrder(f)
  <2>1. PICK f : Arranged(f, s, n)
    BY <1>1, CanBeArranged
  <2>2. f \in Bijection(1 .. n, 1 .. n) /\ InOrder(f)
    BY <1>2, <2>1 DEF Arranged
  <2> QED BY <2>2
<1>4. order \in Bijection(1 .. n, 1 .. n) /\ InOrder(order)
  BY <1>3
<1>5. Sorted(s) = t
  BY <1>1 DEF Sorted
<1> HIDE DEF order
<1>6. /\ order \in [1 .. n -> 1 .. n]
      /\ \A i, j \in 1 .. n : order[i] = order[j] => i = j
      /\ \A v \in 1 .. n : \E i \in 1 .. n : order[i] = v
  BY <1>2, <1>4
<1>7. \A k \in 1 .. n : t[k] = s[order[k]] /\ order[k] \in 1 .. n /\ t[k] \in Seq(Names)
  BY <1>1, <1>6
<1>8. t \in Seq(Seq(Names)) /\ Len(t) = n
  BY <1>1, <1>7, IsASeq
<1> HIDE DEF t
<1>9. \A j, k \in 1 .. n : j # k => t[j] # t[k]
  <2> SUFFICES ASSUME NEW j \in 1 .. n, NEW k \in 1 .. n, j # k PROVE t[j] # t[k]
    OBVIOUS
  <2>1. order[j] # order[k] /\ order[j] \in 1 .. n /\ order[k] \in 1 .. n
    BY <1>6, <1>7
  <2>2. s[order[j]] # s[order[k]]
    BY <2>1 DEF Different
  <2> QED BY <1>7, <2>2
<1>10. \A j, k \in 1 .. n : j < k => ~Before(t[k], t[j])
  BY <1>4, <1>7
<1>11. ASSUME NEW i \in 1 .. n PROVE \E k \in 1 .. n : t[k] = s[i]
  <2>1. PICK k \in 1 .. n : order[k] = i
    BY <1>6
  <2> QED BY <1>7, <2>1
<1> QED BY <1>5, <1>7, <1>8, <1>9, <1>10, <1>11

-----------------------------------------------------------------------------
(* Types.                                                                  *)

Seen   == [inode : Inodes, path : Seq(Names)]
Dir(k) == pending[k].path
Going  == pc \in {"next", "descend", "open", "entries"}

TypeInv ==
    /\ TreeTypeOK /\ kind[TheRoot] = "dir" /\ sourceOnly \in BOOLEAN
    /\ pc \in {"next", "descend", "open", "entries", "done", "error", "limit", "failed"}
    /\ pending \in Seq(Seen) /\ paths \in Seq(Seq(Names))
    /\ at \in Inodes \cup {None} /\ before \in Inodes \cup {None}
    /\ at # None => kind[at] = "dir"
    /\ rest \subseteq Names /\ count \in Nat /\ size \in Nat
    /\ pc \in {"descend", "open", "entries"} => pending # <<>> /\ at # None /\ depth \in 0 .. Len(Dir(1))
    /\ pc = "open" => depth < Len(Dir(1)) /\ before # None
    /\ \A p \in stable : p \in Seq(Names) /\ Len(p) <= MaxDepth + 1

\* What the steps of the walk have in common.
LEMMA StepKeeps ==
    ASSUME NEW A, Step(A)
    PROVE  /\ Running /\ A
           /\ UNCHANGED <<rootAt, entry, kind, content, time, changes, sourceOnly, stable>>
<1>1. UNCHANGED <<rootAt, entry, kind, content, time, changes, sourceOnly>>
  BY DEF Step, tree
<1>2. \A q : Chain(q)' = Chain(q)
  BY <1>1 DEF Chain, Named
<1> QED BY <1>1, <1>2 DEF Step, Observe

\* What an entry can do to the walk.
Stops == pc' \in {"limit", "error"} /\ UNCHANGED <<pending, paths, size>>
PassesOver(n) ==
    LET i == entry[at][n] IN
    /\ i # None /\ UNCHANGED <<pc, pending, paths, size>>
    /\ kind[i] = "link" \/ (kind[i] = "dir" /\ ~Enters(n)) \/ (kind[i] = "file" /\ ~Found(n))
AddsDirectory(n) ==
    LET i == entry[at][n] IN
    /\ i # None /\ kind[i] = "dir" /\ Enters(n) /\ Len(Append(Directory, n)) - 1 <= MaxDepth
    /\ pending' = Append(pending, [inode |-> i, path |-> Append(Directory, n)])
    /\ UNCHANGED <<pc, paths, size>>
AddsFile(n) ==
    LET i == entry[at][n] IN
    /\ i # None /\ kind[i] = "file" /\ Found(n) /\ Len(Append(Directory, n)) - 1 <= MaxDepth
    /\ paths' = Append(paths, Append(Directory, n))
    /\ IF sourceOnly THEN ~TooLarge(Len(content[i])) /\ size' = size + Len(content[i])
       ELSE size' = size
    /\ UNCHANGED <<pc, pending>>

LEMMA EntryCases ==
    ASSUME TypeInv, NEW n \in Names, Step(Entry(n))
    PROVE  /\ UNCHANGED <<rootAt, entry, kind, content, time, changes, sourceOnly, stable>>
           /\ pc = "entries" /\ n \in rest /\ rest' = rest \ {n} /\ count' = count + 1
           /\ UNCHANGED <<at, depth, before>>
           /\ pc' # "limit" => count' <= MaxEntries
           /\ Stops \/ PassesOver(n) \/ AddsDirectory(n) \/ AddsFile(n)
<1>1. /\ Entry(n)
      /\ UNCHANGED <<rootAt, entry, kind, content, time, changes, sourceOnly, stable>>
  BY StepKeeps
<1> DEFINE i == entry[at][n]
           path == Append(Directory, n)
<1>2. /\ pc = "entries" /\ n \in rest /\ rest' = rest \ {n} /\ count' = count + 1
      /\ UNCHANGED <<at, depth, before>>
  BY <1>1 DEF Entry
<1>3. count' \in Nat /\ MaxEntries \in Nat /\ (~TooMany(count') <=> count' <= MaxEntries)
  BY <1>2, RepositoryWalkAssumption DEF TooMany, TypeInv
<1>4. CASE TooMany(count') /\ Limit /\ UNCHANGED <<pending, size, paths>>
  BY <1>1, <1>2, <1>3, <1>4 DEF Limit, Goto, Stops
<1>5. CASE ~TooMany(count') /\ i = None /\ Goto("error") /\ UNCHANGED <<pending, size, paths>>
  BY <1>1, <1>2, <1>3, <1>5 DEF Goto, Stops
<1>6. CASE ~TooMany(count') /\ i # None /\ kind[i] = "link" /\ UNCHANGED <<pc, pending, size, paths>>
  BY <1>1, <1>2, <1>3, <1>6 DEF PassesOver
<1>7. CASE /\ ~TooMany(count') /\ i # None /\ kind[i] # "link" /\ Len(path) - 1 > MaxDepth
           /\ Limit /\ UNCHANGED <<pending, size, paths>>
  BY <1>1, <1>2, <1>3, <1>7 DEF Limit, Goto, Stops
<1>8. CASE /\ ~TooMany(count') /\ i # None /\ kind[i] = "dir" /\ Len(path) - 1 <= MaxDepth
           /\ pending' = IF Enters(n) THEN Append(pending, [inode |-> i, path |-> path]) ELSE pending
           /\ UNCHANGED <<pc, size, paths>>
  BY <1>1, <1>2, <1>3, <1>8 DEF PassesOver, AddsDirectory
<1>9. CASE /\ ~TooMany(count') /\ i # None /\ kind[i] = "file" /\ Len(path) - 1 <= MaxDepth
           /\ IF ~Found(n) THEN UNCHANGED <<pc, size, paths>>
              ELSE IF sourceOnly /\ TooLarge(Len(content[i])) THEN Limit /\ UNCHANGED <<size, paths>>
              ELSE /\ paths' = Append(paths, path)
                   /\ size' = IF sourceOnly THEN size + Len(content[i]) ELSE size
                   /\ UNCHANGED pc
           /\ UNCHANGED pending
  <2>1. CASE ~Found(n)
    BY <1>1, <1>2, <1>3, <1>9, <2>1 DEF PassesOver
  <2>2. CASE Found(n) /\ sourceOnly /\ TooLarge(Len(content[i]))
    BY <1>1, <1>2, <1>3, <1>9, <2>2 DEF Limit, Goto, Stops
  <2>3. CASE Found(n) /\ ~(sourceOnly /\ TooLarge(Len(content[i])))
    BY <1>1, <1>2, <1>3, <1>9, <2>3 DEF AddsFile
  <2> QED BY <2>1, <2>2, <2>3
<1> QED BY <1>1, <1>4, <1>5, <1>6, <1>7, <1>8, <1>9 DEF Entry

\* The directory that is read is the first of those that are pending.
LEMMA PendingFacts ==
    ASSUME TypeInv
    PROVE  /\ Len(pending) \in Nat
           /\ \A k \in 1 .. Len(pending) :
                 pending[k] \in Seen /\ pending[k].inode \in Inodes /\ Dir(k) \in Seq(Names)
           /\ pending # <<>> => 1 \in 1 .. Len(pending) /\ Head(pending) = pending[1]
                                /\ Directory = Dir(1)
<1>1. pending \in Seq(Seen)
  BY DEF TypeInv
<1>2. Len(pending) \in Nat /\ \A k \in 1 .. Len(pending) : pending[k] \in Seen
  <2> HIDE DEF Seen
  <2> QED BY <1>1
<1>3. \A s \in Seen : s.inode \in Inodes /\ s.path \in Seq(Names)
  BY DEF Seen
<1>4. pending # <<>> => 1 \in 1 .. Len(pending) /\ Head(pending) = pending[1]
  <2> HIDE DEF Seen
  <2> QED BY <1>1
<1> QED BY <1>2, <1>3, <1>4 DEF Dir, Directory

LEMMA TypeOthers == TypeInv /\ Others => TypeInv'
<1> SUFFICES ASSUME TypeInv, Others PROVE TypeInv'
  OBVIOUS
<1>1. Change({at}) /\ UNCHANGED <<sourceOnly, pc, pending, at, depth, before, rest, count, size, paths>>
  BY DEF Others, walk
<1>2. TreeTypeOK' /\ \A i \in Inodes : i \in Linked \cup {at} => kind'[i] = kind[i]
  BY <1>1, ChangeTypes, ChangeKeeps DEF TypeInv
<1>3. kind'[TheRoot] = "dir"
  BY <1>2, FileTreeAssumption DEF TypeInv, Linked
<1>4. at # None => kind'[at] = "dir"
  BY <1>2 DEF TypeInv
<1>5. stable' \subseteq stable
  BY DEF Others, Observe
<1> QED BY <1>1, <1>2, <1>3, <1>4, <1>5 DEF TypeInv, Dir

LEMMA TypeEntry == ASSUME TypeInv, NEW n \in Names, Step(Entry(n)) PROVE TypeInv'
<1>1. /\ UNCHANGED <<rootAt, entry, kind, content, time, changes, sourceOnly, stable>>
      /\ pc = "entries" /\ n \in rest /\ rest' = rest \ {n} /\ count' = count + 1
      /\ UNCHANGED <<at, depth, before>>
      /\ Stops \/ PassesOver(n) \/ AddsDirectory(n) \/ AddsFile(n)
  BY EntryCases
<1>2. TreeTypeOK'
  BY <1>1 DEF TypeInv, TreeTypeOK
<1>3. /\ pending # <<>> /\ Len(pending) \in Nat /\ Directory = Dir(1) /\ Dir(1) \in Seq(Names)
      /\ at \in Inodes
  BY <1>1, PendingFacts DEF TypeInv
<1>4. CASE UNCHANGED <<pending, paths, size>> /\ pc' \in {"entries", "limit", "error"}
  BY <1>1, <1>2, <1>4 DEF TypeInv, Dir
<1>5. CASE AddsDirectory(n)
  <2>1. [inode |-> entry[at][n], path |-> Append(Directory, n)] \in Seen
    <3>1. entry[at][n] \in Inodes
      BY <1>3, <1>5 DEF AddsDirectory, TypeInv, TreeTypeOK
    <3>2. Append(Directory, n) \in Seq(Names)
      BY <1>3
    <3> QED BY <3>1, <3>2 DEF Seen
  <2>2. /\ pending' \in Seq(Seen) /\ pending' # <<>> /\ pending'[1] = pending[1]
        /\ UNCHANGED <<pc, paths, size>>
    <3> DEFINE d == [inode |-> entry[at][n], path |-> Append(Directory, n)]
    <3>1. pending \in Seq(Seen) /\ 1 \in 1 .. Len(pending)
      BY <1>3, PendingFacts DEF TypeInv
    <3>2. d \in Seen
      BY <2>1
    <3>3. pending' = Append(pending, d) /\ UNCHANGED <<pc, paths, size>>
      BY <1>5 DEF AddsDirectory
    <3> HIDE DEF d, Seen
    <3> QED BY <3>1, <3>2, <3>3, AppendProperties
  <2> QED BY <1>1, <1>2, <2>2 DEF TypeInv, Dir
<1>6. CASE AddsFile(n)
  <2>1. Append(Directory, n) \in Seq(Names)
    BY <1>3
  <2>2. paths' \in Seq(Seq(Names)) /\ UNCHANGED <<pc, pending>>
    BY <1>6, <2>1 DEF AddsFile, TypeInv
  <2>3. size' \in Nat
    <3>1. Len(content[entry[at][n]]) \in Nat
      <4>1. entry[at][n] \in Inodes
        BY <1>3, <1>6 DEF AddsFile, TypeInv, TreeTypeOK
      <4>2. content[entry[at][n]] \in Contents
        BY <4>1 DEF TypeInv, TreeTypeOK
      <4> QED BY <4>2, FileTreeAssumption DEF Contents
    <3> QED BY <1>6, <3>1 DEF AddsFile, TypeInv
  <2> QED BY <1>1, <1>2, <2>2, <2>3 DEF TypeInv, Dir
<1> QED BY <1>1, <1>4, <1>5, <1>6 DEF Stops, PassesOver

\* The steps on the way to a directory.
LEMMA TypeWay ==
    ASSUME TypeInv,
           Step(NextDirectory) \/ Step(Lstat) \/ Step(OpenDirectory) \/ Step(ReadDirectory) \/ Step(Fail)
    PROVE  TypeInv' /\ UNCHANGED <<pending, paths, count, size>>
<1>1. UNCHANGED <<rootAt, entry, kind, content, time, changes, sourceOnly, stable>>
  BY StepKeeps
<1>2. TreeTypeOK'
  BY <1>1 DEF TypeInv, TreeTypeOK
<1>3. /\ Len(pending) \in Nat /\ kind[TheRoot] = "dir" /\ TheRoot \in Inodes
      /\ pending # <<>> => Directory = Dir(1) /\ Dir(1) \in Seq(Names) /\ Len(Dir(1)) \in Nat
  BY PendingFacts, FileTreeAssumption DEF TypeInv
<1>4. CASE Step(NextDirectory)
  <2>1. NextDirectory
    BY <1>4, StepKeeps
  <2>2. pc' \in {"error", "descend"} /\ UNCHANGED <<pending, before, rest, count, size, paths>>
        /\ pending # <<>>
        /\ IF pc' = "error" THEN UNCHANGED <<at, depth>> ELSE at' = TheRoot /\ depth' = 0
    BY <2>1 DEF NextDirectory, Goto, FromRoot
  <2> QED BY <1>1, <1>2, <1>3, <2>2 DEF TypeInv, Dir
<1>5. CASE Step(Lstat)
  <2>1. Lstat
    BY <1>5, StepKeeps
  <2>2. /\ pc = "descend" /\ depth < Len(Dir(1)) /\ pc' \in {"open", "error"}
        /\ before' = entry[at][Dir(1)[depth + 1]] /\ (pc' = "open" => before' # None)
        /\ UNCHANGED <<pending, at, depth, rest, count, size, paths>>
    BY <1>3, <2>1 DEF Lstat, Goto, TypeInv
  <2>3. before' \in Inodes \cup {None}
    <3>1. at \in Inodes /\ depth + 1 \in 1 .. Len(Dir(1))
      BY <1>3, <2>2 DEF TypeInv
    <3>2. Dir(1)[depth + 1] \in Names
      BY <1>3, <2>2, <3>1 DEF TypeInv
    <3> QED BY <2>2, <3>1, <3>2 DEF TypeInv, TreeTypeOK
  <2> QED BY <1>1, <1>2, <1>3, <2>2, <2>3 DEF TypeInv, Dir
<1>6. CASE Step(OpenDirectory)
  <2>1. OpenDirectory
    BY <1>6, StepKeeps
  <2>2. /\ pc = "open" /\ UNCHANGED <<pending, before, rest, count, size, paths>>
        /\ \/ /\ pc' = "descend" /\ depth' = depth + 1 /\ at' = before /\ kind[before] = "dir"
           \/ pc' = "error" /\ UNCHANGED <<at, depth>>
    BY <2>1 DEF OpenDirectory, Goto
  <2> QED BY <1>1, <1>2, <1>3, <2>2 DEF TypeInv, Dir
<1>7. CASE Step(ReadDirectory)
  <2>1. ReadDirectory
    BY <1>7, StepKeeps
  <2>2. /\ pc = "descend" /\ pc' \in {"error", "entries"}
        /\ rest' \subseteq Names
        /\ UNCHANGED <<pending, at, depth, before, count, size, paths>>
    BY <2>1 DEF ReadDirectory, Goto, TypeInv
  <2> QED BY <1>1, <1>2, <1>3, <2>2 DEF TypeInv, Dir
<1>8. CASE Step(Fail)
  <2>1. Fail
    BY <1>8, StepKeeps
  <2> QED BY <1>1, <1>2, <2>1 DEF TypeInv, Dir, Fail, Goto
<1>9. UNCHANGED <<pending, paths, count, size>>
  BY StepKeeps DEF NextDirectory, Lstat, OpenDirectory, ReadDirectory, Fail
<1> QED BY <1>4, <1>5, <1>6, <1>7, <1>8, <1>9

LEMMA TypeClose == ASSUME TypeInv, Step(CloseDirectory) PROVE TypeInv'
<1>1. /\ CloseDirectory
      /\ UNCHANGED <<rootAt, entry, kind, content, time, changes, sourceOnly, stable>>
  BY StepKeeps
<1>2. TreeTypeOK'
  BY <1>1 DEF TypeInv, TreeTypeOK
<1>3. /\ pc = "entries" /\ pc' = "next" /\ at' = None
      /\ pending \in Seq(Seen) /\ pending # <<>> /\ pending' = Tail(pending)
      /\ UNCHANGED <<depth, before, rest, count, size, paths>>
  BY <1>1 DEF CloseDirectory, Goto, TypeInv
<1>4. pending' \in Seq(Seen)
  <2> HIDE DEF Seen
  <2> QED BY <1>3, HeadTailProperties
<1> QED BY <1>1, <1>2, <1>3, <1>4 DEF TypeInv, Dir

LEMMA SortableIs ==
    ASSUME NEW p
    PROVE  p \in Sortable <=> p \in Seq(Names) /\ Len(p) <= MaxDepth + 1
<1>1. MaxDepth \in Nat
  BY RepositoryWalkAssumption
<1>2. ASSUME p \in Sortable PROVE p \in Seq(Names) /\ Len(p) <= MaxDepth + 1
  <2>1. PICK k \in 0 .. MaxDepth + 1 : p \in [1 .. k -> Names]
    BY <1>2 DEF Sortable
  <2>2. k \in Nat /\ k <= MaxDepth + 1
    BY <1>1
  <2> QED BY <2>1, <2>2
<1>3. ASSUME p \in Seq(Names), Len(p) <= MaxDepth + 1 PROVE p \in Sortable
  <2>1. Len(p) \in 0 .. MaxDepth + 1 /\ p \in [1 .. Len(p) -> Names]
    BY <1>1, <1>3
  <2> QED BY <2>1 DEF Sortable
<1> QED BY <1>2, <1>3

-----------------------------------------------------------------------------
(* The limits, and what is wanted.                                         *)

Entered(k) == \A j \in 1 .. Len(Dir(k)) : Dir(k)[j] \notin Excluded

\* Every entry that was kept has been counted; what is found and what is still to be read
\* is wanted as far as it goes.
BoundInv ==
    /\ Len(paths) + Len(pending) <= count /\ Len(paths) + Len(pending) <= MaxEntries
    /\ pc # "limit" => count <= MaxEntries
    /\ sourceOnly => size <= MaxTreeSize
    /\ \A k \in 1 .. Len(paths) : Len(paths[k]) - 1 <= MaxDepth /\ Wanted(paths[k])
    /\ \A k \in 1 .. Len(pending) : Entered(k)

LEMMA PathFacts ==
    ASSUME TypeInv
    PROVE  /\ paths \in Seq(Seq(Names)) /\ Len(paths) \in Nat /\ DOMAIN paths = 1 .. Len(paths)
           /\ \A k \in 1 .. Len(paths) : paths[k] \in Seq(Names) /\ Len(paths[k]) \in Nat
BY DEF TypeInv

\* What is added to what is found, and to what is to be read.
LEMMA AddedFile ==
    ASSUME TypeInv, NEW q \in Seq(Names), paths' = Append(paths, q)
    PROVE  /\ Len(paths') = Len(paths) + 1
           /\ \A k \in 1 .. Len(paths') :
                 (k \in 1 .. Len(paths) /\ paths'[k] = paths[k]) \/ (k = Len(paths) + 1 /\ paths'[k] = q)
           /\ \A k \in 1 .. Len(paths) : k \in 1 .. Len(paths') /\ paths'[k] = paths[k]
           /\ Len(paths) + 1 \in 1 .. Len(paths') /\ paths'[Len(paths) + 1] = q
<1> DEFINE S == Seq(Names)
<1>1. paths \in Seq(S) /\ Len(paths) \in Nat /\ q \in S
  BY PathFacts
<1> HIDE DEF S
<1> QED BY <1>1, AppendProperties

LEMMA AddedDirectory ==
    ASSUME TypeInv, NEW d \in Seen, pending' = Append(pending, d)
    PROVE  /\ Len(pending') = Len(pending) + 1
           /\ \A k \in 1 .. Len(pending') :
                 (k \in 1 .. Len(pending) /\ pending'[k] = pending[k]) \/ (k = Len(pending) + 1 /\ pending'[k] = d)
           /\ \A k \in 1 .. Len(pending) : k \in 1 .. Len(pending') /\ pending'[k] = pending[k]
           /\ Len(pending) + 1 \in 1 .. Len(pending') /\ pending'[Len(pending) + 1] = d
<1>1. pending \in Seq(Seen) /\ Len(pending) \in Nat
  BY PendingFacts DEF TypeInv
<1> HIDE DEF Seen
<1> QED BY <1>1, AppendProperties

LEMMA Shifted ==
    ASSUME TypeInv, pending # <<>>, pending' = Tail(pending)
    PROVE  /\ Len(pending') = Len(pending) - 1
           /\ \A k \in 1 .. Len(pending') : k + 1 \in 2 .. Len(pending) /\ pending'[k] = pending[k + 1]
           /\ \A k \in 2 .. Len(pending) : k - 1 \in 1 .. Len(pending') /\ pending'[k - 1] = pending[k]
<1>1. pending \in Seq(Seen) /\ Len(pending) \in Nat
  BY PendingFacts DEF TypeInv
<1> HIDE DEF Seen
<1>2. Len(pending') = Len(pending) - 1 /\ \A k \in 1 .. Len(pending') : pending'[k] = pending[k + 1]
  BY <1>1, HeadTailProperties
<1> QED BY <1>1, <1>2

LEMMA WantedFile ==
    ASSUME TypeInv, pending # <<>>, Entered(1), NEW n \in Names, Found(n)
    PROVE  Wanted(Append(Directory, n))
<1> DEFINE d == Directory
           q == Append(d, n)
<1>1. d \in Seq(Names) /\ \A j \in 1 .. Len(d) : d[j] \notin Excluded
  BY PendingFacts DEF Entered
<1> HIDE DEF d
<1>2. /\ q # <<>> /\ Len(d) \in Nat /\ Len(q) = Len(d) + 1 /\ q[Len(d) + 1] = n
      /\ \A j \in 1 .. Len(d) : q[j] = d[j]
  BY <1>1, AppendProperties
<1>3. Len(q) - 1 = Len(d) /\ Last(q) = n
  BY <1>2 DEF Last
<1> HIDE DEF q
<1>4. Wanted(q)
  BY <1>1, <1>2, <1>3 DEF Wanted, Found
<1> QED BY <1>4 DEF q, d

LEMMA BoundEntry == ASSUME TypeInv, BoundInv, NEW n \in Names, Step(Entry(n)) PROVE BoundInv'
<1>1. /\ UNCHANGED sourceOnly /\ pc = "entries" /\ count' = count + 1 /\ count \in Nat
      /\ pc' # "limit" => count' <= MaxEntries
      /\ Stops \/ PassesOver(n) \/ AddsDirectory(n) \/ AddsFile(n)
  BY EntryCases DEF TypeInv
<1>2. /\ pending # <<>> /\ Len(pending) \in Nat /\ Len(paths) \in Nat /\ Directory \in Seq(Names)
      /\ Entered(1) /\ Directory = Dir(1) /\ MaxEntries \in Nat
  BY <1>1, PendingFacts, PathFacts, RepositoryWalkAssumption DEF TypeInv, BoundInv
<1>3. CASE UNCHANGED <<pending, paths, size>>
  <2>1. Len(paths) + Len(pending) <= count'
    BY <1>1, <1>2 DEF BoundInv
  <2> QED BY <1>1, <1>3, <2>1 DEF BoundInv, Wanted, Entered, Dir
<1>4. CASE AddsDirectory(n)
  <2> DEFINE q == Append(Directory, n)
             d == [inode |-> entry[at][n], path |-> q]
  <2>1. d \in Seen /\ q \in Seq(Names)
    <3>1. entry[at][n] \in Inodes
      BY <1>1, <1>4 DEF AddsDirectory, TypeInv, TreeTypeOK
    <3> QED BY <1>2, <3>1 DEF Seen
  <2>2. pending' = Append(pending, d) /\ UNCHANGED <<pc, paths, size>> /\ n \notin Excluded
    BY <1>4 DEF AddsDirectory, Enters
  <2>3. /\ Len(pending') = Len(pending) + 1
        /\ \A k \in 1 .. Len(pending') :
              (k \in 1 .. Len(pending) /\ pending'[k] = pending[k]) \/ (k = Len(pending) + 1 /\ pending'[k] = d)
    <3> HIDE DEF d, Seen
    <3> QED BY <2>1, <2>2, AddedDirectory
  <2>4. \A j \in 1 .. Len(q) : q[j] \notin Excluded
    <3>1. /\ Len(q) = Len(Directory) + 1 /\ q[Len(Directory) + 1] = n
          /\ \A j \in 1 .. Len(Directory) : q[j] = Directory[j] /\ Directory[j] \notin Excluded
      BY <1>2, AppendProperties DEF Entered
    <3>2. Len(Directory) \in Nat
      BY <1>2
    <3> HIDE DEF q
    <3> QED BY <2>2, <3>1, <3>2
  <2>5. d.path = q
    OBVIOUS
  <2> HIDE DEF d, q
  <2>6. ASSUME NEW k \in 1 .. Len(pending') PROVE Entered(k)'
    <3>1. CASE k \in 1 .. Len(pending) /\ pending'[k] = pending[k]
      BY <3>1 DEF BoundInv, Entered, Dir
    <3>2. CASE pending'[k] = d
      BY <2>4, <2>5, <3>2 DEF Entered, Dir
    <3> QED BY <2>3, <3>1, <3>2
  <2>7. Len(paths') + Len(pending') <= count' /\ count' <= MaxEntries /\ count' \in Nat
    BY <1>1, <1>2, <2>2, <2>3 DEF BoundInv
  <2>8. Len(paths') + Len(pending') <= MaxEntries
    BY <1>2, <2>2, <2>3, <2>7
  <2> QED BY <1>1, <2>2, <2>6, <2>7, <2>8 DEF BoundInv, Wanted
<1>5. CASE AddsFile(n)
  <2> DEFINE q == Append(Directory, n)
  <2>1. /\ q \in Seq(Names) /\ paths' = Append(paths, q) /\ UNCHANGED <<pc, pending>>
        /\ Len(q) - 1 <= MaxDepth /\ Wanted(q)
    BY <1>2, <1>5, WantedFile DEF AddsFile
  <2> HIDE DEF q
  <2>2. /\ Len(paths') = Len(paths) + 1
        /\ \A k \in 1 .. Len(paths') :
              (k \in 1 .. Len(paths) /\ paths'[k] = paths[k]) \/ (k = Len(paths) + 1 /\ paths'[k] = q)
    BY <2>1, AddedFile
  <2>3. ASSUME NEW k \in 1 .. Len(paths') PROVE Len(paths'[k]) - 1 <= MaxDepth /\ Wanted(paths[k])'
    <3>1. \/ k \in 1 .. Len(paths) /\ paths'[k] = paths[k]
          \/ paths'[k] = q
      BY <2>2
    <3> QED BY <1>1, <2>1, <3>1 DEF BoundInv, Wanted
  <2>4. sourceOnly' => size' <= MaxTreeSize
    <3> SUFFICES ASSUME sourceOnly PROVE size' <= MaxTreeSize
      BY <1>1
    <3> DEFINE b == Len(content[entry[at][n]])
    <3>1. ~TooLarge(b) /\ size' = size + b
      BY <1>5 DEF AddsFile
    <3>2. b \in Nat
      <4>1. entry[at][n] \in Inodes
        BY <1>1, <1>5 DEF AddsFile, TypeInv, TreeTypeOK
      <4>2. content[entry[at][n]] \in Contents
        BY <4>1 DEF TypeInv, TreeTypeOK
      <4> QED BY <4>2, FileTreeAssumption DEF Contents
    <3>3. ~(size > MaxTreeSize - b) /\ size \in Nat /\ MaxTreeSize \in Nat
      BY <3>1, RepositoryWalkAssumption DEF TooLarge, TypeInv
    <3> HIDE DEF b
    <3> QED BY <3>1, <3>2, <3>3
  <2>5. Len(paths') + Len(pending') <= count' /\ count' <= MaxEntries /\ count' \in Nat
    BY <1>1, <1>2, <2>1, <2>2 DEF BoundInv
  <2>6. Len(paths') + Len(pending') <= MaxEntries
    BY <1>2, <2>1, <2>2, <2>5
  <2> QED BY <1>1, <2>1, <2>3, <2>4, <2>5, <2>6 DEF BoundInv, Entered, Dir
<1> QED BY <1>1, <1>3, <1>4, <1>5 DEF Stops, PassesOver

LEMMA BoundWay ==
    ASSUME TypeInv, BoundInv,
           Step(NextDirectory) \/ Step(Lstat) \/ Step(OpenDirectory) \/ Step(ReadDirectory) \/ Step(Fail)
    PROVE  BoundInv'
<1>1. UNCHANGED <<sourceOnly, pending, paths, count, size>>
  BY TypeWay, StepKeeps
<1>2. pc # "limit"
  BY StepKeeps DEF Running
<1> QED BY <1>1, <1>2 DEF BoundInv, Wanted, Entered, Dir

LEMMA BoundClose == ASSUME TypeInv, BoundInv, Step(CloseDirectory) PROVE BoundInv'
<1>1. /\ pc # "limit" /\ pending # <<>> /\ pending' = Tail(pending)
      /\ UNCHANGED <<sourceOnly, paths, count, size>>
  BY StepKeeps DEF CloseDirectory, TypeInv, Running
<1>2. Len(pending') = Len(pending) - 1 /\ Len(pending) \in Nat /\ Len(paths) \in Nat
  BY <1>1, Shifted, PendingFacts, PathFacts
<1>3. ASSUME NEW k \in 1 .. Len(pending') PROVE Entered(k)'
  <2>1. k + 1 \in 1 .. Len(pending) /\ pending'[k] = pending[k + 1]
    BY <1>1, <1>2, Shifted
  <2> QED BY <2>1 DEF BoundInv, Entered, Dir
<1>4. Len(paths') + Len(pending') <= count' /\ Len(paths') + Len(pending') <= MaxEntries
  BY <1>1, <1>2, RepositoryWalkAssumption DEF BoundInv, TypeInv
<1> QED BY <1>1, <1>3, <1>4 DEF BoundInv, Wanted

-----------------------------------------------------------------------------
(* Nothing is found twice.                                                 *)

\* What is found is not about to be found once more: it is an entry of no directory that is
\* still to be read, except for one that has already been taken.
NotAhead(q) ==
    \A k \in 1 .. Len(pending), n \in Names :
        q = Append(Dir(k), n) => k = 1 /\ pc = "entries" /\ n \notin rest

\* Directories are read breadth first: what is found is at most one name longer than what
\* is read.
OrderInv ==
    /\ \A j, k \in 1 .. Len(paths) : j # k => paths[j] # paths[k]
    /\ \A j, k \in 1 .. Len(pending) : j # k => Dir(j) # Dir(k)
    /\ \A j, k \in 1 .. Len(pending) : j <= k => Len(Dir(j)) <= Len(Dir(k))
    /\ \A k \in 1 .. Len(pending) : Len(Dir(k)) <= Len(Dir(1)) + 1
    /\ pending # <<>> => \A k \in 1 .. Len(paths) : Len(paths[k]) <= Len(Dir(1)) + 1
    /\ Going => /\ \A k \in 1 .. Len(paths) : NotAhead(paths[k])
                /\ \A k \in 1 .. Len(pending) : NotAhead(Dir(k))

\* Steps that keep what is found, what is to be read and what is left of it.
LEMMA OrderKept ==
    ASSUME OrderInv, UNCHANGED <<pending, paths>>,
           Going' => Going /\ (pc = "entries" => pc' = "entries" /\ rest' \subseteq rest)
    PROVE  OrderInv'
<1>1. ASSUME Going', NEW q, NotAhead(q)
      PROVE  \A k \in 1 .. Len(pending), n \in Names :
                 q = Append(Dir(k), n) => k = 1 /\ pc' = "entries" /\ n \notin rest'
  BY <1>1 DEF NotAhead
<1>2. ASSUME Going'
      PROVE  /\ \A k \in 1 .. Len(paths) : NotAhead(paths[k])'
             /\ \A k \in 1 .. Len(pending) : NotAhead(Dir(k))'
  <2>1. Going
    BY <1>2
  <2>2. ASSUME NEW k \in 1 .. Len(paths) PROVE NotAhead(paths[k])'
    <3>1. NotAhead(paths[k])
      BY <2>1 DEF OrderInv
    <3> QED BY <1>1, <1>2, <3>1 DEF NotAhead, Dir
  <2>3. ASSUME NEW k \in 1 .. Len(pending) PROVE NotAhead(Dir(k))'
    <3>1. NotAhead(Dir(k))
      BY <2>1 DEF OrderInv
    <3> QED BY <1>1, <1>2, <3>1 DEF NotAhead, Dir
  <2> QED BY <2>2, <2>3
<1> QED BY <1>2 DEF OrderInv, Dir

LEMMA OrderWay ==
    ASSUME TypeInv, OrderInv,
           Step(NextDirectory) \/ Step(Lstat) \/ Step(OpenDirectory) \/ Step(ReadDirectory) \/ Step(Fail)
    PROVE  OrderInv'
<1>1. UNCHANGED <<pending, paths>>
  BY TypeWay
<1>2. Going' => Going /\ pc # "entries"
  BY StepKeeps DEF NextDirectory, Lstat, OpenDirectory, ReadDirectory, Fail, Goto, Going
<1> QED BY <1>1, <1>2, OrderKept

LEMMA OrderClose == ASSUME TypeInv, OrderInv, Step(CloseDirectory) PROVE OrderInv'
<1>1. /\ pc = "entries" /\ pending # <<>> /\ pending' = Tail(pending) /\ UNCHANGED paths /\ Going
  BY StepKeeps DEF CloseDirectory, TypeInv, Going
<1>2. /\ Len(pending) \in Nat /\ Len(pending') = Len(pending) - 1
      /\ \A k \in 1 .. Len(pending) : Len(Dir(k)) \in Nat
      /\ \A k \in 1 .. Len(paths) : Len(paths[k]) \in Nat
  BY <1>1, PendingFacts, PathFacts, Shifted
<1>3. \A k \in 1 .. Len(pending') :
          k + 1 \in 2 .. Len(pending) /\ k + 1 \in 1 .. Len(pending) /\ Dir(k)' = Dir(k + 1)
  BY <1>1, <1>2, Shifted DEF Dir
<1>4. \A j, k \in 1 .. Len(pending') : j # k => Dir(j)' # Dir(k)'
  BY <1>2, <1>3 DEF OrderInv
<1>5. \A j, k \in 1 .. Len(pending') : j <= k => Len(Dir(j)') <= Len(Dir(k)')
  BY <1>2, <1>3 DEF OrderInv
<1>6. ASSUME pending' # <<>> PROVE 1 \in 1 .. Len(pending') /\ Dir(1)' = Dir(2) /\ 2 \in 1 .. Len(pending)
                                 /\ Len(Dir(1)) <= Len(Dir(2)) /\ 1 \in 1 .. Len(pending)
  <2>1. Len(pending') # 0
    <3>1. pending' \in Seq(Seen)
      BY TypeClose DEF TypeInv
    <3> HIDE DEF Seen
    <3> QED BY <1>6, <3>1, EmptySeq
  <2>2. 1 \in 1 .. Len(pending') /\ 1 \in 1 .. Len(pending) /\ 2 \in 1 .. Len(pending)
    BY <1>2, <2>1
  <2>3. Dir(1)' = Dir(2)
    BY <1>3, <2>2
  <2> QED BY <2>2, <2>3 DEF OrderInv
<1>7. \A k \in 1 .. Len(pending') : Len(Dir(k)') <= Len(Dir(1)') + 1
  <2> SUFFICES ASSUME NEW k \in 1 .. Len(pending') PROVE Len(Dir(k)') <= Len(Dir(1)') + 1
    OBVIOUS
  <2>1. pending' # <<>>
    BY <1>2
  <2>2. Dir(k)' = Dir(k + 1) /\ Len(Dir(k + 1)) <= Len(Dir(1)) + 1 /\ Len(Dir(k + 1)) \in Nat
    BY <1>2, <1>3 DEF OrderInv
  <2>3. Dir(1)' = Dir(2) /\ Len(Dir(1)) <= Len(Dir(2)) /\ Len(Dir(1)) \in Nat /\ Len(Dir(2)) \in Nat
    BY <1>2, <1>6, <2>1
  <2> QED BY <2>2, <2>3
<1>8. ASSUME pending' # <<>>, NEW k \in 1 .. Len(paths) PROVE Len(paths[k]) <= Len(Dir(1)') + 1
  <2>1. Dir(1)' = Dir(2) /\ Len(Dir(1)) <= Len(Dir(2)) /\ Len(Dir(1)) \in Nat /\ Len(Dir(2)) \in Nat
    BY <1>2, <1>6, <1>8
  <2>2. Len(paths[k]) <= Len(Dir(1)) + 1 /\ Len(paths[k]) \in Nat
    BY <1>1, <1>2 DEF OrderInv
  <2> QED BY <2>1, <2>2
<1>9. ASSUME NEW q, NotAhead(q), NEW k \in 1 .. Len(pending'), NEW n \in Names
      PROVE  q # Append(Dir(k)', n)
  <2>1. k + 1 \in 1 .. Len(pending) /\ k + 1 # 1 /\ Dir(k)' = Dir(k + 1)
    BY <1>3
  <2> QED BY <1>9, <2>1 DEF NotAhead
<1>10. ASSUME NEW k \in 1 .. Len(paths) PROVE NotAhead(paths[k])'
  <2>1. NotAhead(paths[k])
    BY <1>1 DEF OrderInv
  <2>2. \A j \in 1 .. Len(pending'), n \in Names : paths[k] # Append(Dir(j)', n)
    BY <1>9, <2>1
  <2> QED BY <1>1, <2>2 DEF NotAhead
<1>11. ASSUME NEW k \in 1 .. Len(pending') PROVE NotAhead(Dir(k))'
  <2>1. k + 1 \in 1 .. Len(pending) /\ Dir(k)' = Dir(k + 1)
    BY <1>3
  <2>2. NotAhead(Dir(k + 1))
    BY <1>1, <2>1 DEF OrderInv
  <2>3. \A j \in 1 .. Len(pending'), n \in Names : Dir(k + 1) # Append(Dir(j)', n)
    BY <1>9, <2>2
  <2> QED BY <2>1, <2>3 DEF NotAhead
<1>12. \A j, k \in 1 .. Len(paths') : j # k => paths'[j] # paths'[k]
  BY <1>1 DEF OrderInv
<1> QED BY <1>1, <1>4, <1>5, <1>7, <1>8, <1>10, <1>11, <1>12 DEF OrderInv

\* An entry is not taken twice, and what it leads to is one name longer than its directory.
LEMMA OrderEntry == ASSUME TypeInv, OrderInv, NEW n \in Names, Step(Entry(n)) PROVE OrderInv'
<1>1. /\ pc = "entries" /\ n \in rest /\ rest' = rest \ {n} /\ Going
      /\ Stops \/ PassesOver(n) \/ AddsDirectory(n) \/ AddsFile(n)
  BY EntryCases DEF Going
<1> DEFINE q == Append(Directory, n)
<1>2. /\ pending # <<>> /\ Len(pending) \in Nat /\ 1 \in 1 .. Len(pending)
      /\ Directory = Dir(1) /\ Dir(1) \in Seq(Names) /\ at \in Inodes /\ Len(Dir(1)) \in Nat
      /\ \A k \in 1 .. Len(pending) : Dir(k) \in Seq(Names) /\ Len(Dir(k)) \in Nat
      /\ \A k \in 1 .. Len(paths) : paths[k] \in Seq(Names) /\ Len(paths[k]) \in Nat
  BY <1>1, PendingFacts, PathFacts DEF TypeInv
<1>3. q \in Seq(Names) /\ Len(q) = Len(Dir(1)) + 1 /\ q = Append(Dir(1), n)
  BY <1>2, AppendProperties
<1>4. ASSUME NEW k \in 1 .. Len(pending), NEW m \in Names, q = Append(Dir(k), m)
      PROVE  k = 1 /\ m = n
  <2>1. Append(Dir(1), n) = Append(Dir(k), m)
    BY <1>3, <1>4
  <2>2. Dir(k) \in Seq(Names) /\ Dir(1) \in Seq(Names)
    BY <1>2
  <2>3. Append(Dir(1), n) = Append(Dir(k), m) <=> Dir(1) = Dir(k) /\ n = m
    BY <2>2, AppendInjective
  <2>4. Dir(1) = Dir(k) /\ n = m
    BY <2>1, <2>3
  <2> QED BY <1>2, <2>4 DEF OrderInv
<1>5. \A p : NotAhead(p) => p # q
  BY <1>1, <1>2, <1>3 DEF NotAhead
<1>6. CASE UNCHANGED <<pending, paths>> /\ pc' \in {"entries", "limit", "error"}
  BY <1>1, <1>6, OrderKept DEF Going
<1>7. CASE AddsDirectory(n)
  <2> DEFINE d == [inode |-> entry[at][n], path |-> q]
  <2>1. d \in Seen /\ d.path = q
    <3>1. entry[at][n] \in Inodes
      BY <1>2, <1>7 DEF AddsDirectory, TypeInv, TreeTypeOK
    <3> QED BY <1>3, <3>1 DEF Seen
  <2>2. pending' = Append(pending, d) /\ UNCHANGED <<pc, paths>>
    BY <1>7 DEF AddsDirectory
  <2> HIDE DEF d, q, Seen
  <2>3. /\ Len(pending') = Len(pending) + 1
        /\ \A k \in 1 .. Len(pending') :
              (k \in 1 .. Len(pending) /\ pending'[k] = pending[k]) \/ (k = Len(pending) + 1 /\ pending'[k] = d)
        /\ \A k \in 1 .. Len(pending) : pending'[k] = pending[k]
    BY <2>1, <2>2, AddedDirectory
  <2>4. \A k \in 1 .. Len(pending') :
            \/ k \in 1 .. Len(pending) /\ Dir(k)' = Dir(k) /\ Dir(k)' # q /\ k < Len(pending) + 1
            \/ k = Len(pending) + 1 /\ Dir(k)' = q
    <3> SUFFICES ASSUME NEW k \in 1 .. Len(pending')
                 PROVE  \/ k \in 1 .. Len(pending) /\ Dir(k)' = Dir(k) /\ Dir(k)' # q /\ k < Len(pending) + 1
                        \/ k = Len(pending) + 1 /\ Dir(k)' = q
      OBVIOUS
    <3>1. CASE k \in 1 .. Len(pending) /\ pending'[k] = pending[k]
      <4>1. NotAhead(Dir(k))
        BY <1>1, <3>1 DEF OrderInv
      <4>2. Dir(k) # q /\ Dir(k)' = Dir(k)
        BY <1>5, <3>1, <4>1 DEF Dir
      <4> QED BY <1>2, <3>1, <4>2
    <3>2. CASE k = Len(pending) + 1 /\ pending'[k] = d
      BY <2>1, <3>2 DEF Dir
    <3> QED BY <2>3, <3>1, <3>2
  <2>5. Dir(1)' = Dir(1)
    BY <1>2, <2>3 DEF Dir
  <2>6. \A j, k \in 1 .. Len(pending') : j # k => Dir(j)' # Dir(k)'
    BY <2>4 DEF OrderInv
  <2>7. \A k \in 1 .. Len(pending') : Len(Dir(k)') <= Len(Dir(1)') + 1 /\ Len(Dir(k)') \in Nat
    BY <1>2, <1>3, <2>4, <2>5 DEF OrderInv
  <2>8. ASSUME NEW j \in 1 .. Len(pending'), NEW k \in 1 .. Len(pending'), j <= k
        PROVE  Len(Dir(j)') <= Len(Dir(k)')
    <3>1. CASE k = Len(pending) + 1
      BY <1>3, <2>4, <2>5, <2>7, <3>1
    <3>2. CASE k \in 1 .. Len(pending)
      <4>1. j \in 1 .. Len(pending) /\ k # Len(pending) + 1 /\ j # Len(pending) + 1
        BY <1>2, <2>8, <3>2
      <4>2. Dir(j)' = Dir(j) /\ Dir(k)' = Dir(k)
        BY <2>4, <4>1
      <4> QED BY <2>8, <3>2, <4>1, <4>2 DEF OrderInv
    <3> QED BY <2>4, <3>1, <3>2
  <2>9. ASSUME NEW p \in Seq(Names), NotAhead(p), Len(p) <= Len(Dir(1)) + 1
        PROVE  \A k \in 1 .. Len(pending'), m \in Names :
                   p = Append(Dir(k)', m) => k = 1 /\ pc' = "entries" /\ m \notin rest'
    <3> SUFFICES ASSUME NEW k \in 1 .. Len(pending'), NEW m \in Names, p = Append(Dir(k)', m)
                 PROVE  k = 1 /\ pc' = "entries" /\ m \notin rest'
      OBVIOUS
    <3>1. CASE k \in 1 .. Len(pending) /\ Dir(k)' = Dir(k)
      BY <1>1, <2>2, <2>9, <3>1 DEF NotAhead
    <3>2. CASE Dir(k)' = q
      <4>1. Len(p) = Len(q) + 1
        BY <1>3, <3>2, AppendProperties
      <4> QED BY <1>2, <1>3, <2>9, <4>1
    <3> QED BY <2>4, <3>1, <3>2
  <2>10. ASSUME NEW k \in 1 .. Len(paths) PROVE NotAhead(paths[k])'
    <3>1. paths[k] \in Seq(Names) /\ NotAhead(paths[k]) /\ Len(paths[k]) <= Len(Dir(1)) + 1
      BY <1>1, <1>2 DEF OrderInv
    <3>2. \A j \in 1 .. Len(pending'), m \in Names :
              paths[k] = Append(Dir(j)', m) => j = 1 /\ pc' = "entries" /\ m \notin rest'
      BY <2>9, <3>1
    <3> QED BY <2>2, <3>2 DEF NotAhead
  <2>11. ASSUME NEW k \in 1 .. Len(pending') PROVE NotAhead(Dir(k))'
    <3>1. CASE k \in 1 .. Len(pending) /\ Dir(k)' = Dir(k)
      <4>1. Dir(k) \in Seq(Names) /\ NotAhead(Dir(k)) /\ Len(Dir(k)) <= Len(Dir(1)) + 1
        BY <1>1, <1>2, <3>1 DEF OrderInv
      <4>2. \A j \in 1 .. Len(pending'), m \in Names :
                Dir(k) = Append(Dir(j)', m) => j = 1 /\ pc' = "entries" /\ m \notin rest'
        BY <2>9, <4>1
      <4> QED BY <3>1, <4>2 DEF NotAhead
    <3>2. CASE Dir(k)' = q
      <4>1. ASSUME NEW j \in 1 .. Len(pending'), NEW m \in Names, q = Append(Dir(j)', m)
            PROVE  j = 1 /\ pc' = "entries" /\ m \notin rest'
        <5>1. CASE j \in 1 .. Len(pending) /\ Dir(j)' = Dir(j)
          BY <1>1, <1>4, <2>2, <4>1, <5>1
        <5>2. CASE Dir(j)' = q
          <6>1. Len(q) = Len(q) + 1
            BY <1>3, <4>1, <5>2, AppendProperties
          <6> QED BY <1>2, <1>3, <6>1
        <5> QED BY <2>4, <5>1, <5>2
      <4> QED BY <3>2, <4>1 DEF NotAhead
    <3> QED BY <2>4, <3>1, <3>2
  <2>12. \A k \in 1 .. Len(paths') : Len(paths'[k]) <= Len(Dir(1)') + 1
    BY <1>2, <2>2, <2>5 DEF OrderInv
  <2>13. \A j, k \in 1 .. Len(paths') : j # k => paths'[j] # paths'[k]
    BY <2>2 DEF OrderInv
  <2>14. /\ \A j, k \in 1 .. Len(pending') : j <= k => Len(Dir(j)') <= Len(Dir(k)')
         /\ \A k \in 1 .. Len(pending') : Len(Dir(k)') <= Len(Dir(1)') + 1
    BY <2>7, <2>8
  <2>15. \A k \in 1 .. Len(paths') : NotAhead(paths[k])'
    BY <2>2, <2>10
  <2> QED BY <2>6, <2>11, <2>12, <2>13, <2>14, <2>15 DEF OrderInv
<1>8. CASE AddsFile(n)
  <2>1. paths' = Append(paths, q) /\ UNCHANGED <<pc, pending>>
    BY <1>8 DEF AddsFile
  <2> HIDE DEF q
  <2>2. /\ Len(paths') = Len(paths) + 1
        /\ \A k \in 1 .. Len(paths') :
              (k \in 1 .. Len(paths) /\ paths'[k] = paths[k]) \/ (k = Len(paths) + 1 /\ paths'[k] = q)
    BY <1>3, <2>1, AddedFile
  <2>3. \A k \in 1 .. Len(paths) : NotAhead(paths[k]) /\ paths[k] # q
    BY <1>1, <1>5 DEF OrderInv
  <2>4. \A j, k \in 1 .. Len(paths') : j # k => paths'[j] # paths'[k]
    BY <2>2, <2>3 DEF OrderInv
  <2>5. \A k \in 1 .. Len(paths') : Len(paths'[k]) <= Len(Dir(1)) + 1
    <3>1. \A k \in 1 .. Len(paths) : Len(paths[k]) <= Len(Dir(1)) + 1
      BY <1>2 DEF OrderInv
    <3>2. Len(q) <= Len(Dir(1)) + 1
      BY <1>2, <1>3
    <3> QED BY <2>2, <3>1, <3>2
  <2>6. ASSUME NEW p, NotAhead(p)
        PROVE  \A k \in 1 .. Len(pending), m \in Names :
                   p = Append(Dir(k), m) => k = 1 /\ pc' = "entries" /\ m \notin rest'
    BY <1>1, <2>1, <2>6 DEF NotAhead
  <2>7. \A k \in 1 .. Len(pending), m \in Names :
            q = Append(Dir(k), m) => k = 1 /\ pc' = "entries" /\ m \notin rest'
    BY <1>1, <1>4, <2>1
  <2>8. ASSUME NEW k \in 1 .. Len(paths') PROVE NotAhead(paths[k])'
    <3>1. \A j \in 1 .. Len(pending), m \in Names :
              paths'[k] = Append(Dir(j), m) => j = 1 /\ pc' = "entries" /\ m \notin rest'
      <4>1. CASE k \in 1 .. Len(paths) /\ paths'[k] = paths[k]
        BY <2>3, <2>6, <4>1
      <4>2. CASE paths'[k] = q
        BY <2>7, <4>2
      <4> QED BY <2>2, <4>1, <4>2
    <3> QED BY <2>1, <3>1 DEF NotAhead, Dir
  <2>9. ASSUME NEW k \in 1 .. Len(pending') PROVE NotAhead(Dir(k))'
    <3>1. NotAhead(Dir(k))
      BY <1>1, <2>1, <2>9 DEF OrderInv
    <3> QED BY <2>1, <2>6, <3>1 DEF NotAhead, Dir
  <2> QED BY <2>1, <2>4, <2>5, <2>8, <2>9 DEF OrderInv, Dir
<1> QED BY <1>1, <1>6, <1>7, <1>8 DEF Stops, PassesOver

-----------------------------------------------------------------------------
(* The end.                                                                *)

LEMMA FinishIs ==
    ASSUME TypeInv, BoundInv, OrderInv, Step(Finish)
    PROVE  /\ pc = "next" /\ pending = <<>> /\ UNCHANGED <<pending, at, depth, before, rest, count, size>>
           /\ \/ pc' = "error" /\ UNCHANGED paths
              \/ /\ pc' = "done" /\ paths' \in Seq(Seq(Names)) /\ Len(paths') = Len(paths)
                 /\ \A k \in 1 .. Len(paths) : \E i \in 1 .. Len(paths) : paths'[k] = paths[i]
                 /\ \A i \in 1 .. Len(paths) : \E k \in 1 .. Len(paths) : paths'[k] = paths[i]
                 /\ \A j, k \in 1 .. Len(paths) : j # k => paths'[j] # paths'[k]
<1>1. Finish
  BY StepKeeps
<1>2. /\ pc = "next" /\ pending = <<>> /\ UNCHANGED <<pending, at, depth, before, rest, count, size>>
      /\ (pc' = "error" /\ UNCHANGED paths) \/ (pc' = "done" /\ paths' = Sorted(paths))
  BY <1>1 DEF Finish, Goto
<1>3. Different(paths, Len(paths))
  <2>1. ASSUME NEW k \in 1 .. Len(paths) PROVE paths[k] \in Sortable
    <3>1. paths[k] \in Seq(Names) /\ Len(paths[k]) \in Nat /\ Len(paths[k]) - 1 <= MaxDepth
      BY PathFacts DEF BoundInv
    <3>2. Len(paths[k]) <= MaxDepth + 1
      BY <3>1, RepositoryWalkAssumption
    <3> QED BY <3>1, <3>2, SortableIs
  <2> QED BY <2>1 DEF Different, OrderInv
<1>4. paths \in Seq(Seq(Names))
  BY PathFacts
<1> DEFINE s == Sorted(paths)
<1>5. /\ s \in Seq(Seq(Names)) /\ Len(s) = Len(paths)
      /\ \A k \in 1 .. Len(paths) : \E i \in 1 .. Len(paths) : s[k] = paths[i]
      /\ \A i \in 1 .. Len(paths) : \E k \in 1 .. Len(paths) : s[k] = paths[i]
      /\ \A j, k \in 1 .. Len(paths) : j # k => s[j] # s[k]
  BY <1>3, <1>4, SortedIs
<1>6. (pc' = "error" /\ UNCHANGED paths) \/ (pc' = "done" /\ paths' = s)
  BY <1>2
<1> HIDE DEF s
<1>7. CASE pc' = "error" /\ UNCHANGED paths
  BY <1>2, <1>7
<1>8. CASE pc' = "done" /\ paths' = s
  BY <1>2, <1>5, <1>8
<1> QED BY <1>6, <1>7, <1>8

LEMMA FinishKeeps ==
    ASSUME TypeInv, BoundInv, OrderInv, Step(Finish) PROVE TypeInv' /\ BoundInv' /\ OrderInv'
<1>1. UNCHANGED <<rootAt, entry, kind, content, time, changes, sourceOnly, stable>>
  BY StepKeeps
<1>2. TreeTypeOK'
  BY <1>1 DEF TypeInv, TreeTypeOK
<1>3. /\ pc = "next" /\ pending = <<>> /\ pc' \in {"error", "done"}
      /\ UNCHANGED <<pending, at, depth, before, rest, count, size>>
      /\ paths' \in Seq(Seq(Names)) /\ Len(paths') = Len(paths)
      /\ \A k \in 1 .. Len(paths) : \E i \in 1 .. Len(paths) : paths'[k] = paths[i]
      /\ \A j, k \in 1 .. Len(paths) : j # k => paths'[j] # paths'[k]
  BY FinishIs, PathFacts DEF OrderInv
<1>4. TypeInv'
  BY <1>1, <1>2, <1>3 DEF TypeInv, Dir
<1>5. BoundInv'
  BY <1>1, <1>3 DEF BoundInv, Wanted, Entered, Dir
<1>6. 1 .. Len(pending') = {} /\ ~Going'
  BY <1>3 DEF Going
<1>7. OrderInv'
  BY <1>3, <1>6 DEF OrderInv
<1> QED BY <1>4, <1>5, <1>7

-----------------------------------------------------------------------------
(* Nothing is missed.                                                      *)

\* A file is found, or a directory on its path is still to be read, or is being read and
\* the entry that leads to the file is left.
Covered(p) ==
    \/ \E i \in 1 .. Len(paths) : paths[i] = p
    \/ \E j \in 1 .. Len(pending), k \in 0 .. Len(p) - 1 :
          Dir(j) = Pre(p, k) /\ (j = 1 /\ pc = "entries" => p[k + 1] \in rest)

\* What is to be read is what the path leads to all the time.
Sighted(p) ==
    \A j \in 1 .. Len(pending), k \in 0 .. Len(p) :
        Dir(j) = Pre(p, k) => pending[j].inode = Named(Pre(p, k))

\* The paths that lead where they led: all of them in a repository that is left alone.
Steady == IF changes = 0 THEN Seq(Names) ELSE stable

CoverInv ==
    /\ pc = "entries" => at = pending[1].inode
    /\ pc = "done" => pending = <<>>
    /\ \A p \in Steady :
          /\ Sighted(p)
          /\ Going \/ pc = "done" => (IsFile(p) /\ Wanted(p) => Covered(p))
          /\ \A i \in 1 .. Len(paths) : paths[i] = p => IsFile(p)

\* A path that still leads where it led.
Unmoved(p) ==
    /\ p \in Steady /\ p \in Seq(Names) /\ (IsFile(p)' <=> IsFile(p))
    /\ \A k \in 0 .. Len(p) : Named(Pre(p, k))' = Named(Pre(p, k))

LEMMA SteadyIs == ASSUME TypeInv PROVE Steady \subseteq Seq(Names) /\ stable \subseteq Steady
BY DEF TypeInv, Steady

LEMMA UnmovedStep == ASSUME TypeInv, NEW A, Step(A), NEW p \in Steady' PROVE Unmoved(p)
<1>1. UNCHANGED <<rootAt, entry, kind>> /\ p \in Steady /\ p \in Seq(Names)
  BY StepKeeps, SteadyIs DEF Steady
<1>2. \A k \in 0 .. Len(p) : Named(Pre(p, k))' = Named(Pre(p, k))
  BY <1>1 DEF Named
<1>3. Named(p)' = Named(p)
  BY <1>1 DEF Named
<1> QED BY <1>1, <1>2, <1>3 DEF Unmoved, IsFile

LEMMA UnmovedOthers == ASSUME TypeInv, Others, NEW p \in Steady' PROVE Unmoved(p)
<1>1. Change({at}) /\ p \in Steady /\ Chain(p)' = Chain(p) /\ p \in Seq(Names)
  <2>1. Change({at}) /\ changes' = changes + 1 /\ changes \in Nat
    <3>1. MaxChanges \in Nat
      BY FileTreeAssumption
    <3>2. changes \in Nat
      BY <3>1 DEF TypeInv, TreeTypeOK
    <3> QED BY <3>2 DEF Others, Change
  <2>2. p \in stable'
    BY <2>1 DEF Steady
  <2> QED BY <2>1, <2>2, SteadyIs DEF Others, Observe
<1>2. ASSUME NEW k \in 0 .. Len(p) PROVE Named(Pre(p, k))' = Named(Pre(p, k))
  <2>1. Chain(p)'[k] = Named(Pre(p, k))' /\ Chain(p)[k] = Named(Pre(p, k))
    BY DEF Chain, Pre
  <2> QED BY <1>1, <2>1
<1>3. Len(p) \in 0 .. Len(p) /\ Pre(p, Len(p)) = p
  BY <1>1, PreEnds
<1>4. Named(p)' = Named(p)
  BY <1>2, <1>3
<1>5. ASSUME Named(p) # None PROVE kind'[Named(p)] = kind[Named(p)]
  <2>1. Named(p) \in Inodes /\ Named(p) \in Linked
    BY <1>1, <1>5, NamedIsLinked DEF TypeInv
  <2> QED BY <1>1, <2>1, ChangeKeeps DEF TypeInv
<1> QED BY <1>1, <1>2, <1>4, <1>5 DEF Unmoved, IsFile

LEMMA CoverOthers == ASSUME TypeInv, CoverInv, Others PROVE CoverInv'
<1>1. UNCHANGED <<sourceOnly, pc, pending, at, rest, paths>>
  BY DEF Others, walk
<1>2. ASSUME NEW p \in Steady'
      PROVE  /\ Sighted(p)'
             /\ (Going \/ pc = "done")' => (IsFile(p)' /\ Wanted(p)' => Covered(p)')
             /\ \A i \in 1 .. Len(paths') : paths'[i] = p => IsFile(p)'
  <2>1. Unmoved(p)
    BY UnmovedOthers
  <2>2. /\ Sighted(p) /\ (Going \/ pc = "done" => (IsFile(p) /\ Wanted(p) => Covered(p)))
        /\ \A i \in 1 .. Len(paths) : paths[i] = p => IsFile(p)
    BY <2>1 DEF Unmoved, CoverInv
  <2>3. Sighted(p)'
    BY <1>1, <2>1, <2>2 DEF Sighted, Unmoved, Dir
  <2>4. (Wanted(p)' <=> Wanted(p)) /\ (Covered(p)' <=> Covered(p)) /\ (Going' <=> Going)
    BY <1>1 DEF Wanted, Covered, Dir, Going
  <2> QED BY <1>1, <2>1, <2>2, <2>3, <2>4 DEF Unmoved
<1> QED BY <1>1, <1>2 DEF CoverInv

\* Steps that keep what is found and what is to be read.
LEMMA CoverWay ==
    ASSUME TypeInv, CoverInv,
           Step(NextDirectory) \/ Step(Lstat) \/ Step(OpenDirectory) \/ Step(ReadDirectory) \/ Step(Fail)
    PROVE  CoverInv'
<1>1. UNCHANGED <<pending, paths, entry, sourceOnly>>
  BY TypeWay, StepKeeps
<1>2. /\ pc' # "done" /\ (Going' => Going /\ pc # "entries")
      /\ pc' = "entries" => /\ at' = at /\ at = pending[1].inode /\ pending # <<>>
                            /\ rest' = {n \in Names : entry[at][n] # None}
  BY StepKeeps, PendingFacts DEF NextDirectory, Lstat, OpenDirectory, ReadDirectory, Fail, Goto, Going, TypeInv
<1>3. ASSUME NEW p \in Steady'
      PROVE  /\ Sighted(p)'
             /\ Going' => (IsFile(p)' /\ Wanted(p)' => Covered(p)')
             /\ \A i \in 1 .. Len(paths') : paths'[i] = p => IsFile(p)'
  <2>1. Unmoved(p)
    BY UnmovedStep
  <2>2. /\ p \in Seq(Names) /\ Sighted(p)
        /\ (Going \/ pc = "done" => (IsFile(p) /\ Wanted(p) => Covered(p)))
        /\ \A i \in 1 .. Len(paths) : paths[i] = p => IsFile(p)
    BY <2>1 DEF Unmoved, CoverInv, TypeInv
  <2>3. Sighted(p)'
    BY <1>1, <2>1, <2>2 DEF Sighted, Unmoved, Dir
  <2>4. ASSUME Going', IsFile(p)', Wanted(p)' PROVE Covered(p)'
    <3>1. IsFile(p) /\ Wanted(p) /\ Going
      BY <1>1, <1>2, <2>1, <2>4 DEF Unmoved, Wanted
    <3>2. Covered(p)
      BY <2>2, <3>1
    <3>3. CASE \E i \in 1 .. Len(paths) : paths[i] = p
      BY <1>1, <3>3 DEF Covered
    <3>4. CASE \E j \in 1 .. Len(pending), k \in 0 .. Len(p) - 1 : Dir(j) = Pre(p, k)
      <4>1. PICK j \in 1 .. Len(pending), k \in 0 .. Len(p) - 1 : Dir(j) = Pre(p, k)
        BY <3>4
      <4>2. ASSUME j = 1, pc' = "entries" PROVE p[k + 1] \in rest'
        <5>1. k \in 0 .. Len(p) /\ p[k + 1] \in Names
          BY <2>2, PreNext
        <5>2. Named(Pre(p, k)) = at
          BY <1>2, <2>2, <4>1, <4>2, <5>1 DEF Sighted
        <5>3. entry[at][p[k + 1]] # None
          BY <2>2, <3>1, <5>2, OnTheWay DEF TypeInv, IsFile
        <5> QED BY <1>2, <4>2, <5>1, <5>3
      <4>3. Dir(j)' = Pre(p, k) /\ j \in 1 .. Len(pending')
        BY <1>1, <4>1 DEF Dir
      <4> QED BY <4>2, <4>3 DEF Covered
    <3> QED BY <3>2, <3>3, <3>4 DEF Covered
  <2> QED BY <1>1, <2>1, <2>2, <2>3, <2>4 DEF Unmoved
<1>4. pc' = "entries" => at' = pending'[1].inode
  BY <1>1, <1>2
<1> QED BY <1>2, <1>3, <1>4 DEF CoverInv

LEMMA CoverClose == ASSUME TypeInv, CoverInv, Step(CloseDirectory) PROVE CoverInv'
<1>1. /\ pc = "entries" /\ rest = {} /\ pending # <<>> /\ pending' = Tail(pending) /\ pc' = "next"
      /\ UNCHANGED <<paths, sourceOnly>> /\ Going
  BY StepKeeps DEF CloseDirectory, TypeInv, Going, Goto
<1>2. \A k \in 1 .. Len(pending') : k + 1 \in 1 .. Len(pending) /\ pending'[k] = pending[k + 1]
  BY <1>1, Shifted, PendingFacts
<1>3. \A k \in 2 .. Len(pending) : k - 1 \in 1 .. Len(pending') /\ pending'[k - 1] = pending[k]
  BY <1>1, Shifted
<1>4. ASSUME NEW p \in Steady'
      PROVE  /\ Sighted(p)'
             /\ IsFile(p)' /\ Wanted(p)' => Covered(p)'
             /\ \A i \in 1 .. Len(paths') : paths'[i] = p => IsFile(p)'
  <2>1. Unmoved(p)
    BY UnmovedStep
  <2>2. /\ Sighted(p) /\ (IsFile(p) /\ Wanted(p) => Covered(p))
        /\ \A i \in 1 .. Len(paths) : paths[i] = p => IsFile(p)
    BY <1>1, <2>1 DEF Unmoved, CoverInv
  <2>3. Sighted(p)'
    <3> SUFFICES ASSUME NEW j \in 1 .. Len(pending'), NEW k \in 0 .. Len(p), Dir(j)' = Pre(p, k)
                 PROVE  pending'[j].inode = Named(Pre(p, k))'
      BY DEF Sighted
    <3>1. j + 1 \in 1 .. Len(pending) /\ Dir(j + 1) = Pre(p, k) /\ pending'[j] = pending[j + 1]
      BY <1>2 DEF Dir
    <3>2. pending[j + 1].inode = Named(Pre(p, k))
      BY <2>2, <3>1 DEF Sighted
    <3> QED BY <2>1, <3>1, <3>2 DEF Unmoved
  <2>4. ASSUME IsFile(p)', Wanted(p)' PROVE Covered(p)'
    <3>1. IsFile(p) /\ Wanted(p)
      BY <1>1, <2>1, <2>4 DEF Unmoved, Wanted
    <3>2. Covered(p)
      BY <2>2, <3>1
    <3>3. CASE \E i \in 1 .. Len(paths) : paths[i] = p
      BY <1>1, <3>3 DEF Covered
    <3>4. CASE \E j \in 1 .. Len(pending), k \in 0 .. Len(p) - 1 :
                   Dir(j) = Pre(p, k) /\ (j = 1 /\ pc = "entries" => p[k + 1] \in rest)
      <4>1. PICK j \in 1 .. Len(pending), k \in 0 .. Len(p) - 1 :
                   Dir(j) = Pre(p, k) /\ (j = 1 /\ pc = "entries" => p[k + 1] \in rest)
        BY <3>4
      <4>2. j # 1
        BY <1>1, <4>1
      <4>3. j \in 2 .. Len(pending)
        BY <4>2
      <4>4. j - 1 \in 1 .. Len(pending') /\ pending'[j - 1] = pending[j]
        BY <1>3, <4>3
      <4>5. Dir(j - 1)' = Pre(p, k)
        BY <4>1, <4>4 DEF Dir
      <4> QED BY <1>1, <4>4, <4>5 DEF Covered
    <3> QED BY <3>2, <3>3, <3>4 DEF Covered
  <2> QED BY <1>1, <2>1, <2>2, <2>3, <2>4 DEF Unmoved
<1> QED BY <1>1, <1>4 DEF CoverInv

LEMMA CoverFinish ==
    ASSUME TypeInv, BoundInv, OrderInv, CoverInv, Step(Finish) PROVE CoverInv'
<1>1. /\ pc = "next" /\ pending = <<>> /\ pending' = <<>> /\ UNCHANGED sourceOnly
      /\ \/ pc' = "error" /\ UNCHANGED paths
         \/ /\ pc' = "done" /\ Len(paths') = Len(paths)
            /\ \A k \in 1 .. Len(paths) : \E i \in 1 .. Len(paths) : paths'[k] = paths[i]
            /\ \A i \in 1 .. Len(paths) : \E k \in 1 .. Len(paths) : paths'[k] = paths[i]
  BY FinishIs, StepKeeps
<1>2. Len(paths') = Len(paths) /\ \A k \in 1 .. Len(paths) : \E i \in 1 .. Len(paths) : paths'[k] = paths[i]
  BY <1>1
<1>3. pc' = "done" => \A i \in 1 .. Len(paths) : \E k \in 1 .. Len(paths) : paths'[k] = paths[i]
  BY <1>1
<1>4. 1 .. Len(pending) = {} /\ 1 .. Len(pending') = {}
  BY <1>1
<1>5. ASSUME NEW p \in Steady'
      PROVE  /\ Sighted(p)'
             /\ pc' = "done" => (IsFile(p)' /\ Wanted(p)' => Covered(p)')
             /\ \A i \in 1 .. Len(paths') : paths'[i] = p => IsFile(p)'
  <2>1. Unmoved(p)
    BY UnmovedStep
  <2>2. /\ (IsFile(p) /\ Wanted(p) => Covered(p))
        /\ \A i \in 1 .. Len(paths) : paths[i] = p => IsFile(p)
    BY <1>1, <2>1 DEF Unmoved, CoverInv, Going
  <2>3. Sighted(p)'
    BY <1>4 DEF Sighted
  <2>4. ASSUME pc' = "done", IsFile(p)', Wanted(p)' PROVE Covered(p)'
    <3>1. IsFile(p) /\ Wanted(p)
      BY <1>1, <2>1, <2>4 DEF Unmoved, Wanted
    <3>2. PICK i \in 1 .. Len(paths) : paths[i] = p
      BY <1>4, <2>2, <3>1 DEF Covered
    <3>3. PICK k \in 1 .. Len(paths) : paths'[k] = paths[i]
      BY <1>3, <2>4
    <3> QED BY <1>2, <3>2, <3>3 DEF Covered
  <2>5. \A i \in 1 .. Len(paths') : paths'[i] = p => IsFile(p)'
    BY <1>2, <2>1, <2>2 DEF Unmoved
  <2> QED BY <2>3, <2>4, <2>5
<1>6. pc' # "entries" /\ ~Going'
  BY <1>1 DEF Going
<1> QED BY <1>1, <1>5, <1>6 DEF CoverInv

\* What was covered by an entry that is taken is covered by what is made of it.
LEMMA CoverEntry == ASSUME TypeInv, CoverInv, NEW n \in Names, Step(Entry(n)) PROVE CoverInv'
<1>1. /\ UNCHANGED <<entry, kind, sourceOnly, at>>
      /\ pc = "entries" /\ n \in rest /\ rest' = rest \ {n} /\ Going
      /\ Stops \/ PassesOver(n) \/ AddsDirectory(n) \/ AddsFile(n)
  BY EntryCases DEF Going
<1> DEFINE q == Append(Directory, n)
           i == entry[at][n]
<1>2. /\ pending # <<>> /\ Len(pending) \in Nat /\ 1 \in 1 .. Len(pending) /\ Len(paths) \in Nat
      /\ q = Append(Dir(1), n) /\ Dir(1) \in Seq(Names) /\ at \in Inodes
      /\ at = pending[1].inode /\ kind[at] = "dir"
  BY <1>1, PendingFacts, PathFacts, FileTreeAssumption DEF TypeInv, CoverInv
<1>3. i \in Inodes \cup {None} /\ q \in Seq(Names)
  BY <1>2 DEF TypeInv, TreeTypeOK
<1>4. ASSUME NEW p \in Steady'
      PROVE  /\ Unmoved(p) /\ p \in Seq(Names) /\ p \in Steady /\ Sighted(p)
             /\ (IsFile(p)' <=> IsFile(p)) /\ (IsFile(p) /\ Wanted(p) => Covered(p))
             /\ \A k \in 1 .. Len(paths) : paths[k] = p => IsFile(p)
  BY <1>1, UnmovedStep DEF Unmoved, CoverInv, TypeInv
\* The entry leads to what the path with the name leads to.
<1>5. ASSUME NEW p \in Steady', NEW k \in 0 .. Len(p), q = Pre(p, k) PROVE Named(Pre(p, k)) = i
  <2>1. p \in Seq(Names) /\ Sighted(p) /\ Len(p) \in Nat
    BY <1>4
  <2>2. k # 0
    <3>1. Len(q) # 0
      BY <1>2
    <3> QED BY <1>5, <2>1, <3>1, PreFacts
  <2>3. k - 1 \in 0 .. Len(p) - 1 /\ k - 1 \in 0 .. Len(p) /\ k - 1 + 1 = k
    BY <2>1, <2>2
  <2>4. Pre(p, k) = Append(Pre(p, k - 1), p[k]) /\ p[k] \in Names /\ Pre(p, k - 1) \in Seq(Names)
    BY <2>1, <2>3, PreNext, PreFacts
  <2>5. Append(Dir(1), n) = Append(Pre(p, k - 1), p[k])
        <=> Dir(1) = Pre(p, k - 1) /\ n = p[k]
    BY <1>2, <2>4, AppendInjective
  <2>6. Dir(1) = Pre(p, k - 1) /\ n = p[k]
    BY <1>2, <1>5, <2>4, <2>5
  <2>7. Named(Pre(p, k - 1)) = at
    BY <1>2, <2>1, <2>3, <2>6 DEF Sighted
  <2>8. Named(Pre(p, k)) = Further(at, n)
    BY <2>1, <2>3, <2>6, <2>7, NamedPre
  <2>9. at # None
    BY <1>2, FileTreeAssumption
  <2> QED BY <1>2, <2>8, <2>9 DEF Further
\* A file whose path goes on with another name stays covered.
<1>6. ASSUME NEW p \in Steady', Covered(p), pc' = "entries",
             \A k \in 1 .. Len(paths) : k \in 1 .. Len(paths') /\ paths'[k] = paths[k],
             \A j \in 1 .. Len(pending) : j \in 1 .. Len(pending') /\ pending'[j] = pending[j]
      PROVE  Covered(p)' \/ \E k \in 0 .. Len(p) - 1 : Dir(1) = Pre(p, k) /\ p[k + 1] = n
  <2>1. CASE \E k \in 1 .. Len(paths) : paths[k] = p
    BY <1>6, <2>1 DEF Covered
  <2>2. CASE \E j \in 1 .. Len(pending), k \in 0 .. Len(p) - 1 :
                 Dir(j) = Pre(p, k) /\ (j = 1 /\ pc = "entries" => p[k + 1] \in rest)
    <3>1. PICK j \in 1 .. Len(pending), k \in 0 .. Len(p) - 1 :
                 Dir(j) = Pre(p, k) /\ (j = 1 /\ pc = "entries" => p[k + 1] \in rest)
      BY <2>2
    <3>2. j \in 1 .. Len(pending') /\ Dir(j)' = Pre(p, k)
      BY <1>6, <3>1 DEF Dir
    <3>3. CASE j = 1 /\ p[k + 1] = n
      BY <3>1, <3>3
    <3>4. CASE ~(j = 1 /\ p[k + 1] = n)
      <4>1. j = 1 => p[k + 1] \in rest'
        BY <1>1, <3>1, <3>4
      <4> QED BY <3>2, <4>1 DEF Covered
    <3> QED BY <3>3, <3>4
  <2> QED BY <1>6, <2>1, <2>2 DEF Covered
\* What the taken entry is for the path of a file.
<1>7. ASSUME NEW p \in Steady', IsFile(p), Wanted(p), NEW k \in 0 .. Len(p) - 1,
             Dir(1) = Pre(p, k), p[k + 1] = n
      PROVE  /\ k + 1 \in 0 .. Len(p) /\ q = Pre(p, k + 1) /\ i # None
             /\ \/ /\ k + 1 = Len(p) /\ q = p /\ kind[i] = "file" /\ Found(n)
                \/ k + 1 \in 0 .. Len(p) - 1 /\ kind[i] = "dir" /\ Enters(n)
  <2>1. p \in Seq(Names) /\ Len(p) \in Nat /\ k + 1 \in 0 .. Len(p) /\ k + 1 \in 1 .. Len(p)
    BY <1>4
  <2>2. q = Pre(p, k + 1)
    BY <1>2, <1>7, <2>1, PreNext
  <2>3. i = Named(Pre(p, k + 1))
    BY <1>5, <2>1, <2>2
  <2>4. CASE k + 1 = Len(p)
    <3>1. q = p /\ Named(p) = i
      BY <2>1, <2>2, <2>3, <2>4, PreEnds
    <3>2. Found(n)
      BY <1>7, <2>1, <2>4 DEF Wanted, Last, Found
    <3> QED BY <1>7, <2>1, <2>2, <2>4, <3>1, <3>2 DEF IsFile
  <2>5. CASE k + 1 # Len(p)
    <3>1. k + 1 \in 0 .. Len(p) - 1 /\ k + 1 \in 1 .. Len(p) - 1
      BY <2>1, <2>5
    <3>2. i \in Inodes /\ kind[i] = "dir"
      BY <1>7, <2>1, <2>3, <3>1, OnTheWay DEF TypeInv, IsFile
    <3>3. Enters(n)
      BY <1>7, <3>1 DEF Wanted, Enters
    <3> QED BY <2>1, <2>2, <3>1, <3>2, <3>3, FileTreeAssumption
  <2> QED BY <2>4, <2>5
<1>8. CASE UNCHANGED <<pending, paths>> /\ pc' \in {"limit", "error"}
  <2>1. ASSUME NEW p \in Steady'
        PROVE  Sighted(p)' /\ \A k \in 1 .. Len(paths') : paths'[k] = p => IsFile(p)'
    BY <1>4, <1>8 DEF Sighted, Unmoved, Dir
  <2>2. ~Going' /\ pc' # "done" /\ pc' # "entries"
    BY <1>8 DEF Going
  <2> QED BY <2>1, <2>2 DEF CoverInv
<1>9. CASE PassesOver(n)
  <2>1. UNCHANGED <<pc, pending, paths>>
    BY <1>9 DEF PassesOver
  <2>2. ASSUME NEW p \in Steady'
        PROVE  Sighted(p)' /\ \A k \in 1 .. Len(paths') : paths'[k] = p => IsFile(p)'
    BY <1>4, <2>1 DEF Sighted, Unmoved, Dir
  <2>3. ASSUME NEW p \in Steady', IsFile(p)', Wanted(p)' PROVE Covered(p)'
    <3>1. IsFile(p) /\ Wanted(p) /\ Covered(p)
      BY <1>1, <1>4, <2>3 DEF Wanted
    <3>2. Covered(p)' \/ \E k \in 0 .. Len(p) - 1 : Dir(1) = Pre(p, k) /\ p[k + 1] = n
      BY <1>1, <1>6, <2>1, <3>1
    <3>3. ASSUME NEW k \in 0 .. Len(p) - 1, Dir(1) = Pre(p, k), p[k + 1] = n PROVE FALSE
      <4>1. (kind[i] = "file" /\ Found(n)) \/ (kind[i] = "dir" /\ Enters(n))
        BY <1>7, <3>1, <3>3
      <4> QED BY <1>9, <4>1 DEF PassesOver
    <3> QED BY <3>2, <3>3
  <2>4. pc' = "entries" /\ at' = pending'[1].inode
    BY <1>1, <1>2, <2>1
  <2> QED BY <2>2, <2>3, <2>4 DEF CoverInv
<1>10. CASE AddsDirectory(n)
  <2> DEFINE d == [inode |-> i, path |-> q]
  <2>1. d \in Seen /\ d.path = q /\ d.inode = i
    <3>1. i \in Inodes
      BY <1>3, <1>10 DEF AddsDirectory
    <3> QED BY <1>3, <3>1 DEF Seen
  <2>2. pending' = Append(pending, d) /\ UNCHANGED <<pc, paths>> /\ kind[i] = "dir"
    BY <1>10 DEF AddsDirectory
  <2> HIDE DEF d, Seen
  <2>3. /\ \A k \in 1 .. Len(pending') :
              (k \in 1 .. Len(pending) /\ pending'[k] = pending[k]) \/ (k = Len(pending) + 1 /\ pending'[k] = d)
        /\ \A k \in 1 .. Len(pending) : k \in 1 .. Len(pending') /\ pending'[k] = pending[k]
        /\ Len(pending) + 1 \in 1 .. Len(pending') /\ pending'[Len(pending) + 1] = d
    BY <2>1, <2>2, AddedDirectory
  <2>4. ASSUME NEW p \in Steady' PROVE Sighted(p)'
    <3> SUFFICES ASSUME NEW j \in 1 .. Len(pending'), NEW k \in 0 .. Len(p), Dir(j)' = Pre(p, k)
                 PROVE  pending'[j].inode = Named(Pre(p, k))'
      BY DEF Sighted
    <3>1. CASE j \in 1 .. Len(pending) /\ pending'[j] = pending[j]
      <4>1. Dir(j) = Pre(p, k)
        BY <3>1 DEF Dir
      <4> QED BY <1>4, <3>1, <4>1 DEF Sighted, Unmoved
    <3>2. CASE pending'[j] = d
      <4>1. q = Pre(p, k)
        BY <2>1, <3>2 DEF Dir
      <4>2. Named(Pre(p, k)) = i
        BY <1>5, <4>1
      <4> QED BY <1>4, <2>1, <3>2, <4>2 DEF Unmoved
    <3> QED BY <2>3, <3>1, <3>2
  <2>5. ASSUME NEW p \in Steady', IsFile(p)', Wanted(p)' PROVE Covered(p)'
    <3>1. IsFile(p) /\ Wanted(p) /\ Covered(p)
      BY <1>1, <1>4, <2>5 DEF Wanted
    <3>2. Covered(p)' \/ \E k \in 0 .. Len(p) - 1 : Dir(1) = Pre(p, k) /\ p[k + 1] = n
      BY <1>1, <1>6, <2>2, <2>3, <3>1
    <3>3. ASSUME NEW k \in 0 .. Len(p) - 1, Dir(1) = Pre(p, k), p[k + 1] = n PROVE Covered(p)'
      <4>1. q = Pre(p, k + 1) /\ k + 1 \in 0 .. Len(p) - 1
        BY <1>7, <2>2, <3>1, <3>3
      <4>2. Len(pending) + 1 # 1
        BY <1>2
      <4>3. \A j : j = Len(pending) + 1 => j \in 1 .. Len(pending') /\ j # 1 /\ Dir(j)' = Pre(p, k + 1)
        BY <2>1, <2>3, <4>1, <4>2 DEF Dir
      <4> HIDE DEF q
      <4> QED BY <4>1, <4>3 DEF Covered
    <3> QED BY <3>2, <3>3
  <2>6. /\ pc' = "entries" /\ at' = pending'[1].inode
        /\ \A p \in Steady' : \A k \in 1 .. Len(paths') : paths'[k] = p => IsFile(p)'
    BY <1>1, <1>2, <1>4, <2>2, <2>3
  <2> QED BY <2>4, <2>5, <2>6 DEF CoverInv
<1>11. CASE AddsFile(n)
  <2>1. paths' = Append(paths, q) /\ UNCHANGED <<pc, pending>> /\ kind[i] = "file" /\ i # None
    BY <1>11 DEF AddsFile
  <2>2. /\ \A k \in 1 .. Len(paths') :
              (k \in 1 .. Len(paths) /\ paths'[k] = paths[k]) \/ (k = Len(paths) + 1 /\ paths'[k] = q)
        /\ \A k \in 1 .. Len(paths) : k \in 1 .. Len(paths') /\ paths'[k] = paths[k]
        /\ Len(paths) + 1 \in 1 .. Len(paths') /\ paths'[Len(paths) + 1] = q
    <3> HIDE DEF q
    <3> QED BY <1>3, <2>1, AddedFile
  <2>3. ASSUME NEW p \in Steady' PROVE Sighted(p)'
    BY <1>4, <2>1 DEF Sighted, Unmoved, Dir
  <2>4. ASSUME NEW p \in Steady', NEW k \in 1 .. Len(paths'), paths'[k] = p PROVE IsFile(p)'
    <3>1. CASE k \in 1 .. Len(paths) /\ paths'[k] = paths[k]
      BY <1>4, <2>4, <3>1
    <3>2. CASE paths'[k] = q
      <4>1. Len(p) \in 0 .. Len(p) /\ q = Pre(p, Len(p)) /\ Pre(p, Len(p)) = p
        <5>1. p \in Seq(Names) /\ q = p
          BY <1>4, <2>4, <3>2
        <5>2. Len(p) \in 0 .. Len(p) /\ Pre(p, Len(p)) = p
          BY <5>1, PreEnds
        <5> QED BY <5>1, <5>2
      <4>2. Named(p) = i
        BY <1>5, <4>1
      <4> QED BY <1>4, <2>1, <4>2 DEF IsFile
    <3> QED BY <2>2, <3>1, <3>2
  <2>5. ASSUME NEW p \in Steady', IsFile(p)', Wanted(p)' PROVE Covered(p)'
    <3>1. IsFile(p) /\ Wanted(p) /\ Covered(p)
      BY <1>1, <1>4, <2>5 DEF Wanted
    <3>2. Covered(p)' \/ \E k \in 0 .. Len(p) - 1 : Dir(1) = Pre(p, k) /\ p[k + 1] = n
      BY <1>1, <1>6, <2>1, <2>2, <3>1
    <3>3. ASSUME NEW k \in 0 .. Len(p) - 1, Dir(1) = Pre(p, k), p[k + 1] = n PROVE Covered(p)'
      <4>1. q = p
        BY <1>7, <2>1, <3>1, <3>3
      <4> QED BY <2>2, <4>1 DEF Covered
    <3> QED BY <3>2, <3>3
  <2>6. pc' = "entries" /\ at' = pending'[1].inode
    BY <1>1, <1>2, <2>1
  <2> QED BY <2>3, <2>4, <2>5, <2>6 DEF CoverInv
<1> QED BY <1>1, <1>8, <1>9, <1>10, <1>11 DEF Stops

-----------------------------------------------------------------------------
(* The walk.                                                               *)

WalkInv == TypeInv /\ BoundInv /\ OrderInv /\ CoverInv

LEMMA InitInv == Init => WalkInv
<1> SUFFICES ASSUME Init PROVE WalkInv
  OBVIOUS
<1> DEFINE first == [inode |-> TheRoot, path |-> <<>>]
<1>1. /\ first \in Seen /\ first.path = <<>> /\ first.inode = TheRoot /\ TheRoot \in Inodes
      /\ pending = <<first>> /\ paths = <<>> /\ pc = "next" /\ rootAt = TheRoot
  BY FileTreeAssumption DEF Seen, Init, TreeInit
<1> HIDE DEF first, Seen
<1>2. pending \in Seq(Seen) /\ Len(pending) = 1 /\ Len(paths) = 0 /\ pending[1] = first /\ pending # <<>>
  BY <1>1
<1>3. Dir(1) = <<>> /\ Len(Dir(1)) = 0 /\ Dir(1) \in Seq(Names)
  <2>1. <<>> \in Seq(Names) /\ Len(<<>>) = 0
    OBVIOUS
  <2>2. Dir(1) = <<>>
    BY <1>1, <1>2 DEF Dir
  <2> QED BY <2>1, <2>2
<1>4. \A p \in stable : p \in Seq(Names) /\ Len(p) <= MaxDepth + 1
  BY DEF Init, Paths
<1>5. TypeInv
  <2>1. TreeTypeOK /\ kind[TheRoot] = "dir"
    BY TreeInitOK DEF Init, TreeInit
  <2>2. /\ sourceOnly \in BOOLEAN /\ at = None /\ before = None /\ rest = {} /\ count = 1 /\ size = 0
        /\ paths \in Seq(Seq(Names))
    BY DEF Init
  <2> QED BY <1>1, <1>2, <1>4, <2>1, <2>2 DEF TypeInv
<1>6. BoundInv
  BY <1>1, <1>2, <1>3, RepositoryWalkAssumption DEF BoundInv, Init, Entered
<1>7. OrderInv
  <2>1. NotAhead(Dir(1))
    <3>1. ASSUME NEW k \in 1 .. Len(pending), NEW n \in Names, Dir(1) = Append(Dir(k), n) PROVE FALSE
      <4>1. Append(Dir(k), n) # <<>>
        BY <1>2, <1>3, AppendProperties
      <4> QED BY <1>3, <3>1, <4>1
    <3> QED BY <3>1 DEF NotAhead
  <2> QED BY <1>2, <1>3, <2>1 DEF OrderInv
<1>8. CoverInv
  <2>1. ASSUME NEW p \in Steady PROVE Sighted(p)
    <3>1. ASSUME NEW k \in 0 .. Len(p), Dir(1) = Pre(p, k) PROVE pending[1].inode = Named(Pre(p, k))
      BY <1>1, <1>2, <1>3, <3>1, NamedEmpty DEF Beginning
    <3> QED BY <1>2, <3>1 DEF Sighted
  <2>2. ASSUME NEW p \in Steady, Wanted(p) PROVE Covered(p)
    <3>1. p # <<>> /\ p \in Seq(Names)
      BY <1>5, <2>2, SteadyIs DEF Wanted
    <3>2. 0 \in 0 .. Len(p) - 1 /\ Dir(1) = Pre(p, 0)
      BY <1>3, <3>1, PreEnds
    <3> QED BY <1>1, <1>2, <3>2 DEF Covered
  <2> QED BY <1>1, <1>2, <2>1, <2>2 DEF CoverInv
<1> QED BY <1>5, <1>6, <1>7, <1>8 DEF WalkInv

LEMMA NextInv == WalkInv /\ [Next]_vars => WalkInv'
<1> SUFFICES ASSUME WalkInv, [Next]_vars PROVE WalkInv'
  OBVIOUS
<1>0. TypeInv /\ BoundInv /\ OrderInv /\ CoverInv
  BY DEF WalkInv
<1>1. CASE Others
  <2>1. UNCHANGED <<sourceOnly, pc, pending, at, rest, count, size, paths>>
    BY <1>1 DEF Others, walk
  <2>2. BoundInv'
    BY <1>0, <2>1 DEF BoundInv, Wanted, Entered, Dir
  <2>3. OrderInv'
    BY <1>0, <2>1, OrderKept DEF Going
  <2> QED BY <1>0, <1>1, <2>2, <2>3, TypeOthers, CoverOthers DEF WalkInv
<1>2. CASE Step(NextDirectory) \/ Step(Lstat) \/ Step(OpenDirectory) \/ Step(ReadDirectory) \/ Step(Fail)
  BY <1>0, <1>2, TypeWay, BoundWay, OrderWay, CoverWay DEF WalkInv
<1>3. CASE \E n \in Names : Step(Entry(n))
  BY <1>0, <1>3, TypeEntry, BoundEntry, OrderEntry, CoverEntry DEF WalkInv
<1>4. CASE Step(CloseDirectory)
  BY <1>0, <1>4, TypeClose, BoundClose, OrderClose, CoverClose DEF WalkInv
<1>5. CASE Step(Finish)
  BY <1>0, <1>5, FinishKeeps, CoverFinish DEF WalkInv
<1>6. CASE UNCHANGED vars
  <2>1. UNCHANGED <<rootAt, entry, kind, content, time, changes, sourceOnly, pc, pending, at, depth, before,
                    rest, count, size, paths, stable>>
    BY <1>6 DEF vars, tree, walk
  <2>2. TypeInv'
    BY <1>0, <2>1 DEF TypeInv, TreeTypeOK, Dir
  <2>3. BoundInv'
    BY <1>0, <2>1 DEF BoundInv, Wanted, Entered, Dir
  <2>4. OrderInv'
    BY <1>0, <2>1, OrderKept DEF Going
  <2>5. CoverInv'
    <3>1. \A p : Named(p)' = Named(p)
      BY <2>1 DEF Named
    <3>2. \A p : /\ IsFile(p)' <=> IsFile(p)
                 /\ Sighted(p)' <=> Sighted(p)
      BY <2>1, <3>1 DEF IsFile, Sighted, Dir
    <3>3. \A p : /\ Covered(p)' <=> Covered(p)
                 /\ Wanted(p)' <=> Wanted(p)
      BY <2>1 DEF Covered, Wanted, Dir
    <3>4. Steady' = Steady
      BY <2>1 DEF Steady
    <3> QED BY <1>0, <2>1, <3>2, <3>3, <3>4 DEF CoverInv, Going
  <2> QED BY <2>2, <2>3, <2>4, <2>5 DEF WalkInv
<1> QED BY <1>1, <1>2, <1>3, <1>4, <1>5, <1>6 DEF Next

LEMMA Always == Spec => []WalkInv
BY InitInv, NextInv, PTL DEF Spec

\* Everything is in its type, and what is open while a walk goes on is the directory it has
\* come to on the way to the first that is still to be read (walkRepositoryFiles).
THEOREM WalkTypes == Spec => []TypeOK
<1>1. WalkInv => TypeOK
  <2> SUFFICES ASSUME WalkInv PROVE TypeOK
    OBVIOUS
  <2>1. TypeInv
    BY DEF WalkInv
  <2>2. DOMAIN pending = 1 .. Len(pending)
    BY <2>1 DEF TypeInv, Seen
  <2> QED BY <2>1, <2>2, PendingFacts, PathFacts DEF TypeInv, TypeOK, Dir
<1> QED BY <1>1, Always, PTL

\* A walk stays within its limits, finds nothing twice and nothing that is not wanted; one
\* that succeeds has found every file that was there all the time, whatever directories
\* were moved, replaced or added around it, and no link among what was.
THEOREM WalkIsExact == Spec => []WalkExact
<1>1. WalkInv => WalkExact
  <2> SUFFICES ASSUME WalkInv PROVE WalkExact
    OBVIOUS
  <2>1. TypeInv /\ BoundInv /\ OrderInv /\ CoverInv /\ DOMAIN paths = 1 .. Len(paths)
    BY PathFacts DEF WalkInv
  <2>2. WalkBounded
    BY <2>1 DEF BoundInv, WalkBounded
  <2>3. ASSUME pc = "done", NEW p \in stable, IsFile(p), Wanted(p) PROVE p \in ToSet(paths)
    <3>1. Covered(p) /\ 1 .. Len(pending) = {}
      BY <2>1, <2>3, SteadyIs DEF CoverInv
    <3>2. PICK k \in 1 .. Len(paths) : paths[k] = p
      BY <3>1 DEF Covered
    <3> QED BY <2>1, <3>2 DEF ToSet
  <2>4. ASSUME NEW p \in stable, p \in ToSet(paths) PROVE IsFile(p)
    BY <2>1, <2>4, SteadyIs DEF CoverInv, ToSet
  <2> QED BY <2>1, <2>2, <2>3, <2>4 DEF WalkExact, BoundInv, OrderInv
<1> QED BY <1>1, Always, PTL

-----------------------------------------------------------------------------
(* A repository that is left alone.                                        *)

LEMMA ReachIs ==
    ASSUME NEW p
    PROVE  p \in Reach <=> p \in Seq(Names) /\ Len(p) <= MaxDepth + 2
<1>1. MaxDepth \in Nat
  BY RepositoryWalkAssumption
<1>2. ASSUME p \in Reach PROVE p \in Seq(Names) /\ Len(p) <= MaxDepth + 2
  <2>1. PICK k \in 0 .. MaxDepth + 2 : p \in [1 .. k -> Names]
    BY <1>2 DEF Reach
  <2>2. k \in Nat /\ k <= MaxDepth + 2
    BY <1>1
  <2> QED BY <2>1, <2>2
<1>3. ASSUME p \in Seq(Names), Len(p) <= MaxDepth + 2 PROVE p \in Reach
  <2>1. Len(p) \in 0 .. MaxDepth + 2 /\ p \in [1 .. Len(p) -> Names]
    BY <1>1, <1>3
  <2> QED BY <2>1 DEF Reach
<1> QED BY <1>2, <1>3

UpTo(n) == {p \in Seq(Names) : Len(p) <= n}

LEMMA FiniteUpTo == ASSUME NEW n \in Nat PROVE IsFiniteSet(UpTo(n))
<1> DEFINE T == {m \in 0 .. n : ~IsFiniteSet(UpTo(m))}
<1>0. T \subseteq Nat /\ n \in 0 .. n
  OBVIOUS
<1> SUFFICES ASSUME T # {} PROVE FALSE
  BY <1>0
<1>1. PICK m \in T : \A y \in T : ~(y < m)
  <2> HIDE DEF T
  <2> QED BY <1>0, Least
<1>2. m \in 0 .. n /\ ~IsFiniteSet(UpTo(m))
  OBVIOUS
<1>3. CASE m = 0
  <2>1. UpTo(0) \subseteq {<<>>}
    BY EmptySeq DEF UpTo
  <2>2. IsFiniteSet({<<>>})
    BY FS_Singleton
  <2>3. IsFiniteSet(UpTo(0))
    BY <2>1, <2>2, FS_Subset
  <2> QED BY <1>2, <1>3, <2>3
<1>4. CASE m # 0
  <2>1. m - 1 \in 0 .. n /\ m - 1 < m /\ m - 1 \in Nat /\ m \in Nat
    BY <1>2, <1>4
  <2>2. m - 1 \notin T
    <3> HIDE DEF T
    <3> QED BY <1>1, <2>1
  <2>3. IsFiniteSet(UpTo(m - 1))
    BY <2>1, <2>2
  <2> DEFINE S == UpTo(m - 1) \X Names
             f == [z \in S |-> Append(z[1], z[2])]
             R == UpTo(m) \ {<<>>}
  <2>4. IsFiniteSet(S)
    BY <2>3, FileTreeAssumption, FS_Product
  <2>5. ASSUME NEW z \in S PROVE f[z] \in R
    <3>1. z[1] \in Seq(Names) /\ Len(z[1]) <= m - 1 /\ z[2] \in Names
      BY DEF UpTo
    <3>2. /\ Append(z[1], z[2]) \in Seq(Names) /\ Append(z[1], z[2]) # <<>>
          /\ Len(Append(z[1], z[2])) = Len(z[1]) + 1 /\ Len(z[1]) \in Nat
      BY <3>1, AppendProperties
    <3> QED BY <2>1, <3>1, <3>2 DEF UpTo
  <2>6. ASSUME NEW p \in R PROVE \E z \in S : f[z] = p
    <3>1. p \in Seq(Names) /\ p # <<>> /\ Len(p) <= m
      BY DEF UpTo
    <3>2. PICK s \in Seq(Names), x \in Names : p = Append(s, x)
      BY <3>1, SequenceEmptyOrAppend
    <3>3. Len(p) = Len(s) + 1 /\ Len(s) \in Nat
      BY <3>2, AppendProperties
    <3>4. s \in UpTo(m - 1)
      BY <2>1, <3>1, <3>3 DEF UpTo
    <3>5. <<s, x>> \in S /\ f[<<s, x>>] = p
      BY <3>2, <3>4
    <3> HIDE DEF S, f
    <3> QED BY <3>5
  <2>7. f \in Surjection(S, R)
    <3>1. f \in [S -> R]
      BY <2>5
    <3> HIDE DEF S, R, f
    <3> QED BY <2>6, <3>1 DEF Surjection
  <2>8. IsFiniteSet(R)
    <3> HIDE DEF S, R, f
    <3> QED BY <2>4, <2>7, FS_Surjection
  <2>9. IsFiniteSet(R \cup {<<>>})
    BY <2>8, FS_AddElement
  <2>10. UpTo(m) \subseteq R \cup {<<>>}
    OBVIOUS
  <2> HIDE DEF R
  <2> QED BY <1>2, <2>9, <2>10, FS_Subset
<1> QED BY <1>3, <1>4

LEMMA FiniteReach == IsFiniteSet(Reach) /\ IsFiniteSet(Walked) /\ IsFiniteSet(Pieces(WalkedSources))
<1>1. MaxDepth + 2 \in Nat /\ MaxSize \in Nat
  BY RepositoryWalkAssumption, FileTreeAssumption
<1>2. Reach = UpTo(MaxDepth + 2)
  BY ReachIs DEF UpTo
<1>3. IsFiniteSet(Reach)
  BY <1>1, <1>2, FiniteUpTo
<1>4. IsFiniteSet(1 .. MaxSize)
  BY <1>1, FS_Interval
<1>5. Walked \subseteq Reach /\ WalkedSources \subseteq Reach
  BY DEF Walked, WalkedSources
<1>6. Pieces(WalkedSources) \subseteq Reach \X (1 .. MaxSize)
  BY <1>5 DEF Pieces
<1> QED BY <1>3, <1>4, <1>5, <1>6, FS_Subset, FS_Product

\* What is left alone leads where it led: every directory that is still to be read is there,
\* what is open is the directory on the way to the first, and no entry of it is missing.
QuietInv ==
    /\ \A j \in 1 .. Len(pending) : Len(Dir(j)) <= MaxDepth + 1
    /\ changes = 0 =>
          /\ rootAt = TheRoot /\ pc # "error"
          /\ \A j \in 1 .. Len(pending) : kind[pending[j].inode] = "dir"
          /\ pc \in {"descend", "open"} => at = Named(Pre(Dir(1), depth))
          /\ pc = "open" => before = entry[at][Dir(1)[depth + 1]] /\ kind[before] = "dir"
          /\ pc = "entries" => \A n \in rest : entry[at][n] # None

LEMMA QuietSight ==
    ASSUME TypeInv, CoverInv, changes = 0, NEW j \in 1 .. Len(pending)
    PROVE  Named(Dir(j)) = pending[j].inode /\ pending[j].inode \in Inodes /\ Dir(j) \in Seq(Names)
<1>1. Dir(j) \in Seq(Names) /\ pending[j].inode \in Inodes
  BY PendingFacts
<1>2. Sighted(Dir(j)) /\ Len(Dir(j)) \in 0 .. Len(Dir(j)) /\ Dir(j) = Pre(Dir(j), Len(Dir(j)))
  BY <1>1, PreEnds DEF CoverInv, Steady
<1> QED BY <1>1, <1>2 DEF Sighted

LEMMA QuietSteps ==
    ASSUME TypeInv, CoverInv, QuietInv, changes = 0
    PROVE  /\ Step(NextDirectory) => pc' = "descend" /\ at' = TheRoot /\ depth' = 0
           /\ Step(Lstat) => /\ pc = "descend" /\ pc' = "open" /\ UNCHANGED <<at, depth>>
                             /\ before' = entry[at][Dir(1)[depth + 1]] /\ kind[before'] = "dir"
           /\ Step(OpenDirectory) => /\ pc = "open" /\ pc' = "descend" /\ depth' = depth + 1
                                     /\ at' = Named(Pre(Dir(1), depth'))
           /\ Step(ReadDirectory) => /\ pc' = "entries" /\ UNCHANGED at
                                     /\ rest' = {n \in Names : entry[at][n] # None}
<1>1. ASSUME Step(NextDirectory) PROVE pc' = "descend" /\ at' = TheRoot /\ depth' = 0
  BY <1>1, StepKeeps DEF NextDirectory, FromRoot, Goto, QuietInv
<1>2. ASSUME pc \in {"descend", "open"}
      PROVE  /\ Directory = Dir(1) /\ Dir(1) \in Seq(Names) /\ Len(Dir(1)) \in Nat /\ depth \in 0 .. Len(Dir(1))
             /\ 1 \in 1 .. Len(pending) /\ at = Named(Pre(Dir(1), depth))
             /\ Named(Dir(1)) = pending[1].inode /\ pending[1].inode \in Inodes
             /\ kind[pending[1].inode] = "dir" /\ Named(Dir(1)) # None
  <2>1. pending # <<>> /\ depth \in 0 .. Len(Dir(1)) /\ at = Named(Pre(Dir(1), depth))
    BY <1>2 DEF TypeInv, QuietInv
  <2>2. Directory = Dir(1) /\ Dir(1) \in Seq(Names) /\ Len(Dir(1)) \in Nat /\ 1 \in 1 .. Len(pending)
    BY <2>1, PendingFacts
  <2>3. Named(Dir(1)) = pending[1].inode /\ pending[1].inode \in Inodes
    BY <2>2, QuietSight
  <2> QED BY <2>1, <2>2, <2>3, FileTreeAssumption DEF QuietInv
<1>3. ASSUME pc \in {"descend", "open"}, depth < Len(Dir(1))
      PROVE  /\ entry[at][Dir(1)[depth + 1]] # None /\ kind[entry[at][Dir(1)[depth + 1]]] = "dir"
             /\ entry[at][Dir(1)[depth + 1]] = Named(Pre(Dir(1), depth + 1))
  <2>1. depth \in 0 .. Len(Dir(1)) - 1
    BY <1>2, <1>3
  <2>2. /\ Named(Pre(Dir(1), depth + 1)) = entry[at][Dir(1)[depth + 1]]
        /\ Named(Pre(Dir(1), depth + 1)) # None
    BY <1>2, <1>3, <2>1, OnTheWay DEF TypeInv
  <2>3. kind[Named(Pre(Dir(1), depth + 1))] = "dir"
    <3>1. CASE depth + 1 = Len(Dir(1))
      <4>1. Pre(Dir(1), depth + 1) = Dir(1)
        BY <1>2, <1>3, <3>1, PreEnds
      <4> QED BY <1>2, <1>3, <4>1
    <3>2. CASE depth + 1 # Len(Dir(1))
      <4>1. depth + 1 \in 0 .. Len(Dir(1)) - 1
        BY <1>2, <1>3, <2>1, <3>2
      <4> QED BY <1>2, <1>3, <4>1, OnTheWay DEF TypeInv
    <3> QED BY <3>1, <3>2
  <2> QED BY <2>2, <2>3
<1>4. ASSUME Step(Lstat)
      PROVE  /\ pc = "descend" /\ pc' = "open" /\ UNCHANGED <<at, depth>>
             /\ before' = entry[at][Dir(1)[depth + 1]] /\ kind[before'] = "dir"
  <2>1. Lstat /\ kind' = kind
    BY <1>4, StepKeeps
  <2>2. pc = "descend" /\ depth < Len(Directory) /\ before' = entry[at][Directory[depth + 1]]
        /\ UNCHANGED <<at, depth>>
    BY <2>1 DEF Lstat
  <2>3. before' # None /\ kind[before'] = "dir" /\ Directory = Dir(1)
    BY <1>2, <1>3, <2>2
  <2> QED BY <2>1, <2>2, <2>3 DEF Lstat, Goto
<1>5. ASSUME Step(OpenDirectory)
      PROVE  /\ pc = "open" /\ pc' = "descend" /\ depth' = depth + 1
             /\ at' = Named(Pre(Dir(1), depth'))
  <2>1. OpenDirectory
    BY <1>5, StepKeeps
  <2>2. pc = "open" /\ depth < Len(Dir(1)) /\ Directory = Dir(1)
    BY <1>2, <2>1 DEF OpenDirectory, TypeInv
  <2>3. /\ before = entry[at][Dir(1)[depth + 1]] /\ before # None /\ kind[before] = "dir"
        /\ before = Named(Pre(Dir(1), depth + 1))
    BY <1>3, <2>2 DEF QuietInv
  <2>4. Opening(at, Directory[depth + 1]) = {before}
    BY <2>2, <2>3 DEF Opening
  <2>5. pc' = "descend" /\ at' = before /\ depth' = depth + 1
    BY <2>1, <2>3, <2>4 DEF OpenDirectory, Goto
  <2> QED BY <2>2, <2>3, <2>5
<1>6. ASSUME Step(ReadDirectory)
      PROVE  /\ pc' = "entries" /\ UNCHANGED at /\ rest' = {n \in Names : entry[at][n] # None}
  <2>1. ReadDirectory
    BY <1>6, StepKeeps
  <2>2. pc = "descend" /\ depth = Len(Dir(1)) /\ pending # <<>>
    BY <1>2, <2>1 DEF ReadDirectory, TypeInv
  <2>3. at = Head(pending).inode
    BY <1>2, <2>2, PreEnds, PendingFacts
  <2> QED BY <2>1, <2>3 DEF ReadDirectory, Goto
<1> QED BY <1>1, <1>4, <1>5, <1>6

\* What an entry names in a repository that is left alone.
LEMMA QuietEntry ==
    ASSUME TypeInv, BoundInv, CoverInv, QuietInv, changes = 0, pc = "entries", NEW n \in rest
    PROVE  LET q == Append(Directory, n)
           IN  /\ q \in Seq(Names) /\ q = Append(Dir(1), n) /\ Len(q) = Len(Dir(1)) + 1
               /\ entry[at][n] # None /\ Named(q) = entry[at][n]
               /\ q \in Walked /\ Last(q) = n
<1> DEFINE q == Append(Directory, n)
           d == Dir(1)
<1>1. /\ n \in Names /\ pending # <<>> /\ 1 \in 1 .. Len(pending) /\ Directory = d /\ d \in Seq(Names)
      /\ Len(d) \in Nat /\ Len(d) <= MaxDepth + 1 /\ at # None /\ kind[at] = "dir" /\ at = pending[1].inode
      /\ \A k \in 1 .. Len(d) : d[k] \notin Excluded
  <2>1. n \in Names /\ pending # <<>> /\ at = pending[1].inode /\ at # None /\ kind[at] = "dir"
    BY DEF TypeInv, CoverInv
  <2>2. 1 \in 1 .. Len(pending) /\ Directory = d /\ d \in Seq(Names) /\ Len(d) \in Nat
    BY <2>1, PendingFacts
  <2> QED BY <2>1, <2>2 DEF QuietInv, BoundInv, Entered
<1>2. Named(d) = at /\ entry[at][n] # None
  BY <1>1, QuietSight DEF QuietInv
<1> HIDE DEF d
<1>3. /\ q \in Seq(Names) /\ q = Append(d, n) /\ q # <<>> /\ Len(q) = Len(d) + 1 /\ q[Len(d) + 1] = n
      /\ \A k \in 1 .. Len(d) : q[k] = d[k]
  BY <1>1, AppendProperties
<1>4. Named(q) = entry[at][n]
  BY <1>1, <1>2, <1>3, NamedAppend DEF Further
<1> HIDE DEF q
<1>5. q \in Reach
  <2>1. Len(q) <= MaxDepth + 2
    BY <1>1, <1>3, RepositoryWalkAssumption
  <2> QED BY <1>3, <2>1, ReachIs
<1>6. Len(q) - 1 = Len(d) /\ Last(q) = n
  BY <1>1, <1>3 DEF Last
<1>7. q \in Walked
  BY <1>1, <1>2, <1>3, <1>4, <1>5, <1>6 DEF Walked
<1> QED BY <1>2, <1>3, <1>4, <1>6, <1>7 DEF q, d

\* Why a walk stops at an entry.
LEMMA EntryStops ==
    ASSUME TypeInv, NEW n \in Names, Step(Entry(n)), pc' \in {"limit", "error"}
    PROVE  LET i == entry[at][n]
           IN  \/ pc' = "error" /\ i = None
               \/ /\ pc' = "limit"
                  /\ \/ TooMany(count + 1)
                     \/ Len(Append(Directory, n)) - 1 > MaxDepth
                     \/ /\ i # None /\ kind[i] = "file" /\ Found(n)
                        /\ sourceOnly /\ TooLarge(Len(content[i]))
<1>1. Entry(n) /\ pc = "entries" /\ count' = count + 1
  BY StepKeeps DEF Entry
<1> QED BY <1>1 DEF Entry, Limit, Goto

LEMMA QuietInvNext ==
    ASSUME TypeInv, BoundInv, OrderInv, CoverInv, QuietInv, [Next]_vars PROVE QuietInv'
<1>1. CASE Others
  <2>1. UNCHANGED pending /\ changes' = changes + 1 /\ changes \in Nat
    <3>1. MaxChanges \in Nat
      BY FileTreeAssumption
    <3>2. changes \in Nat
      BY <3>1 DEF TypeInv, TreeTypeOK
    <3> QED BY <1>1, <3>2 DEF Others, Change, walk
  <2>2. changes' # 0
    BY <2>1
  <2> QED BY <2>1, <2>2 DEF QuietInv, Dir
<1>2. CASE Step(NextDirectory) \/ Step(Lstat) \/ Step(OpenDirectory) \/ Step(ReadDirectory) \/ Step(Fail)
  <2>1. UNCHANGED <<rootAt, entry, kind, changes, pending>>
    BY <1>2, StepKeeps, TypeWay
  <2>2. CASE changes # 0
    BY <2>1, <2>2 DEF QuietInv, Dir
  <2>3. CASE changes = 0
    <3>1. /\ rootAt' = TheRoot
          /\ \A j \in 1 .. Len(pending) : kind'[pending'[j].inode] = "dir" /\ Len(Dir(j)') <= MaxDepth + 1
      BY <2>1, <2>3 DEF QuietInv, Dir
    <3>2. Dir(1)' = Dir(1) /\ \A k : Named(Pre(Dir(1), k))' = Named(Pre(Dir(1), k))
      BY <2>1 DEF Dir, Named
    <3>3. CASE Step(NextDirectory)
      <4>1. pc' = "descend" /\ at' = TheRoot /\ depth' = 0
        BY <2>3, <3>3, QuietSteps
      <4>2. Dir(1) \in Seq(Names)
        BY <3>3, StepKeeps, PendingFacts DEF NextDirectory
      <4>3. Named(Pre(Dir(1), 0)) = TheRoot
        BY <2>3, <4>2, PreEnds, NamedEmpty DEF Beginning, QuietInv
      <4> QED BY <2>1, <3>1, <3>2, <4>1, <4>3 DEF QuietInv
    <3>4. CASE Step(Lstat)
      <4>1. /\ pc = "descend" /\ pc' = "open" /\ UNCHANGED <<at, depth>>
            /\ before' = entry[at][Dir(1)[depth + 1]] /\ kind[before'] = "dir"
        BY <2>3, <3>4, QuietSteps
      <4>2. at = Named(Pre(Dir(1), depth))
        BY <2>3, <4>1 DEF QuietInv
      <4> QED BY <2>1, <3>1, <3>2, <4>1, <4>2 DEF QuietInv
    <3>5. CASE Step(OpenDirectory)
      <4>1. pc' = "descend" /\ at' = Named(Pre(Dir(1), depth'))
        BY <2>3, <3>5, QuietSteps
      <4> QED BY <2>1, <3>1, <3>2, <4>1 DEF QuietInv
    <3>6. CASE Step(ReadDirectory)
      <4>1. pc' = "entries" /\ UNCHANGED at /\ rest' = {n \in Names : entry[at][n] # None}
        BY <2>3, <3>6, QuietSteps
      <4> QED BY <2>1, <3>1, <4>1 DEF QuietInv
    <3>7. CASE Step(Fail)
      <4>1. pc' = "failed"
        BY <3>7, StepKeeps DEF Fail, Goto
      <4> QED BY <2>1, <3>1, <4>1 DEF QuietInv
    <3> QED BY <1>2, <3>3, <3>4, <3>5, <3>6, <3>7
  <2> QED BY <2>2, <2>3
<1>3. CASE \E n \in Names : Step(Entry(n))
  <2>1. PICK n \in Names : Step(Entry(n))
    BY <1>3
  <2>2. /\ UNCHANGED <<rootAt, entry, kind, changes, at>>
        /\ pc = "entries" /\ n \in rest /\ rest' = rest \ {n}
        /\ Stops \/ PassesOver(n) \/ AddsDirectory(n) \/ AddsFile(n)
    BY <2>1, EntryCases
  <2>3. CASE pending' = pending
    <3>1. changes = 0 => pc' \in {"limit", "entries"}
      BY <2>1, <2>2, EntryStops DEF Stops, PassesOver, AddsDirectory, AddsFile, QuietInv
    <3>2. \A j \in 1 .. Len(pending') : Len(Dir(j)') <= MaxDepth + 1
      BY <2>3 DEF QuietInv, Dir
    <3>3. changes = 0 => /\ rootAt' = TheRoot
                         /\ \A j \in 1 .. Len(pending') : kind'[pending'[j].inode] = "dir"
                         /\ \A m \in rest' : entry'[at'][m] # None
      BY <2>2, <2>3 DEF QuietInv
    <3> QED BY <2>2, <3>1, <3>2, <3>3 DEF QuietInv
  <2>4. CASE AddsDirectory(n)
    <3> DEFINE q == Append(Directory, n)
               d == [inode |-> entry[at][n], path |-> q]
    <3>1. /\ pending # <<>> /\ Directory \in Seq(Names) /\ at \in Inodes
      BY <2>2, PendingFacts DEF TypeInv
    <3>2. d \in Seen /\ d.path = q /\ d.inode = entry[at][n]
      <4>1. entry[at][n] \in Inodes
        BY <2>4, <3>1 DEF AddsDirectory, TypeInv, TreeTypeOK
      <4> QED BY <3>1, <4>1 DEF Seen
    <3>3. /\ pending' = Append(pending, d) /\ kind[entry[at][n]] = "dir" /\ Len(q) - 1 <= MaxDepth
          /\ pc' = "entries"
      BY <2>2, <2>4 DEF AddsDirectory
    <3>4. Len(q) <= MaxDepth + 1
      <4>1. q \in Seq(Names) /\ Len(q) \in Nat
        BY <3>1
      <4> HIDE DEF q
      <4> QED BY <3>3, <4>1, RepositoryWalkAssumption
    <3> HIDE DEF d, q, Seen
    <3>5. \A k \in 1 .. Len(pending') : (k \in 1 .. Len(pending) /\ pending'[k] = pending[k]) \/ pending'[k] = d
      BY <3>2, <3>3, AddedDirectory
    <3>6. \A j \in 1 .. Len(pending') : Len(Dir(j)') <= MaxDepth + 1
      BY <3>2, <3>4, <3>5 DEF QuietInv, Dir
    <3>7. changes = 0 => \A j \in 1 .. Len(pending') : kind'[pending'[j].inode] = "dir"
      BY <2>2, <3>2, <3>3, <3>5 DEF QuietInv
    <3> QED BY <2>2, <3>3, <3>6, <3>7 DEF QuietInv
  <2> QED BY <2>2, <2>3, <2>4 DEF Stops, PassesOver, AddsFile
<1>4. CASE Step(CloseDirectory)
  <2>1. /\ UNCHANGED <<rootAt, kind, changes>> /\ pc' = "next"
        /\ pending # <<>> /\ pending' = Tail(pending)
    BY <1>4, StepKeeps DEF CloseDirectory, Goto, TypeInv
  <2>2. \A k \in 1 .. Len(pending') : k + 1 \in 1 .. Len(pending) /\ pending'[k] = pending[k + 1]
    BY <2>1, Shifted, PendingFacts
  <2> QED BY <2>1, <2>2 DEF QuietInv, Dir
<1>5. CASE Step(Finish)
  <2>1. Finish /\ UNCHANGED <<rootAt, kind, changes>>
    BY <1>5, StepKeeps
  <2>2. pending' = <<>> /\ (changes = 0 => pc' = "done")
    BY <2>1 DEF Finish, Goto, QuietInv
  <2> QED BY <2>1, <2>2 DEF QuietInv
<1>6. CASE UNCHANGED vars
  <2>1. UNCHANGED <<rootAt, entry, kind, changes, pc, pending, at, depth, before, rest>>
    BY <1>6 DEF vars, tree, walk
  <2>2. Dir(1)' = Dir(1) /\ \A k : Named(Pre(Dir(1), k))' = Named(Pre(Dir(1), k))
    BY <2>1 DEF Dir, Named
  <2>3. at' = Named(Pre(Dir(1), depth))' <=> at = Named(Pre(Dir(1), depth))
    BY <2>1 DEF Named, Dir
  <2> QED BY <2>1, <2>2, <2>3 DEF QuietInv, Dir
<1> QED BY <1>1, <1>2, <1>3, <1>4, <1>5, <1>6 DEF Next

\* What is still to be taken on the way to a path.
Ahead(p) ==
    \E j \in 1 .. Len(pending), k \in 0 .. Len(p) - 1 :
        Dir(j) = Pre(p, k) /\ (j = 1 /\ pc = "entries" => p[k + 1] \in rest)

\* The paths that have been taken; every one of them has been counted once.
Taken == {p \in Walked : ~Ahead(p)}

CountInv  == changes = 0 /\ Going => count <= Cardinality(Taken) + 1
SizeInv   == changes = 0 /\ Going /\ sourceOnly => size <= Cardinality(Pieces(ToSet(paths)))
LimitInv  == changes = 0 /\ pc = "limit" => Exceeded
SortedInv == pc = "done" => \A j, k \in 1 .. Len(paths) : j < k => Before(paths[j], paths[k])

LEMMA WalkedKept ==
    ASSUME UNCHANGED <<rootAt, entry, kind, content, sourceOnly>>
    PROVE  /\ Walked' = Walked /\ WalkedSources' = WalkedSources /\ (Exceeded' <=> Exceeded)
           /\ \A files : Pieces(files)' = Pieces(files)
<1>1. \A p : Named(p)' = Named(p)
  BY DEF Named
<1>2. \A p : SizeOf(p)' = SizeOf(p) /\ (IsFile(p)' <=> IsFile(p))
  BY <1>1 DEF SizeOf, IsFile
<1>3. Walked' = Walked
  BY <1>1 DEF Walked
<1>4. WalkedSources' = WalkedSources
  BY <1>2, <1>3 DEF WalkedSources
<1>5. \A files : Pieces(files)' = Pieces(files)
  BY <1>2 DEF Pieces
<1>6. Pieces(WalkedSources)' = Pieces(WalkedSources)
  BY <1>2, <1>4 DEF Pieces
<1>7. Exceeded' <=> Exceeded
  BY <1>2, <1>3, <1>4, <1>6 DEF Exceeded
<1> QED BY <1>3, <1>4, <1>5, <1>7

LEMMA PreAppend ==
    ASSUME NEW d \in Seq(Names), NEW n \in Names
    PROVE  LET q == Append(d, n)
           IN  /\ q \in Seq(Names) /\ Len(q) = Len(d) + 1 /\ Len(d) \in 0 .. Len(q) - 1
               /\ Pre(q, Len(d)) = d /\ q[Len(d) + 1] = n
<1> DEFINE q == Append(d, n)
<1>1. q \in Seq(Names) /\ Len(q) = Len(d) + 1 /\ q[Len(d) + 1] = n /\ Len(d) \in Nat
  BY AppendProperties
<1>2. q = Append(d, n)
  OBVIOUS
<1> HIDE DEF q
<1>3. Len(d) \in 0 .. Len(q) - 1 /\ Len(d) \in 0 .. Len(q)
  BY <1>1
<1>4. Pre(q, Len(d) + 1) = Append(Pre(q, Len(d)), n) /\ Pre(q, Len(d)) \in Seq(Names)
  BY <1>1, <1>3, PreNext, PreFacts
<1>5. Pre(q, Len(d) + 1) = q
  BY <1>1, PreEnds
<1>6. Append(Pre(q, Len(d)), n) = Append(d, n) <=> Pre(q, Len(d)) = d /\ n = n
  BY <1>4, AppendInjective
<1>7. Pre(q, Len(d)) = d
  BY <1>2, <1>4, <1>5, <1>6
<1> QED BY <1>1, <1>2, <1>3, <1>7

LEMMA FiniteTaken == IsFiniteSet(Taken) /\ Taken \subseteq Walked /\ Cardinality(Taken) \in Nat
<1>1. Taken \subseteq Walked
  BY DEF Taken
<1>2. IsFiniteSet(Taken)
  BY <1>1, FiniteReach, FS_Subset
<1> QED BY <1>1, <1>2, FS_CardinalityType

\* An entry that is left has not been taken.
LEMMA NotTaken ==
    ASSUME TypeInv, BoundInv, CoverInv, QuietInv, changes = 0, pc = "entries", NEW n \in rest
    PROVE  Append(Directory, n) \notin Taken
<1> DEFINE q == Append(Directory, n)
<1>1. n \in Names /\ 1 \in 1 .. Len(pending) /\ Directory = Dir(1) /\ Dir(1) \in Seq(Names)
  BY PendingFacts DEF TypeInv
<1>2. q = Append(Dir(1), n)
  BY <1>1
<1> HIDE DEF q
<1>3. Len(Dir(1)) \in 0 .. Len(q) - 1 /\ Pre(q, Len(Dir(1))) = Dir(1) /\ q[Len(Dir(1)) + 1] = n
  BY <1>1, <1>2, PreAppend
<1>4. Ahead(q)
  BY <1>1, <1>3 DEF Ahead
<1> QED BY <1>4 DEF Taken, q

\* An entry that is taken is one path more, and no path is to be taken again.
LEMMA TakenGrows ==
    ASSUME TypeInv, BoundInv, OrderInv, CoverInv, QuietInv, changes = 0,
           NEW n \in Names, Step(Entry(n)), pc' = "entries"
    PROVE  Taken \cup {Append(Directory, n)} \subseteq Taken'
<1>1. /\ UNCHANGED <<rootAt, entry, kind, content, sourceOnly>>
      /\ pc = "entries" /\ n \in rest /\ rest' = rest \ {n} /\ Going
      /\ PassesOver(n) \/ AddsDirectory(n) \/ AddsFile(n)
  BY EntryCases DEF Going, Stops
<1> DEFINE q == Append(Directory, n)
           d == [inode |-> entry[at][n], path |-> q]
<1>2. /\ q \in Seq(Names) /\ q = Append(Dir(1), n) /\ Len(q) = Len(Dir(1)) + 1 /\ q \in Walked
      /\ 1 \in 1 .. Len(pending) /\ Dir(1) \in Seq(Names) /\ Len(Dir(1)) \in Nat /\ at \in Inodes
      /\ Len(pending) \in Nat
  BY <1>1, QuietEntry, PendingFacts DEF TypeInv
<1>3. d.path = q
  OBVIOUS
<1>4. \A j \in 1 .. Len(pending') :
          \/ j \in 1 .. Len(pending) /\ pending'[j] = pending[j]
          \/ j # 1 /\ pending'[j] = d
  <2>1. CASE AddsDirectory(n)
    <3>1. d \in Seen /\ pending' = Append(pending, d)
      <4>1. entry[at][n] \in Inodes
        BY <1>2, <2>1 DEF AddsDirectory, TypeInv, TreeTypeOK
      <4> QED BY <1>2, <2>1, <4>1 DEF Seen, AddsDirectory
    <3> HIDE DEF d, q, Seen
    <3>2. \A j \in 1 .. Len(pending') :
              (j \in 1 .. Len(pending) /\ pending'[j] = pending[j]) \/ (j = Len(pending) + 1 /\ pending'[j] = d)
      BY <3>1, AddedDirectory
    <3>3. Len(pending) + 1 # 1
      BY <1>2
    <3> QED BY <3>2, <3>3
  <2> QED BY <1>1, <2>1 DEF PassesOver, AddsFile
<1>5. Walked' = Walked
  BY <1>1, WalkedKept
<1> HIDE DEF d, q
<1>6. ASSUME NEW p \in Walked, ~Ahead(p) PROVE ~Ahead(p)'
  <2> SUFFICES ASSUME NEW j \in 1 .. Len(pending'), NEW k \in 0 .. Len(p) - 1,
                      Dir(j)' = Pre(p, k), j = 1 => p[k + 1] \in rest'
               PROVE  FALSE
    BY DEF Ahead
  <2>1. p \in Seq(Names) /\ Len(p) \in Nat
    BY ReachIs DEF Walked
  <2>2. CASE j \in 1 .. Len(pending) /\ pending'[j] = pending[j]
    <3>1. Dir(j) = Pre(p, k) /\ (j = 1 => p[k + 1] \in rest)
      BY <1>1, <2>2 DEF Dir
    <3> QED BY <1>6, <2>2, <3>1 DEF Ahead
  <2>3. CASE pending'[j] = d
    <3>1. q = Pre(p, k)
      BY <1>3, <2>3 DEF Dir
    <3>2. k # 0 /\ k \in 0 .. Len(p)
      <4>1. Len(q) = k /\ k \in 0 .. Len(p)
        BY <2>1, <3>1, PreFacts
      <4> QED BY <1>2, <4>1
    <3>3. k - 1 \in 0 .. Len(p) - 1 /\ k - 1 + 1 = k /\ k - 1 \in 0 .. Len(p)
      BY <2>1, <3>2
    <3>4. Pre(p, k) = Append(Pre(p, k - 1), p[k]) /\ p[k] \in Names /\ Pre(p, k - 1) \in Seq(Names)
      BY <2>1, <3>3, PreNext, PreFacts
    <3>5. Append(Dir(1), n) = Append(Pre(p, k - 1), p[k]) <=> Dir(1) = Pre(p, k - 1) /\ n = p[k]
      BY <1>2, <3>4, AppendInjective, SMTT(30)
    <3>6. Dir(1) = Pre(p, k - 1) /\ n = p[k - 1 + 1]
      BY <1>2, <3>1, <3>3, <3>4, <3>5
    <3> QED BY <1>1, <1>2, <1>6, <3>3, <3>6 DEF Ahead
  <2> QED BY <1>4, <2>2, <2>3
<1>7. ASSUME NEW p, p = q PROVE ~Ahead(p)'
  <2> SUFFICES ASSUME NEW j \in 1 .. Len(pending'), NEW k \in 0 .. Len(p) - 1,
                      Dir(j)' = Pre(p, k), j = 1 => p[k + 1] \in rest'
               PROVE  FALSE
    BY DEF Ahead
  <2>0. k \in 0 .. Len(q) - 1 /\ Dir(j)' = Pre(q, k) /\ (j = 1 => q[k + 1] \in rest')
    BY <1>7
  <2>1. k \in 0 .. Len(q) /\ Len(Pre(q, k)) = k /\ k <= Len(Dir(1)) /\ k \in Nat
    <3>1. k \in 0 .. Len(q) /\ k \in Nat /\ k <= Len(Dir(1))
      BY <1>2, <2>0
    <3> QED BY <1>2, <3>1, PreFacts
  <2>2. CASE j \in 1 .. Len(pending) /\ pending'[j] = pending[j]
    <3>1. Dir(j) = Pre(q, k) /\ Len(Dir(j)) = k /\ Len(Dir(1)) <= Len(Dir(j))
      BY <1>2, <2>0, <2>1, <2>2 DEF OrderInv, Dir
    <3>2. k = Len(Dir(1))
      BY <1>2, <2>1, <3>1
    <3>3. Pre(q, k) = Dir(1) /\ q[k + 1] = n
      BY <1>1, <1>2, <3>2, PreAppend
    <3>4. j = 1
      BY <1>2, <2>2, <3>1, <3>3 DEF OrderInv
    <3> QED BY <1>1, <2>0, <3>3, <3>4
  <2>3. CASE pending'[j] = d
    <3>1. q = Pre(q, k)
      BY <1>3, <2>0, <2>3 DEF Dir
    <3>2. Len(q) = k
      BY <2>1, <3>1
    <3> QED BY <1>2, <2>1, <3>2
  <2> QED BY <1>4, <2>2, <2>3
<1>8. ASSUME NEW p \in Taken \cup {q} PROVE p \in Taken'
  BY <1>2, <1>5, <1>6, <1>7 DEF Taken
<1> QED BY <1>8 DEF q

\* The limit on entries is met only if there are that many.
LEMMA EntryCounted ==
    ASSUME TypeInv, BoundInv, OrderInv, CoverInv, QuietInv, CountInv, changes = 0,
           NEW n \in Names, Step(Entry(n))
    PROVE  /\ CountInv'
           /\ TooMany(count + 1) => Cardinality(Walked) + 1 > MaxEntries
<1> DEFINE q == Append(Directory, n)
<1>1. /\ pc = "entries" /\ n \in rest /\ Going /\ count' = count + 1 /\ count \in Nat
      /\ UNCHANGED <<rootAt, entry, kind, content, sourceOnly>>
      /\ Stops \/ pc' = pc
  BY EntryCases DEF Going, TypeInv, PassesOver, AddsDirectory, AddsFile
<1>2. q \in Walked /\ q \notin Taken
  BY <1>1, QuietEntry, NotTaken
<1>3. /\ IsFiniteSet(Taken \cup {q}) /\ Cardinality(Taken \cup {q}) = Cardinality(Taken) + 1
      /\ Cardinality(Taken) \in Nat /\ Taken \cup {q} \subseteq Walked
  BY <1>2, FiniteTaken, FS_AddElement
<1>4. count <= Cardinality(Taken) + 1
  BY <1>1 DEF CountInv
<1>5. ASSUME TooMany(count + 1) PROVE Cardinality(Walked) + 1 > MaxEntries
  <2>1. Cardinality(Taken \cup {q}) <= Cardinality(Walked) /\ Cardinality(Walked) \in Nat
    BY <1>3, FiniteReach, FS_Subset, FS_CardinalityType
  <2>2. count + 1 > MaxEntries /\ MaxEntries \in Nat
    BY <1>5, RepositoryWalkAssumption DEF TooMany
  <2> HIDE DEF q
  <2> QED BY <1>1, <1>3, <1>4, <2>1, <2>2
<1>6. CountInv'
  <2>1. CASE Stops
    BY <2>1 DEF CountInv, Stops, Going
  <2>2. CASE pc' = pc
    <3>1. Taken \cup {q} \subseteq Taken'
      BY <1>1, <2>2, TakenGrows
    <3>2. Walked' = Walked
      BY <1>1, WalkedKept
    <3>3. IsFiniteSet(Taken')
      <4>1. Taken' \subseteq Walked
        BY <3>2 DEF Taken
      <4> QED BY <4>1, FiniteReach, FS_Subset
    <3>4. Cardinality(Taken \cup {q}) <= Cardinality(Taken')
      BY <3>1, <3>3, FS_Subset
    <3>5. Cardinality(Taken') \in Nat
      BY <3>3, FS_CardinalityType
    <3> HIDE DEF q
    <3>6. count' <= Cardinality(Taken') + 1
      BY <1>1, <1>3, <1>4, <3>4, <3>5
    <3> QED BY <3>6 DEF CountInv
  <2> QED BY <1>1, <2>1, <2>2
<1> QED BY <1>5, <1>6

\* What a walk for sources has found are sources.
LEMMA FoundAreWalked ==
    ASSUME TypeInv, BoundInv, CoverInv, changes = 0, sourceOnly
    PROVE  ToSet(paths) \subseteq WalkedSources
<1> SUFFICES ASSUME NEW k \in 1 .. Len(paths) PROVE paths[k] \in WalkedSources
  BY PathFacts DEF ToSet
<1>1. /\ paths[k] \in Seq(Names) /\ Len(paths[k]) \in Nat /\ Len(paths[k]) - 1 <= MaxDepth
      /\ Wanted(paths[k])
  BY PathFacts DEF BoundInv
<1>2. paths[k] \in Reach
  <2>1. Len(paths[k]) <= MaxDepth + 2
    BY <1>1, RepositoryWalkAssumption
  <2> QED BY <1>1, <2>1, ReachIs
<1>3. IsFile(paths[k])
  BY <1>1 DEF CoverInv, Steady
<1>4. /\ paths[k] # <<>> /\ Last(paths[k]) \in Sources
      /\ \A j \in 1 .. Len(paths[k]) - 1 : paths[k][j] \notin Excluded
  BY <1>1 DEF Wanted
<1> QED BY <1>2, <1>3, <1>4 DEF WalkedSources, Walked, IsFile

\* The pieces of one more file.
LEMMA OneMoreFile ==
    ASSUME NEW files, IsFiniteSet(Pieces(files)), NEW p, p \notin files,
           SizeOf(p) \in Nat, SizeOf(p) <= MaxSize
    PROVE  /\ IsFiniteSet(Pieces(files \cup {p}))
           /\ Cardinality(Pieces(files \cup {p})) = Cardinality(Pieces(files)) + SizeOf(p)
<1> DEFINE P == {p} \X (1 .. SizeOf(p))
           A == Pieces(files)
<1>1. Pieces(files \cup {p}) = A \cup P
  <2>1. ASSUME NEW x, x \in Pieces(files \cup {p}) PROVE x \in A \cup P
    BY <2>1 DEF Pieces
  <2>2. ASSUME NEW x, x \in A \cup P PROVE x \in Pieces(files \cup {p})
    <3>1. MaxSize \in Nat
      BY FileTreeAssumption
    <3> QED BY <2>2, <3>1 DEF Pieces
  <2> QED BY <2>1, <2>2
<1>2. A \cap P = {}
  BY DEF Pieces
<1>3. IsFiniteSet(P) /\ Cardinality(P) = SizeOf(p)
  <2>1. IsFiniteSet({p}) /\ Cardinality({p}) = 1
    BY FS_Singleton
  <2>2. IsFiniteSet(1 .. SizeOf(p)) /\ Cardinality(1 .. SizeOf(p)) = SizeOf(p)
    <3>1. SizeOf(p) \in Int /\ 1 \in Int
      OBVIOUS
    <3>2. IsFiniteSet(1 .. SizeOf(p))
          /\ Cardinality(1 .. SizeOf(p)) = IF 1 > SizeOf(p) THEN 0 ELSE SizeOf(p) - 1 + 1
      BY <3>1, FS_Interval
    <3> QED BY <3>2
  <2>3. IsFiniteSet(P) /\ Cardinality(P) = Cardinality({p}) * Cardinality(1 .. SizeOf(p))
    BY <2>1, <2>2, FS_Product
  <2> HIDE DEF P
  <2> QED BY <2>1, <2>2, <2>3
<1> HIDE DEF P
<1>4. IsFiniteSet(A \cup P) /\ Cardinality(A \cup P) = Cardinality(A) + Cardinality(P) - Cardinality(A \cap P)
  BY <1>3, FS_Union
<1>5. Cardinality(A \cap P) = 0 /\ Cardinality(A) \in Nat
  BY <1>2, FS_EmptySet, FS_CardinalityType
<1> HIDE DEF A
<1>6. Cardinality(A \cup P) = Cardinality(A) + SizeOf(p)
  BY <1>3, <1>4, <1>5
<1>7. Pieces(files) = A
  BY DEF A
<1> QED BY <1>1, <1>4, <1>6, <1>7

\* A limit on the size of sources is met only if there is that much of them.
LEMMA EntrySized ==
    ASSUME TypeInv, BoundInv, OrderInv, CoverInv, QuietInv, SizeInv, changes = 0, sourceOnly,
           NEW n \in Names, pc = "entries", n \in rest,
           kind[entry[at][n]] = "file", Found(n)
    PROVE  LET q     == Append(Directory, n)
               bytes == Len(content[entry[at][n]])
           IN  /\ q \in WalkedSources /\ SizeOf(q) = bytes /\ bytes \in Nat /\ q \notin ToSet(paths)
               /\ size + bytes <= Cardinality(Pieces(ToSet(paths) \cup {q}))
               /\ Cardinality(Pieces(ToSet(paths) \cup {q})) <= Cardinality(Pieces(WalkedSources))
               /\ Cardinality(Pieces(WalkedSources)) \in Nat
               /\ Cardinality(Pieces(ToSet(paths) \cup {q})) \in Nat
<1> DEFINE q     == Append(Directory, n)
           bytes == Len(content[entry[at][n]])
           files == ToSet(paths)
<1>1. /\ q \in Walked /\ Named(q) = entry[at][n] /\ Last(q) = n /\ entry[at][n] # None /\ q = Append(Dir(1), n)
      /\ 1 \in 1 .. Len(pending)
  BY QuietEntry, PendingFacts DEF TypeInv
<1>2. q \in WalkedSources /\ SizeOf(q) = bytes
  BY <1>1 DEF WalkedSources, IsFile, Found, SizeOf
<1>3. bytes \in Nat /\ bytes <= MaxSize
  <2>1. entry[at][n] \in Inodes
    BY <1>1, FileTreeAssumption DEF TypeInv, TreeTypeOK
  <2>2. content[entry[at][n]] \in Contents
    BY <2>1 DEF TypeInv, TreeTypeOK
  <2>3. PICK m \in 0 .. MaxSize : content[entry[at][n]] \in [1 .. m -> Values]
    BY <2>2 DEF Contents
  <2>4. bytes = m /\ m \in Nat /\ m <= MaxSize
    BY <2>3, FileTreeAssumption
  <2> QED BY <2>4
<1>4. q \notin files
  <2> SUFFICES ASSUME NEW k \in 1 .. Len(paths), paths[k] = q PROVE FALSE
    BY PathFacts DEF ToSet
  <2>1. NotAhead(paths[k])
    BY DEF OrderInv, Going
  <2>2. paths[k] = Append(Dir(1), n)
    BY <1>1
  <2> HIDE DEF q
  <2> QED BY <1>1, <2>1, <2>2 DEF NotAhead
<1>5. Pieces(files) \subseteq Pieces(WalkedSources) /\ Pieces(files \cup {q}) \subseteq Pieces(WalkedSources)
  BY <1>2, FoundAreWalked DEF Pieces
<1>6. IsFiniteSet(Pieces(files)) /\ Cardinality(Pieces(files)) \in Nat
  BY <1>5, FiniteReach, FS_Subset, FS_CardinalityType
<1>7. /\ IsFiniteSet(Pieces(files \cup {q}))
      /\ Cardinality(Pieces(files \cup {q})) = Cardinality(Pieces(files)) + bytes
  <2>1. SizeOf(q) \in Nat /\ SizeOf(q) <= MaxSize
    BY <1>2, <1>3
  <2> HIDE DEF q, bytes, files
  <2> QED BY <1>2, <1>4, <1>6, <2>1, OneMoreFile
<1>8. size <= Cardinality(Pieces(files)) /\ size \in Nat
  BY DEF SizeInv, Going, TypeInv
<1>9. Cardinality(Pieces(WalkedSources)) \in Nat
  BY FiniteReach, FS_CardinalityType
<1>10. Cardinality(Pieces(files \cup {q})) <= Cardinality(Pieces(WalkedSources))
  BY <1>5, FiniteReach, FS_Subset
<1> HIDE DEF q, bytes, files
<1>11. size + bytes <= Cardinality(Pieces(files \cup {q})) /\ Cardinality(Pieces(files \cup {q})) \in Nat
  BY <1>3, <1>6, <1>7, <1>8
<1> QED BY <1>2, <1>3, <1>4, <1>9, <1>10, <1>11 DEF q, bytes, files

\* A step that leaves the tree alone and puts nothing ahead.
Nearer == \A p \in Walked : Ahead(p)' => Ahead(p)

LEMMA CountKept ==
    ASSUME TypeInv, CountInv, UNCHANGED <<rootAt, entry, kind, content, sourceOnly, changes, count>>,
           Going, Nearer
    PROVE  CountInv'
<1>1. Walked' = Walked
  BY WalkedKept
<1>2. Taken \subseteq Taken' /\ Taken' \subseteq Walked
  BY <1>1 DEF Taken, Nearer
<1>3. IsFiniteSet(Taken')
  BY <1>2, FiniteReach, FS_Subset
<1>4. Cardinality(Taken) <= Cardinality(Taken') /\ Cardinality(Taken) \in Nat /\ Cardinality(Taken') \in Nat
  BY <1>2, <1>3, FiniteTaken, FS_Subset, FS_CardinalityType
<1>5. ASSUME changes' = 0 PROVE count' <= Cardinality(Taken') + 1
  <2>1. count <= Cardinality(Taken) + 1 /\ count \in Nat /\ count' = count
    BY <1>5 DEF CountInv, TypeInv
  <2> QED BY <1>4, <2>1
<1> QED BY <1>5 DEF CountInv

LEMMA CountWay ==
    ASSUME TypeInv, CountInv,
           Step(NextDirectory) \/ Step(Lstat) \/ Step(OpenDirectory) \/ Step(ReadDirectory) \/ Step(Fail)
    PROVE  CountInv'
<1>1. UNCHANGED <<rootAt, entry, kind, content, sourceOnly, changes, count, pending>>
  BY TypeWay, StepKeeps
<1>2. CASE Step(Fail)
  BY <1>2, StepKeeps DEF Fail, Goto, CountInv, Going
<1>3. CASE ~Step(Fail)
  <2>1. Going /\ pc # "entries"
    BY <1>3, StepKeeps DEF NextDirectory, Lstat, OpenDirectory, ReadDirectory, Going
  <2>2. Nearer
    BY <1>1, <2>1 DEF Nearer, Ahead, Dir
  <2> QED BY <1>1, <2>1, <2>2, CountKept
<1> QED BY <1>2, <1>3

LEMMA CountClose == ASSUME TypeInv, CountInv, Step(CloseDirectory) PROVE CountInv'
<1>1. /\ UNCHANGED <<rootAt, entry, kind, content, sourceOnly, changes, count>>
      /\ pc = "entries" /\ pending # <<>> /\ pending' = Tail(pending) /\ Going
  BY StepKeeps DEF CloseDirectory, TypeInv, Going
<1>2. \A j \in 1 .. Len(pending') : j + 1 \in 1 .. Len(pending) /\ j + 1 # 1 /\ Dir(j)' = Dir(j + 1)
  BY <1>1, Shifted, PendingFacts DEF Dir
<1>3. Nearer
  BY <1>1, <1>2 DEF Nearer, Ahead
<1> QED BY <1>1, <1>3, CountKept

\* Another piece, or none.
LEMMA SizeEntry ==
    ASSUME TypeInv, BoundInv, OrderInv, CoverInv, QuietInv, SizeInv, NEW n \in Names, Step(Entry(n))
    PROVE  SizeInv'
<1>1. /\ UNCHANGED <<rootAt, entry, kind, content, sourceOnly, changes>> /\ pc = "entries" /\ n \in rest
      /\ Stops \/ PassesOver(n) \/ AddsDirectory(n) \/ AddsFile(n)
  BY EntryCases
<1>2. \A files : Pieces(files)' = Pieces(files)
  BY <1>1, WalkedKept
<1>3. CASE Stops
  BY <1>3 DEF SizeInv, Stops, Going
<1>4. CASE PassesOver(n) \/ AddsDirectory(n)
  <2>1. UNCHANGED <<size, paths>>
    BY <1>4 DEF PassesOver, AddsDirectory
  <2>2. Pieces(ToSet(paths))' = Pieces(ToSet(paths))
    BY <1>1, <2>1 DEF Pieces, SizeOf, Named
  <2> QED BY <1>1, <2>1, <2>2 DEF SizeInv, Going
<1>5. CASE AddsFile(n)
  <2> SUFFICES ASSUME changes = 0, sourceOnly PROVE size' <= Cardinality(Pieces(ToSet(paths))')
    BY <1>1 DEF SizeInv
  <2> DEFINE q == Append(Directory, n)
  <2>1. /\ kind[entry[at][n]] = "file" /\ Found(n) /\ paths' = Append(paths, q)
        /\ size' = size + Len(content[entry[at][n]])
    BY <1>5 DEF AddsFile
  <2>2. size' <= Cardinality(Pieces(ToSet(paths) \cup {q}))
    BY <1>1, <2>1, EntrySized
  <2>3. q \in Seq(Names)
    BY <1>1, QuietEntry
  <2> HIDE DEF q
  <2>4. TypeInv'
    BY TypeEntry
  <2>5. DOMAIN paths' = 1 .. Len(paths') /\ DOMAIN paths = 1 .. Len(paths)
    BY <2>4 DEF TypeInv
  <2>6. /\ \A k \in 1 .. Len(paths') : (k \in 1 .. Len(paths) /\ paths'[k] = paths[k]) \/ paths'[k] = q
        /\ \A k \in 1 .. Len(paths) : k \in 1 .. Len(paths') /\ paths'[k] = paths[k]
        /\ Len(paths) + 1 \in 1 .. Len(paths') /\ paths'[Len(paths) + 1] = q
    BY <2>1, <2>3, AddedFile
  <2>7. ToSet(paths)' = ToSet(paths) \cup {q}
    <3>1. ASSUME NEW x \in ToSet(paths)' PROVE x \in ToSet(paths) \cup {q}
      BY <2>5, <2>6 DEF ToSet
    <3>2. ASSUME NEW x \in ToSet(paths) \cup {q} PROVE x \in ToSet(paths)'
      BY <2>5, <2>6 DEF ToSet
    <3> QED BY <3>1, <3>2
  <2>8. Pieces(ToSet(paths))' = Pieces(ToSet(paths) \cup {q})
    BY <1>1, <2>7 DEF Pieces, SizeOf, Named
  <2> QED BY <2>2, <2>8
<1> QED BY <1>1, <1>3, <1>4, <1>5

\* A walk that is stopped by a limit has come to more than the limit allows.
LEMMA LimitEntry ==
    ASSUME TypeInv, BoundInv, OrderInv, CoverInv, QuietInv, CountInv, SizeInv, NEW n \in Names, Step(Entry(n))
    PROVE  LimitInv'
<1> SUFFICES ASSUME changes' = 0, pc' = "limit" PROVE Exceeded'
  BY DEF LimitInv
<1> DEFINE q     == Append(Directory, n)
           bytes == Len(content[entry[at][n]])
<1>1. /\ UNCHANGED <<rootAt, entry, kind, content, sourceOnly, changes>> /\ pc = "entries" /\ n \in rest
      /\ changes = 0
  BY EntryCases
<1> SUFFICES Exceeded
  BY <1>1, WalkedKept
<1>2. q \in Walked /\ entry[at][n] # None
  BY <1>1, QuietEntry
<1>3. CASE TooMany(count + 1)
  BY <1>1, <1>3, EntryCounted DEF Exceeded
<1>4. CASE Len(q) - 1 > MaxDepth
  BY <1>2, <1>4 DEF Exceeded
<1>5. CASE kind[entry[at][n]] = "file" /\ Found(n) /\ sourceOnly /\ TooLarge(bytes)
  <2>1. /\ q \in WalkedSources /\ SizeOf(q) = bytes /\ bytes \in Nat
        /\ size + bytes <= Cardinality(Pieces(ToSet(paths) \cup {q}))
        /\ Cardinality(Pieces(ToSet(paths) \cup {q})) <= Cardinality(Pieces(WalkedSources))
        /\ Cardinality(Pieces(WalkedSources)) \in Nat
        /\ Cardinality(Pieces(ToSet(paths) \cup {q})) \in Nat
    BY <1>1, <1>5, EntrySized
  <2>2. CASE bytes > MaxFileSize
    BY <1>5, <2>1, <2>2 DEF Exceeded
  <2>3. CASE size > MaxTreeSize - bytes
    <3>1. size \in Nat /\ MaxTreeSize \in Nat
      BY RepositoryWalkAssumption DEF TypeInv
    <3> HIDE DEF q, bytes
    <3>2. Cardinality(Pieces(WalkedSources)) > MaxTreeSize
      BY <2>1, <2>3, <3>1
    <3> QED BY <1>5, <3>2 DEF Exceeded
  <2> QED BY <1>5, <2>2, <2>3 DEF TooLarge
<1> QED BY <1>3, <1>4, <1>5, EntryStops

LEMMA SortedFinish == ASSUME TypeInv, BoundInv, OrderInv, Step(Finish) PROVE SortedInv'
<1>1. ASSUME NEW k \in 1 .. Len(paths) PROVE paths[k] \in Sortable
  <2>1. paths[k] \in Seq(Names) /\ Len(paths[k]) \in Nat /\ Len(paths[k]) - 1 <= MaxDepth
    BY PathFacts DEF BoundInv
  <2>2. Len(paths[k]) <= MaxDepth + 1
    BY <2>1, RepositoryWalkAssumption
  <2> QED BY <2>1, <2>2, SortableIs
<1>2. Different(paths, Len(paths)) /\ paths \in Seq(Seq(Names))
  BY <1>1, PathFacts DEF Different, OrderInv
<1> DEFINE s == Sorted(paths)
<1>3. /\ s \in Seq(Seq(Names)) /\ Len(s) = Len(paths) /\ Len(paths) \in Nat
      /\ \A k \in 1 .. Len(paths) : \E i \in 1 .. Len(paths) : s[k] = paths[i]
      /\ \A j, k \in 1 .. Len(paths) : j # k => s[j] # s[k]
      /\ \A j, k \in 1 .. Len(paths) : j < k => ~Before(s[k], s[j])
  BY <1>2, SortedIs, PathFacts
<1>4. pc' = "done" => paths' = s
  BY StepKeeps DEF Finish, Goto
<1> HIDE DEF s
<1>5. ASSUME NEW j \in 1 .. Len(paths), NEW k \in 1 .. Len(paths), j < k PROVE Before(s[j], s[k])
  <2>1. s[j] \in Sortable /\ s[k] \in Sortable
    BY <1>1, <1>3
  <2>2. s[j] # s[k] /\ ~Before(s[k], s[j])
    <3>1. j # k
      BY <1>5
    <3> QED BY <1>3, <1>5, <3>1
  <2> QED BY <2>1, <2>2, BeforeOrders
<1> QED BY <1>3, <1>4, <1>5 DEF SortedInv

-----------------------------------------------------------------------------
(* The walk in a repository that is left alone.                            *)

Quiet == WalkInv /\ QuietInv /\ CountInv /\ SizeInv /\ LimitInv /\ SortedInv

LEMMA InitQuiet == Init => Quiet
<1> SUFFICES ASSUME Init PROVE Quiet
  OBVIOUS
<1>1. WalkInv
  BY InitInv
<1>2. TypeInv
  BY <1>1 DEF WalkInv
<1>3. /\ pc = "next" /\ changes = 0 /\ rootAt = TheRoot /\ kind[TheRoot] = "dir"
      /\ pending = <<[inode |-> TheRoot, path |-> <<>>]>> /\ count = 1 /\ size = 0
  BY DEF Init, TreeInit
<1>4. Len(pending) = 1 /\ pending[1].inode = TheRoot /\ Dir(1) = <<>> /\ Len(Dir(1)) = 0
  <2>1. pending[1] = [inode |-> TheRoot, path |-> <<>>] /\ Len(pending) = 1
    BY <1>3
  <2> QED BY <2>1 DEF Dir
<1>5. QuietInv
  <2>1. 0 <= MaxDepth + 1
    BY RepositoryWalkAssumption
  <2> QED BY <1>3, <1>4, <2>1 DEF QuietInv
<1>6. CountInv
  BY <1>3, FiniteTaken DEF CountInv
<1>7. SizeInv
  <2>1. ASSUME sourceOnly PROVE Cardinality(Pieces(ToSet(paths))) \in Nat
    <3>1. ToSet(paths) \subseteq WalkedSources
      BY <1>1, <1>3, <2>1, FoundAreWalked DEF WalkInv
    <3>2. Pieces(ToSet(paths)) \subseteq Pieces(WalkedSources)
      BY <3>1 DEF Pieces
    <3> QED BY <3>2, FiniteReach, FS_Subset, FS_CardinalityType
  <2>2. ASSUME sourceOnly PROVE size <= Cardinality(Pieces(ToSet(paths)))
    BY <1>3, <2>1, <2>2
  <2> QED BY <2>2 DEF SizeInv
<1>8. LimitInv /\ SortedInv
  BY <1>3 DEF LimitInv, SortedInv
<1> QED BY <1>1, <1>5, <1>6, <1>7, <1>8 DEF Quiet

LEMMA NextQuiet == Quiet /\ [Next]_vars => Quiet'
<1> SUFFICES ASSUME Quiet, [Next]_vars PROVE Quiet'
  OBVIOUS
<1>0. /\ WalkInv /\ TypeInv /\ BoundInv /\ OrderInv /\ CoverInv
      /\ QuietInv /\ CountInv /\ SizeInv /\ LimitInv /\ SortedInv
  BY DEF Quiet, WalkInv
<1>1. WalkInv' /\ QuietInv'
  BY <1>0, NextInv, QuietInvNext
<1>2. CASE Others
  <2>1. changes' = changes + 1 /\ changes \in Nat
    <3>1. MaxChanges \in Nat
      BY FileTreeAssumption
    <3>2. changes \in Nat
      BY <1>0, <3>1 DEF TypeInv, TreeTypeOK
    <3> QED BY <1>2, <3>2 DEF Others, Change
  <2>2. changes' # 0
    BY <2>1
  <2>3. pc' = pc /\ pc # "done"
    BY <1>2 DEF Others, Running, walk
  <2> QED BY <1>1, <2>2, <2>3 DEF Quiet, CountInv, SizeInv, LimitInv, SortedInv
<1>3. CASE \E n \in Names : Step(Entry(n))
  <2>1. PICK n \in Names : Step(Entry(n))
    BY <1>3
  <2>2. CountInv'
    <3>1. CASE changes = 0
      BY <1>0, <2>1, <3>1, EntryCounted
    <3>2. CASE changes # 0
      BY <1>0, <2>1, <3>2, StepKeeps DEF CountInv
    <3> QED BY <3>1, <3>2
  <2>3. SizeInv' /\ LimitInv'
    BY <1>0, <2>1, SizeEntry, LimitEntry
  <2>4. pc' # "done"
    BY <1>0, <2>1, EntryCases DEF Stops, PassesOver, AddsDirectory, AddsFile
  <2> QED BY <1>1, <2>2, <2>3, <2>4 DEF Quiet, SortedInv
<1>4. CASE Step(NextDirectory) \/ Step(Lstat) \/ Step(OpenDirectory) \/ Step(ReadDirectory)
           \/ Step(CloseDirectory) \/ Step(Fail)
  <2>1. CountInv'
    BY <1>0, <1>4, CountWay, CountClose
  <2>2. /\ UNCHANGED <<rootAt, entry, kind, content, sourceOnly, changes, size, paths>>
        /\ pc' \notin {"limit", "done"} /\ (Going' => Going)
    BY <1>4, StepKeeps
       DEF NextDirectory, Lstat, OpenDirectory, ReadDirectory, CloseDirectory, Fail, Goto, Going
  <2>3. Pieces(ToSet(paths))' = Pieces(ToSet(paths))
    BY <2>2 DEF Pieces, SizeOf, Named
  <2>4. SizeInv'
    BY <1>0, <2>2, <2>3 DEF SizeInv
  <2> QED BY <1>1, <2>1, <2>2, <2>4 DEF Quiet, LimitInv, SortedInv
<1>5. CASE Step(Finish)
  <2>1. pc' \in {"error", "done"}
    BY <1>5, StepKeeps DEF Finish, Goto
  <2>2. SortedInv'
    BY <1>0, <1>5, SortedFinish
  <2> QED BY <1>1, <2>1, <2>2 DEF Quiet, CountInv, SizeInv, LimitInv, Going
<1>6. CASE UNCHANGED vars
  <2>1. UNCHANGED <<rootAt, entry, kind, content, sourceOnly, changes, pc, pending, rest, count, size, paths>>
    BY <1>6 DEF vars, tree, walk
  <2>2. Walked' = Walked /\ (Exceeded' <=> Exceeded)
    BY <2>1, WalkedKept
  <2>3. Taken' = Taken
    <3>1. \A p : Ahead(p)' <=> Ahead(p)
      BY <2>1 DEF Ahead, Dir
    <3> QED BY <2>2, <3>1 DEF Taken
  <2>4. Pieces(ToSet(paths))' = Pieces(ToSet(paths))
    BY <2>1 DEF Pieces, SizeOf, Named
  <2>5. CountInv' /\ SizeInv'
    BY <1>0, <2>1, <2>3, <2>4 DEF CountInv, SizeInv, Going
  <2>6. LimitInv' /\ SortedInv'
    BY <1>0, <2>1, <2>2 DEF LimitInv, SortedInv
  <2> QED BY <1>1, <2>5, <2>6 DEF Quiet
<1> QED BY <1>2, <1>3, <1>4, <1>5, <1>6 DEF Next

\* In a repository that is left alone a walk fails only by a limit that there really is more
\* than, or by a system call; one that succeeds has found exactly the files that are wanted,
\* in the order of their paths, in whatever order directories list their entries
\* (walkRepositoryFiles, and the sort its callers rely on).
THEOREM WalkIsQuiet == Spec => []QuietWalk
<1>1. Spec => []Quiet
  BY InitQuiet, NextQuiet, PTL DEF Spec
<1>2. Quiet => QuietWalk
  <2> SUFFICES ASSUME Quiet, changes = 0
               PROVE  /\ pc # "error"
                      /\ pc = "done" => /\ ToSet(paths) = {p \in Paths \cup Reach : IsFile(p) /\ Wanted(p)}
                                        /\ \A j, k \in DOMAIN paths : j < k => Before(paths[j], paths[k])
                      /\ pc = "limit" => Exceeded
    BY DEF QuietWalk
  <2>1. /\ TypeInv /\ BoundInv /\ OrderInv /\ CoverInv /\ QuietInv /\ LimitInv /\ SortedInv
        /\ DOMAIN paths = 1 .. Len(paths)
    BY PathFacts DEF Quiet, WalkInv
  <2>2. pc # "error" /\ (pc = "limit" => Exceeded)
    BY <2>1 DEF QuietInv, LimitInv
  <2>3. ASSUME pc = "done" PROVE \A j, k \in DOMAIN paths : j < k => Before(paths[j], paths[k])
    BY <2>1, <2>3 DEF SortedInv
  <2>4. ASSUME NEW k \in 1 .. Len(paths)
        PROVE  paths[k] \in Paths \cup Reach /\ IsFile(paths[k]) /\ Wanted(paths[k])
    <3>1. /\ paths[k] \in Seq(Names) /\ Len(paths[k]) \in Nat /\ Len(paths[k]) - 1 <= MaxDepth
          /\ Wanted(paths[k])
      BY <2>1, PathFacts DEF BoundInv
    <3>2. Len(paths[k]) <= MaxDepth + 2
      BY <3>1, RepositoryWalkAssumption
    <3>3. paths[k] \in Reach
      BY <3>1, <3>2, ReachIs
    <3>4. IsFile(paths[k])
      BY <2>1, <3>1 DEF CoverInv, Steady
    <3> QED BY <3>1, <3>3, <3>4
  <2>5. ASSUME pc = "done", NEW p \in Paths \cup Reach, IsFile(p), Wanted(p) PROVE p \in ToSet(paths)
    <3>1. p \in Seq(Names)
      BY ReachIs DEF Paths
    <3>2. Covered(p) /\ 1 .. Len(pending) = {}
      BY <2>1, <2>5, <3>1 DEF CoverInv, Steady
    <3>3. PICK k \in 1 .. Len(paths) : paths[k] = p
      BY <3>2 DEF Covered
    <3> QED BY <2>1, <3>3 DEF ToSet
  <2>6. ASSUME pc = "done" PROVE ToSet(paths) = {p \in Paths \cup Reach : IsFile(p) /\ Wanted(p)}
    <3>1. ToSet(paths) \subseteq {p \in Paths \cup Reach : IsFile(p) /\ Wanted(p)}
      BY <2>1, <2>4 DEF ToSet
    <3> QED BY <2>5, <2>6, <3>1
  <2> QED BY <2>2, <2>3, <2>6
<1> QED BY <1>1, <1>2, PTL

=============================================================================
