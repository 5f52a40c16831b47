--------------------------- MODULE RepositoryWalk ---------------------------
(***************************************************************************)
(* The walk over the directories of a repository, breadth first.  Every    *)
(* directory is opened anew from the verified root, name by name, and must *)
(* still be the one that was seen when its parent was read.                *)
(***************************************************************************)
EXTENDS FileTree, SequencesExt

CONSTANTS
    Sources,       \* names with the extension of a source
    Excluded,      \* names of directories that are left out
    MaxEntries, MaxDepth,          \* limits of every walk
    MaxFileSize, MaxTreeSize,      \* limits of a walk for sources
    Before(_, _)                   \* the order of paths as strings

\* All the paths there can be at one moment, and the ones a walk may come to.
Paths    == UNION {[1 .. k -> Names] : k \in 0 .. Cardinality(Inodes) - 1}
Sortable == UNION {[1 .. k -> Names] : k \in 0 .. MaxDepth + 1}

ASSUME RepositoryWalkAssumption ==
    /\ Sources \subseteq Names /\ Excluded \subseteq Names
    /\ MaxEntries \in Nat \ {0} /\ {MaxDepth, MaxFileSize, MaxTreeSize} \subseteq Nat
    /\ \A p, q \in Sortable : Before(p, q) \in BOOLEAN /\ (p # q => Before(p, q) # Before(q, p))
    /\ \A p, q, r \in Sortable : Before(p, q) /\ Before(q, r) => Before(p, r)

VARIABLES
    sourceOnly,  \* the walk is for sources
    pc,
    pending,   \* the directories seen and not yet read: [inode, path]
    at, depth, before,   \* the one being opened: what is open, names followed, what Lstat saw
    rest,      \* the entries of the open directory that are left
    count,     \* entries seen
    size,      \* bytes of the sources seen
    paths,     \* the files found
    \* History.
    stable     \* the paths within the depth limit that lead where they led at first

walk    == <<sourceOnly, pc, pending, at, depth, before, rest, count, size, paths>>
vars    == <<tree, walk, stable>>

IsFile(path)  == Named(path) # None /\ kind[Named(path)] = "file"
\* Everything a path leads through.
Chain(path)   == [k \in 0 .. Len(path) |-> Named(SubSeq(path, 1, k))]

Observe == stable' = {p \in stable : Chain(p)' = Chain(p)}

Init ==
    /\ TreeInit
    /\ sourceOnly \in BOOLEAN
    /\ pc = "next" /\ pending = <<[inode |-> TheRoot, path |-> <<>>]>>
    /\ at = None /\ depth = 0 /\ before = None /\ rest = {}
    /\ count = 1 /\ size = 0 /\ paths = <<>>
    /\ stable = {p \in Paths : Len(p) <= MaxDepth + 1}

Running == pc \notin {"done", "error", "limit", "failed"}

Others == Running /\ Change({at}) /\ UNCHANGED walk /\ Observe

Goto(label)  == pc' = label
Step(action) == Running /\ action /\ UNCHANGED <<tree, sourceOnly>> /\ Observe

Directory == Head(pending).path

\* Mutant: off by one, the first name is taken to have been followed.
FromRootByOne == at' = rootAt /\ depth' = 1
FromRoot == at' = rootAt /\ depth' = 0

\* openVerifiedRoot for the next directory.
NextDirectory ==
    /\ pc = "next" /\ pending # <<>>
    /\ IF rootAt # TheRoot THEN Goto("error") /\ UNCHANGED <<at, depth>>
       ELSE Goto("descend") /\ FromRoot
    /\ UNCHANGED <<pending, before, rest, count, size, paths>>

Lstat ==
    /\ pc = "descend" /\ depth < Len(Directory)
    /\ before' = entry[at][Directory[depth + 1]]
    /\ IF before' # None /\ kind[before'] = "dir" THEN Goto("open") ELSE Goto("error")
    /\ UNCHANGED <<pending, at, depth, rest, count, size, paths>>

OpenDirectory ==
    /\ pc = "open"
    /\ \/ \E i \in Opening(at, Directory[depth + 1]) :
             /\ kind[i] = "dir" /\ i = before
             /\ Goto("descend") /\ at' = i /\ depth' = depth + 1
       \/ /\ \/ Opening(at, Directory[depth + 1]) = {}
             \/ \E i \in Opening(at, Directory[depth + 1]) : kind[i] # "dir" \/ i # before
          /\ Goto("error") /\ UNCHANGED <<at, depth>>
    /\ UNCHANGED <<pending, before, rest, count, size, paths>>

\* The directory is the one that was seen, and is read in one go.
ReadDirectory ==
    /\ pc = "descend" /\ depth = Len(Directory)
    /\ IF at # Head(pending).inode THEN Goto("error") /\ UNCHANGED rest
       ELSE Goto("entries") /\ rest' = {n \in Names : entry[at][n] # None}
    /\ UNCHANGED <<pending, at, depth, before, count, size, paths>>

TooLarge(bytes) == bytes > MaxFileSize \/ size > MaxTreeSize - bytes

Found(n) == sourceOnly => n \in Sources

Enters(n) == n \notin Excluded

TooMany(entries) == entries > MaxEntries

\* Mutant: a limit ends the walk with what there is.
LimitQuietly == Goto("done")
Limit == Goto("limit")

\* One entry: links and what is neither directory nor file are passed over.
Entry(n) ==
    LET i    == entry[at][n]
        path == Append(Directory, n) IN
    /\ pc = "entries" /\ n \in rest
    /\ rest' = rest \ {n} /\ count' = count + 1
    /\ \/ /\ TooMany(count')
          /\ Limit /\ UNCHANGED <<pending, size, paths>>
       \/ /\ ~TooMany(count') /\ i = None
          /\ Goto("error") /\ UNCHANGED <<pending, size, paths>>
       \/ /\ ~TooMany(count') /\ i # None /\ kind[i] = "link"
          /\ UNCHANGED <<pc, pending, size, paths>>
       \/ /\ ~TooMany(count') /\ i # None /\ kind[i] # "link" /\ Len(path) - 1 > MaxDepth
          /\ Limit /\ UNCHANGED <<pending, size, paths>>
       \/ /\ ~TooMany(count') /\ i # None /\ kind[i] = "dir" /\ Len(path) - 1 <= MaxDepth
          /\ pending' = IF Enters(n) THEN Append(pending, [inode |-> i, path |-> path]) ELSE pending
          /\ UNCHANGED <<pc, size, paths>>
       \/ /\ ~TooMany(count') /\ i # None /\ kind[i] = "file" /\ Len(path) - 1 <= MaxDepth
          /\ IF ~Found(n) THEN UNCHANGED <<pc, size, paths>>
             ELSE IF sourceOnly /\ TooLarge(Len(content[i])) THEN Limit /\ UNCHANGED <<size, paths>>
             ELSE /\ paths' = Append(paths, path)
                  /\ size' = IF sourceOnly THEN size + Len(content[i]) ELSE size
                  /\ UNCHANGED pc
          /\ UNCHANGED pending
    /\ UNCHANGED <<at, depth, before>>

CloseDirectory ==
    /\ pc = "entries" /\ rest = {}
    /\ Goto("next") /\ pending' = Tail(pending) /\ at' = None
    /\ UNCHANGED <<depth, before, rest, count, size, paths>>

\* Mutant: the paths are left as they were found.
SortedAsFound(files) == files
Sorted(files) ==
    LET order == CHOOSE f \in Bijection(DOMAIN files, DOMAIN files) :
                     \A j, k \in DOMAIN files : j < k => ~Before(files[f[k]], files[f[j]])
    IN  [k \in DOMAIN files |-> files[order[k]]]

\* The root is verified once more.
Finish ==
    /\ pc = "next" /\ pending = <<>>
    /\ IF rootAt # TheRoot THEN Goto("error") /\ UNCHANGED paths
       ELSE Goto("done") /\ paths' = Sorted(paths)
    /\ UNCHANGED <<pending, at, depth, before, rest, count, size>>

\* A system call fails or the context is cancelled.
Fail ==
    /\ Goto("failed")
    /\ UNCHANGED <<pending, at, depth, before, rest, count, size, paths>>

Next ==
    \/ Others
    \/ Step(NextDirectory) \/ Step(Lstat) \/ Step(OpenDirectory) \/ Step(ReadDirectory)
    \/ \E n \in Names : Step(Entry(n))
    \/ Step(CloseDirectory) \/ Step(Finish) \/ Step(Fail)

Spec == Init /\ [][Next]_vars

-----------------------------------------------------------------------------
(* Properties.                                                             *)

\* Everything is in its type; what is open is the directory on the way.
TypeOK ==
    /\ TreeTypeOK
    /\ pc \in {"next", "descend", "open", "entries", "done", "error", "limit", "failed"}
    /\ \A k \in DOMAIN pending : pending[k].inode \in Inodes /\ pending[k].path \in Seq(Names)
    /\ at \in Inodes \cup {None} /\ before \in Inodes \cup {None}
    /\ pc \in {"descend", "open", "entries"} => at # None /\ depth \in 0 .. Len(Directory)
    /\ rest \subseteq Names
    /\ \A k \in DOMAIN paths : paths[k] \in Seq(Names)

Wanted(path) ==
    /\ path # <<>> /\ (sourceOnly => Last(path) \in Sources)
    /\ \A k \in 1 .. Len(path) - 1 : path[k] \notin Excluded

\* No walk takes more entries, and no walk for sources more bytes, than its limits.
WalkBounded ==
    /\ Len(paths) + Len(pending) <= MaxEntries
    /\ sourceOnly => size <= MaxTreeSize
    /\ \A k \in DOMAIN paths : Len(paths[k]) - 1 <= MaxDepth

\* A walk finds nothing twice, nothing that is not wanted and no more than its limits.  If
\* it succeeds it has found every file that was there all the time, however directories
\* are moved, replaced or added around it, and no link among what was.
WalkExact ==
    /\ WalkBounded
    /\ \A j, k \in DOMAIN paths : j # k => paths[j] # paths[k]
    /\ \A k \in DOMAIN paths : Wanted(paths[k])
    /\ pc = "done" =>
          /\ {p \in stable : IsFile(p) /\ Wanted(p)} \subseteq ToSet(paths)
          /\ \A p \in ToSet(paths) \cap stable : IsFile(p)

\* What a walk comes to in a repository that is left alone, and where that is more than a
\* limit allows.
Reach    == UNION {[1 .. k -> Names] : k \in 0 .. MaxDepth + 2}
Walked   == {p \in Reach : /\ p # <<>> /\ Named(p) # None
                           /\ \A k \in 1 .. Len(p) - 1 : p[k] \notin Excluded}
WalkedSources == {p \in Walked : IsFile(p) /\ Last(p) \in Sources}
SizeOf(p)     == Len(content[Named(p)])
Pieces(files) == {piece \in files \X (1 .. MaxSize) : piece[2] <= SizeOf(piece[1])}
Exceeded ==
    \/ Cardinality(Walked) + 1 > MaxEntries
    \/ \E p \in Walked : Len(p) - 1 > MaxDepth
    \/ /\ sourceOnly
       /\ \/ \E p \in WalkedSources : SizeOf(p) > MaxFileSize
          \/ Cardinality(Pieces(WalkedSources)) > MaxTreeSize

\* In a repository that is left alone the walk is not refused, except when there really
\* is more than a limit allows, and what it finds and in which order does not depend on
\* the order in which directories list their entries.
QuietWalk ==
    changes = 0 =>
        /\ pc # "error"
        /\ pc = "done" => /\ ToSet(paths) = {p \in Paths \cup Reach : IsFile(p) /\ Wanted(p)}
                          /\ \A j, k \in DOMAIN paths : j < k => Before(paths[j], paths[k])
        /\ pc = "limit" => Exceeded
=============================================================================
