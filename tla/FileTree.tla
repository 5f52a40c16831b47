------------------------------ MODULE FileTree ------------------------------
(***************************************************************************)
(* The file system below the path of a repository, and what other          *)
(* processes may do to it between two system calls of the navigator: every *)
(* system call is one step, and a directory or a file that is held open is *)
(* known by its inode whatever becomes of its name.                        *)
(***************************************************************************)
EXTENDS Integers, Sequences, FiniteSets

CONSTANTS
    Inodes,      \* positive numbers
    Names,       \* names of directory entries
    Values,      \* what a piece of a file may hold
    Beginnings,  \* bound: the directories there may be at first
    MaxSize,     \* bound: pieces of a file
    MaxChanges   \* bound: what other processes do

None    == 0
TheRoot == 1   \* the inode of the repository's root when the view was made

ASSUME FileTreeAssumption ==
    /\ Inodes \subseteq Nat \ {0} /\ TheRoot \in Inodes /\ IsFiniteSet(Names)
    /\ Beginnings \subseteq [Inodes -> [Names -> Inodes \cup {None}]]
    /\ MaxSize \in Nat /\ MaxChanges \in Nat

Contents == UNION {[1 .. n -> Values] : n \in 0 .. MaxSize}

VARIABLES
    rootAt,   \* the inode at the path of the repository
    entry,    \* the directories: what is at a name
    kind,
    content,  \* what the files hold, piece by piece
    time,     \* their modification times; a write moves them on
    changes

tree == <<rootAt, entry, kind, content, time, changes>>

NoEntries == [n \in Names |-> None]

TreeTypeOK ==
    /\ rootAt \in Inodes
    /\ entry \in [Inodes -> [Names -> Inodes \cup {None}]]
    /\ kind \in [Inodes -> {"dir", "file", "link"}]
    /\ content \in [Inodes -> Contents]
    /\ time \in [Inodes -> Nat]
    /\ changes \in 0 .. MaxChanges

Linked == {i \in Inodes : i = rootAt \/ i = TheRoot \/ \E d \in Inodes, n \in Names : entry[d][n] = i}

TreeInit ==
    /\ rootAt = TheRoot /\ changes = 0
    /\ entry \in Beginnings
    /\ kind \in {k \in [Inodes -> {"dir", "file", "link"}] :
                    /\ k[TheRoot] = "dir"
                    /\ \A i \in Inodes : k[i] # "dir" => entry[i] = NoEntries
                    /\ \A i \in Inodes \ Linked : k[i] = "file"}
    /\ content \in {c \in [Inodes -> Contents] : \A i \in Inodes : kind[i] # "file" \/ i \notin Linked => c[i] = <<>>}
    /\ time = [i \in Inodes |-> 0]

\* A path is a list of names.  What it names, if every directory on it is a directory
\* and not a link to one.
Named(path) ==
    LET at[k \in 0 .. Len(path)] ==
            IF k = 0 THEN (IF rootAt = TheRoot THEN TheRoot ELSE None)
            ELSE IF at[k - 1] = None \/ kind[at[k - 1]] # "dir" THEN None
            ELSE entry[at[k - 1]][path[k]]
    IN  at[Len(path)]

\* A link leads to any directory or file there is.  A name that is not there cannot be
\* opened.
Opening(directory, name) ==
    LET i == entry[directory][name]
    IN  IF i = None THEN {} ELSE IF kind[i] = "link" THEN {j \in Linked : kind[j] # "link"} ELSE {i}

-----------------------------------------------------------------------------
(* Other processes.                                                        *)

Below(i) ==
    LET reach[k \in 0 .. Cardinality(Inodes)] ==
            IF k = 0 THEN {i}
            ELSE reach[k - 1] \cup ({entry[d][n] : d \in reach[k - 1], n \in Names} \ {None})
    IN  reach[Cardinality(Inodes)]

\* A name is given to what was at another; a file or a link may be replaced by one.
Rename(d, n, e, m) ==
    LET i == entry[d][n]
        j == entry[e][m] IN
    /\ i # None /\ <<d, n>> # <<e, m>> /\ kind[d] = "dir" /\ kind[e] = "dir" /\ e \in Linked
    /\ kind[i] = "dir" => e \notin Below(i)
    /\ j # None => kind[i] # "dir" /\ kind[j] # "dir"
    /\ entry' = [entry EXCEPT ![d][n] = None, ![e][m] = i]
    /\ UNCHANGED <<rootAt, kind, content, time>>

Unlink(d, n) ==
    /\ kind[d] = "dir" /\ entry[d][n] # None
    /\ kind[entry[d][n]] = "dir" => entry[entry[d][n]] = NoEntries
    /\ entry' = [entry EXCEPT ![d][n] = None]
    /\ UNCHANGED <<rootAt, kind, content, time>>

\* An inode is used again when nothing names it and nobody holds it open.
Create(d, n, i, k, held) ==
    /\ kind[d] = "dir" /\ d \in Linked /\ entry[d][n] = None
    /\ i \notin Linked \cup held /\ entry[i] = NoEntries
    /\ entry' = [entry EXCEPT ![d][n] = i]
    /\ kind' = [kind EXCEPT ![i] = k]
    /\ content' = [content EXCEPT ![i] = <<>>]
    /\ time' = [time EXCEPT ![i] = @ + 1]
    /\ UNCHANGED rootAt

\* One write: a piece is overwritten or added, or the file is cut off.
WriteFile(i, new) ==
    /\ kind[i] = "file" /\ new # content[i]
    /\ \/ new = <<>>
       \/ Len(new) \in {Len(content[i]), Len(content[i]) + 1}
          /\ Cardinality({k \in 1 .. Len(new) : k > Len(content[i]) \/ new[k] # content[i][k]}) = 1
    /\ content' = [content EXCEPT ![i] = new]
    /\ time' = [time EXCEPT ![i] = @ + 1]
    /\ UNCHANGED <<rootAt, entry, kind>>

\* Another directory is put at the path of the repository, or the first one put back.
ReplaceRoot(i) ==
    /\ i # rootAt /\ kind[i] = "dir"
    /\ i = TheRoot \/ ~\E d \in Inodes, n \in Names : entry[d][n] = i
    /\ rootAt' = i
    /\ UNCHANGED <<entry, kind, content, time>>

Change(held) ==
    /\ changes < MaxChanges /\ changes' = changes + 1
    /\ \/ \E d, e \in Inodes, n, m \in Names : Rename(d, n, e, m)
       \/ \E d \in Inodes, n \in Names : Unlink(d, n)
       \/ \E d, i \in Inodes, n \in Names, k \in {"dir", "file", "link"} : Create(d, n, i, k, held)
       \/ \E i \in Inodes, new \in Contents : WriteFile(i, new)
       \/ \E i \in Inodes : ReplaceRoot(i)
=============================================================================
