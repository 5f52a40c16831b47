-------------------------- MODULE MCRepositoryWalk --------------------------
(* A root with a directory in it and files in both, and one more inode.    *)
EXTENDS RepositoryWalk

DirectoryOf(d) == [n \in Names |-> IF n \in DOMAIN d THEN d[n] ELSE None]
\* As strings compare, an entry of a directory comes after its name.
Weight(p) == LET w[k \in 0 .. 3] ==
                     IF k = 0 THEN 0
                     ELSE 4 * w[k - 1] + (IF k > Len(p) THEN 0
                                          ELSE CASE p[k] = "a" -> 1 [] p[k] = "b" -> 2 [] OTHER -> 3)
             IN  w[3]
MCBefore(p, q) == Weight(p) < Weight(q)

MCBeginnings ==
    { [i \in Inodes |-> CASE i = 1 -> DirectoryOf([a |-> 2, b |-> 4])
                         [] i = 2 -> DirectoryOf([b |-> 3])
                         [] OTHER -> NoEntries],
      [i \in Inodes |-> CASE i = 1 -> DirectoryOf([a |-> 2, c |-> 3])
                         [] OTHER -> NoEntries] }
=============================================================================
