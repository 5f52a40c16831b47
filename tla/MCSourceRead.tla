---------------------------- MODULE MCSourceRead ----------------------------
(* A root, a directory in it, a file in that, and one more inode.          *)
EXTENDS SourceRead

Directory(d) == [n \in Names |-> IF n \in DOMAIN d THEN d[n] ELSE None]
MCPath == <<"a", "b">>
MCBeginnings ==
    { [i \in Inodes |-> CASE i = 1 -> Directory([a |-> 2])
                         [] i = 2 -> Directory([b |-> 3])
                         [] OTHER -> NoEntries],
      [i \in Inodes |-> CASE i = 1 -> Directory([a |-> 2, b |-> 4])
                         [] i = 2 -> Directory([b |-> 3])
                         [] OTHER -> NoEntries] }
=============================================================================
