--------------------------- MODULE MCChangedQuery ---------------------------
EXTENDS ChangedQuery

CONSTANT Text

\* One file holds any lines, a third one only after a first; the others hold one or none.
LinesOf == {s \in SUBSET Text : 3 \in s => 1 \in s}
MCContents == [f \in Files |-> {Absent} \cup IF f = 1 THEN LinesOf ELSE {{1}}]

\* Of three lines the last two are a scope inside that of all; shorter sources have none.
MCScopes(total) == IF total = 3 THEN {<<1, 3>>, <<2, 3>>} ELSE {}
=============================================================================
