----------------------------- MODULE MCFindScan -----------------------------
(* Two sources, the second of which may be preferred, and another file.    *)
EXTENDS FindScan

CONSTANTS q, r

Both == {<<q, "definition">>, <<q, "reference">>}
MCContents == [f \in Files |->
    IF f \notin Sources THEN {Absent, <<>>}
    ELSE { Absent, <<>>, << {<<q, "reference">>} >>, << Both, {<<q, "reference">>} >>,
           << {<<r, "reference">>}, {<<q, "reference">>} >> }]

\* q names the third file and is part of the first's name; r is a part of the second's.
MCRank(query, f) ==
    CASE query = q /\ f = 3 -> 1 [] query = q /\ f = 1 -> 4 [] query = r /\ f = 2 -> 4
      [] OTHER -> NoMatch

\* Two lines are one scope, and where r is in the first the second is a scope of its own.
MCScopes(lines) ==
    IF Len(lines) < 2 THEN {}
    ELSE {<<1, 2>>} \cup IF <<r, "reference">> \in lines[1] THEN {<<2, 2>>} ELSE {}

MCQueryLists == {<<q>>, <<q, r>>}

\* Every limit and match; whether only changed files are wanted, what is returned of a hit
\* and which file is preferred are varied for a part of them.
MCRequests ==
    { o \in [match : {"symbol", "path", "auto"}, limit : {0, 1, 3}, preferred : {0, 2},
             changedOnly : BOOLEAN, return : {"locations", "scope"}] :
        /\ o.changedOnly => o.limit = 0 /\ o.match = "auto"
        /\ o.return = "scope" => o.limit = 3
        /\ o.preferred = 2 => o.limit = 1 /\ o.match = "symbol"
        /\ o.limit = 3 => o.match = "auto" }
=============================================================================
