------------------------------- MODULE FindScan -------------------------------
(***************************************************************************)
(* FindMany: the sources are walked and read one after the other, every    *)
(* query is looked up in each of them, and the queries for which there is  *)
(* no symbol may be looked up again as paths.                              *)
(*                                                                         *)
(* Meanwhile other processes write, create and remove files or replace the *)
(* root, and the request may be cancelled.  A walk and a read are given by *)
(* what RepositoryWalk and SourceRead show of them: a walk sees each file  *)
(* at a moment of its own, a read gives what the file held when it was     *)
(* opened if it still is that file, unwritten, at the end.                 *)
(*                                                                         *)
(* A source is a sequence of lines, a line the set of what a language      *)
(* backend finds in it: <<query, kind>>.                                   *)
(***************************************************************************)
EXTENDS Integers, Sequences, FiniteSets, SequencesExt

IsASeq(list) == Len(list) \in Nat /\ DOMAIN list = 1 .. Len(list)

CONSTANTS
    Files,       \* names, numbers that sort as the names do
    Sources,     \* the files whose extension is that of a language
    Contents,    \* bound: what each file may hold
    Absent,
    Scopes(_),   \* the scopes a language backend finds in a source, pairs of lines
    Rank(_, _),  \* how well a query matches a path, NoMatch if not at all
    NoMatch,
    QueryLists,  \* bound: the queries of a request
    Requests,    \* bound: its options
    MaxChanges   \* bound: changes by other processes

ASSUME FindScanAssumption ==
    /\ Files \subseteq Nat /\ IsFiniteSet(Files) /\ Sources \subseteq Files /\ MaxChanges \in Nat
    /\ \A f \in Files : \A c \in Contents[f] : c = Absent \/ IsASeq(c)
    /\ \A list \in QueryLists : IsASeq(list) /\ Len(list) > 0
    /\ \A list \in QueryLists : \A i \in DOMAIN list : \A f \in Files : Rank(list[i], f) \in Nat
    /\ \A o \in Requests :
          o.limit \in Nat /\ o.changedOnly \in BOOLEAN /\ o.match \in {"symbol", "path", "auto"}

VARIABLES
    content, version,  \* of every file; each change makes a new version
    dirty,             \* the files that git calls changed
    sameRoot,          \* the root is the directory the view was made for
    changes, cancelled,
    queries, opts,     \* the request; opts as in Requests
    looking,           \* of the walk: "source" or "all", and the files it has yet to see
    listed,            \* the files it has found
    changed,           \* the changed files, if only they are wanted
    todo,              \* the sources left
    opened,            \* of the next of them, the version that was opened
    source,            \* ... and its lines
    turn,              \* index of the query in the loop over the queries
    symbols, paths,    \* the candidates of every query
    answers,           \* the responses
    pc,
    held,              \* history: what each file has held
    unread             \* history: the files that could not be read

others   == <<content, version, dirty, sameRoot, changes, held>>
inputs   == <<queries, opts>>
findVars == <<others, cancelled, inputs, looking, listed, changed, todo, opened, source, turn,
              symbols, paths, answers, pc, unread>>

Repository ==
    {t \in [Files -> UNION {Contents[f] : f \in Files}] : \A f \in Files : t[f] \in Contents[f]}

Running == pc \notin {"done", "error", "failed"}

FindInit ==
    /\ content \in Repository /\ version = [f \in Files |-> 0]
    /\ queries \in QueryLists /\ opts \in Requests
    /\ dirty \in IF opts.changedOnly THEN SUBSET Sources ELSE {{}}
    /\ sameRoot = TRUE /\ changes = 0 /\ cancelled = FALSE
    /\ looking = [for |-> "none", left |-> {}] /\ listed = {} /\ changed = {}
    /\ todo = {} /\ opened = 0 /\ source = <<>> /\ turn = 1
    /\ symbols = [i \in DOMAIN queries |-> <<>>] /\ paths = symbols
    /\ answers = <<>> /\ pc = "start"
    /\ held = [f \in Files |-> {content[f]}] /\ unread = {}

-----------------------------------------------------------------------------
(* Other processes, and the caller.                                        *)

Change ==
    /\ Running /\ changes < MaxChanges /\ changes' = changes + 1
    /\ \/ \E f \in Files : \E c \in Contents[f] :
             /\ content' = [content EXCEPT ![f] = c]
             /\ version' = [version EXCEPT ![f] = @ + 1]
             /\ dirty' = dirty \cup {f}
             /\ held' = [held EXCEPT ![f] = @ \cup {c}]
             /\ UNCHANGED sameRoot
       \/ sameRoot' = ~sameRoot /\ UNCHANGED <<content, version, dirty, held>>
    /\ UNCHANGED <<cancelled, inputs, looking, listed, changed, todo, opened, source, turn,
                   symbols, paths, answers, pc, unread>>

Cancel ==
    /\ Running /\ ~cancelled /\ cancelled' = TRUE
    /\ UNCHANGED <<others, inputs, looking, listed, changed, todo, opened, source, turn,
                   symbols, paths, answers, pc, unread>>

-----------------------------------------------------------------------------
(* The walks.                                                              *)

Goto(label) == pc' = label

\* What a step of the request leaves alone.
Request == Running /\ UNCHANGED <<others, cancelled, inputs>>

\* No step is taken for a request that is cancelled, at the points where the code looks.
Checked(action) ==
    \/ cancelled /\ Goto("error") /\ UNCHANGED <<looking, listed, changed, todo, opened, source,
                                                 turn, symbols, paths, answers, unread>>
    \/ ~cancelled /\ action

Walk(what, label) ==
    /\ looking' = [for |-> what, left |-> Files] /\ listed' = {}
    /\ Goto(label)

Start ==
    /\ Request /\ pc = "start"
    /\ Checked(/\ IF opts.match = "path" THEN Goto("choose") /\ UNCHANGED <<looking, listed>>
                  ELSE Walk("source", "walk")
               /\ UNCHANGED <<changed, todo, opened, source, turn, symbols, paths, answers, unread>>)

\* The walk comes to a file, each in a directory of its own.
Look(f) ==
    /\ Request /\ pc = "walk" /\ f \in looking.left
    /\ Checked(/\ looking' = [looking EXCEPT !.left = @ \ {f}]
               /\ IF ~sameRoot THEN Goto("error") /\ UNCHANGED listed
                  ELSE /\ listed' = listed \cup
                             {g \in {f} : content[g] # Absent /\ (looking.for = "source" => g \in Sources)}
                       /\ UNCHANGED pc
               /\ UNCHANGED <<changed, todo, opened, source, turn, symbols, paths, answers, unread>>)

\* prioritizeExactFile: the walk is in the order of names, but for one.
Sooner(f, g) == g # opts.preferred /\ (f = opts.preferred \/ f < g)

\* The root is verified once more; then git is asked what has changed.
WalkEnd ==
    /\ Request /\ pc = "walk" /\ looking.left = {}
    /\ Goto(IF ~sameRoot THEN "error" ELSE IF opts.changedOnly THEN "changed"
            ELSE IF looking.for = "source" THEN "next" ELSE "paths")
    /\ todo' = IF looking.for = "source" THEN listed ELSE todo
    /\ UNCHANGED <<looking, listed, changed, opened, source, turn, symbols, paths, answers, unread>>

ChangedFileSet ==
    /\ Request /\ pc = "changed"
    /\ Checked(/\ changed' = dirty
               /\ Goto(IF ~sameRoot THEN "error" ELSE IF looking.for = "source" THEN "next" ELSE "paths")
               /\ UNCHANGED <<looking, listed, todo, opened, source, turn, symbols, paths, answers,
                              unread>>)

Wanted(f) == opts.changedOnly => f \in changed

\* A walk is refused (a limit, a system call, git), and the request with it.
Fail ==
    /\ Request /\ pc \in {"walk", "changed"} /\ Goto("failed")
    /\ UNCHANGED <<looking, listed, changed, todo, opened, source, turn, symbols, paths, answers,
                   unread>>

-----------------------------------------------------------------------------
(* The sources.                                                            *)

NextSource == CHOOSE f \in todo : \A g \in todo \ {f} : Sooner(f, g)

Skip(f) == todo' = todo \ {f} /\ Goto("next")

\* The next source is passed over, or opened.
OpenSource ==
    /\ Request /\ pc = "next" /\ todo # {}
    /\ Checked(LET f == NextSource IN
               /\ \/ ~Wanted(f) /\ Skip(f) /\ UNCHANGED <<opened, source, unread>>
                  \/ Wanted(f) /\ ~sameRoot /\ Goto("error") /\ UNCHANGED <<todo, opened, source, unread>>
                  \/ Wanted(f) /\ sameRoot /\ content[f] = Absent
                     /\ Skip(f) /\ UNCHANGED <<opened, source, unread>>
                  \/ Wanted(f) /\ sameRoot /\ content[f] # Absent
                     /\ Goto("read") /\ opened' = version[f] /\ source' = content[f]
                     /\ UNCHANGED <<todo, unread>>
                  \/ Wanted(f) /\ Skip(f) /\ unread' = unread \cup {f} /\ UNCHANGED <<opened, source>>
               /\ UNCHANGED <<looking, listed, changed, turn, symbols, paths, answers>>)

\* The file at the path is the one that was opened, and nobody has written to it.
StillThere(f) == version[f] = opened

\* Reading stops at the next line when the request is cancelled, which is an error like
\* any other: the source is passed over.  Only a replaced root ends the request.
ReadSource ==
    /\ Request /\ pc = "read"
    /\ LET f == NextSource
           interrupted == cancelled /\ source # <<>>
       IN  \/ interrupted /\ Skip(f) /\ UNCHANGED <<turn, unread>>
           \/ ~interrupted /\ ~sameRoot /\ Goto("error") /\ UNCHANGED <<todo, turn, unread>>
           \/ ~interrupted /\ sameRoot /\ ~StillThere(f) /\ Skip(f) /\ UNCHANGED <<turn, unread>>
           \/ ~interrupted /\ sameRoot /\ StillThere(f)
              /\ Goto("scan") /\ turn' = 1 /\ UNCHANGED <<todo, unread>>
           \/ ~interrupted /\ Skip(f) /\ unread' = unread \cup {f} /\ UNCHANGED turn
    /\ UNCHANGED <<looking, listed, changed, opened, source, symbols, paths, answers>>

\* The smallest scope around a line that the language backend finds in a source, or the line.
\* For a backend that first asks which definition owns the line (navigationScope), Scopes are
\* the definitions, and the suites outside them.
EnclosingScope(lines, line) ==
    LET around == {s \in (1 .. line) \X (line .. Len(lines)) : s \in Scopes(lines)}
    IN  IF around = {} THEN <<line, line>>
        ELSE CHOOSE s \in around : \A t \in around : s[2] - s[1] <= t[2] - t[1]

FindHit(kind, f, lines, line) ==
    LET range == IF opts.return = "scope" THEN EnclosingScope(lines, line) ELSE <<line, line>>
    IN  [kind |-> kind, path |-> f, start |-> range[1], end |-> range[2]]

\* matchKinds: on one line a definition comes before other occurrences.
MatchKinds(query, line) ==
    (IF <<query, "definition">> \in line THEN <<"definition">> ELSE <<>>)
        \o (IF <<query, "reference">> \in line THEN <<"reference">> ELSE <<>>)

\* The hits of a query in a source, line after line.
FindHits(query, f, lines) ==
    FlattenSeq([line \in DOMAIN lines |->
        LET kinds == MatchKinds(query, lines[line])
        IN  [k \in DOMAIN kinds |-> FindHit(kinds[k], f, lines, line)]])

\* Mutant: one file may add any number of candidates.
AddCandidateAnyway(list, hit) == IF Contains(list, hit) THEN list ELSE Append(list, hit)
\* Candidates are kept once each, and no more than one beyond the limit.
AddCandidate(list, hit) ==
    IF (opts.limit > 0 /\ Len(list) > opts.limit) \/ Contains(list, hit)
    THEN list ELSE Append(list, hit)
AddCandidates(list, hits) ==
    LET sofar[i \in 0 .. Len(hits)] ==
            IF i = 0 THEN list ELSE AddCandidate(sofar[i - 1], hits[i])
    IN  sofar[Len(hits)]

Lines(c) == IF c = Absent THEN <<>> ELSE c

\* Mutant: every query reads the source again.
ScannedLinesNow == Lines(content[NextSource])
ScannedLines == source

\* One query in one source.
ScanQuery ==
    /\ Request /\ pc = "scan"
    /\ Checked(/\ symbols' = [symbols EXCEPT ![turn] =
                      AddCandidates(@, FindHits(queries[turn], NextSource, ScannedLines))]
               /\ IF turn < Len(queries) THEN turn' = turn + 1 /\ UNCHANGED <<todo, pc>>
                  ELSE turn' = 1 /\ Skip(NextSource)
               /\ UNCHANGED <<looking, listed, changed, opened, source, paths, answers, unread>>)

SourcesEnd ==
    /\ Request /\ pc = "next" /\ todo = {}
    /\ Goto("choose")
    /\ UNCHANGED <<looking, listed, changed, todo, opened, source, turn, symbols, paths, answers,
                   unread>>

-----------------------------------------------------------------------------
(* The paths, and the answer.                                              *)

\* In auto mode only a query without a symbol is looked up as a path.
AsPath(i) == opts.match = "path" \/ (opts.match = "auto" /\ symbols[i] = <<>>)

PathQueries == {i \in DOMAIN queries : AsPath(i)}

\* Without a query for paths the tree is not walked again.
ChoosePathQueries ==
    /\ Request /\ pc = "choose"
    /\ IF PathQueries = {} THEN Goto("share") /\ UNCHANGED <<looking, listed>>
       ELSE Walk("all", "walk")
    /\ UNCHANGED <<changed, todo, opened, source, turn, symbols, paths, answers, unread>>

FileHit(f) == [kind |-> "file", path |-> f, start |-> 0, end |-> 0]

\* The members of a set in an order.
InOrder(S, Before(_, _)) ==
    [k \in 1 .. Cardinality(S) |-> CHOOSE x \in S : Cardinality({y \in S : Before(y, x)}) = k - 1]

\* The files a query matches, the best match first.
Better(query, f, g) ==
    Rank(query, f) < Rank(query, g) \/ (Rank(query, f) = Rank(query, g) /\ f < g)
PathHits(query, files) ==
    LET ranked == InOrder({f \in files : Rank(query, f) # NoMatch},
                          LAMBDA f, g : Better(query, f, g))
    IN  [k \in DOMAIN ranked |-> FileHit(ranked[k])]

\* The context is looked at before each file: of an empty listing never.
FindPathCandidates ==
    /\ Request /\ pc = "paths"
    /\ \/ cancelled /\ listed # {} /\ Goto("error") /\ UNCHANGED paths
       \/ /\ cancelled => listed = {}
          /\ paths' = [i \in DOMAIN queries |->
                 IF AsPath(i)
                 THEN AddCandidates(<<>>, PathHits(queries[i], {f \in listed : Wanted(f)}))
                 ELSE <<>>]
          /\ Goto("share")
    /\ UNCHANGED <<looking, listed, changed, todo, opened, source, turn, symbols, answers, unread>>

CandidatesOf(i) == IF AsPath(i) THEN paths[i] ELSE symbols[i]
MatchedAs(i)  == IF CandidatesOf(i) = <<>> THEN "none" ELSE IF AsPath(i) THEN "file" ELSE "symbol"

FairResultLimit(left, selectors) ==
    left \div selectors + (IF left % selectors # 0 THEN 1 ELSE 0)

\* Mutant: a response is called truncated when the limit is met.
ResponseAtLimit(i, give) ==
    [as |-> MatchedAs(i), results |-> SubSeq(CandidatesOf(i), 1, give),
     truncated |-> opts.limit > 0 /\ Len(CandidatesOf(i)) >= give]
Response(i, give) ==
    [as |-> MatchedAs(i), results |-> SubSeq(CandidatesOf(i), 1, give),
     truncated |-> Len(CandidatesOf(i)) > give]

\* limitFindResponses: the loop ends early when the limit is used up.
LimitFindResponses ==
    LET Give(i, rest) ==
            IF opts.limit = 0 THEN Len(CandidatesOf(i))
            ELSE LET fair == FairResultLimit(rest, Len(queries) - i + 1)
                 IN  IF fair > Len(CandidatesOf(i)) THEN Len(CandidatesOf(i)) ELSE fair
        round[i \in 0 .. Len(queries)] ==
            IF i = 0 THEN [left |-> opts.limit, list |-> <<>>]
            ELSE LET sofar == round[i - 1]
                     give  == Give(i, sofar.left)
                 IN  IF opts.limit > 0 /\ sofar.left = 0 THEN sofar
                     ELSE [left |-> IF opts.limit > 0 THEN sofar.left - give ELSE 0,
                           list |-> Append(sofar.list, Response(i, give))]
    IN  round[Len(queries)].list

\* The limit is shared, and the root verified for the last time.
Finish ==
    /\ Request /\ pc = "share"
    /\ IF sameRoot THEN answers' = LimitFindResponses /\ Goto("done")
       ELSE UNCHANGED answers /\ Goto("error")
    /\ UNCHANGED <<looking, listed, changed, todo, opened, source, turn, symbols, paths, unread>>

FindNext ==
    \/ Change \/ Cancel
    \/ Start \/ (\E f \in Files : Look(f)) \/ WalkEnd \/ ChangedFileSet \/ Fail
    \/ OpenSource \/ ReadSource \/ ScanQuery \/ SourcesEnd
    \/ ChoosePathQueries \/ FindPathCandidates \/ Finish

FindSpec == FindInit /\ [][FindNext]_findVars

-----------------------------------------------------------------------------
(* Properties.                                                             *)

\* Everything is in its type, and every query has each of its candidates once, and no
\* more than one beyond the limit.
FindTypeOK ==
    /\ content \in Repository /\ version \in [Files -> 0 .. MaxChanges]
    /\ dirty \subseteq Files /\ changed \subseteq Files /\ listed \subseteq Files
    /\ unread \subseteq Sources /\ {sameRoot, cancelled} \subseteq BOOLEAN
    /\ looking.left \subseteq Files /\ looking.for \in {"none", "source", "all"}
    /\ todo \subseteq Sources
    /\ turn \in DOMAIN queries
    /\ pc \in {"start", "walk", "changed", "next", "read", "scan", "choose", "paths", "share",
               "done", "error", "failed"}
    /\ \A i \in DOMAIN queries : \A list \in {symbols[i], paths[i]} :
          IsInjective(list) /\ (opts.limit > 0 => Len(list) <= opts.limit + 1)

\* Without its limit, what a query finds in a file, and in files taken in a given order.
Distinct(list) ==
    FlattenSeq([k \in DOMAIN list |->
                   IF \E j \in 1 .. k - 1 : list[j] = list[k] THEN <<>> ELSE <<list[k]>>])
Found(query, f, c) == Distinct(FindHits(query, f, Lines(c)))

\* A file is as the request found it, and must be answered for.
Untouched(f) == version[f] = 0 /\ f \notin unread /\ ~cancelled
InQuestion(f) == opts.changedOnly => f \in dirty

\* What a response says of a file.
About(list, f) == FlattenSeq([k \in DOMAIN list |-> IF list[k].path = f THEN <<list[k]>> ELSE <<>>])
SymbolsIn(i, f) == IF answers[i].as = "symbol" THEN About(answers[i].results, f) ELSE <<>>

\* What is said of a source is true of one content that it had during the request, and
\* of the same content for every query; of a source left alone, it is true of what it
\* holds and nothing is missing, unless the response is truncated.  A query is answered
\* with paths only if no source left alone has it as a symbol.
SourcesFaithful ==
    opts.match # "path" =>
        \A f \in Sources :
            \E c \in IF Untouched(f) THEN {IF InQuestion(f) THEN content[f] ELSE Absent}
                     ELSE held[f] \cup {Absent} :
                \A i \in DOMAIN answers :
                    /\ IsPrefix(SymbolsIn(i, f), Found(queries[i], f, c))
                    /\ ~answers[i].truncated => SymbolsIn(i, f) = Found(queries[i], f, c)

\* A path that is reported was there during the request, better matches come first, and
\* a file left alone that matches is reported, unless the response is truncated.
PathsFaithful ==
    \A i \in DOMAIN answers :
        /\ answers[i].as = "file" =>
              answers[i].results = PathHits(queries[i], {h.path : h \in ToSet(answers[i].results)})
        /\ \A h \in ToSet(answers[i].results) : held[h.path] # {Absent}
        /\ answers[i].as \in {"file", "none"} /\ opts.match # "symbol" /\ ~answers[i].truncated =>
              \A f \in {g \in Files : Untouched(g) /\ content[g] # Absent /\ InQuestion(g)} :
                  Rank(queries[i], f) # NoMatch => FileHit(f) \in ToSet(answers[i].results)

\* However files change, appear and vanish between the walk and the reads: an answer is
\* true of them, and complete for all that stayed as it was.
FindFaithful == pc = "done" => SourcesFaithful /\ PathsFaithful

\* Reference: what a query finds in a repository that nobody changes.
Whole(i) ==
    LET present == {f \in Files : content[f] # Absent /\ InQuestion(f)}
        order   == InOrder(present \cap Sources, Sooner)
        symbol  == IF opts.match = "path" THEN <<>>
                   ELSE FlattenSeq([k \in DOMAIN order |-> Found(queries[i], order[k], content[order[k]])])
    IN  IF symbol # <<>> \/ opts.match = "symbol"
        THEN [as |-> IF symbol = <<>> THEN "none" ELSE "symbol", list |-> symbol]
        ELSE LET path == PathHits(queries[i], present)
             IN  [as |-> IF path = <<>> THEN "none" ELSE "file", list |-> path]

\* The answer is the reference, cut off at the limit and marked where it was cut.
AnsweredWhole ==
    /\ opts.limit = 0 \/ opts.limit >= Len(queries) => DOMAIN answers = DOMAIN queries
    /\ \A i \in DOMAIN answers :
          LET given == answers[i].results
              whole == Whole(i)
          IN  /\ answers[i].as = whole.as /\ IsPrefix(given, whole.list)
              /\ answers[i].truncated <=> Len(given) < Len(whole.list)
              /\ Len(given) < Len(whole.list) =>
                    opts.limit > 0 /\ Len(given) >= opts.limit \div Len(queries)

\* In a repository that nobody changes, a request that is not cancelled is answered with
\* the reference, in its order, and refused only if the walk is.
QuietFind ==
    changes = 0 /\ unread = {} /\ ~cancelled =>
        /\ pc # "error"
        /\ pc = "done" => AnsweredWhole

\* A request that was cancelled and is answered all the same misses nothing: either it is
\* canceled (navigator.go:63-64, "filesystem walks, source scans, and Git subprocesses are
\* canceled with ctx"; navigator_test.go:13-24) or its answer is whole.
CancelledIsTold == pc = "done" /\ changes = 0 /\ unread = {} => AnsweredWhole
=============================================================================
