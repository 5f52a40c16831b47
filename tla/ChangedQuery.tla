---------------------------- MODULE ChangedQuery ----------------------------
(***************************************************************************)
(* The `changed' command: which files changed since the base or, without   *)
(* one, in the index and the working tree, and which of their lines.       *)
(*                                                                         *)
(* The command runs git once per question and reads the files itself, so   *)
(* commits, staging and edits may come between any two of its steps.  A    *)
(* file is the set of its lines: lines are numbers that keep their order,  *)
(* so two contents have exactly one difference.                            *)
(***************************************************************************)
EXTENDS LineRanges, FiniteSets, FiniteSetsExt

CONSTANTS
    Files,       \* names, numbers that sort as the names do
    Contents,    \* bound: what each file may hold, a set of lines or Absent
    MaxEdits,    \* bound: changes to the repository while the command runs
    Returns,     \* bound: values of Options.Return
    Limits,      \* bound: values of Options.Limit
    Context,     \* Options.Context
    Scopes(_)    \* the scopes a language backend finds in a source of a length, pairs of lines

Absent  == {0}
Content == (UNION {Contents[f] : f \in Files}) \cup {{}, Absent}
Tree    == {t \in [Files -> Content] : \A f \in Files : t[f] \in Contents[f]}
Empty   == [f \in Files |-> Absent]

ASSUME ChangedQueryAssumption ==
    /\ Files \subseteq Nat /\ IsFiniteSet(Files)
    /\ \A f \in Files : \A c \in Contents[f] :
          c = Absent \/ (IsFiniteSet(c) /\ c \subseteq Nat \ {0})
    /\ Returns \subseteq {"line", "locations", "context", "scope"}
    /\ Limits \subseteq Nat /\ MaxEdits \in Nat /\ Context \in Nat

VARIABLES
    commits,  \* the commits there are, a linear history
    HEAD,     \* the commit HEAD names, 0 on an unborn branch
    index, work,
    edits,
    opts,     \* [base, return, limit]
    base, head,  \* the commits resolved by the command, 0 for none
    listed,   \* the changed files
    todo,     \* ... that are left
    source,   \* the content read of the first of them
    results, truncated,
    at,
    unread,   \* history: some file could not be read
    read      \* history: what was read of each file

repository == <<commits, HEAD, index, work, edits>>
query      == <<opts, base, head, listed, todo, source, results, truncated, at>>
queryVars  == <<repository, query, unread, read>>

\* The numbers of a set in order.
Before(content, line) == Cardinality({x \in content : x < line})
Ascending(S) == [k \in 1 .. Cardinality(S) |-> CHOOSE x \in S : Before(S, x) = k - 1]

TreeOf(c) == IF c = 0 THEN Empty ELSE commits[c]

\* A history of two commits is for a query with a base, in a clean working tree.
QueryInit ==
    /\ opts \in [base : BOOLEAN, return : Returns, limit : Limits]
    /\ \/ /\ commits \in {<<>>} \cup {<<t>> : t \in Tree}
          /\ index \in Tree /\ work \in Tree
       \/ /\ opts.base /\ commits \in Tree \X Tree
          /\ index = commits[2] /\ work = index
    /\ HEAD = Len(commits) /\ edits = 0
    /\ base = 0 /\ head = 0 /\ listed = {} /\ todo = {} /\ source = Absent
    /\ results = <<>> /\ truncated = FALSE /\ at = "base" /\ unread = FALSE /\ read = Empty

-----------------------------------------------------------------------------
(* The repository.                                                         *)

Edit ==
    /\ at \notin {"done", "error"} /\ edits < MaxEdits
    /\ edits' = edits + 1
    /\ UNCHANGED <<query, unread, read>>
    /\ \/ \E f \in Files : \E c \in Contents[f] : work' = [work EXCEPT ![f] = c]
          /\ UNCHANGED <<commits, HEAD, index>>
       \/ \E f \in Files : index' = [index EXCEPT ![f] = work[f]]
          /\ UNCHANGED <<commits, HEAD, work>>
       \/ /\ commits' = Append(commits, index) /\ HEAD' = Len(commits) + 1
          /\ UNCHANGED <<index, work>>
       \/ /\ HEAD' \in 0 .. Len(commits)
          /\ UNCHANGED <<commits, index, work>>

\* The hunks of a difference: one for each stretch between two common lines.
Hunks(a, b) ==
    LET old == a \ {0}
        new == b \ {0}
        Stretch(k) == {x \in (old \cup new) \ (old \cap new) : Before(old \cap new, x) = k}
        Hunk(k) ==
            LET added == Stretch(k) \cap new
            IN  IF added # {} THEN <<Before(new, Min(added)) + 1, Cardinality(added)>>
                ELSE <<Before(new, Min(Stretch(k))), 0>>
    IN  {Hunk(k) : k \in {j \in 0 .. Cardinality(old \cap new) : Stretch(j) # {}}}

\* What git sees in the working tree: a file that is not in the index is not there.
Tracked(f)   == IF index[f] = Absent THEN Absent ELSE work[f]
Untracked(f) == index[f] = Absent /\ work[f] # Absent

\* base...head compares with the commit both have in common.
MergeBase == Lesser(base, head)

-----------------------------------------------------------------------------
(* The command.                                                            *)

Goto(label) == at' = label

Fail ==
    /\ at \notin {"done", "error"}
    /\ Goto("error") /\ results' = <<>> /\ truncated' = FALSE
    /\ UNCHANGED <<repository, unread, read, opts, base, head, listed, todo, source>>

ResolveBase ==
    /\ at = "base"
    /\ \/ ~opts.base /\ base' = 0
       \/ opts.base /\ base' \in DOMAIN commits
    /\ Goto("head")
    /\ UNCHANGED <<repository, unread, read, opts, head, listed, todo, source, results, truncated>>

ResolveOptionalHead ==
    /\ at = "head"
    /\ head' = HEAD
    /\ IF base # 0 /\ HEAD = 0 THEN Goto("error")
       ELSE IF base # 0 THEN Goto("compared") ELSE Goto("staged")
    /\ UNCHANGED <<repository, unread, read, opts, base, listed, todo, source, results, truncated>>

\* Mutant: a commit made in between is taken for HEAD.
ComparedAgain == {f \in Files : TreeOf(MergeBase)[f] # TreeOf(HEAD)[f]}
\* The files that differ between two commits.
Compared == {f \in Files : TreeOf(MergeBase)[f] # TreeOf(head)[f]}

Staged    == {f \in Files : TreeOf(IF head = 0 THEN HEAD ELSE head)[f] # index[f]}
Unstaged  == {f \in Files : index[f] # Tracked(f)}

\* changedFiles: one list with a base; without, one of the staged files (against the
\* HEAD of that moment if there was none before), one of those changed since, and one
\* of the untracked ones.
ChangedFiles ==
    \/ /\ at = "compared" /\ listed' = Compared
       /\ Goto("read") /\ todo' = listed'
    \/ /\ at = "staged" /\ listed' = Staged
       /\ Goto("unstaged") /\ UNCHANGED todo
    \/ /\ at = "unstaged" /\ listed' = listed \cup Unstaged
       /\ Goto("untracked") /\ UNCHANGED todo
    \/ /\ at = "untracked" /\ listed' = listed \cup {f \in Files : Untracked(f)}
       /\ Goto("read") /\ todo' = listed'

ListChangedFiles ==
    /\ ChangedFiles
    /\ UNCHANGED <<repository, unread, read, opts, base, head, source, results, truncated>>

FileResult(f) == [kind |-> "file", path |-> f, start |-> 0, end |-> 0, lines |-> <<>>]
ResultForRange(f, range, lines) ==
    [kind |-> "changed", path |-> f, start |-> range[1], end |-> range[2], lines |-> lines]

\* The smallest scope around a line that the language backend finds in a source of this
\* length, or the line. For a backend that first asks which definition owns the line
\* (navigationScope), Scopes are the definitions, and the suites outside them.
EnclosingScope(total, line) ==
    LET around == {s \in (1 .. line) \X (line .. total) : s \in Scopes(total)}
    IN  IF around = {} THEN <<line, line>>
        ELSE CHOOSE s \in around : \A t \in around : s[2] - s[1] <= t[2] - t[1]

MergeContextRanges(total, numbers, context) ==
    MergedUpTo([k \in 1 .. Cardinality(numbers) |->
                   ContextRange(total, Ascending(numbers)[k], context)])

\* The results for a file whose changed lines are known.
ResultsFor(f, total, numbers, return) ==
    IF numbers = {} THEN <<FileResult(f)>>
    ELSE IF return \in {"locations", "context"} THEN
        LET spans == MergeContextRanges(total, numbers, IF return = "context" THEN Context ELSE 0)
        IN  [k \in 1 .. Len(spans) |->
                ResultForRange(f, spans[k], Ascending(numbers \cap Lines(spans[k])))]
    ELSE [k \in 1 .. Cardinality(numbers) |->
            LET n == Ascending(numbers)[k]
            IN  ResultForRange(f, IF return = "scope" THEN EnclosingScope(total, n) ELSE <<n, n>>,
                               <<>>)]

Key(result) == <<result.kind, result.path, result.start, result.end>>
Known(list, result) == \E k \in 1 .. Len(list) : Key(list[k]) = Key(result)
Full(list) == opts.limit > 0 /\ Len(list) > opts.limit

\* Mutant: the limit is looked at when the file is done.
AppendResultUnbounded(list, result) ==
    IF Known(list, result) THEN list ELSE Append(list, result)
\* A result is added unless it is there; one beyond the limit is the last.
AppendResult(list, result) ==
    IF Full(list) \/ Known(list, result) THEN list ELSE Append(list, result)
AppendResults(list, more) ==
    LET sofar[i \in 0 .. Len(more)] ==
            IF i = 0 THEN list ELSE AppendResult(sofar[i - 1], more[i])
    IN  sofar[Len(more)]

Report(f, numbers) ==
    /\ results' = AppendResults(results, ResultsFor(f, Cardinality(source), numbers, opts.return))
    /\ IF Full(results')
       THEN Goto("finish") /\ UNCHANGED todo
       ELSE Goto("read") /\ todo' = todo \ {f}

\* A file that cannot be read, or is empty, is one result.
ReadFile ==
    /\ at = "read" /\ todo # {}
    /\ LET f == Min(todo)
           content == IF base # 0 THEN TreeOf(head)[f] ELSE work[f]
       IN  \/ /\ content \notin {{}, Absent}
              /\ source' = content /\ read' = [read EXCEPT ![f] = content] /\ Goto("diff")
              /\ UNCHANGED <<todo, results, unread>>
           \/ /\ source' = {} /\ UNCHANGED read /\ unread' = (unread \/ content \notin {{}, Absent})
              /\ results' = AppendResults(results, <<FileResult(f)>>)
              /\ IF Full(results')
                 THEN Goto("finish") /\ UNCHANGED todo
                 ELSE Goto("read") /\ todo' = todo \ {f}
    /\ UNCHANGED <<repository, opts, base, head, listed, truncated>>

ChangedNumbers(hunks, total) == UNION {Lines(HunkRange(h[1], h[2], total)) : h \in hunks}

\* Mutant: with a base the working tree is compared.
ComparedContentWork(f) ==
    IF base # 0 THEN <<TreeOf(MergeBase)[f], work[f]>> ELSE <<TreeOf(head)[f], Tracked(f)>>
\* The contents that git compares for the lines of a file.
ComparedContent(f) ==
    IF base # 0 THEN <<TreeOf(MergeBase)[f], TreeOf(head)[f]>> ELSE <<TreeOf(head)[f], Tracked(f)>>

NeedsUntracked(numbers) == base = 0 /\ numbers = {}

\* changedLines.  Without a base, a file in which git sees no change may be untracked;
\* without any commit every line counts.
ChangedLines ==
    /\ at = "diff"
    /\ LET f       == Min(todo)
           numbers == ChangedNumbers(Hunks(ComparedContent(f)[1], ComparedContent(f)[2]),
                                     Cardinality(source))
       IN  IF base = 0 /\ head = 0
           THEN Report(f, 1 .. Cardinality(source))
           ELSE IF NeedsUntracked(numbers)
           THEN Goto("askUntracked") /\ UNCHANGED <<results, todo>>
           ELSE Report(f, numbers)
    /\ UNCHANGED <<repository, unread, read, opts, base, head, listed, source, truncated>>

AskUntracked ==
    /\ at = "askUntracked"
    /\ LET f == Min(todo)
       IN  Report(f, IF Untracked(f) THEN 1 .. Cardinality(source) ELSE {})
    /\ UNCHANGED <<repository, unread, read, opts, base, head, listed, source, truncated>>

Finish ==
    /\ \/ at = "finish"
       \/ at = "read" /\ todo = {}
    /\ Goto("done")
    /\ IF Full(results)
       THEN results' = SubSeq(results, 1, opts.limit) /\ truncated' = TRUE
       ELSE UNCHANGED <<results, truncated>>
    /\ UNCHANGED <<repository, unread, read, opts, base, head, listed, todo, source>>

QueryNext ==
    \/ Edit \/ Fail
    \/ ResolveBase \/ ResolveOptionalHead \/ ListChangedFiles
    \/ ReadFile \/ ChangedLines \/ AskUntracked \/ Finish

QuerySpec == QueryInit /\ [][QueryNext]_queryVars

-----------------------------------------------------------------------------
(* Properties.                                                             *)

\* Everything is in its type, every result is about a listed file, and no more than one
\* result is held beyond the limit.
QueryTypeOK ==
    /\ \A c \in DOMAIN commits : commits[c] \in Tree
    /\ HEAD \in 0 .. Len(commits) /\ index \in Tree /\ work \in Tree /\ read \in [Files -> Content]
    /\ edits \in 0 .. MaxEdits /\ unread \in BOOLEAN /\ truncated \in BOOLEAN
    /\ base \in 0 .. Len(commits) /\ head \in 0 .. Len(commits)
    /\ listed \subseteq Files /\ todo \subseteq listed /\ source \in Content
    /\ at \in {"base", "head", "compared", "staged", "unstaged", "untracked", "read", "diff",
               "askUntracked", "finish", "done", "error"}
    /\ \A k \in 1 .. Len(results) : results[k].path \in listed /\ results[k].kind \in {"file", "changed"}
    /\ opts.limit > 0 => Len(results) <= opts.limit + 1

\* Whatever is edited between reading a file and comparing it, a result is about lines
\* of what was read.  The code of a result is cut out of it by these numbers.
ResultsInsideSource ==
    \A k \in 1 .. Len(results) : results[k].kind = "changed" =>
        LET r == results[k]
        IN  /\ 1 <= r.start /\ r.start <= r.end /\ r.end <= Cardinality(read[r.path])
            /\ \A i \in 1 .. Len(r.lines) : r.start <= r.lines[i] /\ r.lines[i] <= r.end

\* With a base nothing that is done to the repository matters; without one, the answer
\* is about the repository if that is left alone.
Settled == at = "done" /\ ~unread /\ (base # 0 \/ edits = 0)

DiffersFrom(f) ==
    IF base # 0 THEN TreeOf(MergeBase)[f] # TreeOf(head)[f]
    ELSE TreeOf(head)[f] # index[f] \/ index[f] # work[f]

Old(f) == ComparedContent(f)[1] \ {0}
New(f) == (IF base = 0 /\ TreeOf(head)[f] \in {{}, Absent} THEN work[f] ELSE ComparedContent(f)[2]) \ {0}

\* The changed lines of a file are the ones that were added, and one line next to each
\* place where lines were only removed.
Reported(f) ==
    UNION {IF opts.return = "line" THEN {results[k].start}
           ELSE {results[k].lines[i] : i \in 1 .. Len(results[k].lines)} :
              k \in {j \in 1 .. Len(results) : results[j].kind = "changed" /\ results[j].path = f}}
NextToRemoved(n, f) ==
    \E d \in Old(f) \ New(f) : n = Before(New(f), d) \/ (n = 1 /\ Before(New(f), d) = 0)
ChangedLinesExact ==
    Settled /\ ~truncated /\ opts.return # "scope" =>
        \A f \in listed : read[f] # Absent =>
            /\ \A x \in New(f) \ Old(f) : Before(New(f), x) + 1 \in Reported(f)
            /\ \A n \in Reported(f) :
                  \/ \E x \in New(f) \ Old(f) : n = Before(New(f), x) + 1
                  \/ NextToRemoved(n, f)

\* The whole answer: every file that differs and no other, whatever was listed, each with
\* its results, once each; a limit only cuts it off, and it is marked as truncated exactly
\* when something is missing.
Distinct(list) ==
    LET new == {k \in 1 .. Len(list) : \A j \in 1 .. k - 1 : Key(list[j]) # Key(list[k])}
    IN  [k \in 1 .. Cardinality(new) |-> list[Ascending(new)[k]]]
ResultsOf(f) ==
    LET content == IF base # 0 THEN TreeOf(head)[f] ELSE work[f]
    IN  IF content \in {{}, Absent} THEN <<FileResult(f)>>
        ELSE ResultsFor(f, Cardinality(content),
                        ChangedNumbers(Hunks(Old(f), New(f)), Cardinality(content)), opts.return)
Joined(lists) ==
    LET upTo[i \in 0 .. Len(lists)] == IF i = 0 THEN <<>> ELSE upTo[i - 1] \o lists[i]
    IN  upTo[Len(lists)]
Differing   == {f \in Files : DiffersFrom(f)}
WholeAnswer ==
    Joined([i \in 1 .. Cardinality(Differing) |-> Distinct(ResultsOf(Ascending(Differing)[i]))])
AnswerIsPrefix ==
    Settled =>
        /\ truncated <=> opts.limit > 0 /\ Len(WholeAnswer) > opts.limit
        /\ results = IF truncated THEN SubSeq(WholeAnswer, 1, opts.limit) ELSE WholeAnswer
=============================================================================
