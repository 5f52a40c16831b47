---------------------------- MODULE ChangedRanges ----------------------------
(***************************************************************************)
(* The changed ranges of one source file: the hunk headers of "git diff    *)
(* --unified=0" are turned into line numbers (changedLines), and the line  *)
(* numbers into ranges (mergeContextRanges).                               *)
(*                                                                         *)
(* The source has been read before git compares the file, so the file may  *)
(* by then have another length than the source: git's hunks are about      *)
(* `current' lines, the ranges must be about `total'.                      *)
(***************************************************************************)
EXTENDS LineRanges, TLC

CONSTANTS
    MaxLine,      \* bound: lines of a file
    MaxExpanded,  \* maximumExpandedChangedLines
    Contexts      \* bound: lines of context asked for

ASSUME ChangedRangesAssumption ==
    MaxLine \in Nat /\ MaxExpanded \in Nat /\ Contexts \subseteq Nat

VARIABLES
    total,    \* lines of the source that was read
    context,  \* Options.Context
    current,  \* lines of the file when git compares it
    hunks,    \* what git has written: <<start, count>> of every hunk
    edge,     \* the last line of the new file that the hunks account for
    lines,    \* the numbers collected from the headers, then sorted
    unique,   \* ... and without duplicates
    spans,    \* the merged ranges
    next,     \* index of the loop that runs
    pc

git  == <<current, hunks, edge>>
vars == <<total, context, git, lines, unique, spans, next, pc>>

Init ==
    /\ total \in 1 .. MaxLine /\ current \in 0 .. MaxLine
    /\ context \in Contexts
    /\ hunks = <<>> /\ edge = -1
    /\ lines = <<>> /\ unique = <<>> /\ spans = <<>> /\ next = 1 /\ pc = "read"

\* Git writes hunks in order, and at least one unchanged line lies between two.
Follows(start, count) ==
    IF count = 0 THEN start > edge
    ELSE start - 1 > edge /\ start + count - 1 <= current

ExceedsLimit(range) == Width(range) > MaxExpanded - Len(lines)

\* A header is read; more numbers than the limit are an error.
ReadHunk(start, count) ==
    LET range == HunkRange(start, count, total) IN
    /\ pc = "read" /\ Follows(start, count)
    /\ hunks' = Append(hunks, <<start, count>>)
    /\ edge' = IF count = 0 THEN start ELSE start + count - 1
    /\ \/ /\ ExceedsLimit(range)
          /\ pc' = "error" /\ UNCHANGED lines
       \/ /\ ~ExceedsLimit(range)
          /\ lines' = lines \o IntegerRange(range[1], range[2])
          /\ UNCHANGED pc
    /\ UNCHANGED <<total, context, current, unique, spans, next>>

GitFails ==
    /\ pc = "read" /\ pc' = "error"
    /\ UNCHANGED <<total, context, git, lines, unique, spans, next>>

InOrder(s) == \A i, j \in DOMAIN s : i <= j => s[i] <= s[j]

\* sort.Ints.
Sorted(s) == IF InOrder(s) THEN s ELSE SortSeq(s, LAMBDA a, b : a < b)

EndOfOutput ==
    /\ pc = "read" /\ pc' = "unique"
    /\ lines' = Sorted(lines)
    /\ UNCHANGED <<total, context, git, unique, spans, next>>

\* Without a base, a file in which git finds no change may be untracked, or there may
\* be no commit to compare with: then every line counts.
EveryLine ==
    /\ pc = "read" /\ hunks = <<>>
    /\ \/ total > MaxExpanded /\ pc' = "error" /\ UNCHANGED lines
       \/ total <= MaxExpanded /\ pc' = "unique" /\ lines' = IntegerRange(1, total)
    /\ UNCHANGED <<total, context, git, unique, spans, next>>

UniqueRound ==
    /\ pc = "unique" /\ next <= Len(lines)
    /\ unique' = Unique(unique, lines[next])
    /\ next' = next + 1
    /\ UNCHANGED <<total, context, git, lines, spans, pc>>

UniqueEnd ==
    /\ pc = "unique" /\ next > Len(lines)
    /\ pc' = "merge" /\ next' = 1
    /\ UNCHANGED <<total, context, git, lines, unique, spans>>

MergeRound ==
    /\ pc = "merge" /\ next <= Len(unique)
    /\ spans' = MergeRange(spans, ContextRange(total, unique[next], context))
    /\ next' = next + 1
    /\ UNCHANGED <<total, context, git, lines, unique, pc>>

MergeEnd ==
    /\ pc = "merge" /\ next > Len(unique)
    /\ pc' = "done"
    /\ UNCHANGED <<total, context, git, lines, unique, spans, next>>

Next ==
    \/ \E start, count \in 0 .. current : ReadHunk(start, count)
    \/ GitFails \/ EndOfOutput \/ EveryLine
    \/ UniqueRound \/ UniqueEnd \/ MergeRound \/ MergeEnd

Spec == Init /\ [][Next]_vars

-----------------------------------------------------------------------------
(* ParseChangedSpans of gitdiffcontract: the strict reading of the same    *)
(* hunks.  It knows no source and fails where the streaming reader clamps. *)

ContractSpan(hunk) ==
    LET count == IF hunk[2] = 0 THEN 1 ELSE hunk[2]
        start == IF hunk[2] = 0 /\ hunk[1] = 0 THEN 1 ELSE hunk[1]
    IN  <<start, start + count - 1>>

ContractSpans == MergedUpTo([i \in DOMAIN hunks |-> ContractSpan(hunks[i])])

-----------------------------------------------------------------------------
(* Properties.                                                             *)

Numbers(s) == {s[i] : i \in DOMAIN s}
Strict(s)  == \A i, j \in DOMAIN s : i < j => s[i] < s[j]
InSpans    == UNION {Lines(spans[k]) : k \in DOMAIN spans}

TypeOK ==
    /\ total \in 1 .. MaxLine /\ context \in Contexts
    /\ current \in 0 .. MaxLine /\ edge \in -1 .. MaxLine
    /\ hunks \in Seq(Nat \X Nat)
    /\ lines \in Seq(Nat) /\ unique \in Seq(Nat) /\ spans \in Seq(Nat \X Nat)
    /\ next \in Nat
    /\ pc \in {"read", "unique", "merge", "done", "error"}

\* Whatever has become of the file since it was read, a number that is collected is
\* the number of a line of the source: it is used as an index into it.
LinesInsideSource == Numbers(lines) \subseteq 1 .. total

\* No more numbers are collected than the limit.
ExpansionBounded == Len(lines) <= MaxExpanded

\* The numbers reported are the ones collected, each once, in order.
ReportedOnce ==
    pc \in {"merge", "done"} => Numbers(unique) = Numbers(lines) /\ Strict(unique)

\* The ranges are inside the source, in order, and apart: there is at least one line
\* between two of them.
SpansApart ==
    /\ \A k \in DOMAIN spans : 1 <= spans[k][1] /\ spans[k][1] <= spans[k][2] /\ spans[k][2] <= total
    /\ \A k \in DOMAIN spans : k + 1 \in DOMAIN spans => spans[k][2] + 1 < spans[k + 1][1]

\* The ranges hold exactly the lines that are near a collected one.
SpansCover ==
    pc = "done" =>
        InSpans = {n \in 1 .. total : \E c \in Numbers(lines) : n - c <= context /\ c - n <= context}

\* Reference: whatever the hunks and the context, the ranges are the one list of separate
\* ranges, in order, that holds the lines near a collected one and no other.
SpansExact == SpansApart /\ SpansCover

\* If the file has the length of the source, both readings of the hunks agree, and each
\* added line is reported.
ReadersAgree ==
    pc = "done" /\ current = total /\ hunks # <<>> =>
        /\ context = 0 => spans = ContractSpans
        /\ Numbers(unique) = UNION {Lines(ContractSpan(hunks[k])) : k \in DOMAIN hunks}
=============================================================================
