----------------------------- MODULE LineRanges -----------------------------
(***************************************************************************)
(* The line arithmetic of the navigator: hunk headers to lines, lines to   *)
(* context ranges.  A loop over a list is given by its body, so that a     *)
(* state machine can run it step by step.                                  *)
(* Lines are numbered from one; a range <<start, end>> includes both ends. *)
(***************************************************************************)
EXTENDS Integers, Sequences

Lesser(a, b) == IF a < b THEN a ELSE b
Greater(a, b) == IF a > b THEN a ELSE b

Lines(range) == range[1] .. range[2]
Width(range) == range[2] - range[1] + 1

\* The numbers of a range as a list.
IntegerRange(start, end) == [i \in 1 .. (end - start + 1) |-> start + i - 1]

\* Mutant: a hunk that starts behind the end of the source is not pulled back.
HunkRangeUnclamped(start, count, maximum) ==
    LET first == Greater(1, start)
    IN  IF count = 0 THEN <<first, first>> ELSE <<first, first + count - 1>>
\* Mutant: a deletion is reported on the line after it.
HunkRangeAfter(start, count, maximum) ==
    LET first == Lesser(Greater(1, start), maximum)
    IN  IF count = 0 THEN <<Lesser(start + 1, maximum), Lesser(start + 1, maximum)>>
        ELSE <<first, IF count - 1 > maximum - first THEN maximum ELSE first + count - 1>>
\* The source lines a hunk "+start,count" names, within a source of maximum lines.
\* A deletion is reported on the line before it.
HunkRange(start, count, maximum) ==
    LET first == Lesser(Greater(1, start), maximum)
    IN  IF count = 0 THEN <<first, first>>
        ELSE <<first, IF count - 1 > maximum - first THEN maximum ELSE first + count - 1>>

\* Mutant: too little room above a line is not noticed.
ContextRangeUnguarded(total, line, context) ==
    <<line - context, IF context < total - line THEN line + context ELSE total>>
\* A line and so many around it.
ContextRange(total, line, context) ==
    << IF context < line - 1 THEN line - context ELSE 1,
       IF context < total - line THEN line + context ELSE total >>

\* Mutant: neighbouring ranges are not joined.
MergeRangeTouching(spans, range) ==
    IF spans = <<>> \/ range[1] > spans[Len(spans)][2]
    THEN Append(spans, range)
    ELSE [spans EXCEPT ![Len(spans)] = <<@[1], Greater(@[2], range[2])>>]
\* One round of the merge: a range joins the last span, or begins a new one.
MergeRange(spans, range) ==
    IF spans = <<>> \/ range[1] > spans[Len(spans)][2] + 1
    THEN Append(spans, range)
    ELSE [spans EXCEPT ![Len(spans)] = <<@[1], Greater(@[2], range[2])>>]

\* mergeSpans and mergeContextRanges, for spans that are in order of their starts.
MergedUpTo(list) ==
    LET merged[i \in 0 .. Len(list)] ==
            IF i = 0 THEN <<>> ELSE MergeRange(merged[i - 1], list[i])
    IN  merged[Len(list)]

\* One round of uniqueInts.
Unique(list, value) ==
    IF list # <<>> /\ value = list[Len(list)] THEN list ELSE Append(list, value)
=============================================================================
