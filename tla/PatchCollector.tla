--------------------------- MODULE PatchCollector ---------------------------
(***************************************************************************)
(* The patch of a `changed` response: what several Git commands write,     *)
(* joined by newlines and cut at a number of lines and of bytes.           *)
(*                                                                         *)
(* Each command's output runs through a collector of its own while Git is  *)
(* still writing (boundedPatchCommandOutput), and what it kept runs        *)
(* through a second collector that spans the commands (changedPatch).      *)
(* Newlines are held back until something follows them, since the ones at  *)
(* the end of a command's output are dropped.                              *)
(*                                                                         *)
(* A byte is a newline or not.  Git writes one byte at a time here: the    *)
(* collector treats bytes one by one, so the reads' sizes do not matter.   *)
(***************************************************************************)
EXTENDS Integers, Sequences, SequencesExt

CONSTANTS
    MaxLines,      \* Options.MaxPatchLines
    MaxBytes,      \* maximumPatchBytes
    BlankStart,    \* a command's output may begin with newlines
    MaxUntracked   \* bound: untracked files

ASSUME PatchAssumption ==
    /\ MaxLines \in Nat \ {0} /\ MaxBytes \in Nat \ {0}
    /\ BlankStart \in BOOLEAN /\ MaxUntracked \in Nat

VARIABLES
    pc,       \* "next": between commands
    base,     \* the response compares with a base
    diffs,    \* diff commands still to run
    files,    \* untracked files still to diff, or -1 before they are listed
    inner,    \* the running command's collector
    rest,     \* of a finished command's output, what appendFragment has not seen
    outer,    \* the collector that spans the commands
    result,   \* of the whole: none yet, "complete", "truncated" or "error"
    raw,      \* history: all that the last command wrote
    text,     \* history: the same without the newlines at the end
    before    \* history: the whole patch up to that command

history == <<raw, text, before>>
vars == <<pc, base, diffs, files, inner, rest, outer, result, history>>

Byte      == {"x", "nl"}
Collector == [out : Seq(Byte), lines : Nat, pending : Nat, cut : BOOLEAN]

MinOf(a, b) == IF a <= b THEN a ELSE b
Newlines(n) == [i \in 1 .. n |-> "nl"]

-----------------------------------------------------------------------------
(* The collector.                                                          *)

NewCollector == [out |-> <<>>, lines |-> 0, pending |-> 0, cut |-> FALSE]

Room(c) == MaxBytes - Len(c.out)

\* Newlines that still fit the line limit.
LinesLeft(c) == IF c.out = <<>> THEN MaxLines - 1 ELSE MaxLines - c.lines

LinesWith(c) == IF c.out = <<>> THEN c.pending + 1 ELSE c.lines + c.pending

\* The collector ends with some more bytes, and drops what it held back.
Stop(c, more) ==
    [out |-> c.out \o more, lines |-> c.lines, pending |-> 0, cut |-> TRUE]

CutAtLine(c) == Stop(c, Newlines(MinOf(LinesLeft(c), Room(c))))

CutAtByte(c) ==
    LET newlines == MinOf(c.pending, Room(c))
    IN  Stop(c, Newlines(newlines) \o IF Room(c) > newlines THEN <<"x">> ELSE <<>>)

Keep(c) ==
    [out |-> c.out \o Newlines(c.pending) \o <<"x">>, lines |-> LinesWith(c),
     pending |-> 0, cut |-> FALSE]

\* A run of newlines that could never fit is cut like a line too many.
ConsumeNewline(c) ==
    IF c.pending + 1 > MaxBytes + 1 THEN CutAtLine(c)
    ELSE [c EXCEPT !.pending = @ + 1]

\* Mutant: the newlines held back are not counted as bytes.
ConsumeOtherUncounted(c) ==
    IF LinesWith(c) > MaxLines THEN CutAtLine(c)
    ELSE IF 1 > Room(c) THEN CutAtByte(c)
    ELSE Keep(c)

\* A byte that ends no line: it must fit as a line, and with the newlines held
\* back before it, as bytes.
ConsumeOther(c) ==
    IF LinesWith(c) > MaxLines THEN CutAtLine(c)
    ELSE IF c.pending + 1 > Room(c) THEN CutAtByte(c)
    ELSE Keep(c)

\* consume, one byte.
Consume(c, byte) == IF byte = "nl" THEN ConsumeNewline(c) ELSE ConsumeOther(c)

\* commitPendingNewlines
Commit(c) ==
    [out |-> c.out \o Newlines(MinOf(c.pending, Room(c))), lines |-> c.lines,
     pending |-> 0, cut |-> c.cut]

-----------------------------------------------------------------------------
Init ==
    /\ base \in BOOLEAN
    /\ diffs = IF base THEN 1 ELSE 2
    /\ files = IF base THEN 0 ELSE -1
    /\ pc = "next"
    /\ inner = NewCollector /\ outer = NewCollector
    /\ rest = <<>> /\ raw = <<>> /\ text = <<>> /\ before = <<>>
    /\ result = "none"

Finish(how) == pc' = "done" /\ result' = how

\* The next diff: staged and unstaged, or the one against the base.
RunDiff ==
    /\ pc = "next" /\ diffs > 0
    /\ pc' = "diff" /\ diffs' = diffs - 1
    /\ inner' = NewCollector /\ raw' = <<>> /\ text' = <<>>
    /\ UNCHANGED <<base, files, rest, outer, result, before>>

ListUntracked ==
    /\ pc = "next" /\ diffs = 0 /\ files = -1
    /\ \/ \E n \in 0 .. MaxUntracked : files' = n /\ UNCHANGED <<pc, result>>
       \/ Finish("error") /\ UNCHANGED files
    /\ UNCHANGED <<base, diffs, inner, rest, outer, history>>

\* Mutant: untracked files are diffed before they are listed.
RunUntrackedUnlisted ==
    /\ pc = "next" /\ diffs = 0 /\ files # 0
    /\ files' = files - 1
    /\ pc' = "untracked" /\ inner' = NewCollector /\ raw' = <<>> /\ text' = <<>>
    /\ UNCHANGED <<base, diffs, rest, outer, result, before>>
\* An untracked file is copied and compared with nothing; one that is no longer
\* a regular file is left out, one too large for the copy ends the patch.
RunUntracked ==
    /\ pc = "next" /\ diffs = 0 /\ files > 0
    /\ files' = files - 1
    /\ \/ pc' = "untracked" /\ inner' = NewCollector /\ raw' = <<>> /\ text' = <<>> /\ UNCHANGED result
       \/ UNCHANGED <<pc, inner, raw, text, result>>
       \/ Finish("truncated") /\ UNCHANGED <<inner, raw, text>>
       \/ Finish("error") /\ UNCHANGED <<inner, raw, text>>
    /\ UNCHANGED <<base, diffs, rest, outer, before>>

\* What the outer collector is to consume: a newline goes between fragments.
Fragment(kept) ==
    IF kept = <<>> \/ outer.out = <<>> THEN kept ELSE <<"nl">> \o kept

\* Git writes a byte.  A collector that is full has Git killed.
Write(byte) ==
    /\ pc \in {"diff", "untracked"}
    /\ inner' = Consume(inner, byte)
    /\ byte = "nl" /\ raw = <<>> => BlankStart
    /\ raw' = Append(raw, byte)
    /\ text' = IF byte = "nl" THEN text ELSE raw'
    /\ IF inner'.cut THEN pc' = "append" /\ rest' = Fragment(inner'.out)
       ELSE UNCHANGED <<pc, rest>>
    /\ UNCHANGED <<base, diffs, files, outer, result, before>>

\* Git ends, and a comparison with nothing ends with status one.  Any other
\* failure, and one to read what it writes, fails the response.
Exit ==
    /\ pc \in {"diff", "untracked"}
    /\ \E ok \in BOOLEAN :
          IF ok THEN pc' = "append" /\ rest' = Fragment(inner.out) /\ UNCHANGED result
          ELSE Finish("error") /\ UNCHANGED rest
    /\ UNCHANGED <<base, diffs, files, inner, outer, history>>

\* appendFragment, one byte.
AppendByte ==
    /\ pc = "append" /\ rest # <<>> /\ ~outer.cut
    /\ outer' = Consume(outer, Head(rest))
    /\ rest' = Tail(rest)
    /\ UNCHANGED <<pc, base, diffs, files, inner, result, history>>

\* Fragments are joined by a newline; empty ones leave no trace.
Join(s, t) == IF s = <<>> THEN t ELSE IF t = <<>> THEN s ELSE s \o <<"nl">> \o t

\* Mutant: only the last command's collector decides what is truncated.
AppendEndInner ==
    /\ pc = "append" /\ (rest = <<>> \/ outer.cut)
    /\ outer' = IF inner.cut THEN Commit(outer) ELSE outer
    /\ IF inner.cut THEN Finish("truncated") /\ UNCHANGED before
       ELSE pc' = "next" /\ before' = Join(before, text) /\ UNCHANGED result
    /\ UNCHANGED <<base, diffs, files, inner, rest, raw, text>>
\* Newlines at the end of a fragment that was cut are part of the patch.
AppendEnd ==
    /\ pc = "append" /\ (rest = <<>> \/ outer.cut)
    /\ outer' = IF inner.cut THEN Commit(outer) ELSE outer
    /\ IF inner.cut \/ outer.cut THEN Finish("truncated") /\ UNCHANGED before
       ELSE pc' = "next" /\ before' = Join(before, text) /\ UNCHANGED result
    /\ UNCHANGED <<base, diffs, files, inner, rest, raw, text>>

Complete ==
    /\ pc = "next" /\ diffs = 0 /\ files = 0
    /\ Finish("complete")
    /\ UNCHANGED <<base, diffs, files, inner, rest, outer, history>>

Next ==
    \/ RunDiff \/ ListUntracked \/ RunUntracked
    \/ \E byte \in Byte : Write(byte)
    \/ Exit \/ AppendByte \/ AppendEnd \/ Complete

Spec == Init /\ [][Next]_vars

-----------------------------------------------------------------------------
(* Properties.                                                             *)

TypeOK ==
    /\ pc \in {"next", "diff", "untracked", "append", "done"}
    /\ base \in BOOLEAN
    /\ diffs \in 0 .. 2 /\ files \in -1 .. MaxUntracked
    /\ inner \in Collector /\ outer \in Collector
    /\ rest \in Seq(Byte) /\ raw \in Seq(Byte) /\ text \in Seq(Byte)
    /\ before \in Seq(Byte)
    /\ result \in {"none", "complete", "truncated", "error"}

\* Neither collector ever holds more than the byte limit, in any mix of commands,
\* newlines held back and fragments joined.
BytesBounded == Len(inner.out) <= MaxBytes /\ Len(outer.out) <= MaxBytes

\* A command that writes on and on, even newlines only, is stopped after a number
\* of bytes that depends on the limit alone.
ReadingBounded == Len(raw) <= 2 * MaxBytes + 2

\* What is held of a patch and what is read of a command are bounded by the limit alone:
\* in any mix of commands, newlines held back and fragments joined, no collector grows
\* past the byte limit, and a command that writes without end is stopped.
MemoryBounded == BytesBounded /\ ReadingBounded

LinesIn(s) == 1 + Cardinality({i \in 1 .. Len(s) : s[i] = "nl"})

\* The patch of a response is kept within the line limit, the cap that --max-patch-lines
\* names.
PatchLinesBounded == LinesIn(outer.out) <= MaxLines

\* The patch is exactly the beginning of what the commands wrote, joined: nothing
\* is lost, doubled or moved inside it by holding newlines back in two collectors.
ExactPrefix ==
    result \in {"complete", "truncated"} =>
        IsPrefix(outer.out, Join(before, raw))

\* A patch that is not reported truncated is the whole patch.
CompleteIsWhole == result = "complete" => outer.out = before

\* A patch is reported truncated only when something is missing from it: text of
\* the last command, an untracked file too large, or newlines without end.
TruncatedIsCut ==
    result = "truncated" =>
        \/ outer.out # Join(before, text)
        \/ Len(raw) - Len(text) > MaxBytes + 1
        \/ diffs = 0 /\ ~inner.cut /\ ~outer.cut

\* The patch says what the commands wrote and whether something is missing: its text is
\* their beginning, unflagged only when it is all of it, flagged only when it is not.
PatchFaithful == ExactPrefix /\ CompleteIsWhole /\ TruncatedIsCut
=============================================================================
