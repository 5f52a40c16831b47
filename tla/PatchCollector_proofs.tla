------------------------ MODULE PatchCollector_proofs ------------------------
(***************************************************************************)
(* Type correctness of PatchCollector, its bounds on bytes (neither        *)
(* collector outgrows the limit, and a command is stopped after a number   *)
(* of bytes that depends on the limit alone), and that the patch is the    *)
(* beginning of what the commands wrote, cut only where it says so.        *)
(***************************************************************************)
EXTENDS PatchCollector, SequenceTheorems, TLAPS

\* A collector within its bounds.
Bounded(c) ==
    /\ c \in Collector
    /\ Len(c.out) <= MaxBytes
    /\ c.pending <= MaxBytes + 1

-----------------------------------------------------------------------------
(* Newlines.                                                               *)

\* A run of n newlines is a sequence of bytes of that length, and the empty
\* one when n is not positive.
LEMMA NewlinesLen ==
    ASSUME NEW n \in Int
    PROVE  /\ Newlines(n) \in Seq(Byte)
           /\ Len(Newlines(n)) = IF n <= 0 THEN 0 ELSE n
<1> DEFINE k == IF n <= 0 THEN 0 ELSE n
<1>1. k \in Nat /\ 1 .. n = 1 .. k
  OBVIOUS
<1>2. Newlines(n) = [i \in 1 .. k |-> "nl"]
  BY <1>1 DEF Newlines
<1> HIDE DEF k
<1>3. \A i \in 1 .. k : "nl" \in Byte
  BY DEF Byte
<1>4. /\ [i \in 1 .. k |-> "nl"] \in Seq(Byte)
      /\ Len([i \in 1 .. k |-> "nl"]) = k
  BY <1>1, <1>3, IsASeq
<1> QED
  BY <1>2, <1>4 DEF k

\* The lengths of sequences put together add up.
LEMMA Joined ==
    ASSUME NEW s \in Seq(Byte), NEW t \in Seq(Byte)
    PROVE  /\ s \o t \in Seq(Byte)
           /\ Len(s \o t) = Len(s) + Len(t)
           /\ Len(s) \in Nat /\ Len(t) \in Nat
BY ConcatProperties, LenProperties

\* What it takes for a collector to be within its bounds.
LEMMA BoundedRecord ==
    ASSUME NEW s \in Seq(Byte), NEW l \in Nat, NEW k \in Nat, NEW b \in BOOLEAN,
           Len(s) <= MaxBytes, k <= MaxBytes + 1
    PROVE  Bounded([out |-> s, lines |-> l, pending |-> k, cut |-> b])
<1>1. [out |-> s, lines |-> l, pending |-> k, cut |-> b] \in Collector
  BY Zenon DEF Collector
<1> QED
  BY <1>1 DEF Bounded

\* The fields of a bounded collector.
LEMMA Fields ==
    ASSUME NEW c, Bounded(c)
    PROVE  /\ c = [out |-> c.out, lines |-> c.lines, pending |-> c.pending, cut |-> c.cut]
           /\ c.out \in Seq(Byte) /\ c.lines \in Nat /\ c.pending \in Nat
           /\ c.cut \in BOOLEAN
BY DEF Bounded, Collector

\* The room a bounded collector has left.
LEMMA RoomBounds ==
    ASSUME NEW c, Bounded(c)
    PROVE  Room(c) \in 0 .. MaxBytes /\ Len(c.out) \in 0 .. MaxBytes
<1>1. c.out \in Seq(Byte) /\ Len(c.out) \in Nat
  BY DEF Bounded, Collector
<1> QED
  BY <1>1, PatchAssumption DEF Bounded, Room

-----------------------------------------------------------------------------
(* Each way a collector treats a byte keeps it bounded.                    *)

\* A collector that stops stays bounded when what it adds fits.
LEMMA StopBounded ==
    ASSUME NEW c, Bounded(c), NEW more \in Seq(Byte), Len(more) <= Room(c)
    PROVE  Bounded(Stop(c, more)) /\ Stop(c, more).cut
<1>1. /\ c.out \o more \in Seq(Byte) /\ Len(c.out \o more) = Len(c.out) + Len(more)
      /\ Len(more) \in Nat
  BY Fields, Joined
<1>2. Len(c.out \o more) <= MaxBytes
  BY <1>1, RoomBounds, PatchAssumption DEF Room
<1>3. c.lines \in Nat /\ 0 \in Nat /\ 0 <= MaxBytes + 1
  BY Fields, PatchAssumption
<1>4. Bounded([out |-> c.out \o more, lines |-> c.lines, pending |-> 0, cut |-> TRUE])
  BY <1>1, <1>2, <1>3, BoundedRecord
<1> QED
  BY <1>4 DEF Stop

LEMMA CutAtLineBounded ==
    ASSUME NEW c, Bounded(c)
    PROVE  Bounded(CutAtLine(c)) /\ CutAtLine(c).cut
<1> DEFINE n == MinOf(LinesLeft(c), Room(c))
<1>1. Room(c) \in 0 .. MaxBytes /\ LinesLeft(c) \in Int
  BY RoomBounds, Fields, PatchAssumption DEF LinesLeft
<1>2. n \in Int /\ n <= Room(c)
  BY <1>1, PatchAssumption DEF MinOf
<1>3. CutAtLine(c) = Stop(c, Newlines(n))
  BY DEF CutAtLine
<1> HIDE DEF n
<1>4. Newlines(n) \in Seq(Byte) /\ Len(Newlines(n)) = IF n <= 0 THEN 0 ELSE n
  BY <1>2, NewlinesLen
<1>5. Len(Newlines(n)) <= Room(c)
  BY <1>1, <1>2, <1>4, PatchAssumption
<1> QED
  BY <1>3, <1>4, <1>5, StopBounded

LEMMA CutAtByteBounded ==
    ASSUME NEW c, Bounded(c)
    PROVE  Bounded(CutAtByte(c)) /\ CutAtByte(c).cut
<1> DEFINE n == MinOf(c.pending, Room(c))
           t == IF Room(c) > n THEN <<"x">> ELSE <<>>
<1>1. Room(c) \in 0 .. MaxBytes /\ c.pending \in Nat
  BY RoomBounds, Fields
<1>2. n \in Nat /\ n <= Room(c)
  BY <1>1, PatchAssumption DEF MinOf
<1>3. t \in Seq(Byte) /\ n + Len(t) <= Room(c)
  <2>1. CASE Room(c) > n
    <3>1. t = <<"x">> /\ <<"x">> \in Seq(Byte) /\ Len(<<"x">>) = 1
      BY <2>1 DEF Byte
    <3>2. n + 1 <= Room(c)
      BY <2>1, <1>1, <1>2, PatchAssumption
    <3> QED
      BY <3>1, <3>2
  <2>2. CASE ~(Room(c) > n)
    BY <2>2, <1>1, <1>2, PatchAssumption
  <2> QED
    BY <2>1, <2>2
<1>4. CutAtByte(c) = Stop(c, Newlines(n) \o t)
  BY DEF CutAtByte
<1> HIDE DEF n, t
<1>5. Newlines(n) \in Seq(Byte) /\ Len(Newlines(n)) = n
  BY <1>2, NewlinesLen
<1>6. Newlines(n) \o t \in Seq(Byte) /\ Len(Newlines(n) \o t) = n + Len(t)
  BY <1>3, <1>5, Joined
<1> QED
  BY <1>3, <1>4, <1>6, StopBounded

\* A byte that is kept takes the newlines before it along.
LEMMA KeepBounded ==
    ASSUME NEW c, Bounded(c), c.pending + 1 <= Room(c)
    PROVE  /\ Bounded(Keep(c))
           /\ Len(Keep(c).out) + Keep(c).pending = Len(c.out) + c.pending + 1
<1> DEFINE s == Newlines(c.pending)
           t == <<"x">>
<1>1. Room(c) \in 0 .. MaxBytes /\ Len(c.out) \in 0 .. MaxBytes /\ c.pending \in Nat
  BY RoomBounds, Fields
<1>2. s \in Seq(Byte) /\ Len(s) = c.pending
  <2>1. c.pending \in Int /\ (c.pending <= 0 => c.pending = 0)
    BY <1>1
  <2>2. s \in Seq(Byte) /\ Len(s) = IF c.pending <= 0 THEN 0 ELSE c.pending
    BY <2>1, NewlinesLen
  <2> QED
    BY <2>1, <2>2
<1>3. t \in Seq(Byte) /\ Len(t) = 1
  BY DEF Byte
<1>4. LinesWith(c) \in Nat
  BY Fields DEF LinesWith
<1>5. Keep(c) = [out |-> c.out \o s \o t, lines |-> LinesWith(c), pending |-> 0,
                 cut |-> FALSE]
  BY Zenon DEF Keep
<1> HIDE DEF s, t
<1>6. c.out \o s \o t \in Seq(Byte) /\ Len(c.out \o s \o t) = Len(c.out) + c.pending + 1
  <2>1. c.out \o s \in Seq(Byte) /\ Len(c.out \o s) = Len(c.out) + c.pending
    BY <1>2, Fields, Joined
  <2> QED
    BY <1>3, <2>1, Joined
<1>7. Len(c.out \o s \o t) <= MaxBytes
  BY <1>1, <1>6, PatchAssumption DEF Room
<1>8. Bounded(Keep(c))
  <2>1. 0 \in Nat /\ 0 <= MaxBytes + 1
    BY PatchAssumption
  <2>2. Bounded([out |-> c.out \o s \o t, lines |-> LinesWith(c), pending |-> 0,
                 cut |-> FALSE])
    BY <1>4, <1>6, <1>7, <2>1, BoundedRecord
  <2> QED
    BY <1>5, <2>2
<1>9. Keep(c).out = c.out \o s \o t /\ Keep(c).pending = 0
  BY <1>5
<1> QED
  BY <1>1, <1>6, <1>8, <1>9

\* A collector that consumes a byte stays bounded, and holds one byte more unless
\* it is cut.
LEMMA ConsumeBounded ==
    ASSUME NEW c, NEW byte \in Byte, Bounded(c), ~c.cut
    PROVE  /\ Bounded(Consume(c, byte))
           /\ ~Consume(c, byte).cut =>
                Len(Consume(c, byte).out) + Consume(c, byte).pending
                  = Len(c.out) + c.pending + 1
<1>1. c.pending \in Nat /\ Len(c.out) \in Nat /\ Room(c) \in Int
  BY RoomBounds, PatchAssumption DEF Bounded, Collector
<1>2. CASE byte = "nl" /\ c.pending + 1 > MaxBytes + 1
  BY <1>2, CutAtLineBounded DEF Consume, ConsumeNewline
<1>3. CASE byte = "nl" /\ ~(c.pending + 1 > MaxBytes + 1)
  <2>1. Consume(c, byte) = [c EXCEPT !.pending = @ + 1]
    BY <1>3 DEF Consume, ConsumeNewline
  <2> QED
    BY <1>1, <1>3, <2>1, PatchAssumption, SMTT(30) DEF Bounded, Collector
<1>4. CASE byte # "nl"
  <2>1. Consume(c, byte) = ConsumeOther(c)
    BY <1>4 DEF Consume
  <2>2. CASE LinesWith(c) > MaxLines
    BY <2>1, <2>2, CutAtLineBounded DEF ConsumeOther
  <2>3. CASE ~(LinesWith(c) > MaxLines) /\ c.pending + 1 > Room(c)
    BY <2>1, <2>3, CutAtByteBounded DEF ConsumeOther
  <2>4. CASE ~(LinesWith(c) > MaxLines) /\ ~(c.pending + 1 > Room(c))
    <3>1. Consume(c, byte) = Keep(c) /\ c.pending + 1 <= Room(c)
      BY <1>1, <2>1, <2>4 DEF ConsumeOther
    <3> QED
      BY <3>1, KeepBounded
  <2> QED
    BY <2>2, <2>3, <2>4
<1> QED
  BY <1>2, <1>3, <1>4

LEMMA CommitBounded ==
    ASSUME NEW c, Bounded(c)
    PROVE  Bounded(Commit(c))
<1> DEFINE n == MinOf(c.pending, Room(c))
           s == Newlines(n)
<1>1. Room(c) \in 0 .. MaxBytes /\ Len(c.out) \in 0 .. MaxBytes /\ c.pending \in Nat
  BY RoomBounds DEF Bounded, Collector
<1>2. n \in Nat /\ n <= Room(c)
  BY <1>1, PatchAssumption DEF MinOf
<1>3. Commit(c) = [out |-> c.out \o s, lines |-> c.lines, pending |-> 0, cut |-> c.cut]
  BY Zenon DEF Commit
<1> HIDE DEF n
<1>4. s \in Seq(Byte) /\ Len(s) = n
  BY <1>2, NewlinesLen
<1> HIDE DEF s
<1>5. c.out \o s \in Seq(Byte) /\ Len(c.out \o s) <= MaxBytes
  <2>1. c.out \o s \in Seq(Byte) /\ Len(c.out \o s) = Len(c.out) + n
    BY <1>4, Fields, Joined
  <2> QED
    BY <1>1, <1>2, <2>1, PatchAssumption DEF Room
<1> QED
  <2>1. 0 \in Nat /\ 0 <= MaxBytes + 1
    BY PatchAssumption
  <2>2. c.lines \in Nat /\ c.cut \in BOOLEAN
    BY Fields
  <2>3. Bounded([out |-> c.out \o s, lines |-> c.lines, pending |-> 0, cut |-> c.cut])
    BY <1>5, <2>1, <2>2, BoundedRecord, Zenon
  <2> QED
    BY <1>3, <2>3

LEMMA NewBounded == Bounded(NewCollector) /\ ~NewCollector.cut /\ Len(NewCollector.out) = 0
                      /\ NewCollector.pending = 0
<1>1. <<>> \in Seq(Byte) /\ Len(<<>>) = 0
  OBVIOUS
<1> QED
  BY <1>1, PatchAssumption DEF Bounded, Collector, NewCollector
-----------------------------------------------------------------------------
(* The inductive invariant: both collectors are bounded, and what the      *)
(* running command wrote is what its collector holds.                      *)

RunningHolds ==
    pc \in {"diff", "untracked"} =>
        ~inner.cut /\ Len(raw) = Len(inner.out) + inner.pending

PatchInv ==
    /\ TypeOK
    /\ Bounded(inner)
    /\ Bounded(outer)
    /\ RunningHolds
    /\ ReadingBounded

LEMMA FragmentType ==
    ASSUME NEW kept \in Seq(Byte)
    PROVE  Fragment(kept) \in Seq(Byte)
<1>1. <<"nl">> \in Seq(Byte)
  BY DEF Byte
<1> QED
  BY <1>1, Joined DEF Fragment

LEMMA JoinType ==
    ASSUME NEW s \in Seq(Byte), NEW t \in Seq(Byte)
    PROVE  Join(s, t) \in Seq(Byte)
<1>1. <<"nl">> \in Seq(Byte)
  BY DEF Byte
<1>2. s \o <<"nl">> \in Seq(Byte)
  BY <1>1, Joined
<1>3. s \o <<"nl">> \o t \in Seq(Byte)
  BY <1>2, Joined
<1> QED
  BY <1>3 DEF Join

LEMMA InitHolds == Init => PatchInv
<1> SUFFICES ASSUME Init PROVE PatchInv
  OBVIOUS
<1>1. <<>> \in Seq(Byte) /\ Len(<<>>) = 0
  OBVIOUS
<1>2. Bounded(inner) /\ Bounded(outer)
  BY NewBounded DEF Init
<1>3. inner \in Collector /\ outer \in Collector
  BY <1>2 DEF Bounded
<1>4. TypeOK
  BY <1>1, <1>3, PatchAssumption DEF Init, TypeOK
<1>5. RunningHolds
  BY DEF Init, RunningHolds
<1>6. ReadingBounded
  BY <1>1, PatchAssumption DEF Init, ReadingBounded
<1> QED
  BY <1>2, <1>4, <1>5, <1>6 DEF PatchInv

\* One byte written by Git: the collector holds it, or is cut.
LEMMA WriteHolds ==
    ASSUME PatchInv, NEW byte \in Byte, Write(byte)
    PROVE  PatchInv'
<1> USE DEF PatchInv
<1>1. /\ Bounded(inner) /\ ~inner.cut /\ Len(raw) = Len(inner.out) + inner.pending
      /\ raw \in Seq(Byte)
  BY DEF RunningHolds, Write, TypeOK
<1>2. inner' = Consume(inner, byte) /\ raw' = Append(raw, byte)
  BY DEF Write
<1>3. /\ Bounded(inner')
      /\ ~inner'.cut => Len(inner'.out) + inner'.pending = Len(inner.out) + inner.pending + 1
  BY <1>1, <1>2, ConsumeBounded
<1>4. raw' \in Seq(Byte) /\ Len(raw') = Len(raw) + 1
  BY <1>1, <1>2
<1>5. text' \in Seq(Byte)
  BY <1>4 DEF Write, TypeOK
<1>6. inner'.out \in Seq(Byte) /\ inner' \in Collector
  BY <1>3, Fields DEF Bounded
<1>7. rest' \in Seq(Byte) /\ pc' \in {"diff", "untracked", "append"}
  <2>1. CASE inner'.cut
    BY <2>1, <1>6, FragmentType DEF Write
  <2>2. CASE ~inner'.cut
    BY <2>2 DEF Write, TypeOK
  <2> QED
    BY <2>1, <2>2
<1>8. Bounded(outer')
  BY DEF Write
<1>9. TypeOK'
  BY <1>4, <1>5, <1>6, <1>7 DEF Write, TypeOK
<1>10. ReadingBounded'
  <2>1. /\ Len(inner.out) \in 0 .. MaxBytes /\ inner.pending \in Nat
        /\ inner.pending <= MaxBytes + 1
    BY <1>1, RoomBounds, Fields DEF Bounded
  <2> QED
    BY <2>1, <1>1, <1>4, PatchAssumption DEF ReadingBounded
<1>11. RunningHolds'
  <2>1. CASE inner'.cut
    BY <2>1 DEF Write, RunningHolds
  <2>2. CASE ~inner'.cut
    <3>1. Len(raw') = Len(inner'.out) + inner'.pending
      BY <2>2, <1>1, <1>3, <1>4
    <3> QED
      BY <2>2, <3>1 DEF RunningHolds
  <2> QED
    BY <2>1, <2>2
<1> QED
  BY <1>3, <1>8, <1>9, <1>10, <1>11

\* A command starts with an empty collector and an empty history.
LEMMA StartHolds ==
    ASSUME PatchInv, inner' = NewCollector, raw' = <<>>
    PROVE  Bounded(inner') /\ RunningHolds' /\ ReadingBounded'
<1>1. Len(raw') = 0
  OBVIOUS
<1> QED
  BY <1>1, NewBounded, PatchAssumption DEF RunningHolds, ReadingBounded

\* What does not touch the running command keeps what is said of it.
LEMMA KeptHolds ==
    ASSUME PatchInv, UNCHANGED <<inner, raw>>,
           pc' \in {"diff", "untracked"} => pc' = pc
    PROVE  Bounded(inner') /\ RunningHolds' /\ ReadingBounded'
BY DEF PatchInv, RunningHolds, ReadingBounded

LEMMA StepHolds == PatchInv /\ [Next]_vars => PatchInv'
<1> SUFFICES ASSUME PatchInv, [Next]_vars PROVE PatchInv'
  OBVIOUS
<1> USE DEF PatchInv
<1>0. <<>> \in Seq(Byte)
  OBVIOUS
<1>1. CASE RunDiff
  <2>1. Bounded(inner') /\ RunningHolds' /\ ReadingBounded'
    BY <1>1, StartHolds DEF RunDiff
  <2>2. TypeOK'
    BY <1>0, <1>1, <2>1 DEF RunDiff, TypeOK, Bounded
  <2>3. Bounded(outer')
    BY <1>1 DEF RunDiff
  <2> QED
    BY <2>1, <2>2, <2>3
<1>2. CASE ListUntracked
  <2>1. Bounded(inner') /\ RunningHolds' /\ ReadingBounded'
    <3>1. pc' \in {pc, "done"} /\ UNCHANGED <<inner, raw>>
      BY <1>2 DEF ListUntracked, Finish, history
    <3> QED
      BY <3>1, KeptHolds
  <2>2. TypeOK'
    BY <1>2, PatchAssumption DEF ListUntracked, TypeOK, Finish, history
  <2>3. Bounded(outer')
    BY <1>2 DEF ListUntracked
  <2> QED
    BY <2>1, <2>2, <2>3
<1>3. CASE RunUntracked
  <2>1. Bounded(inner') /\ RunningHolds' /\ ReadingBounded'
    <3>1. CASE inner' = NewCollector /\ raw' = <<>>
      BY <3>1, StartHolds
    <3>2. CASE UNCHANGED <<inner, raw>> /\ pc' \in {pc, "done"}
      BY <3>2, KeptHolds
    <3> QED
      BY <1>3, <3>1, <3>2 DEF RunUntracked, Finish
  <2>2. TypeOK'
    <3>1. inner' \in Collector
      BY <2>1 DEF Bounded
    <3>2. raw' \in Seq(Byte) /\ text' \in Seq(Byte)
      BY <1>0, <1>3 DEF RunUntracked, TypeOK
    <3>3. files' \in -1 .. MaxUntracked
      BY <1>3, PatchAssumption DEF RunUntracked, TypeOK
    <3>4. /\ pc' \in {"next", "untracked", "done"}
          /\ result' \in {"none", "complete", "truncated", "error"}
      BY <1>3 DEF RunUntracked, TypeOK, Finish
    <3>5. UNCHANGED <<base, diffs, rest, outer, before>>
      BY <1>3 DEF RunUntracked
    <3> QED
      BY <3>1, <3>2, <3>3, <3>4, <3>5 DEF TypeOK
  <2>3. Bounded(outer')
    BY <1>3 DEF RunUntracked
  <2> QED
    BY <2>1, <2>2, <2>3
<1>4. ASSUME NEW byte \in Byte, Write(byte) PROVE PatchInv'
  BY <1>4, WriteHolds
<1>5. CASE Exit
  <2>1. Bounded(inner') /\ RunningHolds' /\ ReadingBounded'
    <3>1. pc' \in {"append", "done"} /\ UNCHANGED <<inner, raw>>
      BY <1>5 DEF Exit, Finish, history
    <3> QED
      BY <3>1, KeptHolds
  <2>2. rest' \in Seq(Byte)
    BY <1>5, FragmentType, Fields DEF Exit, Finish, TypeOK
  <2>3. TypeOK'
    BY <1>5, <2>2 DEF Exit, TypeOK, Finish, history
  <2>4. Bounded(outer')
    BY <1>5 DEF Exit
  <2> QED
    BY <2>1, <2>3, <2>4
<1>6. CASE AppendByte
  <2>1. Bounded(inner') /\ RunningHolds' /\ ReadingBounded'
    BY <1>6, KeptHolds DEF AppendByte, history
  <2>2. rest \in Seq(Byte) /\ rest # <<>>
    BY <1>6 DEF AppendByte, TypeOK
  <2>3. Head(rest) \in Byte /\ Tail(rest) \in Seq(Byte)
    BY <2>2, HeadTailProperties
  <2>4. Bounded(outer')
    BY <1>6, <2>3, ConsumeBounded DEF AppendByte
  <2>5. TypeOK'
    BY <1>6, <2>3, <2>4 DEF AppendByte, TypeOK, Bounded, history
  <2> QED
    BY <2>1, <2>4, <2>5
<1>7. CASE AppendEnd
  <2>1. Bounded(inner') /\ RunningHolds' /\ ReadingBounded'
    <3>1. pc' \in {"next", "done"} /\ UNCHANGED <<inner, raw>>
      BY <1>7 DEF AppendEnd, Finish
    <3> QED
      BY <3>1, KeptHolds
  <2>2. Bounded(outer')
    BY <1>7, CommitBounded DEF AppendEnd
  <2>3. before' \in Seq(Byte)
    BY <1>7, JoinType DEF AppendEnd, Finish, TypeOK
  <2>4. TypeOK'
    BY <1>7, <2>2, <2>3 DEF AppendEnd, TypeOK, Finish, Bounded
  <2> QED
    BY <2>1, <2>2, <2>4
<1>8. CASE Complete
  <2>1. Bounded(inner') /\ RunningHolds' /\ ReadingBounded'
    <3>1. pc' = "done" /\ UNCHANGED <<inner, raw>>
      BY <1>8 DEF Complete, Finish, history
    <3> QED
      BY <3>1, KeptHolds
  <2>2. TypeOK' /\ Bounded(outer')
    BY <1>8 DEF Complete, TypeOK, Finish, history
  <2> QED
    BY <2>1, <2>2
<1>9. CASE UNCHANGED vars
  BY <1>9 DEF vars, history, TypeOK, RunningHolds, ReadingBounded
<1> QED
  BY <1>1, <1>2, <1>3, <1>4, <1>5, <1>6, <1>7, <1>8, <1>9 DEF Next

-----------------------------------------------------------------------------
LEMMA InvHolds == Spec => []PatchInv
BY InitHolds, StepHolds, PTL DEF Spec

\* Every variable keeps its type, for every limit and number of files.
THEOREM PatchTypes == Spec => []TypeOK
<1>1. PatchInv => TypeOK
  BY DEF PatchInv
<1> QED
  BY <1>1, InvHolds, PTL

\* For every limit, number of files and output: neither collector ever holds more than
\* the byte limit, and Git is stopped after at most twice the limit and two bytes,
\* newlines or not.
THEOREM PatchMemory == Spec => []MemoryBounded
<1>1. PatchInv => BytesBounded
  BY DEF PatchInv, Bounded, BytesBounded
<1>2. PatchInv => MemoryBounded
  BY <1>1 DEF PatchInv, MemoryBounded
<1> QED
  BY <1>2, InvHolds, PTL

-----------------------------------------------------------------------------
(* The text.  What the collectors hold is compared byte by byte with what  *)
(* was written: Starts is the prefix relation, EndsX says that no newline  *)
(* is at the end.                                                          *)

Starts(s, t) == Len(s) <= Len(t) /\ \A i \in 1 .. Len(s) : s[i] = t[i]
EndsX(s)     == s = <<>> \/ s[Len(s)] = "x"
Held(c)      == c.out \o Newlines(c.pending)

\* Between commands and while one runs, the outer collector holds the patch so far.
OuterWhole ==
    pc \in {"next", "diff", "untracked"} =>
        ~outer.cut /\ outer.pending = 0 /\ outer.out = before

\* While a command runs, its collector holds all that was written; then the newlines
\* at the end are left out, and a collector that was cut holds less than the text.
InnerText ==
    /\ pc = "next" => ~inner.cut
    /\ pc \in {"diff", "untracked"} => raw = Held(inner) /\ text = inner.out
    /\ pc = "append" =>
          /\ Starts(inner.out, raw)
          /\ ~inner.cut => text = inner.out
          /\ inner.cut => \/ Len(inner.out) < Len(text)
                          \/ Len(raw) - Len(text) > MaxBytes + 1

\* What the outer collector holds and what it has not seen yet make up the patch.
OuterText ==
    pc = "append" =>
        IF outer.cut
        THEN /\ outer.pending = 0
             /\ Starts(outer.out, Join(before, inner.out))
             /\ Len(outer.out) < Len(Join(before, inner.out))
        ELSE Held(outer) \o rest = Join(before, inner.out)

TextInv ==
    /\ EndsX(text) /\ EndsX(before)
    /\ OuterWhole /\ InnerText /\ OuterText
    /\ pc # "done" => result = "none"
    /\ PatchFaithful

-----------------------------------------------------------------------------
(* Prefixes.                                                               *)

\* A sequence, by its length and its elements; the same of sequences put together.
LEMMA Concat ==
    ASSUME NEW s \in Seq(Byte), NEW t \in Seq(Byte)
    PROVE  /\ s \o t \in Seq(Byte) /\ Len(s) \in Nat /\ Len(t) \in Nat
           /\ Len(s \o t) = Len(s) + Len(t)
           /\ \A i \in 1 .. Len(s) : (s \o t)[i] = s[i]
           /\ \A i \in 1 .. Len(t) : (s \o t)[Len(s) + i] = t[i]
<1>1. /\ s \o t \in Seq(Byte) /\ Len(s) \in Nat /\ Len(t) \in Nat
      /\ Len(s \o t) = Len(s) + Len(t)
      /\ \A i \in 1 .. Len(s) + Len(t) :
            (s \o t)[i] = IF i <= Len(s) THEN s[i] ELSE t[i - Len(s)]
  BY ConcatProperties, LenProperties
<1>2. ASSUME NEW i \in 1 .. Len(s) PROVE (s \o t)[i] = s[i]
  <2>1. i \in 1 .. Len(s) + Len(t) /\ i <= Len(s)
    BY <1>1
  <2> QED BY <1>1, <2>1
<1>3. ASSUME NEW i \in 1 .. Len(t) PROVE (s \o t)[Len(s) + i] = t[i]
  <2>1. /\ Len(s) + i \in 1 .. Len(s) + Len(t) /\ ~(Len(s) + i <= Len(s))
        /\ (Len(s) + i) - Len(s) = i
    BY <1>1
  <2> QED BY <1>1, <2>1
<1> QED BY <1>1, <1>2, <1>3

LEMMA Regroup ==
    ASSUME NEW s \in Seq(Byte), NEW t \in Seq(Byte), NEW u \in Seq(Byte)
    PROVE  (s \o t) \o u = s \o (t \o u)
BY ConcatAssociative

LEMMA NewlinesAt ==
    ASSUME NEW n \in Int
    PROVE  /\ Newlines(n) \in Seq(Byte)
           /\ Len(Newlines(n)) = IF n <= 0 THEN 0 ELSE n
           /\ \A i \in 1 .. n : Newlines(n)[i] = "nl"
BY NewlinesLen DEF Newlines

LEMMA StartsConcat ==
    ASSUME NEW s \in Seq(Byte), NEW t \in Seq(Byte)
    PROVE  Starts(s, s \o t)
BY Concat DEF Starts

LEMMA StartsTrans ==
    ASSUME NEW s \in Seq(Byte), NEW t \in Seq(Byte), NEW u \in Seq(Byte),
           Starts(s, t), Starts(t, u)
    PROVE  Starts(s, u)
<1>1. Len(s) \in Nat /\ Len(t) \in Nat /\ Len(u) \in Nat
  BY LenProperties
<1>2. ASSUME NEW i \in 1 .. Len(s) PROVE s[i] = u[i]
  BY <1>1 DEF Starts
<1> QED BY <1>1, <1>2 DEF Starts

\* What follows a common beginning decides.
LEMMA StartsUnder ==
    ASSUME NEW b \in Seq(Byte), NEW s \in Seq(Byte), NEW t \in Seq(Byte), Starts(s, t)
    PROVE  Starts(b \o s, b \o t)
<1>1. /\ Len(b) \in Nat /\ Len(s) \in Nat /\ Len(t) \in Nat /\ Len(s) <= Len(t)
      /\ Len(b \o s) = Len(b) + Len(s) /\ Len(b \o t) = Len(b) + Len(t)
  BY Concat DEF Starts
<1>2. ASSUME NEW i \in 1 .. Len(b \o s) PROVE (b \o s)[i] = (b \o t)[i]
  <2>1. CASE i <= Len(b)
    <3>1. i \in 1 .. Len(b)
      BY <2>1, <1>1
    <3> QED BY <3>1, Concat
  <2>2. CASE i > Len(b)
    <3> DEFINE j == i - Len(b)
    <3>1. j \in 1 .. Len(s) /\ j \in 1 .. Len(t) /\ Len(b) + j = i
      BY <2>2, <1>1
    <3> HIDE DEF j
    <3>2. (b \o s)[Len(b) + j] = s[j] /\ (b \o t)[Len(b) + j] = t[j]
      BY <3>1, Concat
    <3> QED BY <3>1, <3>2 DEF Starts
  <2> QED BY <2>1, <2>2, <1>1
<1> QED BY <1>1, <1>2 DEF Starts

\* Fewer newlines begin like more of them.
LEMMA FewerNewlines ==
    ASSUME NEW s \in Seq(Byte), NEW k \in Int, NEW n \in Nat, k <= n
    PROVE  /\ s \o Newlines(k) \in Seq(Byte) /\ s \o Newlines(n) \in Seq(Byte)
           /\ Starts(s \o Newlines(k), s \o Newlines(n))
<1>1. /\ Newlines(k) \in Seq(Byte) /\ Newlines(n) \in Seq(Byte)
      /\ Len(Newlines(k)) = (IF k <= 0 THEN 0 ELSE k) /\ Len(Newlines(n)) = n
      /\ \A i \in 1 .. k : Newlines(k)[i] = "nl"
      /\ \A i \in 1 .. n : Newlines(n)[i] = "nl"
  BY NewlinesAt
<1>2. ASSUME NEW i \in 1 .. Len(Newlines(k)) PROVE Newlines(k)[i] = Newlines(n)[i]
  <2>1. i \in 1 .. k /\ i \in 1 .. n
    BY <1>1
  <2> QED BY <1>1, <2>1
<1>3. Len(Newlines(k)) <= Len(Newlines(n))
  BY <1>1
<1>4. Starts(Newlines(k), Newlines(n))
  BY <1>2, <1>3 DEF Starts
<1> QED BY <1>1, <1>4, StartsUnder, Concat

\* One newline more.
LEMMA NewlineMore ==
    ASSUME NEW n \in Nat
    PROVE  Newlines(n + 1) = Append(Newlines(n), "nl")
<1>1. /\ Newlines(n) \in Seq(Byte) /\ Len(Newlines(n)) = n
      /\ \A i \in 1 .. n : Newlines(n)[i] = "nl"
      /\ Newlines(n + 1) \in Seq(Byte) /\ Len(Newlines(n + 1)) = n + 1
      /\ \A i \in 1 .. n + 1 : Newlines(n + 1)[i] = "nl"
  BY NewlinesAt
<1> DEFINE a == Append(Newlines(n), "nl")
<1>2. /\ a \in Seq(Byte) /\ Len(a) = n + 1
      /\ \A i \in 1 .. n : a[i] = Newlines(n)[i]
      /\ a[n + 1] = "nl"
  BY <1>1 DEF Byte
<1>3. ASSUME NEW i \in 1 .. n + 1 PROVE Newlines(n + 1)[i] = a[i]
  <2>1. i \in 1 .. n \/ i = n + 1
    OBVIOUS
  <2> QED BY <1>1, <1>2, <2>1
<1> HIDE DEF a
<1>4. Newlines(n + 1) = a
  BY <1>1, <1>2, <1>3, SeqEqual
<1> QED BY <1>4 DEF a

\* Appending a byte puts it behind.
LEMMA AppendMore ==
    ASSUME NEW s \in Seq(Byte), NEW byte \in Byte
    PROVE  /\ Append(s, byte) = s \o <<byte>> /\ <<byte>> \in Seq(Byte)
           /\ Append(s, byte) \in Seq(Byte) /\ Len(Append(s, byte)) = Len(s) + 1
           /\ Append(s, byte)[Len(s) + 1] = byte
           /\ Starts(s, Append(s, byte))
           /\ Len(s) \in Nat
<1>1. <<byte>> \in Seq(Byte)
  OBVIOUS
<1>2. Append(s, byte) = s \o <<byte>>
  BY AppendIsConcat
<1>3. Starts(s, Append(s, byte))
  BY <1>1, <1>2, StartsConcat
<1>4. /\ Append(s, byte) \in Seq(Byte) /\ Len(Append(s, byte)) = Len(s) + 1
      /\ Append(s, byte)[Len(s) + 1] = byte
  BY AppendProperties
<1> QED BY <1>1, <1>2, <1>3, <1>4, LenProperties

\* The prefix relation of the property.
LEMMA StartsIsPrefix ==
    ASSUME NEW s \in Seq(Byte), NEW t \in Seq(Byte), Starts(s, t)
    PROVE  IsPrefix(s, t)
<1>1. Len(s) \in Nat /\ Len(t) \in Nat /\ Len(s) <= Len(t)
  BY LenProperties DEF Starts
<1> DEFINE n == Len(s)
           a == SubSeq(s, 1, n)
           b == SubSeq(t, 1, n)
<1>2. \A i \in 1 .. n : s[i] \in Byte /\ t[i] \in Byte /\ s[i] = t[i]
  <2> SUFFICES ASSUME NEW i \in 1 .. n PROVE s[i] \in Byte /\ t[i] \in Byte /\ s[i] = t[i]
    OBVIOUS
  <2>1. i \in 1 .. Len(t)
    BY <1>1
  <2> QED BY <2>1, ElementOfSeq DEF Starts
<1>3. /\ a \in Seq(Byte) /\ Len(a) = n /\ b \in Seq(Byte) /\ Len(b) = n
      /\ \A i \in 1 .. n : a[i] = s[i] /\ b[i] = t[i]
  <2>1. n \in Nat /\ (n = 0 \/ 1 <= n) /\ n - 1 + 1 = n /\ \A i \in 1 .. n : 1 + i - 1 = i
    BY <1>1
  <2>2. /\ a \in Seq(Byte) /\ Len(a) = (IF 1 <= n THEN n - 1 + 1 ELSE 0)
        /\ \A i \in 1 .. n - 1 + 1 : a[i] = s[1 + i - 1]
    BY <1>2, <2>1, SubSeqProperties
  <2>3. /\ b \in Seq(Byte) /\ Len(b) = (IF 1 <= n THEN n - 1 + 1 ELSE 0)
        /\ \A i \in 1 .. n - 1 + 1 : b[i] = t[1 + i - 1]
    BY <1>2, <2>1, SubSeqProperties
  <2> HIDE DEF a, b, n
  <2> QED BY <2>1, <2>2, <2>3
<1> HIDE DEF a, b
<1>4. a = b
  BY <1>2, <1>3, SeqEqual
<1> QED BY <1>1, <1>4 DEF IsPrefix, a, b

-----------------------------------------------------------------------------
(* What a collector holds after a byte.                                    *)

LEMMA HeldType ==
    ASSUME NEW c, Bounded(c)
    PROVE  /\ Held(c) \in Seq(Byte)
           /\ Len(Held(c)) = Len(c.out) + c.pending
           /\ Len(c.out) \in Nat /\ Len(Held(c)) \in Nat
           /\ Starts(c.out, Held(c))
           /\ c.pending = 0 => Held(c) = c.out
<1>1. c.out \in Seq(Byte) /\ c.pending \in Nat
  BY Fields
<1>2. Newlines(c.pending) \in Seq(Byte) /\ Len(Newlines(c.pending)) = c.pending
  BY <1>1, NewlinesAt
<1>3. c.pending = 0 => Newlines(c.pending) = <<>>
  BY <1>2, EmptySeq
<1> DEFINE w == Newlines(c.pending)
<1>4. Held(c) = c.out \o w
  BY DEF Held
<1>5. w \in Seq(Byte) /\ Len(w) = c.pending /\ (c.pending = 0 => w = <<>>)
  BY <1>2, <1>3
<1> HIDE DEF w
<1>6. /\ c.out \o w \in Seq(Byte) /\ Len(c.out \o w) = Len(c.out) + Len(w)
      /\ Len(c.out) \in Nat /\ Starts(c.out, c.out \o w)
  BY <1>1, <1>5, Joined, StartsConcat, Zenon
<1>7. c.pending = 0 => c.out \o w = c.out
  BY <1>1, <1>5, ConcatEmptySeq
<1> QED BY <1>1, <1>4, <1>5, <1>6, <1>7

\* When it holds newlines back, the last byte it holds is one of them.
LEMMA HeldEnds ==
    ASSUME NEW c, Bounded(c), EndsX(Held(c))
    PROVE  c.pending = 0
<1> SUFFICES ASSUME c.pending # 0 PROVE FALSE
  OBVIOUS
<1> DEFINE k == c.pending
<1>1. c.out \in Seq(Byte) /\ k \in Nat \ {0} /\ k \in 1 .. k
  BY Fields
<1> HIDE DEF k
<1>2. Newlines(k) \in Seq(Byte) /\ Len(Newlines(k)) = k /\ Newlines(k)[k] = "nl"
  BY <1>1, NewlinesAt
<1>3. Held(c) = c.out \o Newlines(k)
  BY DEF Held, k
<1> DEFINE w == Newlines(k)
<1>w. w \in Seq(Byte) /\ Len(w) = k /\ w[k] = "nl" /\ Held(c) = c.out \o w
  BY <1>2, <1>3
<1> HIDE DEF w
<1>4. Len(Held(c)) = Len(c.out) + k /\ Len(c.out) \in Nat /\ Held(c)[Len(c.out) + k] = "nl"
  <2>1. k \in 1 .. Len(w)
    BY <1>1, <1>w
  <2>2. /\ Len(c.out \o w) = Len(c.out) + Len(w) /\ Len(c.out) \in Nat
        /\ (c.out \o w)[Len(c.out) + k] = w[k]
    BY <1>1, <1>w, <2>1, Concat, Zenon
  <2> QED BY <1>w, <2>2
<1>5. Held(c) # <<>>
  BY <1>1, <1>4, EmptySeq
<1> QED BY <1>4, <1>5 DEF EndsX

\* Cut at a line, it holds a beginning of what it held.
LEMMA CutAtLineText ==
    ASSUME NEW c, Bounded(c), LinesLeft(c) <= c.pending \/ Room(c) <= c.pending
    PROVE  CutAtLine(c).pending = 0 /\ Starts(CutAtLine(c).out, Held(c))
<1> DEFINE n == MinOf(LinesLeft(c), Room(c))
<1>1. /\ c.out \in Seq(Byte) /\ c.pending \in Nat /\ LinesLeft(c) \in Int
      /\ Room(c) \in Int
  BY Fields, RoomBounds, PatchAssumption DEF LinesLeft
<1>2. n \in Int /\ n <= c.pending
  BY <1>1 DEF MinOf
<1>3. CutAtLine(c).out = c.out \o Newlines(n) /\ CutAtLine(c).pending = 0
  BY DEF CutAtLine, Stop
<1> HIDE DEF n
<1> QED BY <1>1, <1>2, <1>3, FewerNewlines DEF Held

\* Cut at a byte, too: the byte that does not fit is left out.
LEMMA CutAtByteText ==
    ASSUME NEW c, Bounded(c), c.pending + 1 > Room(c)
    PROVE  CutAtByte(c).pending = 0 /\ Starts(CutAtByte(c).out, Held(c))
<1>1. c.out \in Seq(Byte) /\ c.pending \in Nat /\ Room(c) \in Nat
  BY Fields, RoomBounds, PatchAssumption
<1>2. Room(c) <= c.pending /\ MinOf(c.pending, Room(c)) = Room(c)
  BY <1>1 DEF MinOf
<1>3. CutAtByte(c) = Stop(c, Newlines(Room(c)) \o <<>>)
  <2>1. ~(Room(c) > Room(c))
    BY <1>1
  <2>2. CutAtByte(c) = Stop(c, Newlines(MinOf(c.pending, Room(c))) \o
            IF Room(c) > MinOf(c.pending, Room(c)) THEN <<"x">> ELSE <<>>)
    BY Zenon DEF CutAtByte
  <2> QED BY <1>2, <2>1, <2>2, Zenon
<1>4. Newlines(Room(c)) \in Seq(Byte) /\ Newlines(Room(c)) \o <<>> = Newlines(Room(c))
  BY <1>1, NewlinesAt, ConcatEmptySeq
<1>5. CutAtByte(c).out = c.out \o Newlines(Room(c)) /\ CutAtByte(c).pending = 0
  BY <1>3, <1>4 DEF Stop
<1> QED BY <1>1, <1>2, <1>5, FewerNewlines DEF Held

LEMMA ConsumeText ==
    ASSUME NEW c, NEW byte \in Byte, Bounded(c), ~c.cut,
           NEW d, d = Consume(c, byte)
    PROVE  /\ Held(c) \in Seq(Byte)
           /\ ~d.cut => /\ Held(d) = Append(Held(c), byte)
                        /\ byte = "nl" => d.out = c.out
                        /\ byte # "nl" => d.out = Held(d)
           /\ d.cut => /\ d.pending = 0 /\ Starts(d.out, Held(c))
                       /\ byte = "nl" => c.pending > MaxBytes
<1>1. /\ c.out \in Seq(Byte) /\ c.pending \in Nat /\ c.lines \in Nat
      /\ Room(c) \in Nat /\ Room(c) <= MaxBytes /\ MaxBytes \in Nat /\ MaxLines \in Nat
  BY Fields, RoomBounds, PatchAssumption
<1>2. Held(c) \in Seq(Byte)
  BY HeldType
<1>3. CASE byte = "nl" /\ c.pending + 1 > MaxBytes + 1
  <2>1. d = CutAtLine(c) /\ c.pending > MaxBytes /\ Room(c) <= c.pending
    BY <1>1, <1>3 DEF Consume, ConsumeNewline
  <2> QED BY <1>2, <2>1, CutAtLineText, CutAtLineBounded
<1>4. CASE byte = "nl" /\ ~(c.pending + 1 > MaxBytes + 1)
  <2>1. /\ d = [c EXCEPT !.pending = @ + 1]
        /\ c = [out |-> c.out, lines |-> c.lines, pending |-> c.pending, cut |-> c.cut]
    BY <1>4, Fields DEF Consume, ConsumeNewline
  <2>2. d.out = c.out /\ d.pending = c.pending + 1 /\ ~d.cut
    BY <2>1
  <2>3. Held(d) = c.out \o Append(Newlines(c.pending), "nl")
    BY <1>1, <2>2, NewlineMore DEF Held
  <2>4. Newlines(c.pending) \in Seq(Byte) /\ "nl" \in Byte
    BY <1>1, NewlinesAt, SMTT(30) DEF Byte
  <2>5. /\ <<"nl">> \in Seq(Byte)
        /\ Append(Newlines(c.pending), "nl") = Newlines(c.pending) \o <<"nl">>
        /\ Append(Held(c), "nl") = Held(c) \o <<"nl">>
    BY <1>2, <2>4, AppendMore
  <2>6. Held(d) = Held(c) \o <<"nl">>
    <3> DEFINE w == Newlines(c.pending)
    <3>1. /\ w \in Seq(Byte) /\ Held(c) = c.out \o w
          /\ Held(d) = c.out \o (w \o <<"nl">>)
      BY <2>3, <2>4, <2>5 DEF Held
    <3> HIDE DEF w
    <3>2. (c.out \o w) \o <<"nl">> = c.out \o (w \o <<"nl">>)
      BY <1>1, <2>5, <3>1, Regroup, Zenon
    <3> QED BY <3>1, <3>2
  <2> QED BY <1>2, <1>4, <2>2, <2>5, <2>6
<1>5. CASE byte # "nl"
  <2>1. d = ConsumeOther(c) /\ byte = "x"
    BY <1>5 DEF Consume, Byte
  <2>2. CASE LinesWith(c) > MaxLines
    <3>1. d = CutAtLine(c)
      BY <2>1, <2>2 DEF ConsumeOther
    <3>2. LinesLeft(c) <= c.pending
      BY <1>1, <2>2 DEF LinesWith, LinesLeft
    <3> QED BY <1>2, <1>5, <3>1, <3>2, CutAtLineText, CutAtLineBounded
  <2>3. CASE ~(LinesWith(c) > MaxLines) /\ c.pending + 1 > Room(c)
    <3>1. d = CutAtByte(c)
      BY <2>1, <2>3 DEF ConsumeOther
    <3> QED BY <1>2, <1>5, <2>3, <3>1, CutAtByteText, CutAtByteBounded
  <2>4. CASE ~(LinesWith(c) > MaxLines) /\ ~(c.pending + 1 > Room(c))
    <3>1. d = Keep(c)
      BY <2>1, <2>4 DEF ConsumeOther
    <3>2. /\ d.out = c.out \o Newlines(c.pending) \o <<"x">>
          /\ d.pending = 0 /\ ~d.cut
      <4> DEFINE w == c.out \o Newlines(c.pending) \o <<"x">>
      <4>1. d = [out |-> w, lines |-> LinesWith(c), pending |-> 0, cut |-> FALSE]
        BY <3>1, Zenon DEF Keep
      <4> HIDE DEF w
      <4>2. d.out = w /\ d.pending = 0 /\ ~d.cut
        BY <4>1
      <4> QED BY <4>2 DEF w
    <3>3. d.out = Append(Held(c), "x") /\ "x" \in Byte
      BY <1>2, <3>2, AppendMore DEF Held, Byte
    <3>4. Held(d) = d.out
      <4>1. Newlines(0) \in Seq(Byte) /\ Len(Newlines(0)) = 0
        BY NewlinesAt
      <4>2. Newlines(0) = <<>>
        BY <4>1, EmptySeq
      <4>3. d.out \in Seq(Byte)
        BY <1>2, <3>3, AppendMore
      <4> QED BY <3>2, <4>2, <4>3, ConcatEmptySeq DEF Held
    <3> QED BY <1>2, <1>5, <2>1, <3>2, <3>3, <3>4
  <2> QED BY <2>2, <2>3, <2>4
<1> QED BY <1>3, <1>4, <1>5


LEMMA CommitText ==
    ASSUME NEW c, Bounded(c)
    PROVE  Commit(c).out \in Seq(Byte) /\ Starts(Commit(c).out, Held(c))
<1> DEFINE n == MinOf(c.pending, Room(c))
<1>1. c.out \in Seq(Byte) /\ c.pending \in Nat /\ Room(c) \in Int
  BY Fields, RoomBounds, PatchAssumption
<1>2. n \in Int /\ n <= c.pending
  BY <1>1 DEF MinOf
<1>3. Commit(c).out = c.out \o Newlines(n)
  BY DEF Commit
<1> HIDE DEF n
<1> QED BY <1>1, <1>2, <1>3, FewerNewlines DEF Held

LEMMA NewHeld == Held(NewCollector) = <<>>
<1>1. Bounded(NewCollector) /\ NewCollector.pending = 0 /\ NewCollector.out = <<>>
  BY NewBounded DEF NewCollector
<1> QED BY <1>1, HeldType

-----------------------------------------------------------------------------
(* Fragments joined.                                                       *)

\* Joined to what came before, a fragment that begins another begins it still.
LEMMA JoinStarts ==
    ASSUME NEW b \in Seq(Byte), NEW s \in Seq(Byte), NEW t \in Seq(Byte), Starts(s, t)
    PROVE  /\ Join(b, s) \in Seq(Byte) /\ Join(b, t) \in Seq(Byte)
           /\ Starts(Join(b, s), Join(b, t))
<1> DEFINE n == b \o <<"nl">>
<1>1. n \in Seq(Byte) /\ Len(n) = Len(b) + 1 /\ Starts(b, n) /\ Len(b) \in Nat
  <2>1. <<"nl">> \in Seq(Byte) /\ Len(<<"nl">>) = 1
    BY DEF Byte
  <2> QED BY <2>1, Concat, StartsConcat
<1>2. /\ Join(b, s) = IF b = <<>> THEN s ELSE IF s = <<>> THEN b ELSE n \o s
      /\ Join(b, t) = IF b = <<>> THEN t ELSE IF t = <<>> THEN b ELSE n \o t
  BY DEF Join
<1> HIDE DEF n
<1>3. /\ Join(b, s) \in Seq(Byte) /\ Join(b, t) \in Seq(Byte)
      /\ Len(s) \in Nat /\ Len(t) \in Nat /\ Len(s) <= Len(t)
      /\ s = <<>> <=> Len(s) = 0
      /\ t = <<>> <=> Len(t) = 0
  BY JoinType, LenProperties, EmptySeq DEF Starts
<1>4. /\ n \o s \in Seq(Byte) /\ Len(n \o s) = Len(n) + Len(s)
      /\ n \o t \in Seq(Byte) /\ Len(n \o t) = Len(n) + Len(t)
      /\ Starts(n, n \o t) /\ Starts(n \o s, n \o t)
  BY <1>1, Concat, StartsConcat, StartsUnder, Zenon
<1>5. Starts(b, n \o t)
  BY <1>1, <1>4, StartsTrans
<1>6. CASE b = <<>>
  BY <1>2, <1>3, <1>6
<1>7. CASE b # <<>> /\ s = <<>> /\ t = <<>>
  BY <1>2, <1>3, <1>7 DEF Starts
<1>8. CASE b # <<>> /\ s = <<>> /\ t # <<>>
  BY <1>1, <1>2, <1>3, <1>4, <1>5, <1>8
<1>9. CASE b # <<>> /\ s # <<>>
  BY <1>1, <1>2, <1>3, <1>4, <1>9
<1> QED BY <1>6, <1>7, <1>8, <1>9

\* However they differ, the one with the longer fragment is the longer.
LEMMA JoinShorter ==
    ASSUME NEW b \in Seq(Byte), NEW s \in Seq(Byte), NEW t \in Seq(Byte), Len(s) < Len(t)
    PROVE  Len(Join(b, s)) < Len(Join(b, t))
<1> DEFINE n == b \o <<"nl">>
<1>1. n \in Seq(Byte) /\ Len(n) = Len(b) + 1 /\ Len(b) \in Nat
  <2>1. <<"nl">> \in Seq(Byte) /\ Len(<<"nl">>) = 1
    BY DEF Byte
  <2> QED BY <2>1, Concat
<1>2. /\ Join(b, s) = IF b = <<>> THEN s ELSE IF s = <<>> THEN b ELSE n \o s
      /\ Join(b, t) = IF b = <<>> THEN t ELSE IF t = <<>> THEN b ELSE n \o t
  BY DEF Join
<1> HIDE DEF n
<1>3. /\ Len(s) \in Nat /\ Len(t) \in Nat
      /\ s = <<>> <=> Len(s) = 0
      /\ t = <<>> <=> Len(t) = 0
  BY LenProperties, EmptySeq
<1>4. Len(n \o s) = Len(n) + Len(s) /\ Len(n \o t) = Len(n) + Len(t)
  BY <1>1, Concat, Zenon
<1> QED BY <1>1, <1>2, <1>3, <1>4

\* The patch so far begins the patch with a fragment more.
LEMMA JoinMore ==
    ASSUME NEW b \in Seq(Byte), NEW t \in Seq(Byte)
    PROVE  Starts(b, Join(b, t)) /\ Join(b, t) \in Seq(Byte)
<1>1. <<>> \in Seq(Byte) /\ Starts(<<>>, t) /\ Join(b, <<>>) = b
  BY LenProperties DEF Starts, Join
<1> QED BY <1>1, JoinStarts

\* Joined, fragments without newlines at the end have none at the end.
LEMMA JoinEnds ==
    ASSUME NEW b \in Seq(Byte), NEW t \in Seq(Byte), EndsX(b), EndsX(t)
    PROVE  EndsX(Join(b, t))
<1>1. CASE b = <<>> \/ t = <<>>
  BY <1>1 DEF Join
<1>2. CASE b # <<>> /\ t # <<>>
  <2> DEFINE n == b \o <<"nl">>
  <2>1. n \in Seq(Byte) /\ Join(b, t) = n \o t
    BY <1>2, Concat DEF Join, Byte
  <2> HIDE DEF n
  <2>2. Len(t) \in 1 .. Len(t) /\ t[Len(t)] = "x"
    BY <1>2, LenProperties, EmptySeq DEF EndsX
  <2>3. Len(n \o t) = Len(n) + Len(t) /\ (n \o t)[Len(n) + Len(t)] = t[Len(t)]
    BY <2>1, <2>2, Concat, Zenon
  <2> QED BY <2>1, <2>2, <2>3 DEF EndsX
<1> QED BY <1>1, <1>2

\* What the outer collector is to consume completes the patch.
LEMMA FragmentJoins ==
    ASSUME NEW kept \in Seq(Byte), before \in Seq(Byte), Bounded(outer),
           outer.pending = 0, outer.out = before
    PROVE  Held(outer) \o Fragment(kept) = Join(before, kept)
<1>1. Held(outer) = before
  BY HeldType
<1>2. <<"nl">> \in Seq(Byte)
  BY DEF Byte
<1>3. CASE kept = <<>>
  BY <1>1, <1>3, ConcatEmptySeq DEF Fragment, Join
<1>4. CASE before = <<>>
  BY <1>1, <1>4, ConcatEmptySeq DEF Fragment, Join
<1>5. CASE kept # <<>> /\ before # <<>>
  <2>1. Fragment(kept) = <<"nl">> \o kept /\ Join(before, kept) = (before \o <<"nl">>) \o kept
    BY <1>5 DEF Fragment, Join
  <2>2. (before \o <<"nl">>) \o kept = before \o (<<"nl">> \o kept)
    BY <1>2, Regroup, Zenon
  <2> QED BY <1>1, <2>1, <2>2
<1> QED BY <1>3, <1>4, <1>5


-----------------------------------------------------------------------------
(* TextInv is kept: one lemma per step.                                    *)

\* A patch that is not finished says nothing.
LEMMA NotFinished == result \in {"none", "error"} => PatchFaithful
BY DEF PatchFaithful, ExactPrefix, CompleteIsWhole, TruncatedIsCut

LEMMA TextTypes ==
    ASSUME PatchInv
    PROVE  /\ Bounded(inner) /\ inner.out \in Seq(Byte)
           /\ Bounded(outer) /\ outer.out \in Seq(Byte)
           /\ rest \in Seq(Byte) /\ raw \in Seq(Byte) /\ text \in Seq(Byte)
           /\ before \in Seq(Byte)
BY Fields DEF PatchInv, TypeOK

\* A step that ends the response with an error needs nothing more.
LEMMA ErrorText ==
    ASSUME TextInv, Finish("error"), UNCHANGED <<outer, text, before>>
    PROVE  TextInv'
<1>1. result' = "error" /\ pc' = "done"
  BY DEF Finish
<1>2. PatchFaithful'
  BY <1>1, NotFinished DEF PatchFaithful, ExactPrefix, CompleteIsWhole, TruncatedIsCut
<1> QED
  BY <1>1, <1>2 DEF TextInv, OuterWhole, InnerText, OuterText

\* Between commands, the outer collector may be read as the patch.
LEMMA EndText ==
    ASSUME PatchInv, TextInv, pc = "next", diffs = 0,
           NEW how \in {"complete", "truncated"}, Finish(how),
           UNCHANGED <<diffs, inner, outer, raw, text, before>>
    PROVE  TextInv'
<1>1. ~outer.cut /\ outer.out = before /\ ~inner.cut
  BY DEF TextInv, OuterWhole, InnerText
<1>2. Starts(outer.out, Join(before, raw)) /\ Join(before, raw) \in Seq(Byte)
  BY <1>1, TextTypes, JoinMore
<1>3. IsPrefix(outer.out, Join(before, raw))
  BY <1>2, TextTypes, StartsIsPrefix
<1>4. PatchFaithful'
  BY <1>1, <1>3 DEF PatchFaithful, ExactPrefix, CompleteIsWhole, TruncatedIsCut, Finish, Join
<1> QED
  BY <1>4 DEF TextInv, OuterWhole, InnerText, OuterText, Finish

\* A command starts.
LEMMA StartText ==
    ASSUME PatchInv, TextInv, pc = "next", pc' \in {"diff", "untracked"},
           inner' = NewCollector, raw' = <<>>, text' = <<>>,
           UNCHANGED <<outer, result, before>>
    PROVE  TextInv'
<1>1. /\ EndsX(text') /\ EndsX(before')
      /\ ~outer'.cut /\ outer'.pending = 0 /\ outer'.out = before'
  BY DEF TextInv, OuterWhole, EndsX
<1>2. raw' = Held(inner') /\ text' = inner'.out
  BY NewHeld DEF NewCollector
<1>3. result' = "none" /\ PatchFaithful'
  BY DEF TextInv, PatchFaithful, ExactPrefix, CompleteIsWhole, TruncatedIsCut
<1> QED
  BY <1>1, <1>2, <1>3 DEF TextInv, OuterWhole, InnerText, OuterText

\* A command has ended, or was cut, and its fragment is handed over.
LEMMA HandText ==
    ASSUME PatchInv, TextInv, PatchInv', pc \in {"diff", "untracked"},
           pc' = "append", rest' = Fragment(inner'.out),
           UNCHANGED <<outer, result, before>>, EndsX(text'),
           Starts(inner'.out, raw'),
           ~inner'.cut => text' = inner'.out,
           inner'.cut => \/ Len(inner'.out) < Len(text')
                         \/ Len(raw') - Len(text') > MaxBytes + 1
    PROVE  TextInv'
<1>1. EndsX(before) /\ ~outer.cut /\ outer.pending = 0 /\ outer.out = before /\ result = "none"
  BY DEF TextInv, OuterWhole
<1>2. inner'.out \in Seq(Byte)
  BY Fields DEF PatchInv
<1>3. Held(outer) \o Fragment(inner'.out) = Join(before, inner'.out)
  BY <1>1, <1>2, TextTypes, FragmentJoins
<1>4. OuterText'
  BY <1>1, <1>3 DEF OuterText, Held
<1>5. PatchFaithful'
  BY <1>1 DEF PatchFaithful, ExactPrefix, CompleteIsWhole, TruncatedIsCut
<1>6. InnerText' /\ OuterWhole'
  BY DEF InnerText, OuterWhole
<1> QED
  BY <1>1, <1>4, <1>5, <1>6 DEF TextInv

\* Git writes a byte.
LEMMA WriteText ==
    ASSUME PatchInv, TextInv, PatchInv', NEW byte \in Byte, Write(byte)
    PROVE  TextInv'
<1>1. /\ raw = Held(inner) /\ text = inner.out /\ ~inner.cut
      /\ inner' = Consume(inner, byte) /\ raw' = Append(raw, byte)
      /\ text' = IF byte = "nl" THEN text ELSE raw'
  BY DEF Write, TextInv, InnerText, PatchInv, RunningHolds
<1>2. /\ ~inner'.cut => /\ Held(inner') = raw'
                        /\ byte = "nl" => inner'.out = inner.out
                        /\ byte # "nl" => inner'.out = Held(inner')
      /\ inner'.cut => /\ Starts(inner'.out, raw)
                       /\ byte = "nl" => inner.pending > MaxBytes
  BY <1>1, TextTypes, ConsumeText
<1>3. /\ raw \in Seq(Byte) /\ raw' \in Seq(Byte) /\ Len(raw') = Len(raw) + 1 /\ Len(raw) \in Nat
      /\ raw'[Len(raw) + 1] = byte /\ Starts(raw, raw')
  BY <1>1, TextTypes, AppendMore
<1>4. EndsX(text')
  <2>1. CASE byte = "nl"
    BY <1>1, <2>1 DEF TextInv
  <2>2. CASE byte # "nl"
    BY <1>1, <1>3, <2>2 DEF EndsX, Byte
  <2> QED BY <2>1, <2>2
<1>5. inner'.out \in Seq(Byte)
  BY Fields DEF PatchInv
<1>6. CASE ~inner'.cut
  <2>1. pc' = pc /\ UNCHANGED <<rest, outer, result, before>> /\ pc \in {"diff", "untracked"}
    BY <1>6 DEF Write
  <2>2. text' = inner'.out /\ raw' = Held(inner')
    BY <1>1, <1>2, <1>6
  <2>3. result = "none" /\ PatchFaithful'
    BY <2>1 DEF TextInv, PatchFaithful, ExactPrefix, CompleteIsWhole, TruncatedIsCut
  <2>4. OuterWhole' /\ InnerText' /\ OuterText'
    BY <2>1, <2>2 DEF TextInv, OuterWhole, InnerText, OuterText
  <2> QED
    BY <1>4, <2>1, <2>3, <2>4 DEF TextInv
<1>7. CASE inner'.cut
  <2>1. Starts(inner'.out, raw')
    BY <1>2, <1>3, <1>5, <1>7, StartsTrans
  <2>2. Len(inner'.out) <= Len(raw) /\ Len(inner'.out) \in Nat
    BY <1>2, <1>5, <1>7, LenProperties DEF Starts
  <2>3. \/ Len(inner'.out) < Len(text')
        \/ Len(raw') - Len(text') > MaxBytes + 1
    <3>1. CASE byte = "nl"
      <4>1. Len(raw) = Len(inner.out) + inner.pending /\ Len(inner.out) \in Nat /\ inner.pending \in Nat
        BY <1>1, TextTypes, HeldType, Fields
      <4> QED BY <1>1, <1>2, <1>3, <1>7, <3>1, <4>1, PatchAssumption
    <3>2. CASE byte # "nl"
      BY <1>1, <1>3, <2>2, <3>2
    <3> QED BY <3>1, <3>2
  <2>4. /\ pc' = "append" /\ rest' = Fragment(inner'.out)
        /\ UNCHANGED <<outer, result, before>> /\ pc \in {"diff", "untracked"}
    BY <1>7 DEF Write
  <2> QED
    BY <1>4, <1>7, <2>1, <2>3, <2>4, HandText
<1> QED BY <1>6, <1>7

LEMMA ExitText ==
    ASSUME PatchInv, TextInv, PatchInv', Exit
    PROVE  TextInv'
<1>1. /\ pc \in {"diff", "untracked"} /\ UNCHANGED <<inner, outer, raw, text, before>>
      /\ raw = Held(inner) /\ text = inner.out /\ ~inner.cut /\ EndsX(text)
  BY DEF Exit, history, TextInv, InnerText, PatchInv, RunningHolds
<1>2. CASE Finish("error")
  BY <1>1, <1>2, ErrorText
<1>3. CASE pc' = "append" /\ rest' = Fragment(inner.out) /\ UNCHANGED result
  <2>1. Starts(inner.out, raw)
    BY <1>1, TextTypes, HeldType
  <2>2. /\ rest' = Fragment(inner'.out) /\ EndsX(text') /\ Starts(inner'.out, raw')
        /\ text' = inner'.out /\ ~inner'.cut
    BY <1>1, <1>3, <2>1 DEF Fragment, EndsX, Starts
  <2> QED
    BY <1>1, <1>3, <2>2, HandText
<1> QED BY <1>2, <1>3 DEF Exit


LEMMA AppendByteText ==
    ASSUME PatchInv, TextInv, AppendByte
    PROVE  TextInv'
<1> DEFINE whole == Join(before, inner.out)
           h == Head(rest)
           t == Tail(rest)
<1>1. /\ pc = "append" /\ rest # <<>> /\ ~outer.cut /\ result = "none"
      /\ outer' = Consume(outer, h) /\ rest' = t
      /\ UNCHANGED <<pc, inner, result, raw, text, before>>
  BY DEF AppendByte, history, TextInv
<1>2. Held(outer) \o rest = whole /\ whole \in Seq(Byte)
  BY <1>1, TextTypes, JoinType DEF TextInv, OuterText
<1>3. h \in Byte /\ t \in Seq(Byte) /\ rest = <<h>> \o t /\ <<h>> \in Seq(Byte)
  <2>1. rest \in Seq(Byte) /\ rest # <<>>
    BY <1>1, TextTypes
  <2> QED BY <2>1, HeadTailProperties
<1> HIDE DEF whole, h, t
<1>4. /\ Held(outer) \in Seq(Byte)
      /\ ~outer'.cut => Held(outer') = Append(Held(outer), h)
      /\ outer'.cut => outer'.pending = 0 /\ Starts(outer'.out, Held(outer))
  BY <1>1, <1>3, TextTypes, ConsumeText
<1>5. Append(Held(outer), h) \o t = whole
  <2>1. Append(Held(outer), h) = Held(outer) \o <<h>>
    BY <1>3, <1>4, AppendMore
  <2>2. (Held(outer) \o <<h>>) \o t = Held(outer) \o (<<h>> \o t)
    BY <1>3, <1>4, Regroup, Zenon
  <2> QED BY <1>2, <1>3, <2>1, <2>2
<1>6. OuterText'
  <2>0. Join(before', inner'.out) = whole
    BY <1>1 DEF whole, Join
  <2>1. CASE ~outer'.cut
    <3>1. Held(outer') \o rest' = whole
      BY <1>1, <1>4, <1>5, <2>1
    <3> QED BY <2>0, <2>1, <3>1 DEF OuterText, Held
  <2>2. CASE outer'.cut
    <3>1. outer'.out \in Seq(Byte)
      BY <1>1, <1>3, TextTypes, ConsumeBounded, Fields
    <3>2. Starts(Held(outer), whole) /\ Len(Held(outer)) < Len(whole)
      <4>1. /\ Len(whole) = Len(Held(outer)) + Len(rest) /\ Len(rest) \in Nat \ {0}
            /\ Len(Held(outer)) \in Nat
        BY <1>1, <1>2, <1>4, TextTypes, Concat, EmptySeq
      <4>2. Starts(Held(outer), Held(outer) \o rest)
        BY <1>4, TextTypes, StartsConcat
      <4> QED BY <1>2, <4>1, <4>2
    <3>3. Starts(outer'.out, whole) /\ Len(outer'.out) < Len(whole)
      <4>1. Len(outer'.out) <= Len(Held(outer)) /\ Len(outer'.out) \in Nat
            /\ Len(Held(outer)) \in Nat /\ Len(whole) \in Nat
        BY <1>2, <1>4, <2>2, <3>1, LenProperties DEF Starts
      <4> QED BY <1>2, <1>4, <2>2, <3>1, <3>2, <4>1, StartsTrans
    <3> QED BY <1>4, <2>0, <2>2, <3>3 DEF OuterText, Starts
  <2> QED BY <2>1, <2>2
<1>7. PatchFaithful'
  BY <1>1 DEF PatchFaithful, ExactPrefix, CompleteIsWhole, TruncatedIsCut
<1>8. InnerText' /\ OuterWhole' /\ EndsX(text') /\ EndsX(before')
  BY <1>1 DEF InnerText, OuterWhole, TextInv, EndsX, Starts
<1> QED BY <1>1, <1>6, <1>7, <1>8 DEF TextInv

\* A fragment is consumed whole: the patch so far has it, and holds nothing back.
LEMMA WholeText ==
    ASSUME PatchInv, TextInv, AppendEnd, ~inner.cut, ~outer.cut
    PROVE  TextInv'
<1>1. /\ pc = "append" /\ rest = <<>> /\ pc' = "next" /\ before' = Join(before, text)
      /\ UNCHANGED <<inner, outer, raw, text, result>> /\ result = "none"
  BY DEF AppendEnd, TextInv
<1>2. text = inner.out /\ Held(outer) \o <<>> = Join(before, text) /\ EndsX(text) /\ EndsX(before)
  BY <1>1 DEF TextInv, InnerText, OuterText
<1>3. Held(outer) = before'
  BY <1>1, <1>2, TextTypes, HeldType, ConcatEmptySeq
<1>4. EndsX(before')
  BY <1>1, <1>2, TextTypes, JoinEnds
<1>5. outer.pending = 0 /\ outer.out = before'
  <2>1. EndsX(Held(outer))
    BY <1>3, <1>4
  <2> QED BY <1>3, <2>1, TextTypes, HeldEnds, HeldType
<1>6. PatchFaithful'
  BY <1>1 DEF PatchFaithful, ExactPrefix, CompleteIsWhole, TruncatedIsCut
<1> QED
  BY <1>1, <1>2, <1>4, <1>5, <1>6 DEF TextInv, OuterWhole, InnerText, OuterText, EndsX

\* A fragment that is cut, in one collector or the other, ends the patch: what is kept
\* begins the patch and is less than all of it.
LEMMA CutText ==
    ASSUME PatchInv, TextInv, AppendEnd, inner.cut \/ outer.cut
    PROVE  TextInv'
<1> DEFINE kept == Join(before, inner.out)
<1>1. /\ pc = "append" /\ (rest = <<>> \/ outer.cut)
      /\ pc' = "done" /\ result' = "truncated"
      /\ outer' = IF inner.cut THEN Commit(outer) ELSE outer
      /\ UNCHANGED <<diffs, inner, raw, text, before>>
  BY DEF AppendEnd, Finish
<1>2. kept \in Seq(Byte) /\ Len(kept) \in Nat
  BY TextTypes, JoinType, LenProperties
<1> HIDE DEF kept
<1>3. /\ outer.cut => /\ Held(outer) = outer.out
                      /\ Starts(outer.out, kept) /\ Len(outer.out) < Len(kept)
      /\ ~outer.cut => Held(outer) = kept
  <2>1. CASE outer.cut
    BY <1>1, <2>1, TextTypes, HeldType DEF TextInv, OuterText, kept
  <2>2. CASE ~outer.cut
    <3>1. Held(outer) \o <<>> = kept
      BY <1>1, <2>2 DEF TextInv, OuterText, kept
    <3> QED BY <2>2, <3>1, TextTypes, HeldType, ConcatEmptySeq
  <2> QED BY <2>1, <2>2
<1>4. outer'.out \in Seq(Byte) /\ Starts(outer'.out, Held(outer))
  BY <1>1, TextTypes, CommitText, HeldType
<1>5. Starts(outer'.out, kept) /\ Len(outer'.out) <= Len(kept) /\ Len(outer'.out) \in Nat
  <2>1. Starts(Held(outer), kept) /\ Held(outer) \in Seq(Byte)
    BY <1>2, <1>3, TextTypes, HeldType DEF Starts
  <2> QED BY <1>2, <1>4, <2>1, StartsTrans, LenProperties DEF Starts
<1>6. Starts(inner.out, raw)
  BY <1>1 DEF TextInv, InnerText
<1>7. Join(before, raw) \in Seq(Byte) /\ Starts(outer'.out, Join(before, raw))
  BY <1>2, <1>4, <1>5, <1>6, TextTypes, JoinStarts, StartsTrans DEF kept
<1>8. IsPrefix(outer'.out, Join(before, raw))
  BY <1>4, <1>7, StartsIsPrefix
<1>9. \/ outer'.out # Join(before, text)
      \/ Len(raw) - Len(text) > MaxBytes + 1
  <2>1. CASE inner.cut /\ Len(inner.out) < Len(text)
    <3>1. Len(kept) < Len(Join(before, text))
      BY <2>1, TextTypes, JoinShorter DEF kept
    <3>2. Len(outer'.out) < Len(Join(before, text))
      BY <1>2, <1>5, <3>1, TextTypes, JoinType, LenProperties
    <3> QED BY <1>5, <3>2
  <2>2. CASE inner.cut /\ Len(raw) - Len(text) > MaxBytes + 1
    BY <2>2
  <2>3. CASE ~inner.cut
    <3>1. outer.cut /\ text = inner.out /\ outer' = outer
      BY <1>1, <2>3 DEF TextInv, InnerText
    <3> QED BY <1>2, <1>3, <1>5, <3>1 DEF kept
  <2> QED BY <1>1, <2>1, <2>2, <2>3 DEF TextInv, InnerText
<1>10. PatchFaithful'
  BY <1>1, <1>8, <1>9 DEF PatchFaithful, ExactPrefix, CompleteIsWhole, TruncatedIsCut, Join
<1> QED
  BY <1>1, <1>10 DEF TextInv, OuterWhole, InnerText, OuterText, EndsX


LEMMA InitText == Init => TextInv
<1> SUFFICES ASSUME Init PROVE TextInv
  OBVIOUS
<1>1. PatchFaithful
  BY NotFinished DEF Init
<1> QED
  BY <1>1 DEF Init, NewCollector, TextInv, EndsX, OuterWhole, InnerText, OuterText

\* What the text is about is left alone by a step that lists or skips files.
LEMMA SameText ==
    ASSUME TextInv, UNCHANGED <<pc, inner, rest, outer, result, raw, text, before>>,
           pc = "done" => UNCHANGED diffs
    PROVE  TextInv'
<1>1. pc # "done" => result = "none"
  BY DEF TextInv
<1>2. PatchFaithful'
  BY <1>1 DEF TextInv, PatchFaithful, ExactPrefix, CompleteIsWhole, TruncatedIsCut, Join
<1> QED
  BY <1>2 DEF TextInv, OuterWhole, InnerText, OuterText, EndsX, Join

LEMMA StepText == PatchInv /\ TextInv /\ PatchInv' /\ [Next]_vars => TextInv'
<1> SUFFICES ASSUME PatchInv, TextInv, PatchInv', [Next]_vars PROVE TextInv'
  OBVIOUS
<1>1. CASE RunDiff
  BY <1>1, StartText DEF RunDiff
<1>2. CASE ListUntracked
  <2>1. CASE Finish("error")
    BY <1>2, <2>1, ErrorText DEF ListUntracked, history
  <2>2. CASE UNCHANGED <<pc, result>>
    BY <1>2, <2>2, SameText DEF ListUntracked, history
  <2> QED BY <1>2, <2>1, <2>2 DEF ListUntracked
<1>3. CASE RunUntracked
  <2>1. pc = "next" /\ diffs = 0 /\ UNCHANGED <<base, diffs, rest, outer, before>>
    BY <1>3 DEF RunUntracked
  <2>2. CASE pc' = "untracked" /\ inner' = NewCollector /\ raw' = <<>> /\ text' = <<>> /\ UNCHANGED result
    BY <2>1, <2>2, StartText
  <2>3. CASE UNCHANGED <<pc, inner, raw, text, result>>
    BY <2>1, <2>3, SameText
  <2>4. CASE Finish("truncated") /\ UNCHANGED <<inner, raw, text>>
    BY <2>1, <2>4, EndText
  <2>5. CASE Finish("error") /\ UNCHANGED <<inner, raw, text>>
    BY <2>1, <2>5, ErrorText
  <2> QED BY <1>3, <2>2, <2>3, <2>4, <2>5 DEF RunUntracked
<1>4. ASSUME NEW byte \in Byte, Write(byte) PROVE TextInv'
  BY <1>4, WriteText
<1>5. CASE Exit
  BY <1>5, ExitText
<1>6. CASE AppendByte
  BY <1>6, AppendByteText
<1>7. CASE AppendEnd
  BY <1>7, WholeText, CutText
<1>8. CASE Complete
  BY <1>8, EndText DEF Complete, history
<1>9. CASE UNCHANGED vars
  BY <1>9, SameText DEF vars, history
<1> QED
  BY <1>1, <1>2, <1>3, <1>4, <1>5, <1>6, <1>7, <1>8, <1>9 DEF Next

\* For every limit, number of files and output: the text of a finished patch is the
\* beginning of what the commands wrote, joined by newlines; it is all of it when the
\* patch is not reported truncated, and less than it when it is.  Newlines held back in
\* two collectors, one after the other, are neither lost nor doubled.
THEOREM PatchText == Spec => []PatchFaithful
<1>1. Init => PatchInv /\ TextInv
  BY InitHolds, InitText
<1>2. PatchInv /\ TextInv /\ [Next]_vars => (PatchInv /\ TextInv)'
  BY StepHolds, StepText
<1>3. TextInv => PatchFaithful
  BY DEF TextInv
<1> QED
  BY <1>1, <1>2, <1>3, PTL DEF Spec

=============================================================================
