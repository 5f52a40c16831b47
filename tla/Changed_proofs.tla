------------------------ MODULE Changed_proofs ------------------------
(***************************************************************************)
(* Proofs about the changed ranges of a file, for sources of any length,   *)
(* any hunks git may write and any context, and that the reader of hunks   *)
(* and the strict parser of the contract read the same from a diff.  Then  *)
(* about the changed query, for any repository and anything done to it     *)
(* between two steps.                                                      *)
(***************************************************************************)
EXTENDS ChangedRanges, ChangedQuery, FiniteSetTheorems, WellFoundedInduction, TLAPS

-----------------------------------------------------------------------------
(* The arithmetic.                                                         *)

\* The range of a hunk is inside the source, begins nowhere before an earlier line
\* and ends no later than the hunk.
LEMMA HunkRangeFacts ==
    ASSUME NEW start \in Nat, NEW count \in Nat, NEW maximum \in Nat, maximum >= 1,
           count = 0 \/ start >= 1
    PROVE  LET r == HunkRange(start, count, maximum) IN
           /\ r[1] \in 1 .. maximum /\ r[2] \in 1 .. maximum /\ r[1] <= r[2]
           /\ \A n \in 1 .. maximum : (n <= 1 \/ n <= start) => n <= r[1]
           /\ r[2] <= 1 \/ r[2] <= (IF count = 0 THEN start ELSE start + count - 1)
<1> DEFINE first == Lesser(Greater(1, start), maximum)
           last  == IF count = 0 THEN first
                    ELSE IF count - 1 > maximum - first THEN maximum ELSE first + count - 1
<1>1. first \in 1 .. maximum /\ (first <= 1 \/ first <= start)
      /\ \A n \in 1 .. maximum : (n <= 1 \/ n <= start) => n <= first
  BY DEF Lesser, Greater
<1>2. HunkRange(start, count, maximum) = <<first, last>>
  BY DEF HunkRange
<1> HIDE DEF first
<1>3. last \in 1 .. maximum /\ first <= last
  BY <1>1
<1>4. last <= 1 \/ last <= (IF count = 0 THEN start ELSE start + count - 1)
  BY <1>1
<1> HIDE DEF last
<1> QED
  BY <1>1, <1>2, <1>3, <1>4

\* A context range holds exactly the lines of the source that are near enough.
LEMMA ContextRangeFacts ==
    ASSUME NEW t \in Nat, NEW line \in 1 .. t, NEW c \in Nat
    PROVE  LET r == ContextRange(t, line, c) IN
           /\ r \in Nat \X Nat /\ 1 <= r[1] /\ r[1] <= line /\ line <= r[2] /\ r[2] <= t
           /\ \A n \in Int : (r[1] <= n /\ n <= r[2])
                                <=> (n \in 1 .. t /\ n - line <= c /\ line - n <= c)
BY DEF ContextRange

LEMMA ContextRangeMonotone ==
    ASSUME NEW t \in Nat, NEW l \in 1 .. t, NEW m \in 1 .. t, l <= m, NEW c \in Nat
    PROVE  /\ ContextRange(t, l, c)[1] <= ContextRange(t, m, c)[1]
           /\ ContextRange(t, l, c)[2] <= ContextRange(t, m, c)[2]
BY DEF ContextRange

LEMMA IntegerRangeFacts ==
    ASSUME NEW start \in Nat, NEW end \in Nat, start <= end
    PROVE  /\ IntegerRange(start, end) \in Seq(Nat)
           /\ Len(IntegerRange(start, end)) = end - start + 1
           /\ \A i \in 1 .. (end - start + 1) : IntegerRange(start, end)[i] = start + i - 1
BY DEF IntegerRange

LEMMA IntegerRangeInside ==
    ASSUME NEW t \in Nat, NEW start \in 1 .. t, NEW end \in 1 .. t
    PROVE  IntegerRange(start, end) \in Seq(1 .. t)
<1>1. CASE start <= end
  BY <1>1 DEF IntegerRange
<1>2. CASE start > end
  BY <1>2 DEF IntegerRange
<1> QED
  BY <1>1, <1>2

In(s, n)  == \E k \in 1 .. Len(s) : s[k][1] <= n /\ n <= s[k][2]
Apart(s)  == /\ \A k \in 1 .. Len(s) : s[k][1] <= s[k][2]
             /\ \A k \in 1 .. Len(s) - 1 : s[k][2] + 1 < s[k + 1][1]

\* A range that begins and ends no earlier than the last span is added to what the
\* spans hold, and they stay apart.
LEMMA MergeRangeFacts ==
    ASSUME NEW s \in Seq(Nat \X Nat), Apart(s),
           NEW r \in Nat \X Nat, r[1] <= r[2],
           s # <<>> => s[Len(s)][1] <= r[1] /\ s[Len(s)][2] <= r[2]
    PROVE  LET m == MergeRange(s, r) IN
           /\ m \in Seq(Nat \X Nat) /\ m # <<>> /\ Apart(m)
           /\ m[Len(m)][1] <= r[1] /\ m[Len(m)][2] = r[2]
           /\ \A n \in Int : In(m, n) <=> (In(s, n) \/ (r[1] <= n /\ n <= r[2]))
<1> DEFINE m == MergeRange(s, r)
<1>a. /\ Len(s) \in Nat /\ r[1] \in Nat /\ r[2] \in Nat
      /\ \A k \in 1 .. Len(s) : s[k] \in Nat \X Nat /\ s[k][1] \in Nat /\ s[k][2] \in Nat
  OBVIOUS
<1>1. CASE s = <<>> \/ r[1] > s[Len(s)][2] + 1
  <2>1. m = Append(s, r)
    BY <1>1 DEF MergeRange
  <2>2. /\ m \in Seq(Nat \X Nat) /\ Len(m) = Len(s) + 1 /\ m[Len(s) + 1] = r
        /\ \A k \in 1 .. Len(s) : m[k] = s[k]
    BY <2>1
  <2> HIDE DEF m
  <2>3. Apart(m)
    <3>1. ASSUME NEW k \in 1 .. Len(m) PROVE m[k][1] <= m[k][2]
      <4>1. CASE k = Len(s) + 1
        BY <4>1, <2>2
      <4>2. CASE k \in 1 .. Len(s)
        BY <4>2, <2>2 DEF Apart
      <4> QED
        BY <3>1, <4>1, <4>2, <1>a, <2>2
    <3>2. ASSUME NEW k \in 1 .. Len(m) - 1 PROVE m[k][2] + 1 < m[k + 1][1]
      <4>1. CASE k = Len(s)
        <5>1. m[k] = s[Len(s)] /\ m[k + 1] = r /\ s # <<>>
          BY <3>2, <4>1, <1>a, <2>2
        <5> QED
          BY <5>1, <1>1, <4>1
      <4>2. CASE k < Len(s)
        <5>1. k \in 1 .. Len(s) - 1 /\ k + 1 \in 1 .. Len(s) /\ m[k] = s[k] /\ m[k + 1] = s[k + 1]
          <6>1. Len(s) \in Nat /\ Len(m) = Len(s) + 1 /\ k \in 1 .. Len(m) - 1
            BY <3>2, <2>2, <1>a
          <6>2. k \in 1 .. Len(s) - 1 /\ k \in 1 .. Len(s) /\ k + 1 \in 1 .. Len(s)
            BY <4>2, <6>1
          <6> QED
            BY <6>2, <2>2
        <5> QED
          BY <5>1 DEF Apart
      <4> QED
        BY <3>2, <4>1, <4>2, <1>a, <2>2
    <3> QED
      BY <3>1, <3>2 DEF Apart
  <2>4. \A n \in Int : In(m, n) <=> (In(s, n) \/ (r[1] <= n /\ n <= r[2]))
    <3> SUFFICES ASSUME NEW n \in Int
                 PROVE  In(m, n) <=> (In(s, n) \/ (r[1] <= n /\ n <= r[2]))
      OBVIOUS
    <3>1. 1 .. Len(m) = (1 .. Len(s)) \cup {Len(s) + 1}
      BY <1>a, <2>2, SMTT(30)
    <3> QED
      BY <3>1, <2>2 DEF In
  <2>5. m # <<>> /\ m[Len(m)] = r
    BY <2>2
  <2> QED
    BY <2>2, <2>3, <2>4, <2>5 DEF m
<1>2. CASE s # <<>> /\ ~(r[1] > s[Len(s)][2] + 1)
  <2> DEFINE last == Len(s)
             joined == <<s[last][1], r[2]>>
  <2>1. last \in Nat \ {0} /\ s[last] \in Nat \X Nat
    BY <1>2
  <2>2. m = [s EXCEPT ![last] = joined]
    <3>1. m = [s EXCEPT ![last] = <<s[last][1], Greater(s[last][2], r[2])>>]
      BY <1>2 DEF MergeRange
    <3>2. Greater(s[last][2], r[2]) = r[2]
      BY <1>2, <1>a, <2>1 DEF Greater
    <3> QED
      BY <3>1, <3>2
  <2>3. joined \in Nat \X Nat /\ joined[1] = s[last][1] /\ joined[2] = r[2]
    BY <2>1
  <2>4. /\ m \in Seq(Nat \X Nat) /\ Len(m) = last /\ m[last] = joined
        /\ \A k \in 1 .. last - 1 : m[k] = s[k]
    BY <2>1, <2>2, <2>3
  <2> HIDE DEF m, joined
  <2>5. Apart(m)
    <3>1. ASSUME NEW k \in 1 .. Len(m) PROVE m[k][1] <= m[k][2]
      <4>1. CASE k = last
        BY <4>1, <1>2, <1>a, <2>1, <2>3, <2>4
      <4>2. CASE k \in 1 .. last - 1
        BY <4>2, <2>1, <2>4 DEF Apart
      <4> QED
        BY <3>1, <4>1, <4>2, <1>a, <2>1, <2>4
    <3>2. ASSUME NEW k \in 1 .. Len(m) - 1 PROVE m[k][2] + 1 < m[k + 1][1]
      <4>1. k \in 1 .. Len(s) - 1 /\ m[k] = s[k] /\ m[k + 1][1] = s[k + 1][1]
        <5>1. k \in 1 .. last - 1 /\ m[k] = s[k]
          BY <3>2, <2>1, <2>4
        <5>2. CASE k + 1 = last
          BY <5>1, <5>2, <2>3, <2>4
        <5>3. CASE k + 1 \in 1 .. last - 1
          BY <5>1, <5>3, <2>4
        <5> QED
          BY <5>1, <5>2, <5>3, <2>1
      <4> QED
        BY <4>1 DEF Apart
    <3> QED
      BY <3>1, <3>2 DEF Apart
  <2>6. \A n \in Int : In(m, n) <=> (In(s, n) \/ (r[1] <= n /\ n <= r[2]))
    <3> SUFFICES ASSUME NEW n \in Int
                 PROVE  In(m, n) <=> (In(s, n) \/ (r[1] <= n /\ n <= r[2]))
      OBVIOUS
    <3> DEFINE Earlier == \E k \in 1 .. last - 1 : s[k][1] <= n /\ n <= s[k][2]
    <3>0. 1 .. last = (1 .. last - 1) \cup {last}
      BY <2>1
    <3>1. In(s, n) <=> (Earlier \/ (s[last][1] <= n /\ n <= s[last][2]))
      BY <3>0 DEF In
    <3>2. In(m, n) <=> (Earlier \/ (s[last][1] <= n /\ n <= r[2]))
      BY <3>0, <2>3, <2>4 DEF In
    <3> HIDE DEF Earlier
    <3>3. (s[last][1] <= n /\ n <= r[2])
            <=> ((s[last][1] <= n /\ n <= s[last][2]) \/ (r[1] <= n /\ n <= r[2]))
      BY <1>2, <1>a, <2>1
    <3> QED
      BY <3>1, <3>2, <3>3
  <2> QED
    BY <1>2, <2>1, <2>3, <2>4, <2>5, <2>6 DEF m
<1> QED
  BY <1>1, <1>2

-----------------------------------------------------------------------------
(* Reading the headers.                                                    *)

\* The numbers collected are in order and inside the source, and none lies behind
\* what the hunks account for: the next hunk begins after that.
LinesInv ==
    /\ total \in Nat \ {0} /\ context \in Nat
    /\ current \in Nat /\ edge \in Int /\ edge >= -1
    /\ lines \in Seq(1 .. total) /\ InOrder(lines)
    /\ Len(lines) <= MaxExpanded
    /\ pc = "read" => \A i \in 1 .. Len(lines) : lines[i] <= 1 \/ lines[i] <= edge
    /\ pc = "read" /\ hunks = <<>> => lines = <<>>

LEMMA LinesStep == LinesInv /\ [Next]_vars => LinesInv'
<1> SUFFICES ASSUME LinesInv, [Next]_vars PROVE LinesInv'
  OBVIOUS
<1>1. ASSUME NEW start \in 0 .. current, NEW count \in 0 .. current, ReadHunk(start, count)
      PROVE  LinesInv'
  <2> DEFINE r == HunkRange(start, count, total)
             more == IntegerRange(r[1], r[2])
  <2>a. start \in Nat /\ count \in Nat /\ total \in Nat /\ total >= 1
    BY DEF LinesInv
  <2>b. /\ r[1] \in 1 .. total /\ r[2] \in 1 .. total /\ r[1] <= r[2]
        /\ \A n \in 1 .. total : (n <= 1 \/ n <= start) => n <= r[1]
        /\ r[2] <= 1 \/ r[2] <= edge'
    <3>1. count = 0 \/ start >= 1
      BY <1>1, <2>a DEF ReadHunk, Follows, LinesInv
    <3>2. edge' = IF count = 0 THEN start ELSE start + count - 1
      BY <1>1 DEF ReadHunk
    <3> QED
      BY <2>a, <3>1, <3>2, HunkRangeFacts
  <2> HIDE DEF r
  <2>c. /\ more \in Seq(Nat) /\ Len(more) = r[2] - r[1] + 1
        /\ \A i \in 1 .. Len(more) : more[i] = r[1] + i - 1
    <3>1. r[1] \in Nat /\ r[2] \in Nat
      BY <2>b, <2>a
    <3> QED
      BY <2>b, <3>1, IntegerRangeFacts
  <2> HIDE DEF more
  <2>d. UNCHANGED <<total, context, current>> /\ edge' \in Int /\ edge' >= -1 /\ hunks' # <<>>
    BY <1>1, <2>a DEF ReadHunk
  <2>1. CASE pc' = "error" /\ UNCHANGED lines
    BY <2>1, <2>d DEF LinesInv, InOrder
  <2>2. CASE ~ExceedsLimit(r) /\ lines' = lines \o more /\ UNCHANGED pc
    <3>1. \A i \in 1 .. Len(more) : more[i] \in 1 .. total /\ r[1] <= more[i] /\ more[i] <= r[2]
      <4>1. /\ total \in Nat /\ r[1] \in Int /\ r[2] \in Int /\ 1 <= r[1] /\ r[2] <= total
            /\ Len(more) = r[2] - r[1] + 1
        BY <2>a, <2>b, <2>c
      <4>2. ASSUME NEW i \in 1 .. Len(more)
            PROVE  more[i] \in 1 .. total /\ r[1] <= more[i] /\ more[i] <= r[2]
        <5>1. more[i] = r[1] + i - 1
          BY <4>2, <2>c
        <5> QED
          BY <4>1, <4>2, <5>1
      <4> QED
        BY <4>2
    <3>2. more \in Seq(1 .. total)
      BY <2>a, <2>b, IntegerRangeInside DEF more
    <3>3. /\ lines' \in Seq(1 .. total) /\ Len(lines') = Len(lines) + Len(more)
          /\ \A i \in 1 .. Len(lines) : lines'[i] = lines[i]
          /\ \A i \in Len(lines) + 1 .. Len(lines') : lines'[i] = more[i - Len(lines)]
      BY <2>2, <3>2 DEF LinesInv
    <3>4. pc = "read" /\ start > edge
      BY <1>1 DEF ReadHunk, Follows, LinesInv
    <3>5. \A i \in 1 .. Len(lines) : lines[i] \in 1 .. total /\ lines[i] <= r[1]
      BY <2>a, <2>b, <3>4 DEF LinesInv
    <3>6. InOrder(lines')
      <4> SUFFICES ASSUME NEW i \in 1 .. Len(lines'), NEW j \in 1 .. Len(lines'), i <= j
                   PROVE  lines'[i] <= lines'[j]
        BY <3>3 DEF InOrder
      <4>1. CASE j <= Len(lines)
        <5>1. i \in DOMAIN lines /\ j \in DOMAIN lines /\ lines'[i] = lines[i] /\ lines'[j] = lines[j]
          <6>1. Len(lines) \in Nat /\ DOMAIN lines = 1 .. Len(lines)
            BY DEF LinesInv
          <6>2. i \in 1 .. Len(lines) /\ j \in 1 .. Len(lines)
            BY <4>1, <6>1, <3>3
          <6> QED
            BY <6>1, <6>2, <3>3
        <5> QED
          BY <5>1 DEF LinesInv, InOrder
      <4>2. CASE i <= Len(lines) /\ j > Len(lines)
        <5>1. lines'[i] <= r[1] /\ r[1] \in Int /\ lines'[i] \in Int
          BY <4>2, <3>3, <3>5, <2>a, <2>b, SMTT(30)
        <5>2. j - Len(lines) \in 1 .. Len(more) /\ lines'[j] = more[j - Len(lines)]
          BY <4>2, <3>3
        <5>3. r[1] <= lines'[j] /\ lines'[j] \in Int
          BY <5>2, <3>1, <2>a
        <5> QED
          BY <5>1, <5>3
      <4>3. CASE i > Len(lines)
        <5>1. /\ i - Len(lines) \in 1 .. Len(more) /\ lines'[i] = more[i - Len(lines)]
              /\ j - Len(lines) \in 1 .. Len(more) /\ lines'[j] = more[j - Len(lines)]
          BY <4>3, <3>3, SMTT(30)
        <5> QED
          <6> DEFINE a == i - Len(lines)
                     b == j - Len(lines)
          <6>1. a \in Int /\ b \in Int /\ a <= b
            BY <5>1, <3>3 DEF LinesInv
          <6> HIDE DEF a, b
          <6>2. more[a] = r[1] + a - 1 /\ more[b] = r[1] + b - 1 /\ r[1] \in Int
            BY <5>1, <2>a, <2>b, <2>c, SMTT(30) DEF a, b
          <6>3. more[a] <= more[b]
            BY <6>1, <6>2
          <6> QED
            BY <5>1, <6>3 DEF a, b
      <4> QED
        BY <4>1, <4>2, <4>3, <3>3
    <3>7. Len(lines') <= MaxExpanded
      BY <2>2, <2>b, <2>c, <3>3, ChangedRangesAssumption DEF ExceedsLimit, Width, LinesInv
    <3>8. \A i \in 1 .. Len(lines') : lines'[i] <= 1 \/ lines'[i] <= edge'
      <4> SUFFICES ASSUME NEW i \in 1 .. Len(lines') PROVE lines'[i] <= r[2]
        <5>1. \A i \in 1 .. Len(lines') : lines'[i] \in Int
          BY <2>a, <3>3
        <5> QED
          BY <5>1, <2>a, <2>b, <2>d
      <4>1. CASE i <= Len(lines)
        BY <4>1, <2>a, <2>b, <3>3, <3>5, SMTT(30)
      <4>2. CASE i > Len(lines)
        <5>1. i - Len(lines) \in 1 .. Len(more) /\ lines'[i] = more[i - Len(lines)]
          BY <4>2, <3>3
        <5> QED
          BY <5>1, <3>1
      <4> QED
        BY <4>1, <4>2, <3>3
    <3> QED
      BY <2>d, <3>3, <3>6, <3>7, <3>8 DEF LinesInv
  <2> QED
    BY <1>1, <2>1, <2>2 DEF ReadHunk, r, more
<1>2. CASE GitFails
  BY <1>2 DEF GitFails, git, LinesInv, InOrder
<1>3. CASE EndOfOutput
  <2>1. lines' = lines
    BY <1>3 DEF EndOfOutput, Sorted, LinesInv
  <2> QED
    BY <1>3, <2>1 DEF EndOfOutput, git, LinesInv, InOrder
<1>4. CASE EveryLine
  <2>1. UNCHANGED <<total, context, current, edge>> /\ pc' # "read"
    BY <1>4 DEF EveryLine, git
  <2>2. CASE UNCHANGED lines
    BY <2>1, <2>2 DEF LinesInv, InOrder
  <2>3. CASE total <= MaxExpanded /\ lines' = IntegerRange(1, total)
    <3>1. /\ lines' \in Seq(Nat) /\ Len(lines') = total
          /\ \A i \in 1 .. total : lines'[i] = i
      <4>1. 1 \in Nat /\ total \in Nat /\ 1 <= total
        BY DEF LinesInv
      <4> QED
        BY <2>3, <4>1 DEF IntegerRange
    <3>2. lines' \in Seq(1 .. total) /\ InOrder(lines')
      <4>1. total \in Nat /\ DOMAIN lines' = 1 .. total
        BY <3>1 DEF LinesInv
      <4>2. \A i \in 1 .. total : lines'[i] \in 1 .. total
        BY <3>1, <4>1
      <4>3. lines' \in Seq(1 .. total)
        BY <3>1, <4>1, <4>2
      <4> QED
        BY <3>1, <4>1, <4>3 DEF InOrder
    <3> QED
      BY <2>1, <2>3, <3>1, <3>2 DEF LinesInv
  <2> QED
    BY <1>4, <2>2, <2>3 DEF EveryLine
<1>5. CASE UniqueRound \/ UniqueEnd \/ MergeRound \/ MergeEnd \/ UNCHANGED vars
  <2>1. UNCHANGED <<total, context, current, hunks, edge, lines>> /\ (pc' = "read" => pc = "read")
    BY <1>5 DEF UniqueRound, UniqueEnd, MergeRound, MergeEnd, vars, git
  <2> QED
    BY <2>1 DEF LinesInv, InOrder
<1> QED
  BY <1>1, <1>2, <1>3, <1>4, <1>5 DEF Next

-----------------------------------------------------------------------------
(* Dropping duplicates.                                                    *)

\* After each round the list holds the numbers seen so far, each once, in order.
UniqueInv ==
    /\ unique \in Seq(1 .. total) /\ Strict(unique)
    /\ pc = "read" => unique = <<>> /\ next = 1
    /\ pc = "unique" =>
          /\ next \in 1 .. Len(lines) + 1
          /\ Numbers(unique) = {lines[i] : i \in 1 .. next - 1}
          /\ IF next = 1 THEN unique = <<>>
             ELSE unique # <<>> /\ unique[Len(unique)] = lines[next - 1]
    /\ pc \in {"merge", "done"} => Numbers(unique) = Numbers(lines)

LEMMA LastOrBefore ==
    ASSUME NEW n \in Nat
    PROVE  /\ \A i \in 1 .. n : i = n \/ i < n
           /\ \A i \in 1 .. n + 1 : i = n + 1 \/ i \in 1 .. n
OBVIOUS

LEMMA StrictAt ==
    ASSUME NEW s, Strict(s), NEW i \in DOMAIN s, NEW j \in DOMAIN s, i < j
    PROVE  s[i] < s[j]
BY DEF Strict

\* A number that is not less than the last one.
LEMMA UniqueFacts ==
    ASSUME NEW t \in Nat, NEW s \in Seq(1 .. t), Strict(s), NEW v \in 1 .. t,
           s # <<>> => s[Len(s)] <= v
    PROVE  LET u == Unique(s, v) IN
           /\ u \in Seq(1 .. t) /\ Strict(u) /\ u # <<>> /\ u[Len(u)] = v
           /\ Numbers(u) = Numbers(s) \cup {v}
<1> DEFINE u == Unique(s, v)
<1>1. CASE s # <<>> /\ v = s[Len(s)]
  <2>1. u = s /\ Len(s) \in DOMAIN s
    BY <1>1 DEF Unique
  <2>2. v \in Numbers(s)
    BY <1>1, <2>1 DEF Numbers
  <2> QED
    BY <1>1, <2>1, <2>2
<1>2. CASE ~(s # <<>> /\ v = s[Len(s)])
  <2>1. u = Append(s, v)
    BY <1>2 DEF Unique
  <2>2. /\ u \in Seq(1 .. t) /\ Len(u) = Len(s) + 1 /\ u[Len(s) + 1] = v
        /\ \A i \in 1 .. Len(s) : u[i] = s[i]
        /\ Len(s) \in Nat /\ DOMAIN s = 1 .. Len(s) /\ DOMAIN u = 1 .. Len(s) + 1
    BY <2>1
  <2> HIDE DEF u
  <2>3. \A i \in 1 .. Len(s) : s[i] \in 1 .. t /\ s[i] < v
    <3> SUFFICES ASSUME NEW i \in 1 .. Len(s) PROVE s[i] \in 1 .. t /\ s[i] < v
      OBVIOUS
    <3>1. s[i] \in 1 .. t /\ s[Len(s)] \in 1 .. t /\ s # <<>>
      BY <2>2
    <3>2. s[Len(s)] < v
      BY <3>1, <1>2
    <3>3. i = Len(s) \/ s[i] < s[Len(s)]
      <4>1. Len(s) \in Nat /\ DOMAIN s = 1 .. Len(s)
        OBVIOUS
      <4>2. i \in 1 .. Len(s) /\ Len(s) \in 1 .. Len(s)
        BY <4>1
      <4>3. CASE i < Len(s)
        <5>1. i \in DOMAIN s /\ Len(s) \in DOMAIN s
          BY <4>1, <4>2
        <5>2. s[i] < s[Len(s)]
          BY <5>1, <4>3, StrictAt
        <5> QED
          BY <5>2
      <4>4. i = Len(s) \/ i < Len(s)
        BY <4>1, LastOrBefore
      <4> QED
        BY <4>3, <4>4
    <3> QED
      BY <3>1, <3>2, <3>3
  <2>4. Strict(u)
    <3> SUFFICES ASSUME NEW i \in 1 .. Len(s) + 1, NEW j \in 1 .. Len(s) + 1, i < j
                 PROVE  u[i] < u[j]
      BY <2>2 DEF Strict
    <3>1. i \in 1 .. Len(s) /\ u[i] = s[i]
      BY <2>2
    <3>2. CASE j = Len(s) + 1
      BY <3>1, <3>2, <2>2, <2>3
    <3>3. CASE j \in 1 .. Len(s)
      <4>1. u[j] = s[j] /\ i \in DOMAIN s /\ j \in DOMAIN s
        BY <3>1, <3>3, <2>2
      <4>2. s[i] < s[j]
        BY <4>1, StrictAt
      <4> QED
        BY <3>1, <4>1, <4>2
    <3>4. j = Len(s) + 1 \/ j \in 1 .. Len(s)
      BY <2>2, LastOrBefore
    <3> QED
      BY <3>2, <3>3, <3>4
  <2>5. Numbers(u) = Numbers(s) \cup {v}
    <3>1. 1 .. Len(s) + 1 = (1 .. Len(s)) \cup {Len(s) + 1}
      BY <2>2
    <3> QED
      BY <3>1, <2>2 DEF Numbers
  <2>6. u # <<>> /\ u[Len(u)] = v
    BY <2>2
  <2> QED
    BY <2>2, <2>4, <2>5, <2>6 DEF u
<1> QED
  BY <1>1, <1>2

LEMMA UniqueStep == LinesInv /\ UniqueInv /\ [Next]_vars => UniqueInv'
<1> SUFFICES ASSUME LinesInv, UniqueInv, [Next]_vars PROVE UniqueInv'
  OBVIOUS
<1>a. total \in Nat /\ lines \in Seq(1 .. total) /\ Len(lines) \in Nat /\ DOMAIN lines = 1 .. Len(lines)
  BY DEF LinesInv
<1>1. ASSUME NEW start \in 0 .. current, NEW count \in 0 .. current, ReadHunk(start, count)
      PROVE  UniqueInv'
  <2>1. UNCHANGED <<total, unique, next>> /\ pc = "read" /\ pc' \in {"read", "error"}
    BY <1>1 DEF ReadHunk
  <2> QED
    BY <2>1 DEF UniqueInv, Strict
<1>2. CASE GitFails
  BY <1>2 DEF GitFails, UniqueInv, Strict
<1>3. CASE EndOfOutput \/ EveryLine
  <2>1. UNCHANGED <<total, unique, next>> /\ pc = "read" /\ pc' \in {"unique", "error"}
    BY <1>3 DEF EndOfOutput, EveryLine
  <2>2. unique = <<>> /\ next = 1
    BY <2>1 DEF UniqueInv
  <2>3. lines' \in Seq(1 .. total)
    BY LinesStep, <2>1 DEF LinesInv
  <2>4. Numbers(unique') = {lines'[i] : i \in 1 .. next' - 1}
    BY <2>1, <2>2 DEF Numbers
  <2>5. next' \in 1 .. Len(lines') + 1
    BY <2>1, <2>2, <2>3
  <2> QED
    BY <2>1, <2>2, <2>4, <2>5 DEF UniqueInv, Strict
<1>4. CASE UniqueRound
  <2> DEFINE v == lines[next]
  <2>1. /\ pc = "unique" /\ pc' = "unique" /\ next' = next + 1 /\ UNCHANGED <<total, lines>>
        /\ unique' = Unique(unique, v) /\ next <= Len(lines)
    BY <1>4 DEF UniqueRound
  <2>2. next \in 1 .. Len(lines) /\ v \in 1 .. total
    BY <2>1, <1>a DEF UniqueInv
  <2>3. unique # <<>> => unique[Len(unique)] <= v
    <3>1. CASE next = 1
      BY <3>1, <2>1 DEF UniqueInv
    <3>2. CASE next # 1
      <4>1. next - 1 \in DOMAIN lines /\ next \in DOMAIN lines /\ next - 1 <= next
        BY <3>2, <2>2, <1>a
      <4>2. lines[next - 1] <= lines[next]
        BY <4>1 DEF LinesInv, InOrder
      <4> QED
        BY <3>2, <4>2, <2>1 DEF UniqueInv
    <3> QED
      BY <3>1, <3>2
  <2> HIDE DEF v
  <2>4. /\ unique' \in Seq(1 .. total) /\ Strict(unique') /\ unique' # <<>> /\ unique'[Len(unique')] = v
        /\ Numbers(unique') = Numbers(unique) \cup {v}
    BY <1>a, <2>1, <2>2, <2>3, UniqueFacts DEF UniqueInv
  <2>5. 1 .. next' - 1 = (1 .. next - 1) \cup {next}
    BY <2>1, <2>2
  <2>6. Numbers(unique') = {lines'[i] : i \in 1 .. next' - 1}
    BY <2>1, <2>4, <2>5 DEF UniqueInv, v
  <2>7. next' \in 1 .. Len(lines') + 1 /\ next' # 1 /\ next' - 1 = next
    BY <2>1, <2>2, <1>a
  <2> QED
    BY <2>1, <2>4, <2>6, <2>7 DEF UniqueInv, v, Strict
<1>5. CASE UniqueEnd
  <2>1. UNCHANGED <<total, lines, unique>> /\ pc = "unique" /\ pc' = "merge" /\ next > Len(lines)
    BY <1>5 DEF UniqueEnd
  <2>2. next - 1 = Len(lines)
    BY <2>1, <1>a DEF UniqueInv
  <2>3. Numbers(unique) = Numbers(lines)
    BY <2>1, <2>2, <1>a DEF UniqueInv, Numbers
  <2> QED
    BY <2>1, <2>3, ZenonT(30) DEF UniqueInv, Strict, Numbers
<1>6. CASE MergeRound \/ MergeEnd
  <2>1. UNCHANGED <<total, lines, unique>> /\ pc = "merge" /\ pc' \in {"merge", "done"}
    BY <1>6 DEF MergeRound, MergeEnd
  <2> QED
    BY <2>1, ZenonT(30) DEF UniqueInv, Strict, Numbers
<1>7. CASE UNCHANGED vars
  BY <1>7, ZenonT(30) DEF vars, git, UniqueInv, Strict, Numbers
<1> QED
  BY <1>1, <1>2, <1>3, <1>4, <1>5, <1>6, <1>7 DEF Next

-----------------------------------------------------------------------------
(* Merging.                                                                *)

Around(i) == ContextRange(total, unique[i], context)

\* What the spans hold is what the context ranges of the first n numbers hold.
HoldsFirst(n) ==
    \A m \in Int : In(spans, m) <=> \E i \in 1 .. n : Around(i)[1] <= m /\ m <= Around(i)[2]

\* The last span ends where the last context range does, and begins no later: so the
\* next one, which begins and ends no earlier, can only touch that span.
MergeInv ==
    /\ spans \in Seq(Nat \X Nat) /\ Apart(spans)
    /\ pc \notin {"merge", "done"} => spans = <<>>
    /\ pc = "merge" =>
          /\ next \in 1 .. Len(unique) + 1
          /\ HoldsFirst(next - 1)
          /\ IF next = 1 THEN spans = <<>>
             ELSE /\ spans # <<>>
                  /\ spans[Len(spans)][1] <= Around(next - 1)[1]
                  /\ spans[Len(spans)][2] = Around(next - 1)[2]
    /\ pc = "done" => HoldsFirst(Len(unique))

LEMMA MergeStep == LinesInv /\ UniqueInv /\ MergeInv /\ [Next]_vars => MergeInv'
<1> SUFFICES ASSUME LinesInv, UniqueInv, MergeInv, [Next]_vars PROVE MergeInv'
  OBVIOUS
<1>a. /\ total \in Nat /\ context \in Nat /\ unique \in Seq(1 .. total)
      /\ Len(unique) \in Nat /\ DOMAIN unique = 1 .. Len(unique)
      /\ \A i \in 1 .. Len(unique) : unique[i] \in 1 .. total
  BY DEF LinesInv, UniqueInv
<1>1. CASE \/ \E start, count \in 0 .. current : ReadHunk(start, count)
           \/ GitFails \/ EndOfOutput \/ EveryLine \/ UniqueRound
  <2>1. UNCHANGED spans /\ pc' \notin {"merge", "done"} /\ pc \notin {"merge", "done"}
    BY <1>1 DEF ReadHunk, GitFails, EndOfOutput, EveryLine, UniqueRound
  <2> QED
    BY <2>1 DEF MergeInv, Apart
<1>2. CASE UniqueEnd
  <2>1. UNCHANGED spans /\ pc = "unique" /\ pc' = "merge" /\ next' = 1 /\ unique' = unique
    BY <1>2 DEF UniqueEnd
  <2>2. spans = <<>>
    BY <2>1 DEF MergeInv
  <2>3. HoldsFirst(next - 1)'
    <3>1. \A m \in Int : ~In(spans', m)
      BY <2>1, <2>2 DEF In
    <3> QED
      BY <3>1, <2>1 DEF HoldsFirst
  <2>4. next' \in 1 .. Len(unique') + 1
    BY <2>1, <1>a
  <2> QED
    BY <2>1, <2>2, <2>3, <2>4 DEF MergeInv, Apart
<1>3. CASE MergeRound
  <2> DEFINE r == Around(next)
  <2>1. /\ pc = "merge" /\ pc' = "merge" /\ next' = next + 1 /\ next <= Len(unique)
        /\ UNCHANGED <<total, context, unique>> /\ spans' = MergeRange(spans, r)
    BY <1>3 DEF MergeRound, Around
  <2>2. next \in 1 .. Len(unique) /\ unique[next] \in 1 .. total
    BY <2>1, <1>a DEF MergeInv
  <2>3. r \in Nat \X Nat /\ r[1] <= r[2]
    <3>1. ContextRange(total, unique[next], context) = r
      BY DEF Around
    <3> HIDE DEF r
    <3>2. r \in Nat \X Nat /\ r[1] <= unique[next] /\ unique[next] <= r[2]
      BY <3>1, <2>2, <1>a, ContextRangeFacts
    <3>3. r[1] \in Int /\ r[2] \in Int /\ unique[next] \in Int
      BY <3>2, <2>2, <1>a
    <3> QED
      BY <3>2, <3>3
  <2>4. spans # <<>> => spans[Len(spans)][1] <= r[1] /\ spans[Len(spans)][2] <= r[2]
    <3>1. CASE next = 1
      BY <3>1, <2>1 DEF MergeInv
    <3>2. CASE next # 1
      <4>1. next - 1 \in DOMAIN unique /\ next \in DOMAIN unique /\ next - 1 < next
        BY <3>2, <2>2, <1>a
      <4>2. unique[next - 1] \in 1 .. total /\ unique[next - 1] < unique[next]
        BY <4>1, <1>a DEF UniqueInv, Strict
      <4>3. /\ Around(next - 1)[1] <= r[1] /\ Around(next - 1)[2] <= r[2]
            /\ Around(next - 1) \in Nat \X Nat
        <5> DEFINE l == unique[next - 1]
                   m == unique[next]
        <5>1. l \in 1 .. total /\ m \in 1 .. total /\ l <= m
          BY <4>2, <2>2, <1>a
        <5>2. Around(next - 1) = ContextRange(total, l, context) /\ r = ContextRange(total, m, context)
          BY DEF Around
        <5> HIDE DEF l, m, r
        <5>3. ContextRange(total, l, context) \in Nat \X Nat
          BY <5>1, <1>a, ContextRangeFacts
        <5>4. /\ ContextRange(total, l, context)[1] <= ContextRange(total, m, context)[1]
              /\ ContextRange(total, l, context)[2] <= ContextRange(total, m, context)[2]
          BY <5>1, <1>a, ContextRangeMonotone
        <5> QED
          BY <5>2, <5>3, <5>4
      <4>4. /\ spans # <<>> /\ spans[Len(spans)][1] <= Around(next - 1)[1]
            /\ spans[Len(spans)][2] = Around(next - 1)[2]
        BY <3>2, <2>1 DEF MergeInv
      <4>5. spans # <<>> => spans[Len(spans)] \in Nat \X Nat
        BY DEF MergeInv
      <4> QED
        BY <2>3, <4>3, <4>4, <4>5
    <3> QED
      BY <3>1, <3>2
  <2> HIDE DEF r
  <2>5. /\ spans' \in Seq(Nat \X Nat) /\ spans' # <<>> /\ Apart(spans')
        /\ spans'[Len(spans')][1] <= r[1] /\ spans'[Len(spans')][2] = r[2]
        /\ \A m \in Int : In(spans', m) <=> (In(spans, m) \/ (r[1] <= m /\ m <= r[2]))
    BY <2>1, <2>3, <2>4, MergeRangeFacts DEF MergeInv
  <2>6. HoldsFirst(next - 1)'
    <3>1. next' - 1 = next /\ 1 .. next = (1 .. next - 1) \cup {next}
      BY <2>1, <2>2
    <3>2. \A i \in 1 .. next : Around(i)' = ContextRange(total, unique[i], context)
      BY <2>1 DEF Around
    <3>3. \A m \in Int : In(spans', m) <=> \E i \in 1 .. next : Around(i)[1] <= m /\ m <= Around(i)[2]
      BY <2>1, <2>5, <3>1 DEF MergeInv, HoldsFirst, r
    <3> QED
      BY <3>1, <3>3, <2>1 DEF HoldsFirst, Around
  <2>7. next' \in 1 .. Len(unique') + 1 /\ next' # 1 /\ next' - 1 = next
    BY <2>1, <2>2, <1>a
  <2>8. /\ spans'[Len(spans')][1] <= (Around(next - 1)[1])'
        /\ spans'[Len(spans')][2] = (Around(next - 1)[2])'
    BY <2>1, <2>5, <2>7 DEF r, Around
  <2> QED
    BY <2>1, <2>5, <2>6, <2>7, <2>8 DEF MergeInv
<1>4. CASE MergeEnd
  <2>1. /\ pc = "merge" /\ pc' = "done" /\ UNCHANGED <<total, context, unique, spans>>
        /\ next > Len(unique)
    BY <1>4 DEF MergeEnd
  <2>2. next - 1 = Len(unique)
    BY <2>1, <1>a DEF MergeInv
  <2>3. HoldsFirst(Len(unique))'
    BY <2>1, <2>2 DEF MergeInv, HoldsFirst, Around, In
  <2> QED
    BY <2>1, <2>3 DEF MergeInv, Apart
<1>5. CASE UNCHANGED vars
  BY <1>5 DEF vars, MergeInv, HoldsFirst, Around, In, Apart
<1> QED
  BY <1>1, <1>2, <1>3, <1>4, <1>5 DEF Next

-----------------------------------------------------------------------------
(* The theorems.                                                           *)

HunksInv ==
    /\ total \in 1 .. MaxLine /\ context \in Contexts
    /\ current \in 0 .. MaxLine /\ edge \in -1 .. MaxLine
    /\ hunks \in Seq(Nat \X Nat)
    /\ next \in Nat
    /\ pc \in {"read", "unique", "merge", "done", "error"}

LEMMA HunksStep == HunksInv /\ [Next]_vars => HunksInv'
<1> SUFFICES ASSUME HunksInv, [Next]_vars PROVE HunksInv'
  OBVIOUS
<1>1. ASSUME NEW start \in 0 .. current, NEW count \in 0 .. current, ReadHunk(start, count)
      PROVE  HunksInv'
  <2>1. /\ UNCHANGED <<total, context, current, next>> /\ hunks' = Append(hunks, <<start, count>>)
        /\ Follows(start, count) /\ edge' = IF count = 0 THEN start ELSE start + count - 1
        /\ pc' \in {"read", "error"}
    BY <1>1 DEF ReadHunk
  <2>2. start \in Nat /\ count \in Nat /\ start <= MaxLine
    BY ChangedRangesAssumption DEF HunksInv
  <2>3. edge' \in -1 .. MaxLine
    BY <2>1, <2>2, ChangedRangesAssumption DEF Follows, HunksInv
  <2>4. hunks' \in Seq(Nat \X Nat)
    BY <2>1, <2>2 DEF HunksInv
  <2> QED
    BY <2>1, <2>3, <2>4 DEF HunksInv
<1>2. CASE GitFails \/ EndOfOutput \/ EveryLine
  BY <1>2 DEF GitFails, EndOfOutput, EveryLine, git, HunksInv
<1>3. CASE UniqueRound \/ UniqueEnd
  BY <1>3 DEF UniqueRound, UniqueEnd, git, HunksInv
<1>4. CASE MergeRound \/ MergeEnd
  BY <1>4 DEF MergeRound, MergeEnd, git, HunksInv
<1>5. CASE UNCHANGED vars
  BY <1>5 DEF vars, git, HunksInv
<1> QED
  BY <1>1, <1>2, <1>3, <1>4, <1>5 DEF Next

RangesInv == HunksInv /\ LinesInv /\ UniqueInv /\ MergeInv

LEMMA RangesAlways == Spec => []RangesInv
<1>1. Init => RangesInv
  <2> SUFFICES ASSUME Init PROVE RangesInv
    OBVIOUS
  <2>1. HunksInv
    BY ChangedRangesAssumption DEF Init, HunksInv
  <2>2. LinesInv
    BY ChangedRangesAssumption DEF Init, LinesInv, InOrder
  <2>3. UniqueInv
    BY DEF Init, UniqueInv, Strict
  <2>4. MergeInv
    BY DEF Init, MergeInv, Apart
  <2> QED
    BY <2>1, <2>2, <2>3, <2>4 DEF RangesInv
<1>2. RangesInv /\ [Next]_vars => RangesInv'
  BY HunksStep, LinesStep, UniqueStep, MergeStep DEF RangesInv
<1> QED
  BY <1>1, <1>2, PTL DEF Spec

\* For a source of any length, any hunks and any limit, the types hold.
THEOREM RangesTypes == Spec => []TypeOK
<1>1. RangesInv => TypeOK
  <2> SUFFICES ASSUME RangesInv PROVE TypeOK
    OBVIOUS
  <2>1. lines \in Seq(Nat) /\ unique \in Seq(Nat)
    <3>1. 1 .. total \subseteq Nat
      BY DEF RangesInv, LinesInv
    <3> QED
      BY <3>1 DEF RangesInv, LinesInv, UniqueInv
  <2> QED
    BY <2>1 DEF RangesInv, HunksInv, MergeInv, TypeOK
<1> QED
  BY <1>1, RangesAlways, PTL

\* Whatever length the file has when git compares it, every number collected is an
\* index into the source that was read, and there are no more than the limit.
THEOREM RangesCollected == Spec => [](LinesInsideSource /\ ExpansionBounded)
<1>1. RangesInv => LinesInsideSource /\ ExpansionBounded
  BY DEF RangesInv, LinesInv, LinesInsideSource, ExpansionBounded, Numbers
<1> QED
  BY <1>1, RangesAlways, PTL

LEMMA UniqueIsLines == RangesInv => ReportedOnce
  BY DEF RangesInv, UniqueInv, ReportedOnce

\* Every number collected is reported once, in order.
THEOREM RangesReported == Spec => []ReportedOnce
  BY UniqueIsLines, RangesAlways, PTL

\* The spans hold what a context range holds, and that is inside the source.
LEMMA SpansHoldSource ==
    ASSUME RangesInv, NEW n \in Int, In(spans, n)
    PROVE  n \in 1 .. total
<1>1. total \in Nat /\ context \in Nat /\ unique \in Seq(1 .. total)
  BY DEF RangesInv, LinesInv, UniqueInv
<1>2. PICK k \in Nat : HoldsFirst(k) /\ k <= Len(unique)
  <2>1. spans # <<>>
    BY DEF In
  <2>2. CASE pc = "done"
    BY <2>2, <1>1 DEF RangesInv, MergeInv
  <2>3. CASE pc = "merge"
    <3>1. next - 1 \in Nat /\ next - 1 <= Len(unique) /\ HoldsFirst(next - 1)
      BY <2>3, <1>1 DEF RangesInv, MergeInv
    <3> QED
      BY <3>1
  <2> QED
    BY <2>1, <2>2, <2>3 DEF RangesInv, MergeInv
<1>3. PICK i \in 1 .. k : Around(i)[1] <= n /\ n <= Around(i)[2]
  BY <1>2 DEF HoldsFirst
<1>4. unique[i] \in 1 .. total
  BY <1>1, <1>2
<1> QED
  BY <1>1, <1>3, <1>4, ContextRangeFacts DEF Around

\* The ranges are inside the source, in order, and at least one line apart.
THEOREM RangesApart == Spec => []SpansApart
<1>1. RangesInv => SpansApart
  <2> SUFFICES ASSUME RangesInv PROVE SpansApart
    OBVIOUS
  <2>1. /\ spans \in Seq(Nat \X Nat) /\ Len(spans) \in Nat /\ DOMAIN spans = 1 .. Len(spans)
        /\ Apart(spans) /\ total \in Nat
    BY DEF RangesInv, MergeInv, LinesInv
  <2>2. ASSUME NEW k \in 1 .. Len(spans)
        PROVE  1 <= spans[k][1] /\ spans[k][1] <= spans[k][2] /\ spans[k][2] <= total
    <3>1. spans[k][1] \in Int /\ spans[k][2] \in Int /\ spans[k][1] <= spans[k][2]
      BY <2>1, <2>2 DEF Apart
    <3>2. In(spans, spans[k][1]) /\ In(spans, spans[k][2])
      BY <2>2, <3>1 DEF In
    <3>3. spans[k][1] \in 1 .. total /\ spans[k][2] \in 1 .. total
      BY <3>1, <3>2, SpansHoldSource
    <3> QED
      BY <2>1, <3>1, <3>3
  <2>3. ASSUME NEW k \in 1 .. Len(spans), k + 1 \in 1 .. Len(spans)
        PROVE  spans[k][2] + 1 < spans[k + 1][1]
    <3>1. k \in 1 .. Len(spans) - 1
      BY <2>1, <2>3
    <3> QED
      BY <2>1, <3>1 DEF Apart
  <2> QED
    BY <2>1, <2>2, <2>3 DEF SpansApart
<1> QED
  BY <1>1, RangesAlways, PTL

\* The merge computes the reference: the ranges hold exactly the lines that are within
\* the context of a reported one.
THEOREM RangesCover == Spec => []SpansCover
<1>1. RangesInv => SpansCover
  <2> SUFFICES ASSUME RangesInv, pc = "done"
               PROVE  InSpans = {n \in 1 .. total : \E c \in Numbers(unique) :
                                    n - c <= context /\ c - n <= context}
    BY UniqueIsLines DEF SpansCover, ReportedOnce
  <2>1. /\ spans \in Seq(Nat \X Nat) /\ DOMAIN spans = 1 .. Len(spans) /\ HoldsFirst(Len(unique))
        /\ total \in Nat /\ context \in Nat /\ unique \in Seq(1 .. total)
        /\ DOMAIN unique = 1 .. Len(unique)
        /\ \A i \in 1 .. Len(unique) : unique[i] \in 1 .. total
    BY DEF RangesInv, MergeInv, LinesInv, UniqueInv
  <2>2. \A n : n \in InSpans <=> n \in Int /\ In(spans, n)
    <3>1. \A k \in 1 .. Len(spans) : spans[k][1] \in Int /\ spans[k][2] \in Int
      BY <2>1
    <3> QED
      <4>1. \A n : n \in InSpans <=> \E k \in 1 .. Len(spans) : n \in spans[k][1] .. spans[k][2]
        BY <2>1 DEF InSpans, Lines
      <4>2. \A n : \A k \in 1 .. Len(spans) :
               n \in spans[k][1] .. spans[k][2] <=> n \in Int /\ spans[k][1] <= n /\ n <= spans[k][2]
        BY <3>1
      <4> QED
        BY <4>1, <4>2 DEF In
  <2>3. \A n \in Int : In(spans, n) <=>
            \E i \in 1 .. Len(unique) :
                n \in 1 .. total /\ n - unique[i] <= context /\ unique[i] - n <= context
    BY <2>1, ContextRangeFacts DEF HoldsFirst, Around
  <2> QED
    <3> DEFINE Near(n) == \E c \in Numbers(unique) : n - c <= context /\ c - n <= context
    <3>1. Numbers(unique) = {unique[i] : i \in 1 .. Len(unique)}
      BY <2>1 DEF Numbers
    <3>2. \A n : n \in InSpans <=> n \in 1 .. total /\ Near(n)
      <4>1. \A n \in Int : In(spans, n) <=> n \in 1 .. total /\ Near(n)
        BY <2>3, <3>1
      <4>2. \A n \in 1 .. total : n \in Int
        BY <2>1
      <4> HIDE DEF Near
      <4> QED
        BY <2>2, <4>1, <4>2
    <3> HIDE DEF Near
    <3>3. InSpans = {n \in 1 .. total : Near(n)}
      BY <3>2
    <3> QED
      BY <3>3 DEF Near
<1> QED
  BY <1>1, RangesAlways, PTL

\* For every length of source and file, every list of hunks and every context, the ranges
\* are the one list of separate ranges that holds the lines near a changed one.
THEOREM RangesExact == Spec => []SpansExact
<1>1. SpansApart /\ SpansCover => SpansExact
  BY DEF SpansExact
<1> QED
  BY <1>1, RangesApart, RangesCover, PTL
-----------------------------------------------------------------------------
(* A set of lines has one list of ranges that are apart.                   *)

LEMMA Least ==
    ASSUME NEW T, T \subseteq Nat, T # {}
    PROVE  \E x \in T : \A y \in T : ~(y < x)
<1> DEFINE R == {s \in Nat \X Nat : s[1] < s[2]}
<1>1. IsWellFoundedOn(R, Nat)
  BY NatLessThanWellFounded DEF OpToRel
<1>2. \E x \in T : \A y \in T : ~(<<y, x>> \in R)
  BY <1>1, WFMin, Zenon
<1>3. ASSUME NEW x \in T, NEW y \in T, y < x PROVE <<y, x>> \in R
  BY <1>3
<1> QED
  BY <1>2, <1>3, Zenon

Ranges(s) == s \in Seq(Nat \X Nat)

LEMMA PairsOf ==
    ASSUME NEW s, Ranges(s)
    PROVE  /\ Len(s) \in Nat
           /\ \A k \in 1 .. Len(s) : s[k][1] \in Nat /\ s[k][2] \in Nat
           /\ \A k \in 1 .. Len(s) : s[k] = <<s[k][1], s[k][2]>>
           /\ s = [k \in 1 .. Len(s) |-> s[k]]
BY DEF Ranges

LEMMA Beyond ==
    \A w, x, y, z \in Nat :
        /\ w + 1 < x /\ x <= y /\ y + 1 < z => w + 1 < z
        /\ w <= x /\ x + 1 < y /\ y <= z => w <= z
OBVIOUS

\* Of two ranges that are not next to each other, the earlier one also ends before
\* the later one.
LEMMA ApartOrder ==
    ASSUME NEW s, Ranges(s), Apart(s),
           NEW j \in 1 .. Len(s), NEW i \in 1 .. Len(s), j < i
    PROVE  s[j][2] + 1 < s[i][1]
<1> DEFINE T == {k \in j + 1 .. Len(s) : ~(s[j][2] + 1 < s[k][1])}
<1>0. /\ Len(s) \in Nat /\ T \subseteq Nat /\ i \in j + 1 .. Len(s)
      /\ \A k \in 1 .. Len(s) : s[k][1] \in Nat /\ s[k][2] \in Nat /\ s[k][1] <= s[k][2]
  <2>1. Len(s) \in Nat /\ \A k \in 1 .. Len(s) : s[k][1] \in Nat /\ s[k][2] \in Nat
    BY PairsOf
  <2>2. \A k \in 1 .. Len(s) : s[k][1] <= s[k][2]
    BY DEF Apart
  <2>3. T \subseteq Nat /\ i \in j + 1 .. Len(s)
    BY <2>1
  <2> HIDE DEF T
  <2> QED
    BY <2>1, <2>2, <2>3
<1> SUFFICES ASSUME T # {} PROVE FALSE
  BY <1>0
<1>1. PICK k \in T : \A y \in T : ~(y < k)
  <2> HIDE DEF T
  <2> QED
    BY <1>0, Least
<1>2. k \in j + 1 .. Len(s) /\ ~(s[j][2] + 1 < s[k][1])
  OBVIOUS
<1>3. /\ k - 1 \in 1 .. Len(s) - 1 /\ k - 1 + 1 = k /\ k - 1 < k
      /\ k \in 1 .. Len(s) /\ k - 1 \in 1 .. Len(s)
  BY <1>0, <1>2
<1>4. s[k - 1][2] + 1 < s[k][1]
  BY <1>3 DEF Apart
<1>5. CASE k = j + 1
  <2>1. k - 1 = j
    BY <1>5
  <2> QED
    BY <1>2, <1>4, <2>1
<1>6. CASE k # j + 1
  <2>1. k - 1 \in j + 1 .. Len(s)
    <3>1. j \in Int /\ k \in Int /\ Len(s) \in Int /\ j + 1 <= k /\ k <= Len(s)
      BY <1>0, <1>2
    <3> HIDE DEF T
    <3> QED
      BY <1>6, <3>1
  <2>2. k - 1 \notin T
    <3> HIDE DEF T
    <3> QED
      BY <1>1, <1>3
  <2>3. s[j][2] + 1 < s[k - 1][1]
    BY <2>1, <2>2
  <2>4. /\ s[j][2] \in Nat /\ s[k - 1][1] \in Nat /\ s[k - 1][2] \in Nat /\ s[k][1] \in Nat
        /\ s[k - 1][1] <= s[k - 1][2]
    BY <1>0, <1>3
  <2> HIDE DEF T
  <2> QED
    BY <1>2, <1>4, <2>3, <2>4, Beyond, Zenon
<1> QED
  BY <1>5, <1>6

Held(a, b)      == \A n \in Int : In(a, n) => In(b, n)
Alike(a, b, i)  == i \in 1 .. Len(a) /\ i \in 1 .. Len(b) /\ a[i] = b[i]

\* Where two lists begin alike and one still goes on, a list that holds its lines goes
\* on too, and no later.
LEMMA StartNoLater ==
    ASSUME NEW a, Ranges(a), Apart(a), NEW b, Ranges(b), Apart(b), Held(a, b),
           NEW i \in 1 .. Len(a), \A j \in 1 .. i - 1 : Alike(a, b, j)
    PROVE  i \in 1 .. Len(b) /\ b[i][1] <= a[i][1]
<1>0. /\ Len(a) \in Nat /\ Len(b) \in Nat /\ a[i][1] \in Nat /\ a[i][1] <= a[i][2]
      /\ \A k \in 1 .. Len(b) : b[k][1] \in Nat /\ b[k][2] \in Nat /\ b[k][1] <= b[k][2]
  <2>1. Len(a) \in Nat /\ a[i][1] \in Nat
    BY PairsOf
  <2>2. Len(b) \in Nat /\ \A k \in 1 .. Len(b) : b[k][1] \in Nat /\ b[k][2] \in Nat
    BY PairsOf
  <2> QED
    BY <2>1, <2>2 DEF Apart
<1>1. In(b, a[i][1])
  <2>1. a[i][1] \in Int /\ In(a, a[i][1])
    BY <1>0 DEF In
  <2> QED
    BY <2>1 DEF Held
<1>2. PICK k \in 1 .. Len(b) : b[k][1] <= a[i][1] /\ a[i][1] <= b[k][2]
  BY <1>1 DEF In
<1>3. CASE k < i
  <2>1. k \in 1 .. i - 1
    BY <1>0, <1>3
  <2>2. k \in 1 .. Len(a) /\ a[k] = b[k]
    BY <2>1 DEF Alike
  <2>3. a[k][2] + 1 < a[i][1]
    BY <1>3, <2>2, ApartOrder
  <2>4. b[k][2] + 1 < a[i][1] /\ b[k][2] \in Nat
    BY <1>0, <2>2, <2>3
  <2> QED
    BY <1>0, <1>2, <2>4
<1>4. CASE k >= i
  <2>1. i \in 1 .. Len(b)
    BY <1>0, <1>4
  <2>2. CASE k = i
    BY <1>2, <2>1, <2>2
  <2>3. CASE i < k
    <3>1. b[i][2] + 1 < b[k][1]
      BY <2>1, <2>3, ApartOrder
    <3>2. b[i][1] \in Nat /\ b[i][2] \in Nat /\ b[i][1] <= b[i][2] /\ b[k][1] \in Nat
      BY <1>0, <2>1
    <3>3. b[i][1] <= a[i][1]
      BY <1>0, <1>2, <3>1, <3>2, Beyond, Zenon
    <3> QED
      BY <2>1, <3>3
  <2>4. i \in Int /\ k \in Int
    BY <1>0
  <2> QED
    BY <1>4, <2>2, <2>3, <2>4
<1>5. i \in Int /\ k \in Int
  BY <1>0
<1> QED
  BY <1>3, <1>4, <1>5

\* Ranges that begin alike: one that holds no other line ends no later.
LEMMA EndNoLater ==
    ASSUME NEW a, Ranges(a), Apart(a), NEW b, Ranges(b), Apart(b), Held(b, a),
           NEW i \in 1 .. Len(a), i \in 1 .. Len(b), a[i][1] = b[i][1]
    PROVE  b[i][2] <= a[i][2]
<1>0. /\ Len(a) \in Nat /\ Len(b) \in Nat
      /\ \A k \in 1 .. Len(a) : a[k][1] \in Nat /\ a[k][2] \in Nat /\ a[k][1] <= a[k][2]
      /\ b[i][1] \in Nat /\ b[i][2] \in Nat /\ b[i][1] <= b[i][2]
  <2>1. Len(a) \in Nat /\ \A k \in 1 .. Len(a) : a[k][1] \in Nat /\ a[k][2] \in Nat
    BY PairsOf
  <2>2. Len(b) \in Nat /\ b[i][1] \in Nat /\ b[i][2] \in Nat
    BY PairsOf
  <2> QED
    BY <2>1, <2>2 DEF Apart
<1> SUFFICES ASSUME a[i][2] < b[i][2] PROVE FALSE
  BY <1>0
<1>1. In(b, a[i][2] + 1) /\ a[i][2] + 1 \in Int
  <2>1. b[i][1] <= a[i][2] + 1 /\ a[i][2] + 1 <= b[i][2] /\ a[i][2] + 1 \in Int
    <3>1. a[i][1] \in Nat /\ a[i][2] \in Nat /\ a[i][1] <= a[i][2]
      BY <1>0
    <3> QED
      BY <1>0, <3>1
  <2> QED
    BY <2>1 DEF In
<1>2. In(a, a[i][2] + 1)
  BY <1>1 DEF Held
<1>3. PICK k \in 1 .. Len(a) : a[k][1] <= a[i][2] + 1 /\ a[i][2] + 1 <= a[k][2]
  BY <1>2 DEF In
<1>4. CASE k < i
  <2>1. a[k][2] + 1 < a[i][1]
    BY <1>4, ApartOrder
  <2>2. a[k][2] \in Nat /\ a[i][1] \in Nat /\ a[i][2] \in Nat /\ a[i][1] <= a[i][2]
    BY <1>0
  <2> QED
    BY <1>3, <2>1, <2>2, SMTT(30)
<1>5. CASE k = i
  BY <1>0, <1>3, <1>5
<1>6. CASE i < k
  <2>1. a[i][2] + 1 < a[k][1]
    BY <1>6, ApartOrder
  <2>2. a[k][1] \in Nat /\ a[i][2] \in Nat
    BY <1>0
  <2> QED
    BY <1>3, <2>1, <2>2
<1>7. i \in Int /\ k \in Int
  BY <1>0
<1> QED
  BY <1>4, <1>5, <1>6, <1>7

\* So lists that hold the same lines are the same list.
LEMMA OneListOfRanges ==
    ASSUME NEW a, Ranges(a), Apart(a), NEW b, Ranges(b), Apart(b),
           Held(a, b), Held(b, a)
    PROVE  a = b
<1> DEFINE T == {i \in Nat : (i \in 1 .. Len(a) \/ i \in 1 .. Len(b)) /\ ~Alike(a, b, i)}
<1>0. Len(a) \in Nat /\ Len(b) \in Nat /\ T \subseteq Nat
  BY PairsOf
<1>1. CASE T = {}
  <2>1. \A i \in Nat : i \in 1 .. Len(a) \/ i \in 1 .. Len(b) => Alike(a, b, i)
    BY <1>1
  <2>2. \A i \in 1 .. Len(a) : i \in Nat /\ i \in 1 .. Len(b) /\ a[i] = b[i]
    BY <1>0, <2>1 DEF Alike
  <2>3. \A i \in 1 .. Len(b) : i \in Nat /\ i \in 1 .. Len(a)
    BY <1>0, <2>1 DEF Alike
  <2>4. Len(a) = Len(b)
    <3> HIDE DEF T
    <3>1. CASE Len(a) < Len(b)
      <4>1. Len(b) \in 1 .. Len(b)
        BY <1>0, <3>1
      <4>2. Len(b) \in 1 .. Len(a)
        BY <2>3, <4>1
      <4> QED
        BY <1>0, <3>1, <4>2
    <3>2. CASE Len(b) < Len(a)
      <4>1. Len(a) \in 1 .. Len(a)
        BY <1>0, <3>2
      <4>2. Len(a) \in 1 .. Len(b)
        BY <2>2, <4>1
      <4> QED
        BY <1>0, <3>2, <4>2
    <3> QED
      BY <1>0, <3>1, <3>2
  <2>5. /\ a = [k \in 1 .. Len(a) |-> a[k]] /\ b = [k \in 1 .. Len(b) |-> b[k]]
    BY PairsOf
  <2>6. [k \in 1 .. Len(a) |-> a[k]] = [k \in 1 .. Len(a) |-> b[k]]
    <3> HIDE DEF T
    <3> QED
      BY <2>2
  <2> QED
    BY <2>4, <2>5, <2>6, Zenon
<1>2. CASE T # {}
  <2>1. PICK i \in T : \A y \in T : ~(y < i)
    <3> HIDE DEF T
    <3> QED
      BY <1>0, <1>2, Least
  <2>2. i \in Nat /\ (i \in 1 .. Len(a) \/ i \in 1 .. Len(b)) /\ ~Alike(a, b, i)
    OBVIOUS
  <2>3. ASSUME NEW j \in 1 .. i - 1 PROVE Alike(a, b, j) /\ Alike(b, a, j)
    <3>1. j \in Nat /\ j < i /\ (j \in 1 .. Len(a) \/ j \in 1 .. Len(b))
      BY <1>0, <2>2, <2>3
    <3>2. j \notin T
      <4> HIDE DEF T
      <4> QED
        BY <2>1, <3>1
    <3>3. Alike(a, b, j)
      BY <3>1, <3>2
    <3> QED
      BY <3>3 DEF Alike
  <2> HIDE DEF T
  <2>4. i \in 1 .. Len(a) => i \in 1 .. Len(b)
    BY <2>3, StartNoLater
  <2>5. i \in 1 .. Len(b) => i \in 1 .. Len(a)
    BY <2>3, StartNoLater
  <2>6. i \in 1 .. Len(a) /\ i \in 1 .. Len(b)
    BY <2>2, <2>4, <2>5
  <2>7. b[i][1] <= a[i][1]
    BY <2>3, <2>6, StartNoLater
  <2>8. a[i][1] <= b[i][1]
    BY <2>3, <2>6, StartNoLater
  <2>9. /\ a[i] = <<a[i][1], a[i][2]>> /\ a[i][1] \in Nat /\ a[i][2] \in Nat
        /\ b[i] = <<b[i][1], b[i][2]>> /\ b[i][1] \in Nat /\ b[i][2] \in Nat
    BY <2>6, PairsOf
  <2>10. a[i][1] = b[i][1]
    BY <2>7, <2>8, <2>9
  <2>11. b[i][2] <= a[i][2] /\ a[i][2] <= b[i][2]
    BY <2>6, <2>10, EndNoLater
  <2>12. a[i] = b[i]
    <3>1. a[i][2] = b[i][2]
      BY <2>9, <2>11
    <3> QED
      BY <2>9, <2>10, <3>1, Zenon
  <2> QED
    BY <2>2, <2>6, <2>12 DEF Alike
<1> QED
  BY <1>1, <1>2

-----------------------------------------------------------------------------
(* The strict reader merges as the streaming reader does.                  *)

\* Spans in order of their starts and of their ends.
InTurn(list) ==
    /\ \A k \in 1 .. Len(list) : list[k][1] <= list[k][2]
    /\ \A k \in 1 .. Len(list) - 1 :
          list[k][1] <= list[k + 1][1] /\ list[k][2] <= list[k + 1][2]

Rounds(f, list, m) ==
    \A i \in 0 .. m : f[i] = IF i = 0 THEN <<>> ELSE MergeRange(f[i - 1], list[i])
RoundsOf(f, list) ==
    f = [i \in 0 .. Len(list) |-> IF i = 0 THEN <<>> ELSE MergeRange(f[i - 1], list[i])]

\* The rounds of the merge exist, and the last one is its result.
LEMMA RoundsTo ==
    ASSUME NEW list, NEW n \in Nat
    PROVE  \E f : f = [i \in 0 .. n |-> IF i = 0 THEN <<>> ELSE MergeRange(f[i - 1], list[i])]
<1> DEFINE Is(f, m) == f = [i \in 0 .. m |-> IF i = 0 THEN <<>> ELSE MergeRange(f[i - 1], list[i])]
           T == {m \in Nat : ~\E f : Is(f, m)}
<1>1. CASE T = {}
  BY <1>1
<1>2. CASE T # {}
  <2>1. PICK m \in T : \A y \in T : ~(y < m)
    BY <1>2, Least
  <2>2. CASE m = 0
    <3> DEFINE g == [i \in 0 .. 0 |-> <<>>]
    <3>1. Is(g, 0)
      OBVIOUS
    <3> QED
      BY <2>1, <2>2, <3>1
  <2>3. CASE m # 0
    <3>1. m \in Nat /\ m - 1 \in Nat /\ m - 1 < m /\ m - 1 \notin T
      <4>1. m \in Nat
        BY <2>1
      <4>2. m - 1 \in Nat /\ m - 1 < m
        BY <4>1, <2>3
      <4> HIDE DEF T
      <4> QED
        BY <2>1, <4>1, <4>2
    <3>2. PICK f : Is(f, m - 1)
      BY <3>1
    <3> DEFINE g == [i \in 0 .. m |-> IF i = m THEN MergeRange(f[m - 1], list[m]) ELSE f[i]]
               h == [i \in 0 .. m |-> IF i = 0 THEN <<>> ELSE MergeRange(g[i - 1], list[i])]
    <3>3. ASSUME NEW i \in 0 .. m PROVE g[i] = h[i]
      <4>1. CASE i = m
        BY <3>1, <4>1, <2>3
      <4>2. CASE i # m
        <5>1. i \in 0 .. m - 1 /\ (i # 0 => i - 1 \in 0 .. m /\ i - 1 # m)
          BY <3>1, <4>2
        <5>2. g[i] = f[i] /\ (i # 0 => g[i - 1] = f[i - 1])
          BY <4>2, <5>1
        <5>3. f[i] = IF i = 0 THEN <<>> ELSE MergeRange(f[i - 1], list[i])
          BY <3>2, <5>1
        <5>4. h[i] = IF i = 0 THEN <<>> ELSE MergeRange(g[i - 1], list[i])
          OBVIOUS
        <5> QED
          BY <5>2, <5>3, <5>4, Zenon
      <4> QED
        BY <4>1, <4>2
    <3>4. g = h
      BY <3>3
    <3>5. Is(g, m)
      BY <3>4
    <3> HIDE DEF g, h
    <3> QED
      BY <2>1, <3>5
  <2> QED
    BY <2>2, <2>3
<1> QED
  BY <1>1, <1>2

LEMMA MergedByRounds ==
    ASSUME NEW list PROVE MergedUpTo(list) = (CHOOSE f : RoundsOf(f, list))[Len(list)]
BY DEF MergedUpTo, RoundsOf

LEMMA MergedRounds ==
    ASSUME NEW list, Len(list) \in Nat
    PROVE  \E f : MergedUpTo(list) = f[Len(list)] /\ Rounds(f, list, Len(list))
<1> DEFINE f == CHOOSE f : RoundsOf(f, list)
<1>1. RoundsOf(f, list)
  BY RoundsTo DEF RoundsOf
<1>2. MergedUpTo(list) = f[Len(list)]
  BY MergedByRounds
<1> HIDE DEF f
<1>3. ASSUME NEW i \in 0 .. Len(list)
      PROVE  f[i] = IF i = 0 THEN <<>> ELSE MergeRange(f[i - 1], list[i])
  BY <1>1 DEF RoundsOf
<1> QED
  BY <1>2, <1>3 DEF Rounds

\* After i rounds the spans are apart, hold what the first i spans of the list hold, and
\* end where the i-th does.
Merged(m, list, i) ==
    /\ m \in Seq(Nat \X Nat) /\ Apart(m)
    /\ \A n \in Int : In(m, n) <=> \E k \in 1 .. i : list[k][1] <= n /\ n <= list[k][2]
    /\ IF i = 0 THEN m = <<>>
       ELSE m # <<>> /\ m[Len(m)][1] <= list[i][1] /\ m[Len(m)][2] = list[i][2]

LEMMA MergedFacts ==
    ASSUME NEW list \in Seq(Nat \X Nat), InTurn(list)
    PROVE  Merged(MergedUpTo(list), list, Len(list))
<1>0. Len(list) \in Nat
  OBVIOUS
<1>1. PICK f : MergedUpTo(list) = f[Len(list)] /\ Rounds(f, list, Len(list))
  BY <1>0, MergedRounds
<1> DEFINE T == {i \in 0 .. Len(list) : ~Merged(f[i], list, i)}
<1>2. T \subseteq Nat /\ Len(list) \in 0 .. Len(list)
  BY <1>0
<1>3. CASE T = {}
  BY <1>1, <1>2, <1>3
<1>4. CASE T # {}
  <2>1. PICK i \in T : \A y \in T : ~(y < i)
    <3> HIDE DEF T
    <3> QED
      BY <1>2, <1>4, Least
  <2>2. i \in 0 .. Len(list) /\ ~Merged(f[i], list, i)
    OBVIOUS
  <2>3. CASE i = 0
    <3>1. f[i] = <<>>
      BY <1>1, <2>2, <2>3 DEF Rounds
    <3> QED
      BY <2>2, <2>3, <3>1 DEF Merged, Apart, In
  <2>4. CASE i # 0
    <3>1. i \in 1 .. Len(list) /\ i - 1 \in 0 .. Len(list) /\ i - 1 < i
      BY <1>0, <2>2, <2>4
    <3>2. i - 1 \notin T
      <4> HIDE DEF T
      <4> QED
        BY <2>1, <3>1
    <3>3. Merged(f[i - 1], list, i - 1)
      BY <3>1, <3>2
    <3> DEFINE s == f[i - 1]
               r == list[i]
    <3>4. f[i] = MergeRange(s, r)
      BY <1>1, <2>2, <2>4 DEF Rounds
    <3>5. r \in Nat \X Nat /\ r[1] <= r[2]
      BY <3>1 DEF InTurn
    <3>6. s # <<>> => s[Len(s)][1] <= r[1] /\ s[Len(s)][2] <= r[2]
      <4>1. CASE i = 1
        BY <3>3, <4>1 DEF Merged
      <4>2. CASE i # 1
        <5>1. i - 1 \in 1 .. Len(list) - 1 /\ i - 1 \in 1 .. Len(list) /\ i - 1 + 1 = i /\ i - 1 # 0
          BY <3>1, <4>2, <1>0
        <5>2. list[i - 1][1] <= r[1] /\ list[i - 1][2] <= r[2] /\ list[i - 1] \in Nat \X Nat
          BY <5>1, SMTT(30) DEF InTurn
        <5>3. /\ s \in Seq(Nat \X Nat)
              /\ s # <<>> /\ s[Len(s)][1] <= list[i - 1][1] /\ s[Len(s)][2] = list[i - 1][2]
          BY <3>3, <5>1 DEF Merged
        <5>4. s[Len(s)][1] \in Nat /\ s[Len(s)][2] \in Nat
          <6>1. Len(s) \in 1 .. Len(s)
            BY <5>3
          <6>2. Ranges(s)
            BY <5>3 DEF Ranges
          <6> HIDE DEF s, T
          <6> QED
            BY <6>1, <6>2, PairsOf
        <5>5. /\ r[1] \in Nat /\ r[2] \in Nat
              /\ list[i - 1][1] \in Nat /\ list[i - 1][2] \in Nat
          BY <3>5, <5>2
        <5> HIDE DEF s, r, T
        <5> QED
          BY <5>2, <5>3, <5>4, <5>5, SMTT(30)
      <4> QED
        BY <4>1, <4>2
    <3>7. s \in Seq(Nat \X Nat) /\ Apart(s)
      BY <3>3 DEF Merged
    <3> DEFINE Earlier(n) == \E k \in 1 .. i - 1 : list[k][1] <= n /\ n <= list[k][2]
    <3>8. \A n \in Int : In(s, n) <=> Earlier(n)
      BY <3>3 DEF Merged
    <3> HIDE DEF s, r
    <3> DEFINE m == MergeRange(s, r)
    <3>9. /\ m \in Seq(Nat \X Nat) /\ m # <<>> /\ Apart(m)
          /\ m[Len(m)][1] <= r[1] /\ m[Len(m)][2] = r[2]
          /\ \A n \in Int : In(m, n) <=> (In(s, n) \/ (r[1] <= n /\ n <= r[2]))
      BY <3>5, <3>6, <3>7, MergeRangeFacts
    <3> HIDE DEF m
    <3>10. \A n \in Int : In(m, n) <=> \E k \in 1 .. i : list[k][1] <= n /\ n <= list[k][2]
      <4>1. 1 .. i = (1 .. i - 1) \cup {i}
        BY <3>1
      <4>2. \A n \in Int : (\E k \in 1 .. i : list[k][1] <= n /\ n <= list[k][2])
                              <=> (Earlier(n) \/ (r[1] <= n /\ n <= r[2]))
        BY <4>1 DEF r
      <4> HIDE DEF Earlier
      <4> QED
        BY <3>8, <3>9, <4>2
    <3>11. f[i] = m
      BY <3>4 DEF m
    <3> QED
      BY <2>2, <2>4, <3>9, <3>10, <3>11 DEF Merged, r
  <2> QED
    BY <2>3, <2>4
<1> QED
  BY <1>3, <1>4

-----------------------------------------------------------------------------
(* The numbers that are collected are the lines of the hunks.              *)

SpanOf(k) == ContractSpan(hunks[k])

\* A hunk begins no earlier than the one before it ends; two deletions may share a line.
HunkSpansInOrder ==
    /\ \A k \in 1 .. Len(hunks) : 1 <= SpanOf(k)[1] /\ SpanOf(k)[1] <= SpanOf(k)[2]
    /\ \A k \in 1 .. Len(hunks) - 1 : SpanOf(k)[2] <= SpanOf(k + 1)[1]
    /\ hunks # <<>> => SpanOf(Len(hunks))[2] <= 1 \/ SpanOf(Len(hunks))[2] <= edge

\* What the strict reader makes of a header, the streaming reader collects: as long as
\* the file has the length of the source, nothing is clamped.
LinesOfHunks ==
    current = total /\ pc # "error" /\ (hunks # <<>> \/ pc = "read") =>
        \A n \in Int : (\E i \in 1 .. Len(lines) : lines[i] = n)
                         <=> \E k \in 1 .. Len(hunks) : SpanOf(k)[1] <= n /\ n <= SpanOf(k)[2]

ReadersInv == HunkSpansInOrder /\ LinesOfHunks

LEMMA MoreNumbers ==
    ASSUME NEW s \in Seq(Nat), NEW t \in Seq(Nat)
    PROVE  /\ Len(s) \in Nat /\ Len(t) \in Nat /\ Len(s \o t) = Len(s) + Len(t)
           /\ \A i \in 1 .. Len(s) : (s \o t)[i] = s[i]
           /\ \A i \in Len(s) + 1 .. Len(s) + Len(t) : (s \o t)[i] = t[i - Len(s)]
OBVIOUS

LEMMA ContractSpanFacts ==
    ASSUME NEW start \in Nat, NEW count \in Nat, count = 0 \/ start >= 1
    PROVE  LET r == ContractSpan(<<start, count>>) IN
           /\ r = <<r[1], r[2]>> /\ r[1] \in Nat /\ r[2] \in Nat /\ 1 <= r[1] /\ r[1] <= r[2]
           /\ start <= r[1]
           /\ r[2] <= 1 \/ r[2] <= (IF count = 0 THEN start ELSE start + count - 1)
           /\ \A maximum \in Nat :
                 /\ maximum >= 1 /\ start <= maximum
                 /\ count = 0 \/ start + count - 1 <= maximum
                 => HunkRange(start, count, maximum) = r
<1>1. CASE count = 0
  BY <1>1 DEF ContractSpan, HunkRange, Lesser, Greater
<1>2. CASE count # 0
  BY <1>2 DEF ContractSpan, HunkRange, Lesser, Greater
<1> QED
  BY <1>1, <1>2

LEMMA ReadersReadHunk ==
    ASSUME HunksInv, LinesInv, ReadersInv,
           NEW start \in 0 .. current, NEW count \in 0 .. current, ReadHunk(start, count)
    PROVE  ReadersInv'
<1> DEFINE c == ContractSpan(<<start, count>>)
           last == IF count = 0 THEN start ELSE start + count - 1
           r == HunkRange(start, count, total)
           more == IntegerRange(r[1], r[2])
<1>1. /\ start \in Nat /\ count \in Nat /\ current \in Nat /\ total \in Nat /\ total >= 1
      /\ edge \in Int /\ edge >= -1
  BY DEF LinesInv
<1>2. /\ pc = "read" /\ UNCHANGED <<total, current>> /\ Follows(start, count)
      /\ hunks' = Append(hunks, <<start, count>>) /\ edge' = last
  BY DEF ReadHunk
<1>3. /\ start > edge /\ start <= current /\ (count = 0 \/ start >= 1)
      /\ (count = 0 \/ start + count - 1 <= current)
  BY <1>1, <1>2 DEF Follows
<1>4. /\ c = <<c[1], c[2]>> /\ c[1] \in Nat /\ c[2] \in Nat /\ 1 <= c[1] /\ c[1] <= c[2]
      /\ start <= c[1] /\ (c[2] <= 1 \/ c[2] <= last)
      /\ current = total => r = c
  BY <1>1, <1>3, ContractSpanFacts
<1>5. /\ Len(hunks) \in Nat /\ Len(hunks') = Len(hunks) + 1 /\ hunks' # <<>>
      /\ \A k \in 1 .. Len(hunks) : hunks'[k] = hunks[k]
      /\ hunks'[Len(hunks) + 1] = <<start, count>>
  BY <1>2 DEF HunksInv
<1>6. /\ \A k \in 1 .. Len(hunks) : SpanOf(k)' = SpanOf(k)
      /\ \A k \in Nat : k = Len(hunks) + 1 => SpanOf(k)' = c
  BY <1>5 DEF SpanOf
<1> HIDE DEF c, r
<1>7. HunkSpansInOrder'
  <2>1. ASSUME NEW k \in 1 .. Len(hunks')
        PROVE  1 <= SpanOf(k)'[1] /\ SpanOf(k)'[1] <= SpanOf(k)'[2]
    <3>1. CASE k \in 1 .. Len(hunks)
      BY <3>1, <1>6 DEF ReadersInv, HunkSpansInOrder
    <3>2. CASE k = Len(hunks) + 1
      BY <3>2, <1>4, <1>6
    <3> QED
      BY <2>1, <3>1, <3>2, <1>5
  <2>2. ASSUME NEW k \in 1 .. Len(hunks') - 1
        PROVE  SpanOf(k)'[2] <= SpanOf(k + 1)'[1]
    <3>1. k \in 1 .. Len(hunks) /\ SpanOf(k)' = SpanOf(k)
      BY <2>2, <1>5, <1>6
    <3>2. CASE k + 1 \in 1 .. Len(hunks)
      <4>1. k \in 1 .. Len(hunks) - 1 /\ SpanOf(k + 1)' = SpanOf(k + 1)
        BY <2>2, <3>2, <1>5, <1>6
      <4> QED
        BY <3>1, <4>1 DEF ReadersInv, HunkSpansInOrder
    <3>3. CASE k = Len(hunks)
      <4>1. SpanOf(k)[2] <= 1 \/ SpanOf(k)[2] <= edge
        BY <3>1, <3>3 DEF ReadersInv, HunkSpansInOrder
      <4>2. SpanOf(k + 1)' = c
        BY <3>3, <1>6
      <4>3. SpanOf(k)[2] \in Int
        <5>1. hunks[k] \in Nat \X Nat
          BY <3>1 DEF HunksInv
        <5> QED
          BY <5>1 DEF SpanOf, ContractSpan
      <4>4. SpanOf(k)[2] <= c[1]
        BY <4>1, <4>3, <1>1, <1>3, <1>4
      <4> QED
        BY <3>1, <4>2, <4>4
    <3> QED
      BY <2>2, <3>2, <3>3, <1>5
  <2>3. SpanOf(Len(hunks))'[2] <= 1 \/ SpanOf(Len(hunks))'[2] <= edge'
    <3>1. SpanOf(Len(hunks))' = c
      BY <1>5 DEF SpanOf, c
    <3> QED
      BY <3>1, <1>2, <1>4
  <2> QED
    BY <2>1, <2>2, <2>3 DEF HunkSpansInOrder, SpanOf
<1>8. LinesOfHunks'
  <2> SUFFICES ASSUME current = total, pc' # "error", NEW n \in Int
               PROVE  (\E i \in 1 .. Len(lines') : lines'[i] = n)
                         <=> \E k \in 1 .. Len(hunks') : SpanOf(k)'[1] <= n /\ n <= SpanOf(k)'[2]
    BY <1>2 DEF LinesOfHunks, SpanOf
  <2>1. lines' = lines \o more
    BY DEF ReadHunk, r
  <2>2. r = c
    BY <1>4
  <2>3. /\ more \in Seq(Nat) /\ Len(more) = c[2] - c[1] + 1
        /\ \A i \in 1 .. Len(more) : more[i] = c[1] + i - 1
    BY <2>2, <1>4, IntegerRangeFacts
  <2> HIDE DEF more
  <2>4. (\E i \in 1 .. Len(more) : more[i] = n) <=> (c[1] <= n /\ n <= c[2])
    <3>1. ASSUME c[1] <= n, n <= c[2] PROVE \E i \in 1 .. Len(more) : more[i] = n
      <4>1. n - c[1] + 1 \in 1 .. Len(more) /\ c[1] + (n - c[1] + 1) - 1 = n
        BY <3>1, <1>4, <2>3
      <4> QED
        BY <4>1, <2>3
    <3>2. ASSUME NEW i \in 1 .. Len(more) PROVE c[1] <= more[i] /\ more[i] <= c[2]
      <4>1. /\ c[1] \in Int /\ c[2] \in Int /\ i \in Nat
            /\ 1 <= i /\ i <= c[2] - c[1] + 1 /\ more[i] = c[1] + i - 1
        BY <1>4, <2>3
      <4>2. \A x, y, z \in Int : 1 <= z /\ z <= y - x + 1 => x <= x + z - 1 /\ x + z - 1 <= y
        OBVIOUS
      <4> QED
        BY <4>1, <4>2
    <3> QED
      BY <3>1, <3>2
  <2>5. (\E i \in 1 .. Len(lines') : lines'[i] = n)
          <=> ((\E i \in 1 .. Len(lines) : lines[i] = n) \/ (\E i \in 1 .. Len(more) : more[i] = n))
    <3>1. /\ Len(lines) \in Nat /\ Len(more) \in Nat /\ Len(lines') = Len(lines) + Len(more)
          /\ \A i \in 1 .. Len(lines) : i \in 1 .. Len(lines') /\ lines'[i] = lines[i]
          /\ \A i \in 1 .. Len(lines') :
                i > Len(lines) => i - Len(lines) \in 1 .. Len(more) /\ lines'[i] = more[i - Len(lines)]
      <4>1. lines \in Seq(Nat)
        <5>1. 1 .. total \subseteq Nat
          BY <1>1
        <5> QED
          BY <5>1 DEF LinesInv
      <4>2. /\ Len(lines) \in Nat /\ Len(more) \in Nat /\ Len(lines \o more) = Len(lines) + Len(more)
            /\ \A i \in 1 .. Len(lines) : (lines \o more)[i] = lines[i]
            /\ \A i \in Len(lines) + 1 .. Len(lines) + Len(more) :
                  (lines \o more)[i] = more[i - Len(lines)]
        <5>1. more \in Seq(Nat)
          BY <2>3
        <5> QED
          BY <4>1, <5>1, MoreNumbers, Zenon
      <4> QED
        BY <2>1, <4>2
    <3>2. ASSUME NEW i \in 1 .. Len(more)
          PROVE  i + Len(lines) \in 1 .. Len(lines') /\ lines'[i + Len(lines)] = more[i]
      <4>1. /\ i + Len(lines) \in 1 .. Len(lines') /\ i + Len(lines) > Len(lines)
            /\ i + Len(lines) - Len(lines) = i
        BY <3>1
      <4> QED
        BY <3>1, <4>1
    <3>3. ASSUME NEW i \in 1 .. Len(lines') PROVE i \in 1 .. Len(lines) \/ i > Len(lines)
      BY <3>1
    <3> QED
      BY <3>1, <3>2, <3>3
  <2>6. (\E i \in 1 .. Len(lines) : lines[i] = n)
          <=> \E k \in 1 .. Len(hunks) : SpanOf(k)[1] <= n /\ n <= SpanOf(k)[2]
    BY <1>2 DEF ReadersInv, LinesOfHunks
  <2>7. (\E k \in 1 .. Len(hunks') : SpanOf(k)'[1] <= n /\ n <= SpanOf(k)'[2])
          <=> \/ \E k \in 1 .. Len(hunks) : SpanOf(k)[1] <= n /\ n <= SpanOf(k)[2]
              \/ c[1] <= n /\ n <= c[2]
    <3>1. 1 .. Len(hunks') = (1 .. Len(hunks)) \cup {Len(hunks) + 1} /\ Len(hunks) + 1 \in Nat
      BY <1>5
    <3>2. \A k \in 1 .. Len(hunks') : k \in 1 .. Len(hunks) \/ (k = Len(hunks) + 1 /\ k \in Nat)
      BY <3>1
    <3>3. Len(hunks) + 1 \in 1 .. Len(hunks') /\ \A k \in 1 .. Len(hunks) : k \in 1 .. Len(hunks')
      BY <3>1
    <3> QED
      BY <3>1, <3>2, <3>3, <1>6
  <2> QED
    BY <2>4, <2>5, <2>6, <2>7
<1> QED
  BY <1>7, <1>8 DEF ReadersInv

LEMMA ReadersStep == HunksInv /\ LinesInv /\ ReadersInv /\ [Next]_vars => ReadersInv'
<1> SUFFICES ASSUME HunksInv, LinesInv, ReadersInv, [Next]_vars PROVE ReadersInv'
  OBVIOUS
<1>1. CASE \E start, count \in 0 .. current : ReadHunk(start, count)
  BY <1>1, ReadersReadHunk
<1>2. ASSUME UNCHANGED <<total, current, hunks, edge, lines>>,
             pc' # "error" => pc # "error" /\ (hunks # <<>> \/ pc' = "read" => hunks # <<>> \/ pc = "read")
      PROVE  ReadersInv'
  BY <1>2 DEF ReadersInv, HunkSpansInOrder, LinesOfHunks, SpanOf
<1>3. CASE GitFails
  BY <1>2, <1>3 DEF GitFails, git
<1>4. CASE EndOfOutput
  <2>1. lines' = lines
    BY <1>4 DEF EndOfOutput, Sorted, LinesInv
  <2> QED
    BY <1>2, <1>4, <2>1 DEF EndOfOutput, git
<1>5. CASE EveryLine
  <2>1. UNCHANGED <<total, current, hunks, edge>> /\ hunks = <<>> /\ pc' # "read"
    BY <1>5 DEF EveryLine, git
  <2> QED
    BY <2>1 DEF ReadersInv, HunkSpansInOrder, LinesOfHunks, SpanOf
<1>6. CASE UniqueRound \/ UniqueEnd \/ MergeRound \/ MergeEnd \/ UNCHANGED vars
  <2>1. /\ UNCHANGED <<total, current, hunks, edge, lines>>
        /\ pc' # "error" => pc # "error" /\ (pc' = "read" => pc = "read")
    BY <1>6 DEF UniqueRound, UniqueEnd, MergeRound, MergeEnd, vars, git
  <2> QED
    BY <1>2, <2>1
<1> QED
  BY <1>1, <1>3, <1>4, <1>5, <1>6 DEF Next

LEMMA ReadersAlways == Spec => []ReadersInv
<1>1. Init => ReadersInv
  <2> SUFFICES ASSUME Init PROVE ReadersInv
    OBVIOUS
  <2>1. hunks = <<>> /\ lines = <<>> /\ Len(hunks) = 0 /\ Len(lines) = 0
    BY DEF Init
  <2> QED
    BY <2>1 DEF ReadersInv, HunkSpansInOrder, LinesOfHunks
<1>2. RangesInv /\ ReadersInv /\ [Next]_vars => ReadersInv'
  BY ReadersStep DEF RangesInv
<1> QED
  BY <1>1, <1>2, RangesAlways, PTL DEF Spec

-----------------------------------------------------------------------------
(* Both readers agree.                                                     *)

HunkSpans == [k \in DOMAIN hunks |-> ContractSpan(hunks[k])]

LEMMA HunkSpansFacts ==
    ASSUME HunksInv, ReadersInv
    PROVE  /\ HunkSpans \in Seq(Nat \X Nat) /\ Len(HunkSpans) = Len(hunks) /\ InTurn(HunkSpans)
           /\ \A k \in 1 .. Len(hunks) :
                 HunkSpans[k] = SpanOf(k) /\ SpanOf(k)[1] \in Nat /\ SpanOf(k)[2] \in Nat
<1>1. Len(hunks) \in Nat /\ DOMAIN hunks = 1 .. Len(hunks)
      /\ \A k \in 1 .. Len(hunks) : hunks[k] \in Nat \X Nat
  BY DEF HunksInv
<1>2. ASSUME NEW k \in 1 .. Len(hunks)
      PROVE  /\ HunkSpans[k] = SpanOf(k) /\ SpanOf(k)[1] \in Nat /\ SpanOf(k)[2] \in Nat
             /\ SpanOf(k) \in Nat \X Nat
  <2>1. HunkSpans[k] = SpanOf(k) /\ SpanOf(k) = <<SpanOf(k)[1], SpanOf(k)[2]>>
    BY <1>1 DEF HunkSpans, SpanOf, ContractSpan
  <2>2. SpanOf(k)[1] \in Int /\ SpanOf(k)[2] \in Int
    BY <1>1 DEF SpanOf, ContractSpan
  <2>3. 1 <= SpanOf(k)[1] /\ SpanOf(k)[1] <= SpanOf(k)[2]
    BY DEF ReadersInv, HunkSpansInOrder
  <2>4. SpanOf(k)[1] \in Nat /\ SpanOf(k)[2] \in Nat
    BY <2>2, <2>3
  <2> QED
    BY <2>1, <2>4
<1>3. HunkSpans \in Seq(Nat \X Nat) /\ Len(HunkSpans) = Len(hunks)
  <2>1. DOMAIN HunkSpans = 1 .. Len(hunks) /\ HunkSpans = [k \in 1 .. Len(hunks) |-> HunkSpans[k]]
    BY <1>1 DEF HunkSpans
  <2>2. \A k \in 1 .. Len(hunks) : HunkSpans[k] \in Nat \X Nat
    BY <1>2
  <2> QED
    BY <1>1, <2>1, <2>2
<1>4. InTurn(HunkSpans)
  <2>1. \A k \in 1 .. Len(hunks) : HunkSpans[k][1] <= HunkSpans[k][2]
    BY <1>2 DEF ReadersInv, HunkSpansInOrder
  <2>2. ASSUME NEW k \in 1 .. Len(hunks) - 1
        PROVE  HunkSpans[k][1] <= HunkSpans[k + 1][1] /\ HunkSpans[k][2] <= HunkSpans[k + 1][2]
    <3>1. k \in 1 .. Len(hunks) /\ k + 1 \in 1 .. Len(hunks)
      BY <1>1
    <3>2. SpanOf(k)[2] <= SpanOf(k + 1)[1]
      BY DEF ReadersInv, HunkSpansInOrder
    <3>3. /\ SpanOf(k)[1] <= SpanOf(k)[2] /\ SpanOf(k + 1)[1] <= SpanOf(k + 1)[2]
          /\ HunkSpans[k] = SpanOf(k) /\ HunkSpans[k + 1] = SpanOf(k + 1)
      BY <3>1, <1>2 DEF ReadersInv, HunkSpansInOrder
    <3>4. /\ SpanOf(k)[1] \in Nat /\ SpanOf(k)[2] \in Nat
          /\ SpanOf(k + 1)[1] \in Nat /\ SpanOf(k + 1)[2] \in Nat
      BY <3>1, <1>2
    <3> QED
      BY <3>2, <3>3, <3>4
  <2> QED
    BY <2>1, <2>2, <1>3 DEF InTurn
<1> QED
  BY <1>2, <1>3, <1>4

\* For a file that still has the length of the source, whatever the hunks: the numbers
\* reported are the lines the strict reader of the contract finds, and without context
\* the ranges are its spans.
THEOREM RangesAgree == Spec => []ReadersAgree
<1> SUFFICES RangesInv /\ ReadersInv => ReadersAgree
  BY RangesAlways, ReadersAlways, PTL
<1> SUFFICES ASSUME RangesInv, ReadersInv, pc = "done", current = total, hunks # <<>>
             PROVE  /\ context = 0 => spans = ContractSpans
                    /\ Numbers(unique) = UNION {Lines(SpanOf(k)) : k \in DOMAIN hunks}
  BY DEF ReadersAgree, SpanOf
<1>1. /\ lines \in Seq(1 .. total) /\ unique \in Seq(1 .. total) /\ total \in Nat
      /\ DOMAIN lines = 1 .. Len(lines) /\ DOMAIN unique = 1 .. Len(unique)
      /\ DOMAIN hunks = 1 .. Len(hunks)
      /\ spans \in Seq(Nat \X Nat) /\ Apart(spans) /\ HoldsFirst(Len(unique))
  BY DEF RangesInv, HunksInv, LinesInv, UniqueInv, MergeInv
<1>2. Numbers(unique) = Numbers(lines)
  BY UniqueIsLines DEF ReportedOnce
<1>3. /\ HunkSpans \in Seq(Nat \X Nat) /\ Len(HunkSpans) = Len(hunks) /\ InTurn(HunkSpans)
      /\ \A k \in 1 .. Len(hunks) :
            HunkSpans[k] = SpanOf(k) /\ SpanOf(k)[1] \in Nat /\ SpanOf(k)[2] \in Nat
  BY HunkSpansFacts DEF RangesInv
<1>4. \A n \in Int : n \in Numbers(unique)
                       <=> \E k \in 1 .. Len(hunks) : SpanOf(k)[1] <= n /\ n <= SpanOf(k)[2]
  BY <1>1, <1>2 DEF ReadersInv, LinesOfHunks, Numbers
<1>5. Numbers(unique) \subseteq Int
  BY <1>1 DEF Numbers
<1>6. Numbers(unique) = UNION {Lines(SpanOf(k)) : k \in DOMAIN hunks}
  <2>1. \A n : \A k \in 1 .. Len(hunks) :
            n \in Lines(SpanOf(k)) <=> n \in Int /\ SpanOf(k)[1] <= n /\ n <= SpanOf(k)[2]
    BY <1>3 DEF Lines
  <2>2. \A n : n \in UNION {Lines(SpanOf(k)) : k \in DOMAIN hunks}
                 <=> n \in Int /\ \E k \in 1 .. Len(hunks) : SpanOf(k)[1] <= n /\ n <= SpanOf(k)[2]
    BY <1>1, <2>1
  <2> QED
    BY <1>4, <1>5, <2>2
<1>7. ASSUME context = 0 PROVE spans = ContractSpans
  <2> DEFINE m == ContractSpans
  <2>1. m = MergedUpTo(HunkSpans)
    BY DEF ContractSpans, HunkSpans
  <2>2. Merged(m, HunkSpans, Len(HunkSpans))
    BY <1>3, <2>1, MergedFacts
  <2> HIDE DEF m
  <2>3. /\ m \in Seq(Nat \X Nat) /\ Apart(m)
        /\ \A n \in Int : In(m, n) <=>
              \E k \in 1 .. Len(hunks) : SpanOf(k)[1] <= n /\ n <= SpanOf(k)[2]
    BY <1>3, <2>2 DEF Merged
  <2>4. ASSUME NEW n \in Int PROVE In(spans, n) <=> n \in Numbers(unique)
    <3>1. \A i \in 1 .. Len(unique) :
             (Around(i)[1] <= n /\ n <= Around(i)[2]) <=> (n = unique[i])
      <4>1. ASSUME NEW i \in 1 .. Len(unique)
            PROVE  (Around(i)[1] <= n /\ n <= Around(i)[2]) <=> (n = unique[i])
        <5>1. unique[i] \in 1 .. total /\ 0 \in Nat
          BY <1>1
        <5>2. Around(i) = ContextRange(total, unique[i], 0)
          BY <1>7 DEF Around
        <5>3. (Around(i)[1] <= n /\ n <= Around(i)[2])
                 <=> (n \in 1 .. total /\ n - unique[i] <= 0 /\ unique[i] - n <= 0)
          BY <1>1, <5>1, <5>2, ContextRangeFacts
        <5>4. (n \in 1 .. total /\ n - unique[i] <= 0 /\ unique[i] - n <= 0) <=> (n = unique[i])
          BY <1>1, <5>1
        <5> QED
          BY <5>3, <5>4
      <4> QED
        BY <4>1
    <3>2. In(spans, n) <=> \E i \in 1 .. Len(unique) : n = unique[i]
      BY <1>1, <3>1 DEF HoldsFirst
    <3> QED
      BY <1>1, <3>2 DEF Numbers
  <2>5. Held(spans, m) /\ Held(m, spans)
    BY <1>4, <2>3, <2>4 DEF Held
  <2>6. spans = m
    BY <1>1, <2>3, <2>5, OneListOfRanges DEF Ranges
  <2> QED
    BY <2>6 DEF m
<1> QED
  BY <1>6, <1>7


-----------------------------------------------------------------------------
(* The numbers of a set in order.                                          *)

LEMMA Smallest ==
    ASSUME NEW S, S \subseteq Nat, S # {}
    PROVE  Min(S) \in S /\ Min(S) \in Int /\ \A y \in S : Min(S) <= y
<1>1. PICK x \in S : \A y \in S : ~(y < x)
  BY Least
<1>2. \A y \in S : x <= y
  BY <1>1
<1>3. Min(S) \in S /\ \A y \in S : Min(S) <= y
  BY <1>2 DEF Min
<1>4. Min(S) \in Int
  <2> DEFINE m == Min(S)
  <2>1. m \in S
    BY <1>3
  <2>2. m \in Nat
    BY <2>1, Zenon
  <2> HIDE DEF m
  <2>3. m \in Int
    BY <2>2
  <2> QED
    BY <2>3 DEF m
<1> QED
  BY <1>3, <1>4, Zenon

Numbered(S) == IsFiniteSet(S) /\ S \subseteq Nat

LEMMA BeforeFacts ==
    ASSUME NEW S, Numbered(S), NEW n \in Int
    PROVE  /\ IsFiniteSet({x \in S : x < n})
           /\ Before(S, n) \in Nat /\ Before(S, n) <= Cardinality(S) /\ Cardinality(S) \in Nat
           /\ n \in S => Before(S, n) < Cardinality(S)
<1> DEFINE B == {x \in S : x < n}
<1>1. IsFiniteSet(S) /\ B \in SUBSET S /\ (n \in S => B # S)
  BY DEF Numbered
<1> HIDE DEF B
<1>2. IsFiniteSet(B) /\ Cardinality(B) <= Cardinality(S) /\ (Cardinality(S) = Cardinality(B) => S = B)
  BY <1>1, FS_Subset
<1>3. Cardinality(B) \in Nat /\ Cardinality(S) \in Nat
  BY <1>1, <1>2, FS_CardinalityType
<1>4. Before(S, n) = Cardinality(B)
  BY DEF Before, B
<1>5. Cardinality(B) <= Cardinality(S) /\ (n \in S => Cardinality(B) < Cardinality(S))
  BY <1>1, <1>2, <1>3
<1> QED
  BY <1>2, <1>3, <1>4, <1>5 DEF B

\* A member of the set between two lines lies before the second and not before the first.
LEMMA BeforeGrows ==
    ASSUME NEW S, Numbered(S), NEW m \in Int, NEW n \in Int, m <= n
    PROVE  /\ Before(S, m) <= Before(S, n)
           /\ (\E x \in S : m <= x /\ x < n) <=> Before(S, m) < Before(S, n)
<1> DEFINE A == {x \in S : x < m}
           B == {x \in S : x < n}
<1>0. S \subseteq Int
  BY DEF Numbered
<1>1. IsFiniteSet(B) /\ A \in SUBSET B
  <2>1. IsFiniteSet(B)
    BY BeforeFacts
  <2>2. \A x \in Int : x < m => x < n
    OBVIOUS
  <2> QED
    BY <1>0, <2>1, <2>2
<1>2. (\E x \in S : m <= x /\ x < n) <=> A # B
  <2>1. \A x \in Int : (m <= x <=> ~(x < m)) /\ (x < m => x < n)
    OBVIOUS
  <2>2. ASSUME NEW x \in S, m <= x, x < n PROVE x \in B /\ x \notin A
    BY <1>0, <2>1, <2>2
  <2>3. ASSUME A # B PROVE \E x \in S : m <= x /\ x < n
    <3>1. PICK x \in B : x \notin A
      BY <1>1, <2>3
    <3> QED
      BY <1>0, <2>1, <3>1
  <2> QED
    BY <2>2, <2>3
<1>3. Before(S, m) = Cardinality(A) /\ Before(S, n) = Cardinality(B)
  BY DEF Before
<1>4. Before(S, m) \in Nat /\ Before(S, n) \in Nat
  BY BeforeFacts
<1> HIDE DEF A, B
<1>5. Cardinality(A) <= Cardinality(B) /\ (Cardinality(B) = Cardinality(A) => B = A)
  BY <1>1, FS_Subset
<1> QED
  BY <1>2, <1>3, <1>4, <1>5

\* Every place up to the size of the set is that of one member.
LEMMA EveryPlace ==
    ASSUME NEW S, Numbered(S), NEW k \in 1 .. Cardinality(S)
    PROVE  \E x \in S : Before(S, x) = k - 1
<1> DEFINE n == Cardinality(S)
           T == 1 .. n
           g == [x \in S |-> Before(S, x) + 1]
<1>1. n \in Nat /\ IsFiniteSet(S) /\ S \subseteq Int
  BY FS_CardinalityType DEF Numbered
<1>2. \A x \in S : Before(S, x) \in Nat /\ Before(S, x) < n
  BY <1>1, BeforeFacts
<1>3. IsFiniteSet(T) /\ Cardinality(T) = n
  BY <1>1, FS_Interval
<1>4. g \in [S -> T]
  BY <1>1, <1>2
<1>5. ASSUME NEW x \in S, NEW y \in S, x < y PROVE g[x] < g[y]
  <2>1. Before(S, x) < Before(S, y)
    BY <1>1, <1>5, BeforeGrows
  <2> QED
    BY <1>2, <2>1
<1>6. \A x, y \in S : g[x] = g[y] => x = y
  <2>1. \A x, y \in S : x # y => x < y \/ y < x
    BY <1>1
  <2>2. \A x \in S : g[x] \in Int
    BY <1>4
  <2> HIDE DEF g, T
  <2> QED
    BY <1>5, <2>1, <2>2
<1>7. g \in Injection(S, T)
  BY <1>4, <1>6 DEF Injection, IsInjective
<1>8. g \in Surjection(S, T)
  <2> HIDE DEF g, T
  <2> QED
    BY <1>1, <1>3, <1>7, FS_Injection
<1>9. \E x \in S : g[x] = k
  BY <1>8 DEF Surjection
<1> QED
  BY <1>2, <1>9

\* The members of the set, each at its place.
LEMMA AscendingFacts ==
    ASSUME NEW S, Numbered(S)
    PROVE  /\ Cardinality(S) \in Nat /\ Ascending(S) \in Seq(S) /\ Len(Ascending(S)) = Cardinality(S)
           /\ \A k \in 1 .. Cardinality(S) :
                 Ascending(S)[k] \in S /\ Before(S, Ascending(S)[k]) = k - 1
           /\ \A x \in S : Before(S, x) + 1 \in 1 .. Cardinality(S) /\ Ascending(S)[Before(S, x) + 1] = x
           /\ \A i, j \in 1 .. Cardinality(S) : i < j => Ascending(S)[i] < Ascending(S)[j]
<1> DEFINE n == Cardinality(S)
           a == Ascending(S)
<1>1. n \in Nat /\ S \subseteq Nat /\ S \subseteq Int
  BY FS_CardinalityType DEF Numbered
<1>0. \A x \in S : Before(S, x) \in Nat /\ Before(S, x) < n
  BY <1>1, BeforeFacts
<1>2. a = [k \in 1 .. n |-> CHOOSE x \in S : Before(S, x) = k - 1]
  BY DEF Ascending
<1>3. \A k \in 1 .. n : a[k] \in S /\ Before(S, a[k]) = k - 1
  BY <1>2, EveryPlace
<1>4. a \in Seq(S) /\ Len(a) = n
  BY <1>1, <1>2, <1>3
<1>5. ASSUME NEW x \in S, NEW y \in S, x < y PROVE Before(S, x) < Before(S, y)
  BY <1>1, <1>5, BeforeGrows
<1>6. ASSUME NEW x \in S, NEW y \in S, Before(S, x) = Before(S, y) PROVE x = y
  <2>1. Before(S, x) \in Nat /\ x \in Nat /\ y \in Nat
    BY <1>0, <1>1
  <2> QED
    BY <1>5, <1>6, <2>1
<1>7. ASSUME NEW x \in S PROVE Before(S, x) + 1 \in 1 .. n /\ a[Before(S, x) + 1] = x
  <2>1. Before(S, x) \in Nat /\ Before(S, x) < n
    BY <1>0
  <2>2. \A b \in Nat : b < n => b + 1 \in 1 .. n /\ b + 1 - 1 = b
    BY <1>1
  <2> DEFINE k == Before(S, x) + 1
  <2>5. k \in 1 .. n /\ k - 1 = Before(S, x)
    <3> HIDE DEF a
    <3> QED
      BY <2>1, <2>2
  <2> HIDE DEF a, k
  <2>3. a[k] \in S /\ Before(S, a[k]) = Before(S, x)
    BY <1>3, <2>5, Zenon
  <2>4. a[k] = x
    BY <1>6, <2>3, Zenon
  <2> QED
    BY <2>5, <2>4 DEF k
<1>8. ASSUME NEW i \in 1 .. n, NEW j \in 1 .. n, i < j PROVE a[i] < a[j]
  <2>1. a[i] \in S /\ a[j] \in S /\ Before(S, a[i]) = i - 1 /\ Before(S, a[j]) = j - 1
    BY <1>3
  <2>3. a[i] \in Nat /\ a[j] \in Nat /\ Before(S, a[i]) < Before(S, a[j])
    <3>1. a[i] \in Nat /\ a[j] \in Nat
      BY <1>1, <2>1, Zenon
    <3>2. i - 1 < j - 1
      BY <1>1, <1>8
    <3> QED
      BY <2>1, <3>1, <3>2, Zenon
  <2>2. a[j] # a[i] /\ ~(a[j] < a[i])
    <3>1. Before(S, a[i]) \in Nat /\ Before(S, a[j]) \in Nat
      BY <1>0, <2>1, Zenon
    <3> HIDE DEF a
    <3> QED
      BY <1>5, <2>1, <2>3, <3>1
  <2> QED
    BY <2>2, <2>3
<1> HIDE DEF a
<1>9. /\ n \in Nat /\ a \in Seq(S) /\ Len(a) = n
      /\ \A k \in 1 .. n : a[k] \in S /\ Before(S, a[k]) = k - 1
      /\ \A x \in S : Before(S, x) + 1 \in 1 .. n /\ a[Before(S, x) + 1] = x
      /\ \A i, j \in 1 .. n : i < j => a[i] < a[j]
  BY <1>1, <1>3, <1>4, <1>7, <1>8
<1> QED
  BY <1>9 DEF a

-----------------------------------------------------------------------------
(* The results for one file.                                               *)

Modes == {"line", "locations", "context", "scope"}

\* What a result is, and that it is about lines of a file of so many.
Entries == [kind : {"file", "changed"}, path : Files, start : Nat, end : Nat, lines : Seq(Nat)]
Inside(r, size) ==
    /\ 1 <= r.start /\ r.start <= r.end /\ r.end <= size
    /\ \A i \in 1 .. Len(r.lines) : r.start <= r.lines[i] /\ r.lines[i] <= r.end
About(r, f, size) ==
    r \in Entries /\ r.path = f /\ (r.kind = "changed" => Inside(r, size))
AllAbout(list, f, size) ==
    list \in Seq(Entries) /\ \A k \in 1 .. Len(list) : About(list[k], f, size)

LEMMA NumberedPart ==
    ASSUME NEW S, Numbered(S), NEW T \in SUBSET S
    PROVE  Numbered(T)
<1>1. IsFiniteSet(T)
  BY FS_Subset DEF Numbered
<1> QED
  BY <1>1 DEF Numbered

LEMMA NumberedLines ==
    ASSUME NEW size \in Nat
    PROVE  Numbered(1 .. size) /\ Cardinality(1 .. size) = size
<1>1. IsFiniteSet(1 .. size) /\ Cardinality(1 .. size) = size
  BY FS_Interval
<1> QED
  BY <1>1 DEF Numbered

\* The around ranges of numbers in order are in order.
ContextList(size, numbers, around) ==
    [k \in 1 .. Cardinality(numbers) |-> ContextRange(size, Ascending(numbers)[k], around)]

LEMMA ContextListFacts ==
    ASSUME NEW size \in Nat, NEW numbers \in SUBSET (1 .. size), NEW around \in Nat
    PROVE  LET list == ContextList(size, numbers, around) IN
           /\ list \in Seq(Nat \X Nat) /\ Len(list) = Cardinality(numbers)
           /\ InTurn(list)
           /\ \A k \in 1 .. Cardinality(numbers) :
                 LET n == Ascending(numbers)[k] IN
                 /\ n \in numbers
                 /\ 1 <= list[k][1] /\ list[k][1] <= n /\ n <= list[k][2] /\ list[k][2] <= size
<1> DEFINE list == ContextList(size, numbers, around)
           m == Cardinality(numbers)
           a == Ascending(numbers)
<1>1. Numbered(numbers)
  BY NumberedLines, NumberedPart
<1>2. /\ m \in Nat /\ \A k \in 1 .. m : a[k] \in numbers
      /\ \A i, j \in 1 .. m : i < j => a[i] < a[j]
  BY <1>1, AscendingFacts
<1>3. list = [k \in 1 .. m |-> ContextRange(size, a[k], around)]
  BY DEF ContextList
<1> HIDE DEF list, m, a
<1>4. \A k \in 1 .. m : a[k] \in 1 .. size
  BY <1>2
<1>5. ASSUME NEW k \in 1 .. m
      PROVE  /\ list[k] \in Nat \X Nat
             /\ 1 <= list[k][1] /\ list[k][1] <= a[k] /\ a[k] <= list[k][2] /\ list[k][2] <= size
  <2> DEFINE n == a[k]
             r == ContextRange(size, n, around)
  <2>1. list[k] = r
    BY <1>3
  <2>2. n \in 1 .. size
    BY <1>4
  <2> HIDE DEF n
  <2>3. r \in Nat \X Nat /\ 1 <= r[1] /\ r[1] <= n /\ n <= r[2] /\ r[2] <= size
    BY <2>2, ContextRangeFacts
  <2> QED
    BY <2>1, <2>3 DEF n
<1>6. list \in Seq(Nat \X Nat) /\ Len(list) = m
  BY <1>2, <1>3, <1>5
<1>7. ASSUME NEW k \in 1 .. m - 1
      PROVE  list[k][1] <= list[k + 1][1] /\ list[k][2] <= list[k + 1][2]
  <2>1. k \in 1 .. m /\ k + 1 \in 1 .. m /\ k < k + 1
    BY <1>2
  <2>2. a[k] \in 1 .. size /\ a[k + 1] \in 1 .. size /\ a[k] < a[k + 1]
    BY <1>2, <1>4, <2>1
  <2>3. list[k] = ContextRange(size, a[k], around) /\ list[k + 1] = ContextRange(size, a[k + 1], around)
    BY <1>3, <2>1
  <2>4. a[k] <= a[k + 1]
    BY <2>2
  <2> QED
    BY <2>2, <2>3, <2>4, ContextRangeMonotone
<1>8. \A k \in 1 .. m : list[k][1] <= list[k][2]
  <2> SUFFICES ASSUME NEW k \in 1 .. m PROVE list[k][1] <= list[k][2]
    OBVIOUS
  <2>1. a[k] \in Nat /\ list[k][1] \in Nat /\ list[k][2] \in Nat /\ list[k][1] <= a[k] /\ a[k] <= list[k][2]
    BY <1>4, <1>5
  <2> QED
    BY <2>1
<1>9. InTurn(list)
  BY <1>6, <1>7, <1>8 DEF InTurn
<1> QED
  BY <1>2, <1>5, <1>6, <1>9 DEF list, m, a

\* The merged ranges are inside the file, and every number is in one of them.
LEMMA SpansOfNumbers ==
    ASSUME NEW size \in Nat, NEW numbers \in SUBSET (1 .. size), NEW around \in Nat
    PROVE  LET ranges == MergeContextRanges(size, numbers, around) IN
           /\ ranges \in Seq(Nat \X Nat)
           /\ \A k \in 1 .. Len(ranges) :
                 1 <= ranges[k][1] /\ ranges[k][1] <= ranges[k][2] /\ ranges[k][2] <= size
           /\ \A n \in numbers : In(ranges, n)
<1> DEFINE list == ContextList(size, numbers, around)
           ranges == MergeContextRanges(size, numbers, around)
           m == Cardinality(numbers)
<1>1. ranges = MergedUpTo(list)
  BY DEF MergeContextRanges, ContextList
<1> HIDE DEF ranges, list
<1>2. /\ list \in Seq(Nat \X Nat) /\ Len(list) = m /\ InTurn(list)
      /\ \A k \in 1 .. m :
            LET n == Ascending(numbers)[k] IN
            /\ n \in numbers
            /\ 1 <= list[k][1] /\ list[k][1] <= n /\ n <= list[k][2] /\ list[k][2] <= size
  BY ContextListFacts DEF list
<1>3. Merged(ranges, list, m)
  BY <1>1, <1>2, MergedFacts
<1>4. /\ ranges \in Seq(Nat \X Nat) /\ Apart(ranges)
      /\ \A n \in Int : In(ranges, n) <=> \E k \in 1 .. m : list[k][1] <= n /\ n <= list[k][2]
  BY <1>3 DEF Merged
<1>5. ASSUME NEW n \in Int, In(ranges, n) PROVE 1 <= n /\ n <= size
  <2>1. PICK k \in 1 .. m : list[k][1] <= n /\ n <= list[k][2]
    BY <1>4, <1>5
  <2>2. list[k] \in Nat \X Nat /\ 1 <= list[k][1] /\ list[k][2] <= size
    BY <1>2
  <2>3. list[k][1] \in Nat /\ list[k][2] \in Nat
    BY <2>2
  <2> QED
    BY <2>1, <2>2, <2>3
<1>6. ASSUME NEW k \in 1 .. Len(ranges)
      PROVE  1 <= ranges[k][1] /\ ranges[k][1] <= ranges[k][2] /\ ranges[k][2] <= size
  <2>1. ranges[k][1] \in Nat /\ ranges[k][2] \in Nat
    <3>1. Ranges(ranges)
      BY <1>4 DEF Ranges
    <3> QED
      BY <3>1, PairsOf
  <2>2. ranges[k][1] <= ranges[k][2]
    BY <1>4 DEF Apart
  <2>3. In(ranges, ranges[k][1]) /\ In(ranges, ranges[k][2])
    BY <2>1, <2>2 DEF In
  <2> QED
    BY <1>5, <2>1, <2>2, <2>3
<1>7. ASSUME NEW n \in numbers PROVE In(ranges, n)
  <2>1. Numbered(numbers)
    BY NumberedLines, NumberedPart
  <2>2. PICK k \in 1 .. m : Ascending(numbers)[k] = n
    BY <2>1, AscendingFacts
  <2>4. list[k][1] <= Ascending(numbers)[k] /\ Ascending(numbers)[k] <= list[k][2]
    BY <1>2
  <2>3. n \in Int /\ list[k][1] <= n /\ n <= list[k][2]
    BY <2>2, <2>4
  <2> QED
    BY <1>4, <2>3
<1> QED
  BY <1>4, <1>6, <1>7 DEF ranges

\* A scope is around its line, and within the source.
LEMMA ScopeFacts ==
    ASSUME NEW size \in Nat, NEW n \in 1 .. size
    PROVE  LET r == EnclosingScope(size, n) IN
           /\ r = <<r[1], r[2]>> /\ r[1] \in Nat /\ r[2] \in Nat
           /\ 1 <= r[1] /\ r[1] <= n /\ n <= r[2] /\ r[2] <= size
<1> DEFINE around == {s \in (1 .. n) \X (n .. size) : s \in Scopes(size)}
           span(s) == s[2] - s[1]
           r == EnclosingScope(size, n)
<1>1. r = IF around = {} THEN <<n, n>>
          ELSE CHOOSE s \in around : \A t \in around : span(s) <= span(t)
  BY DEF EnclosingScope
<1>2. CASE around = {}
  BY <1>1, <1>2
<1>3. CASE around # {}
  <2>1. \A s \in around : /\ s = <<s[1], s[2]>> /\ s[1] \in Nat /\ s[2] \in Nat
                          /\ 1 <= s[1] /\ s[1] <= n /\ n <= s[2] /\ s[2] <= size
    OBVIOUS
  <2>2. \A s \in around : span(s) \in Nat
    <3> HIDE DEF around
    <3> QED
      BY <2>1
  <2> HIDE DEF around, span
  <2> DEFINE T == {span(s) : s \in around}
  <2>3. T \subseteq Nat /\ T # {}
    BY <1>3, <2>2
  <2>4. PICK x \in T : \A y \in T : ~(y < x)
    <3> HIDE DEF T
    <3> QED
      BY <2>3, Least
  <2>5. PICK s \in around : x = span(s)
    OBVIOUS
  <2>6. ASSUME NEW t \in around PROVE span(s) <= span(t)
    <3>1. ~(span(t) < x) /\ span(t) \in Nat /\ x \in Nat
      BY <2>2, <2>3, <2>4
    <3> QED
      BY <2>5, <3>1
  <2> HIDE DEF r
  <2>7. r \in around
    BY <1>1, <1>3, <2>6
  <2> QED
    BY <2>1, <2>7 DEF r
<1> QED
  BY <1>2, <1>3

LEMMA FileResultFacts ==
    ASSUME NEW f \in Files, NEW size
    PROVE  /\ About(FileResult(f), f, size) /\ FileResult(f).kind = "file"
           /\ AllAbout(<<FileResult(f)>>, f, size) /\ Len(<<FileResult(f)>>) = 1
<1> DEFINE r == FileResult(f)
<1>1. About(r, f, size) /\ r.kind = "file"
  BY DEF FileResult, About, Entries
<1>2. r \in Entries
  BY <1>1 DEF About
<1> HIDE DEF r
<1>3. <<r>> \in Seq(Entries) /\ Len(<<r>>) = 1 /\ \A k \in 1 .. Len(<<r>>) : <<r>>[k] = r
  BY <1>2
<1>4. AllAbout(<<r>>, f, size)
  BY <1>1, <1>3 DEF AllAbout
<1> QED
  BY <1>1, <1>3, <1>4 DEF r

LEMMA RangeResultFacts ==
    ASSUME NEW f \in Files, NEW size \in Nat, NEW a \in Nat, NEW b \in Nat,
           1 <= a, a <= b, b <= size,
           NEW list \in Seq(Nat), \A i \in 1 .. Len(list) : a <= list[i] /\ list[i] <= b
    PROVE  About(ResultForRange(f, <<a, b>>, list), f, size)
<1> DEFINE r == ResultForRange(f, <<a, b>>, list)
<1>1. r = [kind |-> "changed", path |-> f, start |-> a, end |-> b, lines |-> list]
  BY DEF ResultForRange
<1>2. /\ r.kind = "changed" /\ r.path = f /\ r.start = a /\ r.end = b /\ r.lines = list
  BY <1>1
<1>3. r \in Entries
  BY <1>1 DEF Entries
<1> HIDE DEF r
<1> QED
  BY <1>2, <1>3 DEF About, Inside, r

\* Whatever numbers are collected, the results are about lines of the file.
LEMMA ResultsForFacts ==
    ASSUME NEW f \in Files, NEW size \in Nat, NEW numbers \in SUBSET (1 .. size),
           NEW return \in Modes
    PROVE  AllAbout(ResultsFor(f, size, numbers, return), f, size)
<1> DEFINE m == Cardinality(numbers)
           a == Ascending(numbers)
<1>0. Context \in Nat /\ Numbered(numbers)
  BY ChangedQueryAssumption, NumberedLines, NumberedPart
<1>1. CASE numbers = {}
  <2>1. ResultsFor(f, size, numbers, return) = <<FileResult(f)>>
    BY <1>1 DEF ResultsFor
  <2> QED
    BY <2>1, FileResultFacts
<1>2. CASE numbers # {} /\ return \in {"locations", "context"}
  <2> DEFINE c == IF return = "context" THEN Context ELSE 0
             ranges == MergeContextRanges(size, numbers, c)
             res == [k \in 1 .. Len(ranges) |->
                       ResultForRange(f, ranges[k], Ascending(numbers \cap Lines(ranges[k])))]
  <2>1. ResultsFor(f, size, numbers, return) = res
    BY <1>2 DEF ResultsFor
  <2>2. c \in Nat
    BY <1>0
  <2> HIDE DEF c
  <2>3. /\ ranges \in Seq(Nat \X Nat)
        /\ \A k \in 1 .. Len(ranges) :
              1 <= ranges[k][1] /\ ranges[k][1] <= ranges[k][2] /\ ranges[k][2] <= size
    BY <2>2, SpansOfNumbers
  <2> HIDE DEF ranges
  <2>4. ASSUME NEW k \in 1 .. Len(ranges) PROVE About(res[k], f, size)
    <3> DEFINE T == numbers \cap Lines(ranges[k])
    <3>9. Ranges(ranges)
      BY <2>3 DEF Ranges
    <3>1. ranges[k][1] \in Nat /\ ranges[k][2] \in Nat /\ ranges[k] = <<ranges[k][1], ranges[k][2]>>
      BY <3>9, PairsOf
    <3>2. Numbered(T) /\ T \subseteq ranges[k][1] .. ranges[k][2]
      BY <1>0, NumberedPart DEF Lines
    <3>3. /\ Ascending(T) \in Seq(T) /\ Len(Ascending(T)) = Cardinality(T)
          /\ \A i \in 1 .. Cardinality(T) : Ascending(T)[i] \in T
      BY <3>2, AscendingFacts
    <3>4. T \subseteq Nat
      BY <3>2 DEF Numbered
    <3> HIDE DEF T
    <3> DEFINE s == Ascending(T)
    <3>5. s \in Seq(Nat) /\ \A i \in 1 .. Len(s) : s[i] \in T
      <4> HIDE DEF s
      <4>1. s \in Seq(T) /\ \A i \in 1 .. Len(s) : s[i] \in T
        BY <3>3 DEF s
      <4>2. s \in Seq(Nat)
        <5>1. Len(s) \in Nat /\ s = [i \in 1 .. Len(s) |-> s[i]]
          BY <4>1
        <5>2. \A i \in 1 .. Len(s) : s[i] \in Nat
          BY <3>4, <4>1, Zenon
        <5> QED
          BY <5>1, <5>2
      <4> QED
        BY <4>1, <4>2
    <3>6. \A i \in 1 .. Len(s) : ranges[k][1] <= s[i] /\ s[i] <= ranges[k][2]
      <4> SUFFICES ASSUME NEW i \in 1 .. Len(s) PROVE s[i] \in ranges[k][1] .. ranges[k][2]
        BY <3>1
      <4> HIDE DEF s
      <4> QED
        BY <3>2, <3>5, Zenon
    <3>7. About(ResultForRange(f, <<ranges[k][1], ranges[k][2]>>, Ascending(T)), f, size)
      BY <2>3, <3>1, <3>5, <3>6, RangeResultFacts
    <3>8. res[k] = ResultForRange(f, ranges[k], Ascending(T))
      BY DEF T
    <3> QED
      BY <3>1, <3>7, <3>8
  <2>5. \A k \in 1 .. Len(ranges) : res[k] \in Entries
    BY <2>4 DEF About
  <2>6. res \in Seq(Entries) /\ Len(res) = Len(ranges)
    BY <2>3, <2>5
  <2> HIDE DEF res
  <2> QED
    BY <2>1, <2>4, <2>6 DEF AllAbout
<1>3. CASE numbers # {} /\ return \notin {"locations", "context"}
  <2> DEFINE Of(n) == IF return = "scope" THEN EnclosingScope(size, n) ELSE <<n, n>>
             res == [k \in 1 .. m |-> ResultForRange(f, Of(a[k]), <<>>)]
  <2>1. ResultsFor(f, size, numbers, return) = res
    BY <1>3 DEF ResultsFor
  <2>2. m \in Nat /\ \A k \in 1 .. m : a[k] \in 1 .. size
    BY <1>0, AscendingFacts
  <2> HIDE DEF m, a
  <2>3. ASSUME NEW k \in 1 .. m PROVE About(res[k], f, size)
    <3> DEFINE n == a[k]
               r == Of(n)
    <3>1. n \in 1 .. size
      BY <2>2
    <3> HIDE DEF n
    <3>2. /\ r = <<r[1], r[2]>> /\ r[1] \in Nat /\ r[2] \in Nat
          /\ 1 <= r[1] /\ r[1] <= r[2] /\ r[2] <= size
      <4>1. CASE return = "scope"
        BY <3>1, <4>1, ScopeFacts
      <4>2. CASE return # "scope"
        BY <3>1, <4>2
      <4> QED
        BY <4>1, <4>2
    <3> HIDE DEF r
    <3>3. <<>> \in Seq(Nat) /\ \A i \in 1 .. Len(<<>>) : r[1] <= <<>>[i] /\ <<>>[i] <= r[2]
      OBVIOUS
    <3>4. About(ResultForRange(f, <<r[1], r[2]>>, <<>>), f, size)
      BY <3>2, <3>3, RangeResultFacts
    <3> QED
      BY <3>2, <3>4 DEF r, n
  <2>4. \A k \in 1 .. m : res[k] \in Entries
    BY <2>3 DEF About
  <2>5. res \in Seq(Entries) /\ Len(res) = m
    BY <2>2, <2>4
  <2> HIDE DEF res
  <2> QED
    BY <2>1, <2>3, <2>5 DEF AllAbout
<1> QED
  BY <1>1, <1>2, <1>3

-----------------------------------------------------------------------------
(* Results are appended one by one.                                        *)

Appending(g, list, more, m) ==
    g = [i \in 0 .. m |-> IF i = 0 THEN list ELSE AppendResult(g[i - 1], more[i])]
AppendRounds(g, list, more, m) ==
    \A i \in 0 .. m : g[i] = IF i = 0 THEN list ELSE AppendResult(g[i - 1], more[i])

LEMMA AppendingTo ==
    ASSUME NEW list, NEW more, NEW n \in Nat
    PROVE  \E g : Appending(g, list, more, n)
<1> DEFINE T == {m \in Nat : ~\E g : Appending(g, list, more, m)}
<1> SUFFICES ASSUME T # {} PROVE FALSE
  OBVIOUS
<1>1. PICK m \in T : \A y \in T : ~(y < m)
  <2>1. T \subseteq Nat
    OBVIOUS
  <2> HIDE DEF T
  <2> QED
    BY <2>1, Least
<1>2. CASE m = 0
  <2> DEFINE g == [i \in 0 .. 0 |-> list]
  <2>1. Appending(g, list, more, 0)
    BY DEF Appending
  <2> QED
    BY <1>1, <1>2, <2>1
<1>3. CASE m # 0
  <2>1. m \in Nat /\ m - 1 \in Nat /\ m - 1 < m /\ m - 1 \notin T
    <3>1. m \in Nat
      BY <1>1
    <3>2. m - 1 \in Nat /\ m - 1 < m
      BY <1>3, <3>1
    <3> HIDE DEF T
    <3> QED
      BY <1>1, <3>1, <3>2
  <2>2. PICK f : Appending(f, list, more, m - 1)
    BY <2>1
  <2> DEFINE g == [i \in 0 .. m |-> IF i = m THEN AppendResult(f[m - 1], more[m]) ELSE f[i]]
             h == [i \in 0 .. m |-> IF i = 0 THEN list ELSE AppendResult(g[i - 1], more[i])]
  <2>3. ASSUME NEW i \in 0 .. m PROVE g[i] = h[i]
    <3>1. CASE i = m
      BY <1>3, <2>1, <3>1
    <3>2. CASE i # m
      <4>1. i \in 0 .. m - 1 /\ (i # 0 => i - 1 \in 0 .. m /\ i - 1 # m)
        BY <2>1, <3>2
      <4>2. g[i] = f[i] /\ (i # 0 => g[i - 1] = f[i - 1])
        BY <3>2, <4>1
      <4>3. f[i] = IF i = 0 THEN list ELSE AppendResult(f[i - 1], more[i])
        BY <2>2, <4>1 DEF Appending
      <4>4. h[i] = IF i = 0 THEN list ELSE AppendResult(g[i - 1], more[i])
        OBVIOUS
      <4> QED
        BY <4>2, <4>3, <4>4, Zenon
    <3> QED
      BY <3>1, <3>2
  <2>4. g = h
    BY <2>3
  <2>5. Appending(g, list, more, m)
    BY <2>4 DEF Appending
  <2> HIDE DEF g, h
  <2> QED
    BY <1>1, <2>5
<1> QED
  BY <1>2, <1>3

LEMMA AppendByRounds ==
    ASSUME NEW list, NEW more
    PROVE  AppendResults(list, more) = (CHOOSE g : Appending(g, list, more, Len(more)))[Len(more)]
BY DEF AppendResults, Appending

LEMMA AppendHasRounds ==
    ASSUME NEW list, NEW more, Len(more) \in Nat
    PROVE  \E g : /\ AppendResults(list, more) = g[Len(more)]
                  /\ AppendRounds(g, list, more, Len(more))
<1> DEFINE g == CHOOSE g : Appending(g, list, more, Len(more))
<1>1. Appending(g, list, more, Len(more))
  BY AppendingTo
<1>2. AppendResults(list, more) = g[Len(more)]
  BY AppendByRounds
<1> HIDE DEF g
<1>3. ASSUME NEW i \in 0 .. Len(more)
      PROVE  g[i] = IF i = 0 THEN list ELSE AppendResult(g[i - 1], more[i])
  BY <1>1 DEF Appending
<1> QED
  BY <1>2, <1>3 DEF AppendRounds

\* A list that has grown by some results of another, and not beyond the limit.
Grown(res, list, more) ==
    /\ res \in Seq(Entries) /\ Len(list) <= Len(res)
    /\ \A k \in 1 .. Len(list) : res[k] = list[k]
    /\ \A k \in Len(list) + 1 .. Len(res) : \E j \in 1 .. Len(more) : res[k] = more[j]
Bounded(res) == opts.limit > 0 => Len(res) <= opts.limit + 1

LEMMA AppendFacts ==
    ASSUME NEW list \in Seq(Entries), NEW more \in Seq(Entries), opts.limit \in Nat
    PROVE  /\ Grown(AppendResults(list, more), list, more)
           /\ Bounded(list) => Bounded(AppendResults(list, more))
<1>0. Len(more) \in Nat /\ Len(list) \in Nat /\ Len(more) \in 0 .. Len(more)
  OBVIOUS
<1>1. PICK g : AppendResults(list, more) = g[Len(more)] /\ AppendRounds(g, list, more, Len(more))
  BY <1>0, AppendHasRounds
<1> DEFINE Good(s) == Grown(s, list, more) /\ (Bounded(list) => Bounded(s))
           T == {i \in 0 .. Len(more) : ~Good(g[i])}
<1> SUFFICES ASSUME T # {} PROVE FALSE
  BY <1>0, <1>1
<1>2. PICK i \in T : \A y \in T : ~(y < i)
  <2>1. T \subseteq Nat
    BY <1>0
  <2> HIDE DEF T
  <2> QED
    BY <2>1, Least
<1>3. i \in 0 .. Len(more) /\ ~Good(g[i])
  OBVIOUS
<1>4. i # 0
  <2> SUFFICES ASSUME i = 0 PROVE FALSE
    OBVIOUS
  <2>1. g[i] = list
    BY <1>1, <1>3 DEF AppendRounds
  <2> QED
    BY <1>0, <1>3, <2>1 DEF Grown
<1>5. i \in 1 .. Len(more) /\ i - 1 \in 0 .. Len(more) /\ i - 1 < i /\ i \in Int
  BY <1>0, <1>3, <1>4
<1>6. Good(g[i - 1])
  <2>1. i - 1 \notin T
    <3> HIDE DEF T
    <3> QED
      BY <1>2, <1>5
  <2> QED
    BY <1>5, <2>1
<1> DEFINE s == g[i - 1]
           r == more[i]
<1>7. g[i] = AppendResult(s, r) /\ r \in Entries
  BY <1>1, <1>3, <1>4, <1>5 DEF AppendRounds
<1>8. Good(s)
  BY <1>6
<1> HIDE DEF T, s
<1>9. CASE Full(s) \/ Known(s, r)
  <2>1. g[i] = s
    BY <1>7, <1>9 DEF AppendResult
  <2> QED
    BY <1>3, <1>8, <2>1
<1>10. CASE ~(Full(s) \/ Known(s, r))
  <2> DEFINE t == Append(s, r)
  <2>1. g[i] = t
    BY <1>7, <1>10 DEF AppendResult
  <2>2. s \in Seq(Entries) /\ Len(s) \in Nat /\ Len(list) <= Len(s)
    BY <1>8 DEF Grown
  <2>3. /\ t \in Seq(Entries) /\ Len(t) = Len(s) + 1 /\ t[Len(s) + 1] = r
        /\ \A k \in 1 .. Len(s) : t[k] = s[k]
    BY <1>7, <2>2
  <2> HIDE DEF t, r
  <2>4. \A k \in 1 .. Len(list) : t[k] = list[k]
    BY <1>0, <1>8, <2>2, <2>3 DEF Grown
  <2>5. ASSUME NEW k \in Len(list) + 1 .. Len(t) PROVE \E j \in 1 .. Len(more) : t[k] = more[j]
    <3>1. CASE k = Len(s) + 1
      BY <1>5, <2>3, <3>1 DEF r
    <3>2. CASE k # Len(s) + 1
      <4>1. k \in Len(list) + 1 .. Len(s) /\ k \in 1 .. Len(s)
        BY <1>0, <2>2, <2>3, <3>2
      <4> QED
        BY <1>8, <2>3, <4>1 DEF Grown
    <3> QED
      BY <3>1, <3>2
  <2>6. Grown(t, list, more)
    BY <1>0, <2>2, <2>3, <2>4, <2>5 DEF Grown
  <2>7. Bounded(t)
    <3>1. opts.limit > 0 => ~(Len(s) > opts.limit)
      BY <1>10 DEF Full
    <3> QED
      BY <2>2, <2>3, <3>1 DEF Bounded
  <2> QED
    BY <1>3, <2>1, <2>6, <2>7
<1> QED
  BY <1>9, <1>10

-----------------------------------------------------------------------------
(* What git compares.                                                      *)

LEMMA ContentFacts ==
    ASSUME NEW c \in Content
    PROVE  /\ Numbered(c \ {0}) /\ 0 \notin c \ {0}
           /\ c \notin {{}, Absent} =>
                 /\ Numbered(c) /\ c \ {0} = c
                 /\ Cardinality(c) \in Nat /\ Cardinality(c) >= 1
<1>0. c = Absent \/ c = {} \/ (IsFiniteSet(c) /\ c \subseteq Nat \ {0})
  BY ChangedQueryAssumption DEF Content
<1>1. CASE c = Absent \/ c = {}
  <2>1. c \ {0} = {}
    BY <1>1 DEF Absent
  <2>2. Numbered({})
    BY FS_EmptySet DEF Numbered
  <2> QED
    BY <1>1, <2>1, <2>2
<1>2. CASE c # {} /\ IsFiniteSet(c) /\ c \subseteq Nat \ {0}
  <2>1. Numbered(c) /\ c \ {0} = c
    BY <1>2 DEF Numbered
  <2>2. Cardinality(c) \in Nat /\ Cardinality(c) # 0
    BY <1>2, FS_EmptySet, FS_CardinalityType
  <2>3. Cardinality(c) >= 1
    BY <2>2
  <2> QED
    BY <1>2, <2>1, <2>2, <2>3
<1> QED
  BY <1>0, <1>1, <1>2

LEMMA TreeFacts ==
    ASSUME NEW t, t \in Tree \/ t = Empty, NEW f \in Files
    PROVE  t[f] \in Content
BY DEF Tree, Empty, Content

\* A hunk has a start and a count, and one with a count starts at a line.
LEMMA HunkFacts ==
    ASSUME NEW a, NEW b, Numbered(a \ {0}), Numbered(b \ {0}), NEW h \in Hunks(a, b)
    PROVE  h = <<h[1], h[2]>> /\ h[1] \in Nat /\ h[2] \in Nat /\ (h[2] = 0 \/ h[1] >= 1)
<1> DEFINE old == a \ {0}
           new == b \ {0}
           common == old \cap new
           Stretch(k) == {x \in (old \cup new) \ common : Before(common, x) = k}
           Added(k) == Stretch(k) \cap new
           Hunk(k) == IF Added(k) # {} THEN <<Before(new, Min(Added(k))) + 1, Cardinality(Added(k))>>
                      ELSE <<Before(new, Min(Stretch(k))), 0>>
<1>1. PICK k \in 0 .. Cardinality(common) : Stretch(k) # {} /\ h = Hunk(k)
  BY DEF Hunks
<1>2. Numbered(old) /\ Numbered(new)
  OBVIOUS
<1>3. Stretch(k) \subseteq Nat /\ Added(k) \in SUBSET new
  BY <1>2 DEF Numbered
<1> HIDE DEF new
<1>4. CASE Added(k) # {}
  <2> DEFINE A == Added(k)
  <2>1. Numbered(A) /\ A \subseteq Nat /\ A # {}
    BY <1>2, <1>3, <1>4, NumberedPart DEF Numbered
  <2>2. h = <<Before(new, Min(A)) + 1, Cardinality(A)>>
    BY <1>1, <1>4
  <2> HIDE DEF A
  <2>3. Min(A) \in Int
    BY <2>1, Smallest, Zenon
  <2>4. Before(new, Min(A)) \in Nat /\ Cardinality(A) \in Nat
    BY <1>2, <2>1, <2>3, BeforeFacts, FS_CardinalityType DEF Numbered
  <2> QED
    BY <2>2, <2>4
<1>5. CASE Added(k) = {}
  <2> DEFINE S == Stretch(k)
  <2>1. S \subseteq Nat /\ S # {}
    BY <1>1, <1>3
  <2>2. h = <<Before(new, Min(S)), 0>>
    BY <1>1, <1>5
  <2> HIDE DEF S
  <2>3. Min(S) \in Int
    BY <2>1, Smallest, Zenon
  <2>4. Before(new, Min(S)) \in Nat
    BY <1>2, <2>3, BeforeFacts
  <2> QED
    BY <2>2, <2>4
<1> QED
  BY <1>4, <1>5

\* Whatever is compared, the numbers are those of lines of the source.
LEMMA NumbersInside ==
    ASSUME NEW a, NEW b, Numbered(a \ {0}), Numbered(b \ {0}), NEW size \in Nat, size >= 1
    PROVE  ChangedNumbers(Hunks(a, b), size) \subseteq 1 .. size
<1> SUFFICES ASSUME NEW n \in ChangedNumbers(Hunks(a, b), size) PROVE n \in 1 .. size
  OBVIOUS
<1>1. PICK h \in Hunks(a, b) : n \in Lines(HunkRange(h[1], h[2], size))
  BY DEF ChangedNumbers
<1>2. h[1] \in Nat /\ h[2] \in Nat /\ (h[2] = 0 \/ h[1] >= 1)
  BY HunkFacts
<1> DEFINE r == HunkRange(h[1], h[2], size)
<1>3. r[1] \in 1 .. size /\ r[2] \in 1 .. size
  BY <1>2, HunkRangeFacts
<1> HIDE DEF r
<1> QED
  BY <1>1, <1>3 DEF Lines, r

-----------------------------------------------------------------------------
(* The command: types, and the results are about what was read.            *)

Labels == {"base", "head", "compared", "staged", "unstaged", "untracked", "read", "diff",
           "askUntracked", "finish", "done", "error"}

QueryTypes ==
    /\ commits \in Seq(Tree) /\ HEAD \in 0 .. Len(commits) /\ index \in Tree /\ work \in Tree
    /\ edits \in 0 .. MaxEdits /\ opts \in [base : BOOLEAN, return : Returns, limit : Limits]
    /\ base \in 0 .. Len(commits) /\ head \in 0 .. Len(commits)
    /\ listed \in SUBSET Files /\ todo \in SUBSET listed
    /\ source \in Content /\ read \in [Files -> Content]
    /\ unread \in BOOLEAN /\ truncated \in BOOLEAN /\ at \in Labels
    /\ results \in Seq(Entries) /\ Bounded(results)

\* A result is about a listed file, and about lines of what was read of it; the file that
\* is being looked at has been read, and of the files that are left nothing is said yet.
ResultsOfRead ==
    \A k \in 1 .. Len(results) :
        /\ results[k].path \in listed
        /\ results[k].kind = "changed" => Inside(results[k], Cardinality(read[results[k].path]))
QueryPhases ==
    /\ at \in {"base", "head", "compared", "staged", "unstaged", "untracked"} =>
          results = <<>> /\ todo = {}
    /\ at \in {"diff", "askUntracked"} =>
          todo # {} /\ source \notin {{}, Absent} /\ read[Min(todo)] = source
    /\ at \in {"read", "diff", "askUntracked"} =>
          \A k \in 1 .. Len(results) : results[k].path \notin todo
QueryInv == QueryTypes /\ ResultsOfRead /\ QueryPhases

LEMMA TreesOfCommits ==
    ASSUME QueryTypes, NEW c \in 0 .. Len(commits)
    PROVE  TreeOf(c) \in Tree \/ TreeOf(c) = Empty
<1>1. commits \in Seq(Tree)
  BY DEF QueryTypes
<1> HIDE DEF Tree, Empty
<1>2. CASE c = 0
  BY <1>2 DEF TreeOf
<1>3. CASE c # 0
  <2>1. c \in 1 .. Len(commits)
    BY <1>1, <1>3
  <2>2. commits[c] \in Tree
    BY <1>1, <2>1
  <2> QED
    BY <1>3, <2>2 DEF TreeOf
<1> QED
  BY <1>2, <1>3

LEMMA ComparedFacts ==
    ASSUME QueryTypes, NEW f \in Files
    PROVE  /\ TreeOf(head)[f] \in Content /\ work[f] \in Content /\ index[f] \in Content
           /\ TreeOf(MergeBase)[f] \in Content
           /\ ComparedContent(f)[1] \in Content /\ ComparedContent(f)[2] \in Content
<1>1. /\ head \in 0 .. Len(commits) /\ base \in 0 .. Len(commits)
      /\ work \in Tree /\ index \in Tree
  BY DEF QueryTypes
<1>2. MergeBase \in 0 .. Len(commits)
  BY <1>1 DEF MergeBase, Lesser
<1>3. TreeOf(head)[f] \in Content /\ TreeOf(MergeBase)[f] \in Content
  BY <1>1, <1>2, TreesOfCommits, TreeFacts, Zenon
<1>4. work[f] \in Content /\ index[f] \in Content
  BY <1>1, TreeFacts, Zenon
<1>5. Tracked(f) \in Content
  BY <1>4 DEF Tracked, Content
<1> QED
  BY <1>3, <1>4, <1>5 DEF ComparedContent

LEMMA InitQuery == QueryInit => QueryInv
<1> SUFFICES ASSUME QueryInit PROVE QueryInv
  OBVIOUS
<1> HIDE DEF Tree, Entries
<1>1. commits \in Seq(Tree) /\ HEAD \in 0 .. Len(commits)
  <2>1. /\ commits \in {<<>>} \cup {<<t>> : t \in Tree} \/ commits \in Tree \X Tree
        /\ HEAD = Len(commits)
    BY DEF QueryInit
  <2>2. /\ <<>> \in Seq(Tree) /\ \A t \in Tree : <<t>> \in Seq(Tree)
        /\ \A t, u \in Tree : <<t, u>> \in Seq(Tree)
    OBVIOUS
  <2>3. CASE commits \in {<<>>} \cup {<<t>> : t \in Tree}
    <3>1. commits = <<>> \/ \E t \in Tree : commits = <<t>>
      BY <2>3
    <3>2. commits \in Seq(Tree)
      BY <2>2, <3>1
    <3>3. Len(commits) \in Nat
      BY <3>2
    <3> QED
      BY <2>1, <3>2, <3>3
  <2>4. CASE commits \in Tree \X Tree
    <3>1. PICK t \in Tree, u \in Tree : commits = <<t, u>>
      BY <2>4
    <3>2. commits \in Seq(Tree)
      BY <2>2, <3>1
    <3>3. Len(commits) \in Nat
      BY <3>2
    <3> QED
      BY <2>1, <3>2, <3>3
  <2> QED
    BY <2>1, <2>3, <2>4
<1>0. index \in Tree /\ work \in Tree
  <2>1. CASE commits \in Tree \X Tree /\ index = commits[2] /\ work = index
    BY <2>1
  <2>2. CASE index \in Tree /\ work \in Tree
    BY <2>2
  <2> QED
    BY <2>1, <2>2 DEF QueryInit
<1>2. /\ index \in Tree /\ work \in Tree /\ edits = 0
      /\ opts \in [base : BOOLEAN, return : Returns, limit : Limits]
      /\ base = 0 /\ head = 0 /\ listed = {} /\ todo = {} /\ source = Absent
      /\ results = <<>> /\ truncated = FALSE /\ at = "base" /\ unread = FALSE /\ read = Empty
  BY <1>0 DEF QueryInit
<1>3. Absent \in Content /\ Empty \in [Files -> Content]
  BY DEF Content, Empty
<1>4. results \in Seq(Entries) /\ Len(results) = 0
  BY <1>2
<1>5. opts.limit \in Nat /\ MaxEdits \in Nat
  BY <1>2, ChangedQueryAssumption
<1>6. Bounded(results) /\ edits \in 0 .. MaxEdits
  BY <1>2, <1>4, <1>5 DEF Bounded
<1>7. base \in 0 .. Len(commits) /\ head \in 0 .. Len(commits)
  BY <1>1, <1>2
<1>8. at \in Labels /\ unread \in BOOLEAN /\ truncated \in BOOLEAN
  BY <1>2 DEF Labels
<1> HIDE DEF Content, Empty, Absent
<1>9. QueryTypes
  BY <1>1, <1>2, <1>3, <1>4, <1>6, <1>7, <1>8 DEF QueryTypes
<1> QED
  BY <1>2, <1>4, <1>9 DEF QueryInv, ResultsOfRead, QueryPhases

\* Nothing that happens to the repository reaches the command.
LEMMA EditQuery == ASSUME QueryInv, Edit PROVE QueryInv'
<1> HIDE DEF Tree, Entries, Content, Empty, Absent
<1>1. QueryTypes /\ ResultsOfRead /\ QueryPhases
  BY DEF QueryInv
<1>2. UNCHANGED <<query, unread, read>> /\ edits' = edits + 1 /\ edits < MaxEdits
  BY DEF Edit
<1>3. UNCHANGED <<opts, base, head, listed, todo, source, results, truncated, at, unread, read>>
  BY <1>2 DEF query
<1>4. edits' \in 0 .. MaxEdits
  <2>1. edits \in 0 .. MaxEdits /\ MaxEdits \in Nat
    BY <1>1, ChangedQueryAssumption DEF QueryTypes
  <2> QED
    BY <1>2, <2>1
<1>5. commits \in Seq(Tree) /\ HEAD \in 0 .. Len(commits) /\ index \in Tree /\ work \in Tree
  BY <1>1 DEF QueryTypes
<1>6. /\ commits' \in Seq(Tree) /\ Len(commits') >= Len(commits) /\ HEAD' \in 0 .. Len(commits')
      /\ index' \in Tree /\ work' \in Tree
  <2>1. CASE /\ \E f \in Files : \E c \in Contents[f] : work' = [work EXCEPT ![f] = c]
             /\ UNCHANGED <<commits, HEAD, index>>
    <3>1. PICK f \in Files : \E c \in Contents[f] : work' = [work EXCEPT ![f] = c]
      BY <2>1
    <3>4. PICK c \in Contents[f] : work' = [work EXCEPT ![f] = c]
      BY <3>1
    <3>2. c \in Content
      BY DEF Content
    <3>3. work' \in Tree
      BY <1>5, <3>4, <3>2 DEF Tree
    <3> QED
      BY <1>5, <2>1, <3>3
  <2>2. CASE /\ \E f \in Files : index' = [index EXCEPT ![f] = work[f]]
             /\ UNCHANGED <<commits, HEAD, work>>
    <3>1. PICK f \in Files : index' = [index EXCEPT ![f] = work[f]]
      BY <2>2
    <3>3. index' \in Tree
      BY <1>5, <3>1 DEF Tree
    <3> QED
      BY <1>5, <2>2, <3>3
  <2>3. CASE /\ commits' = Append(commits, index) /\ HEAD' = Len(commits) + 1
             /\ UNCHANGED <<index, work>>
    BY <1>5, <2>3
  <2>4. CASE /\ HEAD' \in 0 .. Len(commits)
             /\ UNCHANGED <<commits, index, work>>
    BY <1>5, <2>4
  <2> QED
    BY <2>1, <2>2, <2>3, <2>4 DEF Edit
<1>7. base' \in 0 .. Len(commits') /\ head' \in 0 .. Len(commits')
  <2>1. base \in 0 .. Len(commits) /\ head \in 0 .. Len(commits)
    BY <1>1 DEF QueryTypes
  <2>2. Len(commits) \in Int /\ Len(commits') \in Int
    BY <1>5, <1>6
  <2> QED
    BY <1>3, <1>6, <2>1, <2>2
<1>8. QueryTypes'
  BY <1>1, <1>3, <1>4, <1>6, <1>7 DEF QueryTypes, Bounded
<1> QED
  BY <1>1, <1>3, <1>8 DEF QueryInv, ResultsOfRead, QueryPhases

LEMMA FailQuery == ASSUME QueryInv, Fail PROVE QueryInv'
<1> HIDE DEF Tree, Entries, Content, Empty, Absent
<1>1. /\ at' = "error" /\ results' = <<>> /\ truncated' = FALSE
      /\ UNCHANGED <<commits, HEAD, index, work, edits>>
      /\ UNCHANGED <<unread, read, opts, base, head, listed, todo, source>>
  BY DEF Fail, Goto, repository
<1>2. QueryTypes
  BY DEF QueryInv
<1>3. results' \in Seq(Entries) /\ Len(results') = 0 /\ at' \in Labels
  BY <1>1 DEF Labels
<1>4. opts.limit \in Nat
  BY <1>2, ChangedQueryAssumption DEF QueryTypes
<1>5. Bounded(results)'
  BY <1>1, <1>3, <1>4 DEF Bounded
<1>6. QueryTypes'
  BY <1>1, <1>2, <1>3, <1>5 DEF QueryTypes
<1> QED
  BY <1>1, <1>3, <1>6 DEF QueryInv, ResultsOfRead, QueryPhases

LEMMA ResolveQuery == ASSUME QueryInv, ResolveBase \/ ResolveOptionalHead PROVE QueryInv'
<1> HIDE DEF Tree, Entries, Content, Empty, Absent
<1>1. /\ UNCHANGED <<commits, HEAD, index, work, edits>>
      /\ UNCHANGED <<unread, read, opts, listed, todo, source, results, truncated>>
      /\ at \in {"base", "head"}
      /\ at' \in {"head", "error", "compared", "staged"}
  BY DEF ResolveBase, ResolveOptionalHead, Goto, repository
<1>2. QueryTypes
  BY DEF QueryInv
<1>3. base' \in 0 .. Len(commits) /\ head' \in 0 .. Len(commits)
  <2>1. /\ base \in 0 .. Len(commits) /\ head \in 0 .. Len(commits) /\ HEAD \in 0 .. Len(commits)
        /\ DOMAIN commits = 1 .. Len(commits) /\ Len(commits) \in Nat
    BY <1>2 DEF QueryTypes
  <2>2. base' \in {0, base} \cup DOMAIN commits /\ head' \in {head, HEAD}
    BY DEF ResolveBase, ResolveOptionalHead
  <2> QED
    BY <2>1, <2>2
<1>4. results = <<>> /\ todo = {}
  BY <1>1 DEF QueryInv, QueryPhases
<1>5. Len(results') = 0
  BY <1>1, <1>4
<1>6. QueryTypes'
  BY <1>1, <1>2, <1>3 DEF QueryTypes, Labels, Bounded
<1> QED
  BY <1>1, <1>4, <1>5, <1>6 DEF QueryInv, ResultsOfRead, QueryPhases

LEMMA ListQuery == ASSUME QueryInv, ListChangedFiles PROVE QueryInv'
<1> HIDE DEF Tree, Entries, Content, Empty, Absent
<1>1. /\ UNCHANGED <<commits, HEAD, index, work, edits>>
      /\ UNCHANGED <<unread, read, opts, base, head, source, results, truncated>>
      /\ at \in {"compared", "staged", "unstaged", "untracked"}
      /\ \/ at' = "read" /\ todo' = listed'
         \/ at' \in {"unstaged", "untracked"} /\ todo' = todo
  BY DEF ListChangedFiles, ChangedFiles, Goto, repository
<1>2. QueryTypes
  BY DEF QueryInv
<1>3. listed' \in SUBSET Files
  <2>1. listed \in SUBSET Files
    BY <1>2 DEF QueryTypes
  <2> QED
    BY <2>1 DEF ListChangedFiles, ChangedFiles, Compared, Staged, Unstaged
<1>4. results = <<>> /\ todo = {}
  BY <1>1 DEF QueryInv, QueryPhases
<1>5. Len(results') = 0 /\ todo' \in SUBSET listed'
  BY <1>1, <1>4
<1>6. QueryTypes'
  BY <1>1, <1>2, <1>3, <1>5 DEF QueryTypes, Labels, Bounded
<1> QED
  BY <1>1, <1>4, <1>5, <1>6 DEF QueryInv, ResultsOfRead, QueryPhases

\* Results of the file that is looked at leave those of the other files as they are.
LEMMA ReportQuery ==
    ASSUME QueryInv, at \in {"read", "diff", "askUntracked"}, NEW f \in todo, NEW more,
           AllAbout(more, f, Cardinality(read'[f])), results' = AppendResults(results, more),
           read' \in [Files -> Content], \A g \in Files \ {f} : read'[g] = read[g],
           source' \in Content, unread' \in BOOLEAN,
           UNCHANGED <<commits, HEAD, index, work, edits, opts, base, head, listed, truncated>>,
           \/ at' = "finish" /\ UNCHANGED todo
           \/ at' = "read" /\ todo' = todo \ {f}
    PROVE  QueryInv'
<1> HIDE DEF Tree, Entries, Content, Empty, Absent
<1>1. QueryTypes /\ ResultsOfRead /\ QueryPhases
  BY DEF QueryInv
<1>2. opts.limit \in Nat /\ results \in Seq(Entries) /\ Bounded(results)
  BY <1>1, ChangedQueryAssumption DEF QueryTypes
<1>3. more \in Seq(Entries)
  BY DEF AllAbout
<1> DEFINE res == AppendResults(results, more)
<1>4. Grown(res, results, more) /\ Bounded(res)
  BY <1>2, <1>3, AppendFacts
<1>5. results' = res
  OBVIOUS
<1> HIDE DEF res
<1>6. listed \in SUBSET Files /\ todo \in SUBSET listed
  BY <1>1 DEF QueryTypes
<1>7. ASSUME NEW k \in 1 .. Len(res)
      PROVE  /\ res[k].path \in listed /\ (res[k].path = f \/ res[k].path \notin todo)
             /\ res[k].kind = "changed" => Inside(res[k], Cardinality(read'[res[k].path]))
  <2>1. CASE k \in 1 .. Len(results)
    <3> DEFINE r == results[k]
    <3>1. /\ r.path \in listed /\ r.path \notin todo
          /\ r.kind = "changed" => Inside(r, Cardinality(read[r.path]))
      BY <1>1, <2>1 DEF ResultsOfRead, QueryPhases
    <3>2. res[k] = r
      BY <1>4, <2>1 DEF Grown
    <3> HIDE DEF r
    <3>3. read'[r.path] = read[r.path]
      BY <1>6, <3>1
    <3> QED
      BY <3>1, <3>2, <3>3
  <2>2. CASE k \notin 1 .. Len(results)
    <3>1. k \in Len(results) + 1 .. Len(res)
      <4>1. Len(results) \in Nat /\ Len(res) \in Nat
        BY <1>2, <1>4 DEF Grown
      <4> QED
        BY <2>2, <4>1
    <3>2. PICK j \in 1 .. Len(more) : res[k] = more[j]
      BY <1>4, <3>1 DEF Grown
    <3>3. About(more[j], f, Cardinality(read'[f]))
      BY DEF AllAbout
    <3>4. res[k].path = f /\ (res[k].kind = "changed" => Inside(res[k], Cardinality(read'[f])))
      BY <3>2, <3>3 DEF About
    <3>5. f \in listed
      BY <1>6
    <3> QED
      BY <3>4, <3>5
  <2> QED
    BY <2>1, <2>2
<1>8. at' \in Labels /\ todo' \in SUBSET listed
  BY <1>6 DEF Labels
<1>9. res \in Seq(Entries)
  BY <1>4 DEF Grown
<1>10. QueryTypes'
  BY <1>1, <1>4, <1>5, <1>8, <1>9 DEF QueryTypes, Bounded
<1>11. ResultsOfRead'
  BY <1>5, <1>7 DEF ResultsOfRead
<1>12. at' \in {"finish", "read"}
       /\ (at' = "read" => \A k \in 1 .. Len(res) : res[k].path \notin todo')
  BY <1>7
<1>13. QueryPhases'
  BY <1>5, <1>12 DEF QueryPhases
<1> QED
  BY <1>10, <1>11, <1>13 DEF QueryInv

LEMMA ReadFileQuery == ASSUME QueryInv, ReadFile PROVE QueryInv'
<1> HIDE DEF Tree, Entries, Content, Empty, Absent
<1>1. QueryTypes /\ ResultsOfRead /\ QueryPhases
  BY DEF QueryInv
<1> DEFINE f == Min(todo)
           content == IF base # 0 THEN TreeOf(head)[f] ELSE work[f]
<1>2. at = "read" /\ todo # {}
  BY DEF ReadFile
<1>3. f \in todo /\ f \in listed /\ f \in Files
  <2>1. todo \subseteq listed /\ listed \subseteq Files /\ Files \subseteq Nat
    BY <1>1, ChangedQueryAssumption DEF QueryTypes
  <2>2. todo \subseteq Nat
    BY <2>1
  <2>3. f \in todo
    BY <1>2, <2>2, Smallest
  <2> QED
    BY <2>1, <2>3
<1>4. content \in Content
  BY <1>1, <1>3, ComparedFacts
<1>5. UNCHANGED <<commits, HEAD, index, work, edits, opts, base, head, listed, truncated>>
  BY DEF ReadFile, repository
<1>6. CASE /\ content \notin {{}, Absent}
           /\ source' = content /\ read' = [read EXCEPT ![f] = content] /\ at' = "diff"
           /\ UNCHANGED <<todo, results, unread>>
  <2>1. read \in [Files -> Content]
    BY <1>1 DEF QueryTypes
  <2> HIDE DEF f, content
  <2>2. /\ read' \in [Files -> Content] /\ read'[f] = content
        /\ \A g \in Files \ {f} : read'[g] = read[g]
    BY <1>3, <1>4, <1>6, <2>1
  <2>3. QueryTypes'
    BY <1>1, <1>4, <1>5, <1>6, <2>2 DEF QueryTypes, Labels, Bounded
  <2>4. ASSUME NEW k \in 1 .. Len(results)
        PROVE  /\ results[k].path \in listed
               /\ results[k].kind = "changed" => Inside(results[k], Cardinality(read'[results[k].path]))
    <3>1. /\ results[k].path \in listed /\ results[k].path \notin todo
          /\ results[k].kind = "changed" => Inside(results[k], Cardinality(read[results[k].path]))
      BY <1>1, <1>2 DEF ResultsOfRead, QueryPhases
    <3>2. listed \subseteq Files
      BY <1>1 DEF QueryTypes
    <3>3. read'[results[k].path] = read[results[k].path]
      BY <1>3, <2>2, <3>1, <3>2
    <3> QED
      BY <3>1, <3>3
  <2>5. ResultsOfRead'
    BY <1>5, <1>6, <2>4 DEF ResultsOfRead
  <2>6. \A k \in 1 .. Len(results) : results[k].path \notin todo
    BY <1>1, <1>2 DEF QueryPhases
  <2>7. at' = "diff" /\ results' = results /\ todo' = todo /\ source' = read'[Min(todo')]
    BY <1>6, <2>2 DEF f
  <2>8. QueryPhases'
    BY <1>2, <1>6, <2>6, <2>7 DEF QueryPhases
  <2> QED
    BY <2>3, <2>5, <2>8 DEF QueryInv
<1>7. CASE /\ source' = {} /\ UNCHANGED read
           /\ unread' = (unread \/ content \notin {{}, Absent})
           /\ results' = AppendResults(results, <<FileResult(f)>>)
           /\ \/ at' = "finish" /\ UNCHANGED todo
              \/ at' = "read" /\ todo' = todo \ {f}
  <2>1. /\ read' \in [Files -> Content] /\ unread' \in BOOLEAN /\ {} \in Content
        /\ \A g \in Files \ {f} : read'[g] = read[g]
    BY <1>1, <1>7 DEF QueryTypes, Content
  <2> HIDE DEF f, content
  <2>2. AllAbout(<<FileResult(f)>>, f, Cardinality(read'[f]))
    BY <1>3, FileResultFacts
  <2> QED
    BY <1>2, <1>3, <1>5, <1>7, <2>1, <2>2, ReportQuery
<1> QED
  BY <1>6, <1>7 DEF ReadFile, Goto

LEMMA ReportedQuery ==
    ASSUME QueryInv, at \in {"diff", "askUntracked"},
           NEW numbers \in SUBSET (1 .. Cardinality(source)), Report(Min(todo), numbers),
           UNCHANGED <<repository, unread, read, opts, base, head, listed, source, truncated>>
    PROVE  QueryInv'
<1> HIDE DEF Tree, Entries, Content, Empty, Absent
<1>1. QueryTypes /\ ResultsOfRead /\ QueryPhases
  BY DEF QueryInv
<1> DEFINE f == Min(todo)
           size == Cardinality(source)
           more == ResultsFor(f, size, numbers, opts.return)
<1>2. todo # {} /\ source \notin {{}, Absent} /\ read[f] = source
  BY <1>1 DEF QueryPhases
<1>3. f \in todo /\ f \in Files
  <2>1. todo \subseteq listed /\ listed \subseteq Files /\ Files \subseteq Nat
    BY <1>1, ChangedQueryAssumption DEF QueryTypes
  <2>2. todo \subseteq Nat
    BY <2>1
  <2>3. f \in todo
    BY <1>2, <2>2, Smallest
  <2> QED
    BY <2>1, <2>3
<1>4. size \in Nat /\ source \in Content
  <2>1. source \in Content
    BY <1>1 DEF QueryTypes
  <2> QED
    BY <1>2, <2>1, ContentFacts
<1>5. opts.return \in Modes
  BY <1>1, ChangedQueryAssumption DEF QueryTypes, Modes
<1>6. AllAbout(more, f, size)
  <2> HIDE DEF f
  <2> QED
    BY <1>3, <1>4, <1>5, ResultsForFacts
<1>7. /\ UNCHANGED <<commits, HEAD, index, work, edits, opts, base, head, listed, truncated>>
      /\ UNCHANGED <<unread, read, source>>
  BY DEF repository
<1>8. /\ results' = AppendResults(results, more)
      /\ \/ at' = "finish" /\ UNCHANGED todo
         \/ at' = "read" /\ todo' = todo \ {f}
  BY DEF Report, Goto
<1>9. read' \in [Files -> Content] /\ source' \in Content /\ unread' \in BOOLEAN
      /\ read'[f] = source
  BY <1>1, <1>2, <1>7 DEF QueryTypes
<1>10. AllAbout(more, f, Cardinality(read'[f]))
  BY <1>6, <1>9
<1>11. \A g \in Files \ {f} : read'[g] = read[g]
  BY <1>7
<1> HIDE DEF f, more, size
<1> QED
  BY <1>3, <1>7, <1>8, <1>9, <1>10, <1>11, ReportQuery

LEMMA LinesQuery == ASSUME QueryInv, ChangedLines \/ AskUntracked PROVE QueryInv'
<1> HIDE DEF Tree, Entries, Content, Empty, Absent
<1>1. QueryTypes /\ ResultsOfRead /\ QueryPhases
  BY DEF QueryInv
<1> DEFINE f == Min(todo)
           size == Cardinality(source)
           numbers == ChangedNumbers(Hunks(ComparedContent(f)[1], ComparedContent(f)[2]), size)
<1>2. at \in {"diff", "askUntracked"}
  BY DEF ChangedLines, AskUntracked
<1>3. todo # {} /\ source \in Content /\ source \notin {{}, Absent}
  BY <1>1, <1>2 DEF QueryPhases, QueryTypes
<1>4. f \in Files
  <2>1. todo \subseteq listed /\ listed \subseteq Files /\ Files \subseteq Nat
    BY <1>1, ChangedQueryAssumption DEF QueryTypes
  <2>2. todo \subseteq Nat
    BY <2>1
  <2>3. f \in todo
    BY <1>3, <2>2, Smallest
  <2> QED
    BY <2>1, <2>3
<1>5. size \in Nat /\ size >= 1
  BY <1>3, ContentFacts
<1>6. numbers \in SUBSET (1 .. size)
  <2> HIDE DEF f, size
  <2> QED
    BY <1>1, <1>4, <1>5, ComparedFacts, ContentFacts, NumbersInside
<1>7. UNCHANGED <<repository, unread, read, opts, base, head, listed, source, truncated>>
  BY DEF ChangedLines, AskUntracked
<1>8. {} \in SUBSET (1 .. size) /\ 1 .. size \in SUBSET (1 .. size)
  OBVIOUS
<1>9. CASE \E n \in {{}, 1 .. size, numbers} : Report(f, n)
  <2>1. PICK n \in SUBSET (1 .. size) : Report(f, n)
    <3> HIDE DEF numbers, size, f
    <3> QED
      BY <1>6, <1>8, <1>9
  <2> HIDE DEF numbers
  <2> QED
    BY <1>2, <1>7, <2>1, ReportedQuery
<1>10. CASE at = "diff" /\ at' = "askUntracked" /\ UNCHANGED <<results, todo>>
  <2>1. /\ UNCHANGED <<commits, HEAD, index, work, edits>>
        /\ UNCHANGED <<unread, read, opts, base, head, listed, source, truncated>>
    BY <1>7 DEF repository
  <2>2. QueryTypes'
    BY <1>1, <1>10, <2>1 DEF QueryTypes, Labels, Bounded
  <2> QED
    BY <1>1, <1>10, <2>1, <2>2 DEF QueryInv, ResultsOfRead, QueryPhases
<1>11. CASE ChangedLines
  <2>1. \/ Report(f, 1 .. size) \/ Report(f, numbers)
        \/ at = "diff" /\ at' = "askUntracked" /\ UNCHANGED <<results, todo>>
    BY <1>11 DEF ChangedLines, Goto
  <2> HIDE DEF f, size, numbers
  <2> QED
    BY <1>9, <1>10, <2>1
<1>12. CASE AskUntracked
  <2>1. Report(f, IF Untracked(f) THEN 1 .. size ELSE {})
    BY <1>12 DEF AskUntracked
  <2> HIDE DEF f, size, numbers
  <2> QED
    BY <1>9, <2>1
<1> QED
  BY <1>11, <1>12

LEMMA FinishQuery == ASSUME QueryInv, Finish PROVE QueryInv'
<1> HIDE DEF Tree, Entries, Content, Empty, Absent
<1>1. QueryTypes /\ ResultsOfRead /\ QueryPhases
  BY DEF QueryInv
<1>2. /\ UNCHANGED <<commits, HEAD, index, work, edits>>
      /\ UNCHANGED <<unread, read, opts, base, head, listed, todo, source>>
      /\ at' = "done"
  BY DEF Finish, Goto, repository
<1>3. /\ opts.limit \in Nat /\ results \in Seq(Entries) /\ Len(results) \in Nat
  <2>1. opts.limit \in Nat /\ results \in Seq(Entries)
    BY <1>1, ChangedQueryAssumption DEF QueryTypes
  <2> QED
    BY <2>1
<1>4. /\ results' \in Seq(Entries) /\ Len(results') <= Len(results) /\ Bounded(results)'
      /\ \A k \in 1 .. Len(results') : k \in 1 .. Len(results) /\ results'[k] = results[k]
      /\ truncated' \in BOOLEAN
  <2>1. CASE Full(results)
    <3>1. results' = SubSeq(results, 1, opts.limit) /\ truncated' = TRUE
      BY <2>1 DEF Finish
    <3>2. opts.limit \in 1 .. Len(results)
      BY <1>3, <2>1 DEF Full
    <3>3. /\ results' \in Seq(Entries) /\ Len(results') = opts.limit
          /\ \A k \in 1 .. opts.limit : results'[k] = results[k]
      BY <1>3, <3>1, <3>2
    <3> QED
      BY <1>2, <1>3, <3>1, <3>2, <3>3 DEF Bounded
  <2>2. CASE ~Full(results)
    <3>1. results' = results /\ truncated' = truncated
      BY <2>2 DEF Finish
    <3> QED
      BY <1>1, <1>2, <1>3, <3>1 DEF Bounded, QueryTypes
  <2> QED
    BY <2>1, <2>2
<1>5. QueryTypes'
  BY <1>1, <1>2, <1>4 DEF QueryTypes, Labels
<1>6. ResultsOfRead'
  BY <1>1, <1>2, <1>4 DEF ResultsOfRead
<1>7. QueryPhases'
  BY <1>2 DEF QueryPhases
<1> QED
  BY <1>5, <1>6, <1>7 DEF QueryInv

LEMMA NextQuery == QueryInv /\ [QueryNext]_queryVars => QueryInv'
<1> SUFFICES ASSUME QueryInv, [QueryNext]_queryVars PROVE QueryInv'
  OBVIOUS
<1>1. CASE UNCHANGED queryVars
  BY <1>1 DEF queryVars, repository, query, QueryInv, QueryTypes, Bounded, ResultsOfRead, QueryPhases
<1>2. CASE Edit
  BY <1>2, EditQuery
<1>3. CASE Fail
  BY <1>3, FailQuery
<1>4. CASE ResolveBase \/ ResolveOptionalHead
  BY <1>4, ResolveQuery
<1>5. CASE ListChangedFiles
  BY <1>5, ListQuery
<1>6. CASE ReadFile
  BY <1>6, ReadFileQuery
<1>7. CASE ChangedLines \/ AskUntracked
  BY <1>7, LinesQuery
<1>8. CASE Finish
  BY <1>8, FinishQuery
<1> QED
  BY <1>1, <1>2, <1>3, <1>4, <1>5, <1>6, <1>7, <1>8 DEF QueryNext

LEMMA QueryAlways == QuerySpec => []QueryInv
BY InitQuery, NextQuery, PTL DEF QuerySpec

\* Everything is in its type, every result is about a listed file, and no more than one
\* result is held beyond the limit: for any files, any contents and any number of edits
\* (Changed, navigate.go).
THEOREM QueryTypeCorrect == QuerySpec => []QueryTypeOK
<1>1. ASSUME QueryInv PROVE QueryTypeOK
  <2>1. QueryTypes /\ ResultsOfRead
    BY <1>1 DEF QueryInv
  <2> HIDE DEF Tree, Entries, Content, Empty, Absent
  <2>2. results \in Seq(Entries) /\ \A k \in 1 .. Len(results) : results[k].kind \in {"file", "changed"}
    <3>1. \A r \in Entries : r.kind \in {"file", "changed"}
      BY DEF Entries
    <3> QED
      BY <2>1, <3>1 DEF QueryTypes
  <2>3. \A c \in DOMAIN commits : commits[c] \in Tree
    BY <2>1 DEF QueryTypes
  <2> QED
    BY <2>1, <2>2, <2>3 DEF QueryTypes, ResultsOfRead, QueryTypeOK, Labels, Bounded
<1> QED
  BY <1>1, QueryAlways, PTL

\* Whatever is edited between reading a file and comparing it, a result is about lines of
\* what was read (changedHunkLineRange, mergeContextRanges).
THEOREM ResultsStayInside == QuerySpec => []ResultsInsideSource
<1>1. ASSUME QueryInv PROVE ResultsInsideSource
  BY <1>1 DEF QueryInv, ResultsOfRead, ResultsInsideSource, Inside
<1> QED
  BY <1>1, QueryAlways, PTL

-----------------------------------------------------------------------------
(* The numbers of a difference are its lines.                              *)

\* The lines of a difference between two common ones, and their hunk.
Stretched(old, new, k) == {x \in (old \cup new) \ (old \cap new) : Before(old \cap new, x) = k}
HunkOf(old, new, k) ==
    IF Stretched(old, new, k) \cap new # {}
    THEN << Before(new, Min(Stretched(old, new, k) \cap new)) + 1,
            Cardinality(Stretched(old, new, k) \cap new) >>
    ELSE <<Before(new, Min(Stretched(old, new, k))), 0>>
Stretches(old, new) == {k \in 0 .. Cardinality(old \cap new) : Stretched(old, new, k) # {}}

LEMMA HunksOf ==
    ASSUME NEW a, NEW b
    PROVE  Hunks(a, b) = {HunkOf(a \ {0}, b \ {0}, k) : k \in Stretches(a \ {0}, b \ {0})}
BY DEF Hunks, HunkOf, Stretches, Stretched

LEMMA StretchFacts ==
    ASSUME NEW old, NEW new, Numbered(old), Numbered(new), NEW k
    PROVE  /\ Numbered(old \cap new) /\ Stretched(old, new, k) \subseteq Nat
           /\ Numbered(Stretched(old, new, k) \cap new)
<1>1. old \cap new \in SUBSET new /\ Stretched(old, new, k) \cap new \in SUBSET new
  OBVIOUS
<1>2. Stretched(old, new, k) \subseteq Nat
  BY DEF Stretched, Numbered
<1> QED
  BY <1>1, <1>2, NumberedPart

\* Every line in which two contents differ is in one stretch.
LEMMA StretchOfLine ==
    ASSUME NEW old, NEW new, Numbered(old), Numbered(new),
           NEW x \in (old \cup new) \ (old \cap new)
    PROVE  LET k == Before(old \cap new, x) IN
           k \in Stretches(old, new) /\ x \in Stretched(old, new, k)
<1> DEFINE common == old \cap new
           k == Before(common, x)
<1>1. Numbered(common) /\ x \in Int
  <2>1. x \in Nat
    BY DEF Numbered
  <2>2. x \in Int
    BY <2>1
  <2> QED
    BY <2>2, StretchFacts
<1> HIDE DEF common
<1>2. k \in 0 .. Cardinality(common)
  <2>1. k \in Nat /\ k <= Cardinality(common) /\ Cardinality(common) \in Nat
    BY <1>1, BeforeFacts
  <2> HIDE DEF k
  <2> QED
    BY <2>1
<1>3. x \in Stretched(old, new, k)
  BY DEF Stretched, common
<1> HIDE DEF k
<1> QED
  BY <1>2, <1>3 DEF Stretches, k, common

\* No common line is inside a stretch, so the added lines of one follow each other.
LEMMA AddedPlaces ==
    ASSUME NEW old, NEW new, Numbered(old), Numbered(new), NEW k,
           NEW x \in Stretched(old, new, k) \cap new
    PROVE  LET A == Stretched(old, new, k) \cap new IN
           Before(new, x) = Before(new, Min(A)) + Before(A, x)
<1> DEFINE A == Stretched(old, new, k) \cap new
           common == old \cap new
           m == Min(A)
           P == {y \in new : y < m}
           Q == {y \in A : y < x}
           R == {y \in new : y < x}
<1>1. Numbered(common) /\ Numbered(A)
  BY StretchFacts
<1>2. A \subseteq Int /\ new \subseteq Int /\ common \subseteq Int
  BY <1>1 DEF Numbered
<1>3. m \in A /\ m \in Int /\ (\A y \in A : m <= y)
  <2>1. A \subseteq Nat /\ A # {}
    BY <1>1 DEF Numbered
  <2> HIDE DEF A
  <2> QED
    BY <2>1, Smallest
<1>4. \A y \in A : y \in new /\ y \notin common /\ Before(common, y) = k
  BY DEF Stretched
<1>5. \A y \in new : y \notin common => (y \in A <=> Before(common, y) = k)
  BY DEF Stretched
<1>6. x \in A /\ x \in Int
  BY <1>2
<1> HIDE DEF A, common, m
<1>7. ASSUME NEW y \in new, m <= y, y < x PROVE y \in A
  <2>1. y \in Int /\ m <= x /\ y <= x
    BY <1>2, <1>3, <1>6, <1>7
  <2>2. Before(common, m) = k /\ Before(common, x) = k
    BY <1>3, <1>4, <1>6
  <2>3. ~\E z \in common : m <= z /\ z < x
    <3>1. (\E z \in common : m <= z /\ z < x) <=> Before(common, m) < Before(common, x)
      BY <1>1, <1>3, <1>6, <2>1, BeforeGrows
    <3>2. Before(common, m) \in Nat
      BY <1>1, <1>3, BeforeFacts
    <3> QED
      BY <2>2, <3>1, <3>2
  <2>4. y \notin common
    BY <1>7, <2>3
  <2>5. Before(common, m) <= Before(common, y) /\ Before(common, y) <= Before(common, x)
    BY <1>1, <1>3, <1>6, <1>7, <2>1, BeforeGrows
  <2>6. Before(common, y) = k
    <3>1. Before(common, m) \in Nat /\ Before(common, y) \in Nat
      BY <1>1, <1>3, <2>1, BeforeFacts
    <3> QED
      BY <2>2, <2>5, <3>1
  <2> QED
    BY <1>5, <2>4, <2>6
<1>8. P \cup Q = R /\ P \cap Q = {}
  <2>1. \A y \in Int : (y < m => y < x) /\ (m <= y <=> ~(y < m))
    BY <1>3, <1>6
  <2> QED
    BY <1>2, <1>3, <1>4, <1>7, <2>1
<1>9. IsFiniteSet(P) /\ IsFiniteSet(Q)
  BY <1>1, <1>3, <1>6, BeforeFacts
<1>10. Before(new, x) = Cardinality(R) /\ Before(new, m) = Cardinality(P) /\ Before(A, x) = Cardinality(Q)
  BY DEF Before
<1> HIDE DEF P, Q, R
<1>11. Cardinality(P) \in Nat /\ Cardinality(Q) \in Nat /\ Cardinality(P \cap Q) = 0
  BY <1>8, <1>9, FS_CardinalityType, FS_EmptySet
<1>12. Cardinality(R) = Cardinality(P) + Cardinality(Q) - Cardinality(P \cap Q)
  BY <1>8, <1>9, FS_Union
<1>13. Before(new, x) = Before(new, m) + Before(A, x)
  BY <1>10, <1>11, <1>12
<1> QED
  BY <1>13 DEF m, A

LEMMA RangeOfAdded ==
    \A start, count, size \in Nat :
        start >= 1 /\ count >= 1 /\ start + count - 1 <= size =>
            HunkRange(start, count, size) = <<start, start + count - 1>>
BY DEF HunkRange, Lesser, Greater

LEMMA RangeOfRemoved ==
    \A start, size \in Nat :
        size >= 1 /\ start <= size =>
            HunkRange(start, 0, size) = IF start = 0 THEN <<1, 1>> ELSE <<start, start>>
BY DEF HunkRange, Lesser, Greater

\* The lines of a hunk with added lines are these, if the source is the new content.
LEMMA AddedLines ==
    ASSUME NEW old, NEW new, Numbered(old), Numbered(new), NEW k,
           Stretched(old, new, k) \cap new # {}
    PROVE  LET A == Stretched(old, new, k) \cap new
               h == HunkOf(old, new, k)
           IN  /\ h[1] = Before(new, Min(A)) + 1 /\ h[2] = Cardinality(A)
               /\ Lines(HunkRange(h[1], h[2], Cardinality(new))) = {Before(new, x) + 1 : x \in A}
<1> DEFINE A == Stretched(old, new, k) \cap new
           m == Min(A)
           start == Before(new, m) + 1
           count == Cardinality(A)
           size == Cardinality(new)
           h == HunkOf(old, new, k)
<1>1. h = <<start, count>>
  BY DEF HunkOf
<1>0. ASSUME NEW x \in A PROVE Before(new, x) = Before(new, m) + Before(A, x)
  BY AddedPlaces
<1>2. Numbered(A) /\ \A x \in A : x \in new /\ Before(new, x) = Before(new, m) + Before(A, x)
  BY <1>0, StretchFacts
<1>3. A # {} /\ A \subseteq Nat /\ A \subseteq Int
  BY <1>2 DEF Numbered
<1> HIDE DEF A, h
<1>4. m \in A /\ m \in Int
  BY <1>3, Smallest
<1> HIDE DEF m
<1>5. start \in Nat /\ size \in Nat /\ count \in Nat /\ Before(new, m) \in Nat
  <2>1. Before(new, m) \in Nat /\ size \in Nat
    BY <1>4, BeforeFacts
  <2>2. count \in Nat
    BY <1>2, FS_CardinalityType DEF Numbered
  <2> QED
    BY <2>1, <2>2
<1>6. \A x \in A : Before(A, x) \in Nat /\ Before(A, x) < count /\ Before(new, x) \in Nat /\ Before(new, x) < size
  BY <1>2, <1>3, BeforeFacts
<1>7. \A i \in 1 .. count : \E x \in A : Before(A, x) = i - 1
  BY <1>2, EveryPlace
<1> HIDE DEF count, size
<1>8. count >= 1
  BY <1>4, <1>5, <1>6
<1>9. start + count - 1 <= size
  <2>1. PICK x \in A : Before(A, x) = count - 1
    <3>1. count \in 1 .. count
      BY <1>5, <1>8
    <3> QED
      BY <1>7, <3>1
  <2>2. Before(new, x) = Before(new, m) + Before(A, x) /\ Before(new, x) \in Nat /\ Before(new, x) < size
    BY <1>2, <1>6
  <2> QED
    BY <1>5, <2>1, <2>2
<1>10. HunkRange(start, count, size) = <<start, start + count - 1>>
  <2>1. start >= 1
    BY <1>5
  <2> HIDE DEF start
  <2> QED
    BY <1>5, <1>8, <1>9, <2>1, RangeOfAdded
<1>11. Lines(HunkRange(start, count, size)) = start .. start + count - 1
  BY <1>10 DEF Lines
<1>12. ASSUME NEW x \in A PROVE Before(new, x) + 1 \in start .. start + count - 1
  <2>1. Before(new, x) = Before(new, m) + Before(A, x) /\ Before(A, x) \in Nat /\ Before(A, x) < count
    BY <1>2, <1>6
  <2> QED
    BY <1>5, <2>1
<1>13. ASSUME NEW n \in start .. start + count - 1 PROVE \E x \in A : n = Before(new, x) + 1
  <2> DEFINE i == n - start + 1
  <2>1. i \in 1 .. count /\ i - 1 = n - start
    BY <1>5
  <2> HIDE DEF i
  <2>2. PICK x \in A : Before(A, x) = n - start
    BY <1>7, <2>1
  <2>3. Before(new, x) = Before(new, m) + Before(A, x)
    BY <1>2
  <2>4. n = Before(new, x) + 1
    BY <1>5, <2>2, <2>3
  <2> QED
    BY <2>4
<1>14. Lines(HunkRange(start, count, size)) = {Before(new, x) + 1 : x \in A}
  <2> HIDE DEF start
  <2> QED
    BY <1>11, <1>12, <1>13
<1>15. h[1] = start /\ h[2] = count
  BY <1>1
<1> HIDE DEF start
<1> QED
  BY <1>14, <1>15 DEF h, A, m, start, count, size

\* Contents that differ give at least one number, and only they do.
LEMMA NumbersOfDifference ==
    ASSUME NEW a, NEW b, Numbered(a \ {0}), Numbered(b \ {0}), NEW size \in Nat, size >= 1
    PROVE  ChangedNumbers(Hunks(a, b), size) = {} <=> a \ {0} = b \ {0}
<1> DEFINE old == a \ {0}
           new == b \ {0}
<1>1. Hunks(a, b) = {HunkOf(old, new, k) : k \in Stretches(old, new)}
  BY HunksOf
<1> HIDE DEF old, new
<1>2. ASSUME old # new PROVE ChangedNumbers(Hunks(a, b), size) # {}
  <2>1. PICK x : x \in (old \cup new) \ (old \cap new)
    BY <1>2
  <2>2. Stretches(old, new) # {}
    BY <2>1, StretchOfLine DEF old, new
  <2>3. PICK h : h \in Hunks(a, b)
    BY <1>1, <2>2
  <2>4. h[1] \in Nat /\ h[2] \in Nat /\ (h[2] = 0 \/ h[1] >= 1)
    BY <2>3, HunkFacts
  <2> DEFINE r == HunkRange(h[1], h[2], size)
  <2>5. r[1] \in 1 .. size /\ r[2] \in 1 .. size /\ r[1] <= r[2]
    BY <2>4, HunkRangeFacts
  <2>6. r[1] \in Lines(r)
    <3> HIDE DEF r
    <3> QED
      BY <2>5 DEF Lines
  <2> QED
    BY <2>3, <2>6 DEF ChangedNumbers
<1>3. ASSUME old = new PROVE ChangedNumbers(Hunks(a, b), size) = {}
  <2>1. \A k : Stretched(old, new, k) = {}
    BY <1>3 DEF Stretched
  <2>2. Hunks(a, b) = {}
    BY <1>1, <2>1 DEF Stretches
  <2> QED
    BY <2>2 DEF ChangedNumbers
<1> QED
  BY <1>2, <1>3 DEF old, new

\* The changed lines, if the source is the new content, or there is none: the lines
\* that were added, and one next to each place where lines were only removed.
ExactNumbers(old, new, numbers) ==
    /\ \A x \in new \ old : Before(new, x) + 1 \in numbers
    /\ \A n \in numbers :
          \/ \E x \in new \ old : n = Before(new, x) + 1
          \/ \E d \in old \ new : n = Before(new, d) \/ (n = 1 /\ Before(new, d) = 0)

LEMMA NumbersExact ==
    ASSUME NEW a, NEW b, Numbered(a \ {0}), Numbered(b \ {0}), NEW size \in Nat, size >= 1,
           b \ {0} = {} \/ Cardinality(b \ {0}) = size
    PROVE  ExactNumbers(a \ {0}, b \ {0}, ChangedNumbers(Hunks(a, b), size))
<1> DEFINE old == a \ {0}
           new == b \ {0}
           numbers == ChangedNumbers(Hunks(a, b), size)
           A(k) == Stretched(old, new, k) \cap new
           Of(k) == Lines(HunkRange(HunkOf(old, new, k)[1], HunkOf(old, new, k)[2], size))
<1>1. numbers = UNION {Of(k) : k \in Stretches(old, new)}
  <2>1. Hunks(a, b) = {HunkOf(old, new, k) : k \in Stretches(old, new)}
    BY HunksOf
  <2> QED
    BY <2>1 DEF ChangedNumbers
<1>2. Numbered(old) /\ Numbered(new) /\ (new = {} \/ Cardinality(new) = size)
  OBVIOUS
<1> HIDE DEF old, new, numbers
<1>3. ASSUME NEW k, A(k) # {} PROVE Of(k) = {Before(new, x) + 1 : x \in A(k)}
  <2>1. Cardinality(new) = size
    BY <1>2, <1>3
  <2> QED
    BY <1>2, <1>3, <2>1, AddedLines
<1>4. ASSUME NEW k \in Stretches(old, new), A(k) = {}, NEW n \in Of(k)
      PROVE  \E d \in old \ new : n = Before(new, d) \/ (n = 1 /\ Before(new, d) = 0)
  <2> DEFINE S == Stretched(old, new, k)
             d == Min(S)
             start == Before(new, d)
  <2>1. S # {} /\ S \subseteq Nat
    BY <1>2, StretchFacts DEF Stretches
  <2>2. d \in S /\ d \in Int
    <3> HIDE DEF S
    <3> QED
      BY <2>1, Smallest
  <2>3. d \in old \ new
    BY <1>4, <2>2 DEF Stretched
  <2>4. HunkOf(old, new, k) = <<start, 0>>
    BY <1>4 DEF HunkOf
  <2> HIDE DEF d
  <2>5. start \in Nat /\ start <= size
    <3>1. start \in Nat /\ start <= Cardinality(new) /\ Cardinality(new) \in Nat
      BY <1>2, <2>2, BeforeFacts
    <3>2. new = {} => Cardinality(new) = 0
      BY FS_EmptySet
    <3> HIDE DEF start
    <3> QED
      BY <1>2, <3>1, <3>2
  <2>6. n \in Lines(HunkRange(start, 0, size))
    BY <1>4, <2>4
  <2>7. n = start \/ (n = 1 /\ start = 0)
    <3>1. HunkRange(start, 0, size) = IF start = 0 THEN <<1, 1>> ELSE <<start, start>>
      <4> HIDE DEF start
      <4> QED
        BY <2>5, RangeOfRemoved
    <3> HIDE DEF start
    <3> QED
      BY <2>5, <2>6, <3>1 DEF Lines
  <2> QED
    BY <2>3, <2>7
<1>5. ASSUME NEW x \in new \ old PROVE Before(new, x) + 1 \in numbers
  <2> DEFINE k == Before(old \cap new, x)
  <2>1. k \in Stretches(old, new) /\ x \in A(k)
    BY <1>2, StretchOfLine
  <2> HIDE DEF k
  <2>2. Before(new, x) + 1 \in Of(k)
    BY <1>3, <2>1
  <2> QED
    BY <1>1, <2>1, <2>2
<1>6. ASSUME NEW n \in numbers
      PROVE  \/ \E x \in new \ old : n = Before(new, x) + 1
             \/ \E d \in old \ new : n = Before(new, d) \/ (n = 1 /\ Before(new, d) = 0)
  <2>1. PICK k \in Stretches(old, new) : n \in Of(k)
    BY <1>1
  <2>2. CASE A(k) = {}
    BY <1>4, <2>1, <2>2
  <2>3. CASE A(k) # {}
    <3>1. PICK x \in A(k) : n = Before(new, x) + 1
      BY <1>3, <2>1, <2>3
    <3>2. x \in new \ old
      BY DEF Stretched
    <3> QED
      BY <3>1, <3>2
  <2> QED
    BY <2>2, <2>3
<1>7. ExactNumbers(old, new, numbers)
  BY <1>5, <1>6 DEF ExactNumbers
<1> QED
  BY <1>7 DEF old, new, numbers

\* A file that was not there has every line changed.
LEMMA AllNew ==
    ASSUME NEW a, NEW b, a \ {0} = {}, Numbered(b \ {0}), b \ {0} # {},
           NEW size, size = Cardinality(b \ {0})
    PROVE  ChangedNumbers(Hunks(a, b), size) = 1 .. size
<1> DEFINE new == b \ {0}
           numbers == ChangedNumbers(Hunks(a, b), size)
<1>1. size \in Nat /\ size >= 1
  <2>1. size \in Nat /\ size # 0
    BY FS_CardinalityType, FS_EmptySet DEF Numbered
  <2> QED
    BY <2>1
<1>2. Numbered(a \ {0})
  BY FS_EmptySet DEF Numbered
<1>3. numbers \subseteq 1 .. size
  BY <1>1, <1>2, NumbersInside
<1>4. ExactNumbers(a \ {0}, new, numbers)
  BY <1>1, <1>2, NumbersExact
<1> HIDE DEF numbers
<1>5. ASSUME NEW n \in 1 .. size PROVE n \in numbers
  <2> HIDE DEF new
  <2>1. PICK x \in new : Before(new, x) = n - 1
    BY EveryPlace DEF new
  <2>2. Before(new, x) + 1 \in numbers
    BY <1>4 DEF ExactNumbers
  <2>3. n - 1 + 1 = n
    BY <1>1
  <2> QED
    BY <2>1, <2>2, <2>3
<1> QED
  BY <1>3, <1>5 DEF numbers

-----------------------------------------------------------------------------
(* Each result once, up to the limit.                                      *)

\* A number behind all others comes last.
LEMMA AscendingMore ==
    ASSUME NEW S, Numbered(S), NEW m \in Nat, \A x \in S : x < m
    PROVE  /\ Numbered(S \cup {m}) /\ Cardinality(S \cup {m}) = Cardinality(S) + 1
           /\ \A k \in 1 .. Cardinality(S) : Ascending(S \cup {m})[k] = Ascending(S)[k]
           /\ Ascending(S \cup {m})[Cardinality(S) + 1] = m
<1> DEFINE R == S \cup {m}
           n == Cardinality(S)
<1>1. IsFiniteSet(S) /\ S \subseteq Nat /\ S \subseteq Int /\ m \notin S /\ m \in Int
  <2>1. ~(m < m)
    OBVIOUS
  <2> QED
    BY <2>1 DEF Numbered
<1>2. IsFiniteSet(R) /\ Cardinality(R) = n + 1
  BY <1>1, FS_AddElement
<1>3. Numbered(R)
  BY <1>1, <1>2 DEF Numbered
<1>4. ASSUME NEW x \in S PROVE Before(R, x) = Before(S, x)
  <2>1. x < m /\ x \in Int
    BY <1>1
  <2>2. ~(m < x)
    BY <1>1, <2>1
  <2>3. {y \in R : y < x} = {y \in S : y < x}
    BY <2>2
  <2> QED
    BY <2>3 DEF Before
<1>5. Before(R, m) = n
  <2>1. ~(m < m)
    OBVIOUS
  <2>2. {y \in R : y < m} = S
    BY <2>1
  <2> QED
    BY <2>2 DEF Before
<1>6. \A x \in R : Ascending(R)[Before(R, x) + 1] = x
  BY <1>3, AscendingFacts
<1>7. \A k \in 1 .. n : Ascending(S)[k] \in S /\ Before(S, Ascending(S)[k]) = k - 1
  BY AscendingFacts
<1> HIDE DEF R
<1>8. ASSUME NEW k \in 1 .. n PROVE Ascending(R)[k] = Ascending(S)[k]
  <2> DEFINE x == Ascending(S)[k]
  <2>1. x \in S /\ Before(S, x) = k - 1
    BY <1>7
  <2> HIDE DEF x
  <2>2. x \in R /\ Before(R, x) = k - 1
    BY <1>4, <2>1 DEF R
  <2>3. k - 1 + 1 = k
    OBVIOUS
  <2>4. Ascending(R)[k] = x
    BY <1>6, <2>2, <2>3
  <2> QED
    BY <2>4 DEF x
<1>9. Ascending(R)[n + 1] = m
  BY <1>5, <1>6 DEF R
<1> QED
  BY <1>2, <1>3, <1>8, <1>9 DEF R

\* The results that are not there before, among the first so many.
Newcomers(more, i) == {k \in 1 .. i : \A j \in 1 .. k - 1 : Key(more[j]) # Key(more[k])}
DistinctTo(more, i) ==
    [k \in 1 .. Cardinality(Newcomers(more, i)) |-> more[Ascending(Newcomers(more, i))[k]]]

LEMMA DistinctIs ==
    ASSUME NEW more
    PROVE  Distinct(more) = DistinctTo(more, Len(more))
BY DEF Distinct, DistinctTo, Newcomers

LEMMA NewcomersFacts ==
    ASSUME NEW more, NEW i \in Nat
    PROVE  Numbered(Newcomers(more, i)) /\ Newcomers(more, i) \subseteq 1 .. i
<1>1. Newcomers(more, i) \in SUBSET (1 .. i)
  BY DEF Newcomers
<1>2. Numbered(1 .. i)
  BY NumberedLines
<1> QED
  BY <1>1, <1>2, NumberedPart

LEMMA DistinctFacts ==
    ASSUME NEW more \in Seq(Entries), NEW i \in 0 .. Len(more)
    PROVE  /\ DistinctTo(more, i) \in Seq(Entries)
           /\ \A k \in 1 .. Len(DistinctTo(more, i)) :
                 \E j \in 1 .. i : DistinctTo(more, i)[k] = more[j]
           /\ \A j \in 1 .. i : \E k \in 1 .. Len(DistinctTo(more, i)) :
                 Key(DistinctTo(more, i)[k]) = Key(more[j])
<1> HIDE DEF Entries
<1> DEFINE N == Newcomers(more, i)
           n == Cardinality(N)
           a == Ascending(N)
           d == DistinctTo(more, i)
<1>1. i \in Nat /\ Len(more) \in Nat /\ 1 .. i \subseteq 1 .. Len(more)
  OBVIOUS
<1>2. Numbered(N) /\ N \subseteq 1 .. i
  BY <1>1, NewcomersFacts
<1>3. d = [k \in 1 .. n |-> more[a[k]]]
  BY DEF DistinctTo
<1>9. \A j \in 1 .. i : (\A l \in 1 .. j - 1 : Key(more[l]) # Key(more[j])) => j \in N
  BY DEF Newcomers
<1> HIDE DEF N, d
<1>4. /\ n \in Nat /\ \A k \in 1 .. n : a[k] \in N
      /\ \A x \in N : Before(N, x) + 1 \in 1 .. n /\ a[Before(N, x) + 1] = x
  BY <1>2, AscendingFacts
<1> HIDE DEF n, a
<1>5. \A k \in 1 .. n : more[a[k]] \in Entries
  <2> SUFFICES ASSUME NEW k \in 1 .. n PROVE more[a[k]] \in Entries
    OBVIOUS
  <2> DEFINE l == a[k]
  <2>1. l \in 1 .. Len(more)
    BY <1>1, <1>2, <1>4
  <2> HIDE DEF l
  <2>2. more[l] \in Entries
    BY <2>1
  <2> QED
    BY <2>2 DEF l
<1>6. d \in Seq(Entries) /\ Len(d) = n
  BY <1>3, <1>4, <1>5
<1>7. ASSUME NEW k \in 1 .. Len(d) PROVE \E j \in 1 .. i : d[k] = more[j]
  BY <1>2, <1>3, <1>4, <1>6
<1>8. ASSUME NEW j \in 1 .. i PROVE \E k \in 1 .. Len(d) : Key(d[k]) = Key(more[j])
  <2> DEFINE T == {l \in 1 .. i : Key(more[l]) = Key(more[j])}
  <2>1. T \subseteq Nat /\ T # {}
    BY <1>1
  <2>2. PICK l \in T : \A y \in T : ~(y < l)
    <3> HIDE DEF T
    <3> QED
      BY <2>1, Least
  <2>3. l \in 1 .. i /\ Key(more[l]) = Key(more[j])
    OBVIOUS
  <2>4. ASSUME NEW y \in 1 .. l - 1 PROVE Key(more[y]) # Key(more[l])
    <3>1. y \in 1 .. i /\ y < l
      BY <1>1, <2>3
    <3>2. y \notin T
      <4> HIDE DEF T
      <4> QED
        BY <2>2, <3>1
    <3> QED
      BY <2>3, <3>1, <3>2
  <2> HIDE DEF T
  <2>5. l \in N
    BY <1>9, <2>3, <2>4
  <2> DEFINE k == Before(N, l) + 1
  <2>6. k \in 1 .. n /\ a[k] = l
    BY <1>4, <2>5
  <2> HIDE DEF k
  <2>7. d[k] = more[l]
    BY <1>3, <2>6
  <2> QED
    BY <1>6, <2>3, <2>6, <2>7
<1> QED
  BY <1>6, <1>7, <1>8 DEF d

LEMMA DistinctNext ==
    ASSUME NEW more \in Seq(Entries), NEW i \in 1 .. Len(more)
    PROVE  /\ DistinctTo(more, 0) = <<>>
           /\ i \notin Newcomers(more, i) => DistinctTo(more, i) = DistinctTo(more, i - 1)
           /\ i \in Newcomers(more, i) =>
                 DistinctTo(more, i) = Append(DistinctTo(more, i - 1), more[i])
<1> HIDE DEF Entries
<1> DEFINE N == Newcomers(more, i)
           P == Newcomers(more, i - 1)
           d == DistinctTo(more, i)
           e == DistinctTo(more, i - 1)
<1>1. i \in Nat /\ i - 1 \in Nat /\ i - 1 \in 0 .. Len(more) /\ i \in 0 .. Len(more) /\ 0 \in 0 .. Len(more)
  OBVIOUS
<1>2. Numbered(P) /\ P \subseteq 1 .. i - 1
  BY <1>1, NewcomersFacts
<1>3. P = N \ {i}
  <2>1. \A k \in Int : k \in 1 .. i - 1 <=> k \in 1 .. i /\ k # i
    BY <1>1
  <2> QED
    BY <2>1 DEF Newcomers
<1>4. DistinctTo(more, 0) = <<>>
  <2>1. Newcomers(more, 0) = {}
    BY DEF Newcomers
  <2>2. Cardinality(Newcomers(more, 0)) = 0
    BY <2>1, FS_EmptySet
  <2> QED
    BY <2>2 DEF DistinctTo
<1>5. ASSUME i \notin N PROVE d = e
  <2>1. P = N
    BY <1>3, <1>5
  <2> QED
    BY <2>1 DEF DistinctTo
<1>6. ASSUME i \in N PROVE d = Append(e, more[i])
  <2>1. N = P \cup {i}
    BY <1>3, <1>6
  <2>2. \A x \in P : x < i
    BY <1>1, <1>2
  <2> HIDE DEF N, P
  <2>3. /\ Cardinality(N) = Cardinality(P) + 1
        /\ \A k \in 1 .. Cardinality(P) : Ascending(N)[k] = Ascending(P)[k]
        /\ Ascending(N)[Cardinality(P) + 1] = i
    BY <1>1, <1>2, <2>1, <2>2, AscendingMore
  <2>4. /\ d = [k \in 1 .. Cardinality(N) |-> more[Ascending(N)[k]]]
        /\ e = [k \in 1 .. Cardinality(P) |-> more[Ascending(P)[k]]]
    BY DEF DistinctTo, N, P
  <2>5. Cardinality(P) \in Nat
    BY <1>2, FS_CardinalityType DEF Numbered
  <2>6. e \in Seq(Entries) /\ more[i] \in Entries
    BY <1>1, DistinctFacts
  <2> HIDE DEF d, e
  <2> DEFINE p == Cardinality(P)
             r == more[i]
             aN == Ascending(N)
             aP == Ascending(P)
  <2>7. /\ d = [k \in 1 .. p + 1 |-> more[aN[k]]]
        /\ e = [k \in 1 .. p |-> more[aP[k]]]
        /\ \A k \in 1 .. p : aN[k] = aP[k]
        /\ aN[p + 1] = i /\ p \in Nat
    BY <2>3, <2>4, <2>5
  <2> HIDE DEF p, aN, aP
  <2>8. Len(e) = p
    BY <2>6, <2>7
  <2>9. Append(e, r) = [k \in 1 .. p + 1 |-> IF k = p + 1 THEN r ELSE e[k]]
    BY <2>6, <2>7, <2>8
  <2>10. ASSUME NEW k \in 1 .. p + 1 PROVE more[aN[k]] = IF k = p + 1 THEN r ELSE e[k]
    <3>1. CASE k = p + 1
      BY <2>7, <3>1
    <3>2. CASE k # p + 1
      <4>1. k \in 1 .. p
        BY <2>7, <3>2
      <4> QED
        BY <2>7, <3>2, <4>1
    <3> QED
      BY <3>1, <3>2
  <2> QED
    BY <2>7, <2>9, <2>10
<1> QED
  BY <1>4, <1>5, <1>6

\* A list as far as it is kept.
Cut(s) ==
    IF opts.limit > 0 /\ Len(s) > opts.limit + 1 THEN SubSeq(s, 1, opts.limit + 1) ELSE s

LEMMA CutFacts ==
    ASSUME opts.limit \in Nat, NEW s \in Seq(Entries)
    PROVE  /\ Cut(s) \in Seq(Entries) /\ Len(Cut(s)) <= Len(s)
           /\ \A k \in 1 .. Len(Cut(s)) : Cut(s)[k] = s[k]
           /\ ~Full(Cut(s)) => Cut(s) = s
           /\ Full(Cut(s)) => opts.limit > 0 /\ Len(Cut(s)) = opts.limit + 1
           /\ (opts.limit > 0 => Len(s) <= opts.limit + 1) => Cut(s) = s
<1> HIDE DEF Entries
<1>1. CASE opts.limit > 0 /\ Len(s) > opts.limit + 1
  <2> DEFINE c == SubSeq(s, 1, opts.limit + 1)
  <2>1. Cut(s) = c
    BY <1>1 DEF Cut
  <2>2. /\ c \in Seq(Entries) /\ Len(c) = opts.limit + 1
        /\ \A k \in 1 .. opts.limit + 1 : c[k] = s[k]
    BY <1>1
  <2> HIDE DEF c
  <2> QED
    BY <1>1, <2>1, <2>2 DEF Full
<1>2. CASE ~(opts.limit > 0 /\ Len(s) > opts.limit + 1)
  <2>1. Cut(s) = s
    BY <1>2 DEF Cut
  <2> QED
    BY <1>2, <2>1 DEF Full
<1> QED
  BY <1>1, <1>2

\* What is cut off stays cut off.
LEMMA CutStays ==
    ASSUME opts.limit \in Nat, NEW s \in Seq(Entries), NEW t \in Seq(Entries), Full(Cut(s)),
           Len(s) <= Len(t), \A k \in 1 .. Len(s) : t[k] = s[k]
    PROVE  Cut(t) = Cut(s)
<1> HIDE DEF Entries
<1> DEFINE l == opts.limit
<1>1. l > 0 /\ Len(Cut(s)) = l + 1 /\ Cut(s) \in Seq(Entries) /\ \A k \in 1 .. l + 1 : Cut(s)[k] = s[k]
  BY CutFacts
<1>2. l + 1 <= Len(s) /\ Len(s) \in Nat /\ Len(t) \in Nat /\ l \in Nat
  <2>1. Len(Cut(s)) <= Len(s)
    BY CutFacts
  <2>2. Len(s) \in Nat /\ Len(t) \in Nat /\ l \in Nat
    OBVIOUS
  <2> QED
    BY <1>1, <2>1, <2>2
<1>3. Cut(t) \in Seq(Entries) /\ Len(Cut(t)) = l + 1 /\ \A k \in 1 .. l + 1 : Cut(t)[k] = t[k]
  <2>1. /\ Cut(t) \in Seq(Entries) /\ \A k \in 1 .. Len(Cut(t)) : Cut(t)[k] = t[k]
    BY CutFacts
  <2>2. Len(Cut(t)) = l + 1
    BY <1>1, <1>2 DEF Cut
  <2> QED
    BY <2>1, <2>2
<1>4. \A k \in 1 .. l + 1 : Cut(t)[k] = Cut(s)[k]
  BY <1>1, <1>2, <1>3
<1> DEFINE u == Cut(s)
           v == Cut(t)
<1>5. u \in Seq(Entries) /\ v \in Seq(Entries) /\ Len(u) = Len(v) /\ \A k \in 1 .. Len(u) : u[k] = v[k]
  BY <1>1, <1>3, <1>4
<1> HIDE DEF u, v
<1>6. u = v
  BY <1>5
<1> QED
  BY <1>6 DEF u, v

LEMMA Appended ==
    ASSUME NEW E
    PROVE  \A s, d \in Seq(E) : \A r \in E : s \o Append(d, r) = Append(s \o d, r)
OBVIOUS

LEMMA Concatenated ==
    ASSUME NEW E, NEW s \in Seq(E), NEW d \in Seq(E)
    PROVE  /\ s \o d \in Seq(E) /\ Len(s \o d) = Len(s) + Len(d)
           /\ \A k \in 1 .. Len(s) : (s \o d)[k] = s[k]
           /\ \A k \in 1 .. Len(d) : (s \o d)[Len(s) + k] = d[k]
           /\ \A k \in 1 .. Len(s \o d) : \/ k \in 1 .. Len(s)
                                          \/ \E l \in 1 .. Len(d) : k = Len(s) + l
<1>1. s \o d \in Seq(E) /\ Len(s \o d) = Len(s) + Len(d)
  OBVIOUS
<1>2. \A k \in 1 .. Len(s) : (s \o d)[k] = s[k]
  OBVIOUS
<1>3. \A k \in 1 .. Len(d) : (s \o d)[Len(s) + k] = d[k]
  OBVIOUS
<1>4. ASSUME NEW k \in 1 .. Len(s \o d), k \notin 1 .. Len(s)
      PROVE  k - Len(s) \in 1 .. Len(d) /\ k = Len(s) + (k - Len(s))
  BY <1>1, <1>4
<1> QED
  BY <1>1, <1>2, <1>3, <1>4

\* Appending adds each new result once, and stops at one beyond the limit.
LEMMA AppendsDistinct ==
    ASSUME opts.limit \in Nat, NEW list \in Seq(Entries), NEW more \in Seq(Entries),
           ~Full(list), \A j \in 1 .. Len(more) : ~Known(list, more[j])
    PROVE  AppendResults(list, more) = Cut(list \o Distinct(more))
<1> HIDE DEF Entries
<1>0. Len(more) \in Nat /\ Len(list) \in Nat /\ Len(more) \in 0 .. Len(more) /\ 0 \in 0 .. Len(more)
  OBVIOUS
<1>1. PICK g : AppendResults(list, more) = g[Len(more)] /\ AppendRounds(g, list, more, Len(more))
  BY <1>0, AppendHasRounds
<1> DEFINE D(i) == list \o DistinctTo(more, i)
           T == {i \in 0 .. Len(more) : g[i] # Cut(D(i))}
<1> SUFFICES ASSUME T # {} PROVE FALSE
  <2>1. T = {} => g[Len(more)] = Cut(D(Len(more)))
    BY <1>0
  <2> HIDE DEF T
  <2> QED
    BY <1>1, <2>1, DistinctIs
<1>2. PICK i \in T : \A y \in T : ~(y < i)
  <2>1. T \subseteq Nat
    BY <1>0
  <2> HIDE DEF T
  <2> QED
    BY <2>1, Least
<1>3. i \in 0 .. Len(more) /\ g[i] # Cut(D(i))
  OBVIOUS
<1>4. i # 0
  <2> SUFFICES ASSUME i = 0 PROVE FALSE
    OBVIOUS
  <2>1. g[i] = list
    BY <1>1, <1>3 DEF AppendRounds
  <2>2. DistinctTo(more, 0) = <<>>
    <3>1. Newcomers(more, 0) = {}
      BY DEF Newcomers
    <3>2. Cardinality(Newcomers(more, 0)) = 0
      BY <3>1, FS_EmptySet
    <3> QED
      BY <3>2 DEF DistinctTo
  <2>3. D(i) = list
    BY <2>2
  <2>4. opts.limit > 0 => Len(list) <= opts.limit + 1
    BY <1>0 DEF Full
  <2>5. Cut(list) = list
    BY <2>4, CutFacts
  <2> QED
    BY <1>3, <2>1, <2>3, <2>5
<1>5. i \in 1 .. Len(more) /\ i - 1 \in 0 .. Len(more) /\ i - 1 < i /\ i \in Int
  BY <1>0, <1>3, <1>4
<1>6. g[i - 1] = Cut(D(i - 1))
  <2>1. i - 1 \notin T
    <3> HIDE DEF T
    <3> QED
      BY <1>2, <1>5
  <2> QED
    BY <1>5, <2>1
<1> DEFINE r == more[i]
           d == DistinctTo(more, i - 1)
           e == DistinctTo(more, i)
           s == list \o d
           t == list \o e
<1>7. g[i] = AppendResult(Cut(s), r)
  BY <1>1, <1>3, <1>4, <1>6 DEF AppendRounds
<1>8. r \in Entries
  BY <1>5
<1>9. /\ d \in Seq(Entries) /\ e \in Seq(Entries)
      /\ \A k \in 1 .. Len(d) : \E j \in 1 .. i - 1 : d[k] = more[j]
      /\ \A j \in 1 .. i - 1 : \E k \in 1 .. Len(d) : Key(d[k]) = Key(more[j])
  BY <1>3, <1>5, DistinctFacts
<1>10. /\ i \notin Newcomers(more, i) => e = d
       /\ i \in Newcomers(more, i) => e = Append(d, r)
  BY <1>5, DistinctNext
<1>11. g[i] # Cut(t)
  BY <1>3
<1>12. i \in Newcomers(more, i) <=> \A j \in 1 .. i - 1 : Key(more[j]) # Key(r)
  BY <1>5 DEF Newcomers
<1>13. ~Known(list, r)
  BY <1>5
<1> HIDE DEF T, d, e, r
<1>14. /\ s \in Seq(Entries) /\ Len(s) = Len(list) + Len(d)
       /\ \A k \in 1 .. Len(list) : s[k] = list[k]
       /\ \A k \in 1 .. Len(d) : s[Len(list) + k] = d[k]
       /\ \A k \in 1 .. Len(s) : \/ k \in 1 .. Len(list)
                                 \/ \E l \in 1 .. Len(d) : k = Len(list) + l
  BY <1>9, Concatenated
<1>15. i \in Newcomers(more, i) => t = Append(s, r)
  <2>1. list \o Append(d, r) = Append(list \o d, r)
    <3>1. d \in Seq(Entries)
      BY <1>9
    <3>2. \A u, v \in Seq(Entries) : \A w \in Entries : u \o Append(v, w) = Append(u \o v, w)
      BY Appended
    <3> QED
      BY <1>8, <3>1, <3>2
  <2> QED
    BY <1>10, <2>1
<1>16. i \notin Newcomers(more, i) => t = s
  BY <1>10
<1> HIDE DEF s, t
<1>17. /\ t \in Seq(Entries) /\ Len(s) \in Nat /\ Len(s) <= Len(t) /\ Len(t) <= Len(s) + 1
       /\ \A k \in 1 .. Len(s) : t[k] = s[k]
  <2>1. CASE i \in Newcomers(more, i)
    <3>1. t = Append(s, r)
      BY <1>15, <2>1
    <3> QED
      BY <1>8, <1>14, <3>1
  <2>2. CASE i \notin Newcomers(more, i)
    <3>1. t = s
      BY <1>16, <2>2
    <3> QED
      BY <1>14, <3>1
  <2> QED
    BY <2>1, <2>2
<1>18. CASE Full(Cut(s))
  <2>1. g[i] = Cut(s)
    BY <1>7, <1>18 DEF AppendResult
  <2>2. Cut(t) = Cut(s)
    BY <1>14, <1>17, <1>18, CutStays
  <2> QED
    BY <1>11, <2>1, <2>2
<1>19. CASE ~Full(Cut(s))
  <2>1. Cut(s) = s
    BY <1>14, <1>19, CutFacts
  <2>2. opts.limit > 0 => Len(t) <= opts.limit + 1
    BY <1>17, <1>19, <2>1 DEF Full
  <2>3. Cut(t) = t
    BY <1>17, <2>2, CutFacts
  <2>4. Known(s, r) <=> i \notin Newcomers(more, i)
    <3>1. ASSUME Known(s, r) PROVE i \notin Newcomers(more, i)
      <4>1. PICK k \in 1 .. Len(s) : Key(s[k]) = Key(r)
        BY <3>1 DEF Known
      <4>2. k \notin 1 .. Len(list)
        BY <1>13, <1>14, <4>1 DEF Known
      <4>3. PICK l \in 1 .. Len(d) : k = Len(list) + l
        BY <1>14, <4>2
      <4>4. PICK j \in 1 .. i - 1 : d[l] = more[j]
        BY <1>9
      <4> QED
        BY <1>12, <1>14, <4>1, <4>3, <4>4
    <3>2. ASSUME i \notin Newcomers(more, i) PROVE Known(s, r)
      <4>1. PICK j \in 1 .. i - 1 : Key(more[j]) = Key(r)
        BY <1>12, <3>2
      <4>2. PICK l \in 1 .. Len(d) : Key(d[l]) = Key(more[j])
        BY <1>9
      <4>3. Len(list) + l \in 1 .. Len(s)
        <5>1. Len(d) \in Nat
          BY <1>9
        <5> QED
          BY <1>0, <1>14, <5>1
      <4>4. Key(s[Len(list) + l]) = Key(r)
        BY <1>14, <4>1, <4>2
      <4> QED
        BY <4>3, <4>4 DEF Known
    <3> QED
      BY <3>1, <3>2
  <2>5. g[i] = IF Known(s, r) THEN s ELSE Append(s, r)
    BY <1>7, <1>19, <2>1 DEF AppendResult
  <2> QED
    BY <1>11, <1>15, <1>16, <2>3, <2>4, <2>5
<1> QED
  BY <1>18, <1>19

-----------------------------------------------------------------------------
(* The results of the files, one after the other.                          *)

Uniting(g, lists, m) == g = [i \in 0 .. m |-> IF i = 0 THEN <<>> ELSE g[i - 1] \o lists[i]]
UpTo(lists, j) == (CHOOSE g : Uniting(g, lists, Len(lists)))[j]

LEMMA UnitingTo ==
    ASSUME NEW lists, NEW n \in Nat
    PROVE  \E g : Uniting(g, lists, n)
<1> DEFINE T == {m \in Nat : ~\E g : Uniting(g, lists, m)}
<1> SUFFICES ASSUME T # {} PROVE FALSE
  OBVIOUS
<1>1. PICK m \in T : \A y \in T : ~(y < m)
  <2>1. T \subseteq Nat
    OBVIOUS
  <2> HIDE DEF T
  <2> QED
    BY <2>1, Least
<1>2. CASE m = 0
  <2> DEFINE g == [i \in 0 .. 0 |-> <<>>]
  <2>1. Uniting(g, lists, 0)
    BY DEF Uniting
  <2> QED
    BY <1>1, <1>2, <2>1
<1>3. CASE m # 0
  <2>1. m \in Nat /\ m - 1 \in Nat /\ m - 1 < m /\ m - 1 \notin T
    <3>1. m \in Nat
      BY <1>1
    <3>2. m - 1 \in Nat /\ m - 1 < m
      BY <1>3, <3>1
    <3> HIDE DEF T
    <3> QED
      BY <1>1, <3>1, <3>2
  <2>2. PICK f : Uniting(f, lists, m - 1)
    BY <2>1
  <2> DEFINE g == [i \in 0 .. m |-> IF i = m THEN f[m - 1] \o lists[m] ELSE f[i]]
             h == [i \in 0 .. m |-> IF i = 0 THEN <<>> ELSE g[i - 1] \o lists[i]]
  <2>3. ASSUME NEW i \in 0 .. m PROVE g[i] = h[i]
    <3>1. CASE i = m
      BY <1>3, <2>1, <3>1
    <3>2. CASE i # m
      <4>1. i \in 0 .. m - 1 /\ (i # 0 => i - 1 \in 0 .. m /\ i - 1 # m)
        BY <2>1, <3>2
      <4>2. g[i] = f[i] /\ (i # 0 => g[i - 1] = f[i - 1])
        BY <3>2, <4>1
      <4>3. f[i] = IF i = 0 THEN <<>> ELSE f[i - 1] \o lists[i]
        BY <2>2, <4>1 DEF Uniting
      <4>4. h[i] = IF i = 0 THEN <<>> ELSE g[i - 1] \o lists[i]
        OBVIOUS
      <4> QED
        BY <4>2, <4>3, <4>4, Zenon
    <3> QED
      BY <3>1, <3>2
  <2>4. g = h
    BY <2>3
  <2>5. Uniting(g, lists, m)
    BY <2>4 DEF Uniting
  <2> HIDE DEF g, h
  <2> QED
    BY <1>1, <2>5
<1> QED
  BY <1>2, <1>3

LEMMA JoinedIs ==
    ASSUME NEW lists
    PROVE  Joined(lists) = UpTo(lists, Len(lists))
BY DEF Joined, UpTo, Uniting

LEMMA UpToRounds ==
    ASSUME NEW lists, Len(lists) \in Nat, NEW j \in 0 .. Len(lists)
    PROVE  UpTo(lists, j) = IF j = 0 THEN <<>> ELSE UpTo(lists, j - 1) \o lists[j]
<1> DEFINE g == CHOOSE g : Uniting(g, lists, Len(lists))
<1>1. Uniting(g, lists, Len(lists))
  BY UnitingTo
<1>2. \A i : UpTo(lists, i) = g[i]
  BY DEF UpTo
<1> HIDE DEF g
<1>3. g[j] = IF j = 0 THEN <<>> ELSE g[j - 1] \o lists[j]
  BY <1>1 DEF Uniting
<1> QED
  BY <1>2, <1>3

LEMMA UpToNone ==
    ASSUME NEW lists, Len(lists) \in Nat
    PROVE  UpTo(lists, 0) = <<>>
<1> DEFINE j == 0
<1>1. j \in 0 .. Len(lists) /\ j = 0
  OBVIOUS
<1> HIDE DEF j
<1>2. UpTo(lists, j) = <<>>
  BY <1>1, UpToRounds
<1> QED
  BY <1>1, <1>2

\* What is joined so far is made of the entries of the lists so far.
ListsOf(lists, n) == n \in Nat /\ Len(lists) = n /\ \A i \in 1 .. n : lists[i] \in Seq(Entries)
Collected(s, lists, j) ==
    /\ s \in Seq(Entries)
    /\ \A k \in 1 .. Len(s) : \E i \in 1 .. j : \E l \in 1 .. Len(lists[i]) : s[k] = lists[i][l]
    /\ \A i \in 1 .. j : \A l \in 1 .. Len(lists[i]) : \E k \in 1 .. Len(s) : s[k] = lists[i][l]

LEMMA UpToCollects ==
    ASSUME NEW lists, NEW n, ListsOf(lists, n), NEW m \in 0 .. n
    PROVE  Collected(UpTo(lists, m), lists, m)
<1> HIDE DEF Entries
<1> DEFINE T == {j \in 0 .. n : ~Collected(UpTo(lists, j), lists, j)}
<1>0. n \in Nat /\ Len(lists) = n /\ \A i \in 1 .. n : lists[i] \in Seq(Entries)
  BY DEF ListsOf
<1> SUFFICES ASSUME T # {} PROVE FALSE
  OBVIOUS
<1>1. PICK j \in T : \A y \in T : ~(y < j)
  <2>1. T \subseteq Nat
    BY <1>0
  <2> HIDE DEF T
  <2> QED
    BY <2>1, Least
<1>2. j \in 0 .. n /\ ~Collected(UpTo(lists, j), lists, j)
  OBVIOUS
<1>3. UpTo(lists, j) = IF j = 0 THEN <<>> ELSE UpTo(lists, j - 1) \o lists[j]
  BY <1>0, <1>2, UpToRounds
<1>4. CASE j = 0
  <2>1. UpTo(lists, j) = <<>>
    BY <1>3, <1>4
  <2>2. Collected(<<>>, lists, 0)
    BY DEF Collected
  <2> QED
    BY <1>2, <1>4, <2>1, <2>2
<1>5. CASE j # 0
  <2>1. j \in 1 .. n /\ j - 1 \in 0 .. n /\ j - 1 < j /\ j \in Int
    BY <1>0, <1>2, <1>5
  <2>2. j - 1 \notin T
    <3> HIDE DEF T
    <3> QED
      BY <1>1, <2>1
  <2> DEFINE s == UpTo(lists, j - 1)
             d == lists[j]
             t == s \o d
  <2>3. Collected(s, lists, j - 1)
    BY <2>1, <2>2
  <2>4. UpTo(lists, j) = t
    BY <1>3, <1>5
  <2>5. s \in Seq(Entries) /\ d \in Seq(Entries)
    BY <1>0, <2>1, <2>3 DEF Collected
  <2>6. \A k \in 1 .. Len(s) : \E i \in 1 .. j - 1 : \E l \in 1 .. Len(lists[i]) : s[k] = lists[i][l]
    BY <2>3 DEF Collected
  <2>7. \A i \in 1 .. j - 1 : \A l \in 1 .. Len(lists[i]) : \E k \in 1 .. Len(s) : s[k] = lists[i][l]
    BY <2>3 DEF Collected
  <2> HIDE DEF T, s
  <2>8. /\ t \in Seq(Entries) /\ Len(t) = Len(s) + Len(d)
        /\ \A k \in 1 .. Len(s) : t[k] = s[k]
        /\ \A k \in 1 .. Len(d) : t[Len(s) + k] = d[k]
        /\ \A k \in 1 .. Len(t) : \/ k \in 1 .. Len(s)
                                  \/ \E l \in 1 .. Len(d) : k = Len(s) + l
    BY <2>5, Concatenated
  <2> HIDE DEF t
  <2>9. Len(s) \in Nat /\ Len(d) \in Nat
    BY <2>5
  <2>10. ASSUME NEW k \in 1 .. Len(t)
         PROVE  \E i \in 1 .. j : \E l \in 1 .. Len(lists[i]) : t[k] = lists[i][l]
    <3>1. CASE k \in 1 .. Len(s)
      <4>1. PICK i \in 1 .. j - 1 : \E l \in 1 .. Len(lists[i]) : s[k] = lists[i][l]
        BY <2>6, <3>1
      <4>2. i \in 1 .. j
        BY <2>1
      <4> QED
        BY <2>8, <3>1, <4>1, <4>2
    <3>2. CASE k \notin 1 .. Len(s)
      <4>1. PICK l \in 1 .. Len(d) : k = Len(s) + l
        BY <2>8, <3>2
      <4>2. t[k] = d[l] /\ j \in 1 .. j
        BY <2>1, <2>8, <4>1
      <4> QED
        BY <4>2
    <3> QED
      BY <3>1, <3>2
  <2>11. ASSUME NEW i \in 1 .. j, NEW l \in 1 .. Len(lists[i])
         PROVE  \E k \in 1 .. Len(t) : t[k] = lists[i][l]
    <3>1. CASE i = j
      <4>1. Len(s) + l \in 1 .. Len(t) /\ t[Len(s) + l] = d[l]
        BY <2>8, <2>9, <3>1
      <4> QED
        BY <3>1, <4>1
    <3>2. CASE i # j
      <4>1. i \in 1 .. j - 1
        BY <2>1, <3>2
      <4>2. PICK k \in 1 .. Len(s) : s[k] = lists[i][l]
        BY <2>7, <4>1
      <4>3. k \in 1 .. Len(t)
        BY <2>8, <2>9
      <4> QED
        BY <2>8, <4>2, <4>3
    <3> QED
      BY <3>1, <3>2
  <2>12. Collected(t, lists, j)
    BY <2>8, <2>10, <2>11 DEF Collected
  <2> QED
    BY <1>2, <2>4, <2>12
<1> QED
  BY <1>4, <1>5

\* What is joined so far is the beginning of what is joined later.
Begins(s, t) == Len(s) <= Len(t) /\ \A k \in 1 .. Len(s) : t[k] = s[k]

LEMMA UpToBegins ==
    ASSUME NEW lists, NEW n, ListsOf(lists, n), NEW j \in 0 .. n, NEW m \in j .. n
    PROVE  Begins(UpTo(lists, j), UpTo(lists, m))
<1> HIDE DEF Entries
<1> DEFINE s == UpTo(lists, j)
           T == {i \in j .. n : ~Begins(s, UpTo(lists, i))}
<1>0. n \in Nat /\ Len(lists) = n /\ \A i \in 1 .. n : lists[i] \in Seq(Entries)
  BY DEF ListsOf
<1>9. \A i \in 0 .. n : UpTo(lists, i) \in Seq(Entries)
  BY UpToCollects DEF Collected
<1>10. s \in Seq(Entries) /\ Len(s) \in Nat
  <2>1. s \in Seq(Entries)
    BY <1>9
  <2> QED
    BY <2>1
<1> SUFFICES ASSUME T # {} PROVE FALSE
  OBVIOUS
<1>1. PICK i \in T : \A y \in T : ~(y < i)
  <2>1. T \subseteq Nat
    BY <1>0
  <2> HIDE DEF T
  <2> QED
    BY <2>1, Least
<1>2. i \in j .. n /\ ~Begins(s, UpTo(lists, i))
  OBVIOUS
<1>3. i # j
  <2>1. Begins(s, s)
    BY <1>10 DEF Begins
  <2> QED
    BY <1>2, <2>1
<1>4. i \in 1 .. n /\ i \in 0 .. n /\ i - 1 \in 0 .. n /\ i - 1 \in j .. n /\ i - 1 < i /\ i \in Int /\ i # 0
  BY <1>0, <1>2, <1>3
<1>5. i - 1 \notin T
  <2> HIDE DEF T
  <2> QED
    BY <1>1, <1>4
<1> DEFINE u == UpTo(lists, i - 1)
           d == lists[i]
<1>6. Begins(s, u) /\ u \in Seq(Entries) /\ d \in Seq(Entries)
  BY <1>0, <1>4, <1>5, <1>9
<1>7. UpTo(lists, i) = u \o d
  BY <1>0, <1>4, UpToRounds
<1> HIDE DEF T, u, d, s
<1>8. Len(u) \in Nat /\ Len(u \o d) \in Nat /\ Len(u) <= Len(u \o d) /\ \A k \in 1 .. Len(u) : (u \o d)[k] = u[k]
  <2>1. Len(u) \in Nat /\ Len(d) \in Nat
    BY <1>6
  <2>2. Len(u \o d) = Len(u) + Len(d) /\ \A k \in 1 .. Len(u) : (u \o d)[k] = u[k]
    BY <1>6, Concatenated
  <2> QED
    BY <2>1, <2>2
<1>11. Begins(s, u \o d)
  BY <1>6, <1>8, <1>10 DEF Begins
<1> QED
  BY <1>2, <1>7, <1>11

-----------------------------------------------------------------------------
(* What each file is answered with.                                        *)

SourceOf(f)    == IF base # 0 THEN TreeOf(head)[f] ELSE work[f]
FileNumbers(f) == ChangedNumbers(Hunks(Old(f), New(f)), Cardinality(SourceOf(f)))

LEMMA OldAndNew ==
    ASSUME QueryTypes, NEW f \in Files
    PROVE  /\ Numbered(Old(f)) /\ Old(f) \ {0} = Old(f)
           /\ Numbered(New(f)) /\ New(f) \ {0} = New(f) /\ SourceOf(f) \in Content
           /\ SourceOf(f) \notin {{}, Absent} =>
                 New(f) = {} \/ Cardinality(New(f)) = Cardinality(SourceOf(f))
<1> HIDE DEF Tree, Entries, Content, Empty, Absent
<1> DEFINE c == ComparedContent(f)
           h == TreeOf(head)[f]
           s == SourceOf(f)
<1>1. /\ h \in Content /\ work[f] \in Content /\ c[1] \in Content /\ c[2] \in Content
  BY ComparedFacts
<1>2. Old(f) = c[1] \ {0}
  BY DEF Old
<1>3. New(f) = (IF base = 0 /\ h \in {{}, Absent} THEN work[f] ELSE c[2]) \ {0}
  BY DEF New
<1>4. s = IF base # 0 THEN h ELSE work[f]
  BY DEF SourceOf
<1>5. base # 0 => c[2] = h
  BY DEF ComparedContent
<1>6. base = 0 => c[2] = work[f] \/ c[2] = Absent
  BY DEF ComparedContent, Tracked
<1> HIDE DEF c, h, s
<1>7. \A x \in Content : Numbered(x \ {0}) /\ (x \notin {{}, Absent} => x \ {0} = x)
  BY ContentFacts
<1>8. Numbered(Old(f)) /\ Old(f) \ {0} = Old(f)
  BY <1>1, <1>2, <1>7
<1>9. Numbered(New(f)) /\ New(f) \ {0} = New(f)
  BY <1>1, <1>3, <1>7
<1>10. Absent \ {0} = {}
  BY DEF Absent
<1>11. s \in Content
  BY <1>1, <1>4
<1>12. s \notin {{}, Absent} => New(f) = {} \/ New(f) = s
  BY <1>1, <1>3, <1>4, <1>5, <1>6, <1>7, <1>10
<1> QED
  BY <1>8, <1>9, <1>11, <1>12 DEF s

LEMMA FileNumbersInside ==
    ASSUME QueryTypes, NEW f \in Files, SourceOf(f) \notin {{}, Absent}
    PROVE  /\ Cardinality(SourceOf(f)) \in Nat /\ Cardinality(SourceOf(f)) >= 1
           /\ FileNumbers(f) \in SUBSET (1 .. Cardinality(SourceOf(f)))
           /\ ExactNumbers(Old(f), New(f), FileNumbers(f))
<1> HIDE DEF Tree, Entries, Content, Empty, Absent
<1> DEFINE a == Old(f)
           b == New(f)
           size == Cardinality(SourceOf(f))
<1>1. size \in Nat /\ size >= 1
  BY OldAndNew, ContentFacts
<1>2. Numbered(a \ {0}) /\ Numbered(b \ {0}) /\ a \ {0} = a /\ b \ {0} = b
  BY OldAndNew
<1>3. b \ {0} = {} \/ Cardinality(b \ {0}) = size
  BY OldAndNew
<1>4. FileNumbers(f) = ChangedNumbers(Hunks(a, b), size)
  BY DEF FileNumbers
<1> HIDE DEF a, b, size
<1>5. ChangedNumbers(Hunks(a, b), size) \subseteq 1 .. size
  BY <1>1, <1>2, NumbersInside
<1>6. ExactNumbers(a \ {0}, b \ {0}, ChangedNumbers(Hunks(a, b), size))
  BY <1>1, <1>2, <1>3, NumbersExact
<1> QED
  BY <1>1, <1>2, <1>4, <1>5, <1>6 DEF a, b, size

LEMMA ResultsOfIs ==
    ASSUME NEW f
    PROVE  ResultsOf(f) = IF SourceOf(f) \in {{}, Absent} THEN <<FileResult(f)>>
                          ELSE ResultsFor(f, Cardinality(SourceOf(f)), FileNumbers(f), opts.return)
BY DEF ResultsOf, SourceOf, FileNumbers

LEMMA ResultsOfFacts ==
    ASSUME QueryTypes, NEW f \in Files
    PROVE  AllAbout(ResultsOf(f), f, Cardinality(SourceOf(f)))
<1> HIDE DEF Tree, Entries, Content, Empty, Absent
<1>1. CASE SourceOf(f) \in {{}, Absent}
  BY <1>1, ResultsOfIs, FileResultFacts
<1>2. CASE SourceOf(f) \notin {{}, Absent}
  <2>1. opts.return \in Modes
    BY ChangedQueryAssumption DEF QueryTypes, Modes
  <2>2. /\ Cardinality(SourceOf(f)) \in Nat
        /\ FileNumbers(f) \in SUBSET (1 .. Cardinality(SourceOf(f)))
    BY <1>2, FileNumbersInside
  <2> QED
    BY <1>2, <2>1, <2>2, ResultsOfIs, ResultsForFacts
<1> QED
  BY <1>1, <1>2

\* The numbers of the command are those of the file, whichever way it came to them.
LEMMA NumbersOfFile ==
    ASSUME QueryTypes, NEW f \in Files, SourceOf(f) \notin {{}, Absent}
    PROVE  LET size    == Cardinality(SourceOf(f))
               numbers == ChangedNumbers(Hunks(ComparedContent(f)[1], ComparedContent(f)[2]), size)
           IN  /\ base # 0 => FileNumbers(f) = numbers
               /\ base = 0 /\ head = 0 => FileNumbers(f) = 1 .. size
               /\ base = 0 /\ numbers # {} => FileNumbers(f) = numbers
               /\ base = 0 /\ numbers = {} =>
                     FileNumbers(f) = IF Untracked(f) THEN 1 .. size ELSE {}
<1> HIDE DEF Tree, Entries, Content, Empty, Absent
<1> DEFINE c == ComparedContent(f)
           h == TreeOf(head)[f]
           w == work[f]
           size == Cardinality(SourceOf(f))
           numbers == ChangedNumbers(Hunks(c[1], c[2]), size)
           N(a, b) == ChangedNumbers(Hunks(a, b), size)
<1>1. /\ h \in Content /\ w \in Content /\ c[1] \in Content /\ c[2] \in Content
  BY ComparedFacts
<1>2. Old(f) = c[1] \ {0} /\ New(f) = (IF base = 0 /\ h \in {{}, Absent} THEN w ELSE c[2]) \ {0}
  BY DEF Old, New
<1>3. SourceOf(f) = IF base # 0 THEN h ELSE w
  BY DEF SourceOf
<1>4. size \in Nat /\ size >= 1
  BY FileNumbersInside
<1>5. FileNumbers(f) = N(Old(f), New(f))
  BY DEF FileNumbers
<1>6. \A a, b : N(a \ {0}, b \ {0}) = N(a, b)
  <2>1. \A a : (a \ {0}) \ {0} = a \ {0}
    OBVIOUS
  <2>2. \A a, b : Hunks(a \ {0}, b \ {0}) = Hunks(a, b)
    BY <2>1, HunksOf
  <2> QED
    BY <2>2
<1>7. \A a, b \in Content : N(a, b) = {} <=> a \ {0} = b \ {0}
  BY <1>4, ContentFacts, NumbersOfDifference
<1>8. base = 0 => c[1] = h /\ c[2] = Tracked(f)
  BY DEF ComparedContent
<1>9. Tracked(f) = IF index[f] = Absent THEN Absent ELSE w
  BY DEF Tracked
<1>10. Untracked(f) <=> index[f] = Absent /\ w # Absent
  BY DEF Untracked
<1>11. Absent \ {0} = {}
  BY DEF Absent
<1>12. \A x \in Content : x \notin {{}, Absent} => x \ {0} = x /\ x \ {0} # {} /\ Numbered(x \ {0})
  BY ContentFacts
<1>13. ASSUME base = 0, h \in {{}, Absent} PROVE FileNumbers(f) = 1 .. size
  <2>1. w \notin {{}, Absent} /\ size = Cardinality(w)
    BY <1>3, <1>13
  <2>2. w \ {0} = w /\ w \ {0} # {} /\ Numbered(w \ {0})
    BY <1>1, <1>12, <2>1
  <2>3. h \ {0} = {}
    BY <1>11, <1>13
  <2>4. FileNumbers(f) = N(h, w)
    BY <1>2, <1>5, <1>6, <1>8, <1>13
  <2> HIDE DEF size, h, w
  <2>5. N(h, w) = 1 .. size
    BY <2>1, <2>2, <2>3, AllNew
  <2> QED
    BY <2>4, <2>5
<1>14. ASSUME base # 0 \/ h \notin {{}, Absent} PROVE FileNumbers(f) = numbers
  BY <1>2, <1>5, <1>6, <1>14
<1> HIDE DEF N
<1>15. base = 0 /\ head = 0 => FileNumbers(f) = 1 .. size
  <2>1. head = 0 => h = Absent
    BY DEF TreeOf, Empty
  <2> QED
    BY <1>13, <2>1
<1>16. base = 0 /\ numbers # {} => FileNumbers(f) = numbers
  <2> SUFFICES ASSUME base = 0, numbers # {} PROVE FileNumbers(f) = numbers
    OBVIOUS
  <2>1. CASE h \notin {{}, Absent}
    BY <1>14, <2>1
  <2>2. CASE h \in {{}, Absent}
    <3>1. numbers = N(h, Tracked(f))
      BY <1>8 DEF N
    <3>2. h \ {0} = {}
      BY <1>11, <2>2
    <3>3. Tracked(f) \in Content
      BY <1>1, <1>8
    <3>4. Tracked(f) \ {0} # {}
      BY <1>1, <1>7, <3>1, <3>2, <3>3
    <3>5. Tracked(f) = w
      BY <1>9, <1>11, <3>4
    <3>6. FileNumbers(f) = N(h, w)
      BY <1>2, <1>5, <1>6, <1>8, <2>2 DEF N
    <3> QED
      BY <3>1, <3>5, <3>6
  <2> QED
    BY <2>1, <2>2
<1>17. base = 0 /\ numbers = {} => FileNumbers(f) = IF Untracked(f) THEN 1 .. size ELSE {}
  <2> SUFFICES ASSUME base = 0, numbers = {}
               PROVE  FileNumbers(f) = IF Untracked(f) THEN 1 .. size ELSE {}
    OBVIOUS
  <2>1. numbers = N(h, Tracked(f))
    BY <1>8 DEF N
  <2>2. h \ {0} = Tracked(f) \ {0}
    <3>1. Tracked(f) \in Content
      BY <1>1, <1>8
    <3> QED
      BY <1>1, <1>7, <2>1, <3>1
  <2>3. w \notin {{}, Absent}
    BY <1>3
  <2>4. CASE index[f] = Absent
    <3>1. h \ {0} = {}
      BY <1>9, <1>11, <2>2, <2>4
    <3>2. h \in {{}, Absent}
      BY <1>1, <1>12, <3>1
    <3> QED
      BY <1>10, <1>13, <2>3, <2>4, <3>2
  <2>5. CASE index[f] # Absent
    <3>1. Tracked(f) = w
      BY <1>9, <2>5
    <3>2. w \ {0} = w /\ w \ {0} # {}
      BY <1>1, <1>12, <2>3
    <3>3. h \notin {{}, Absent}
      BY <1>11, <2>2, <3>1, <3>2
    <3> QED
      BY <1>10, <1>14, <2>5, <3>3
  <2> QED
    BY <2>4, <2>5
<1>18. base # 0 => FileNumbers(f) = numbers
  BY <1>14
<1> QED
  BY <1>15, <1>16, <1>17, <1>18

-----------------------------------------------------------------------------
(* The answer, file by file.                                               *)

Parts   == [i \in 1 .. Cardinality(Differing) |-> Distinct(ResultsOf(Ascending(Differing)[i]))]
Left(j) == {f \in Differing : Before(Differing, f) >= j}

LEMMA DifferingFacts ==
    /\ Numbered(Differing) /\ Differing \subseteq Files
    /\ Cardinality(Differing) \in Nat /\ Cardinality(Differing) \in 0 .. Cardinality(Differing)
    /\ \A i \in 1 .. Cardinality(Differing) : Ascending(Differing)[i] \in Differing
<1>1. Differing \in SUBSET Files
  BY DEF Differing
<1>2. Numbered(Files)
  BY ChangedQueryAssumption DEF Numbered
<1>3. Numbered(Differing)
  BY <1>1, <1>2, NumberedPart
<1> QED
  BY <1>1, <1>3, AscendingFacts

\* The files that are left, from the first on.
LEMMA LeftFacts ==
    ASSUME NEW j \in 0 .. Cardinality(Differing)
    PROVE  /\ Left(0) = Differing
           /\ Left(j) = {} => j = Cardinality(Differing)
           /\ Left(j) # {} =>
                 /\ j + 1 \in 1 .. Cardinality(Differing)
                 /\ Min(Left(j)) = Ascending(Differing)[j + 1]
                 /\ Left(j) \ {Min(Left(j))} = Left(j + 1)
<1> DEFINE D == Differing
           n == Cardinality(D)
           L == {f \in D : Before(D, f) >= j}
           M == {f \in D : Before(D, f) >= j + 1}
<1>0. Left(j) = L /\ Left(j + 1) = M
  BY DEF Left
<1>1. Numbered(D) /\ n \in Nat /\ j \in Nat /\ j <= n
  BY DifferingFacts
<1>2. D \subseteq Int /\ D \subseteq Nat
  BY <1>1 DEF Numbered
<1>9. Left(0) = {f \in D : Before(D, f) >= 0}
  BY DEF Left
<1> HIDE DEF D
<1>3. \A f \in D : Before(D, f) \in Nat /\ Before(D, f) < n
  BY <1>1, <1>2, BeforeFacts
<1>4. Left(0) = D
  BY <1>3, <1>9
<1>5. \A i \in 1 .. n : \E x \in D : Before(D, x) = i - 1
  BY <1>1, EveryPlace
<1>6. ASSUME L = {} PROVE j = n
  <2> SUFFICES ASSUME j # n PROVE FALSE
    OBVIOUS
  <2>1. j + 1 \in 1 .. n /\ j + 1 - 1 = j
    BY <1>1
  <2>2. PICK x \in D : Before(D, x) = j
    BY <1>5, <2>1
  <2>3. j >= j
    BY <1>1
  <2> QED
    BY <1>6, <2>2, <2>3
<1>7. ASSUME L # {}
      PROVE  j + 1 \in 1 .. n /\ Min(L) = Ascending(D)[j + 1] /\ L \ {Min(L)} = M
  <2>1. PICK y \in D : Before(D, y) >= j
    BY <1>7
  <2>2. j + 1 \in 1 .. n
    BY <1>1, <1>3, <2>1
  <2>3. L \subseteq Nat
    BY <1>2
  <2> DEFINE m == Min(L)
  <2>4. m \in L /\ m \in Int /\ \A z \in L : m <= z
    <3> HIDE DEF L
    <3> QED
      BY <1>7, <2>3, Smallest
  <2>5. m \in D /\ Before(D, m) >= j
    BY <2>4
  <2> HIDE DEF m
  <2>6. PICK x \in D : Before(D, x) = j
    <3>1. j + 1 - 1 = j
      BY <1>1
    <3> QED
      BY <1>5, <2>2, <3>1
  <2>7. x \in L /\ x \in Int
    <3>1. j >= j
      BY <1>1
    <3> QED
      BY <1>2, <2>6, <3>1
  <2>8. m <= x
    BY <2>4, <2>7
  <2>9. Before(D, m) <= Before(D, x)
    BY <1>1, <2>4, <2>7, <2>8, BeforeGrows
  <2>10. Before(D, m) = j
    BY <1>1, <1>3, <2>5, <2>6, <2>9
  <2>11. \A z \in D : Ascending(D)[Before(D, z) + 1] = z
    BY <1>1, AscendingFacts
  <2>12. m = Ascending(D)[j + 1]
    BY <2>5, <2>10, <2>11
  <2>13. \A z \in D : Before(D, z) = j => z = m
    BY <2>11, <2>12
  <2>14. ASSUME NEW z \in D PROVE Before(D, z) >= j + 1 <=> Before(D, z) >= j /\ z # m
    BY <1>1, <1>3, <2>10, <2>13, <2>14
  <2>15. L \ {m} = M
    BY <2>14
  <2> QED
    BY <2>2, <2>12, <2>15 DEF m
<1> QED
  BY <1>0, <1>4, <1>6, <1>7 DEF D

LEMMA PartsFacts ==
    ASSUME QueryTypes
    PROVE  /\ ListsOf(Parts, Cardinality(Differing))
           /\ WholeAnswer = UpTo(Parts, Cardinality(Differing))
           /\ \A i \in 1 .. Cardinality(Differing) :
                 Parts[i] = Distinct(ResultsOf(Ascending(Differing)[i]))
<1> HIDE DEF Tree, Entries, Content, Empty, Absent
<1> DEFINE n == Cardinality(Differing)
<1>1. n \in Nat /\ \A i \in 1 .. n : Ascending(Differing)[i] \in Files
  BY DifferingFacts
<1>2. Parts = [i \in 1 .. n |-> Distinct(ResultsOf(Ascending(Differing)[i]))]
  BY DEF Parts
<1> HIDE DEF n
<1>3. Len(Parts) = n
  BY <1>1, <1>2
<1>4. ASSUME NEW i \in 1 .. n PROVE Parts[i] \in Seq(Entries)
  <2> DEFINE f == Ascending(Differing)[i]
             more == ResultsOf(f)
  <2>1. f \in Files
    BY <1>1
  <2> HIDE DEF f
  <2>2. more \in Seq(Entries)
    BY <2>1, ResultsOfFacts DEF AllAbout
  <2> HIDE DEF more
  <2>3. Len(more) \in 0 .. Len(more)
    BY <2>2
  <2>4. Distinct(more) \in Seq(Entries)
    BY <2>2, <2>3, DistinctFacts, DistinctIs
  <2> QED
    BY <1>2, <2>4 DEF f, more
<1>5. WholeAnswer = Joined(Parts)
  BY DEF WholeAnswer, Parts
<1> QED
  BY <1>1, <1>2, <1>3, <1>4, <1>5, JoinedIs DEF n, ListsOf

\* Nothing is said yet of the file that is looked at, so its results come behind.
LEMMA NextPart ==
    ASSUME QueryInv, at \in {"read", "diff", "askUntracked"}, ~Full(results), todo # {},
           NEW j \in 0 .. Cardinality(Differing), todo = Left(j), results = UpTo(Parts, j),
           NEW res, res = AppendResults(results, ResultsOf(Min(todo)))
    PROVE  /\ j + 1 \in 0 .. Cardinality(Differing) /\ todo \ {Min(todo)} = Left(j + 1)
           /\ ~Full(res) => res = UpTo(Parts, j + 1)
           /\ Full(res) => /\ Len(WholeAnswer) > opts.limit
                           /\ res = SubSeq(WholeAnswer, 1, opts.limit + 1)
<1> HIDE DEF Tree, Entries, Content, Empty, Absent
<1> DEFINE n == Cardinality(Differing)
           f == Min(todo)
           more == ResultsOf(f)
           s == UpTo(Parts, j)
           t == UpTo(Parts, j + 1)
           whole == WholeAnswer
<1>1. QueryTypes /\ QueryPhases
  BY DEF QueryInv
<1>2. opts.limit \in Nat /\ results \in Seq(Entries)
  BY <1>1, ChangedQueryAssumption DEF QueryTypes
<1>3. n \in Nat /\ j + 1 \in 1 .. n /\ f = Ascending(Differing)[j + 1] /\ todo \ {f} = Left(j + 1)
  BY DifferingFacts, LeftFacts
<1>4. f \in Files
  BY <1>3, DifferingFacts
<1>5. f \in todo
  <2>1. todo \subseteq Nat
    BY <1>1, ChangedQueryAssumption DEF QueryTypes
  <2> QED
    BY <2>1, Smallest
<1>6. ListsOf(Parts, n) /\ whole = UpTo(Parts, n) /\ Parts[j + 1] = Distinct(more)
  <2>1. ListsOf(Parts, n) /\ whole = UpTo(Parts, n)
        /\ \A i \in 1 .. n : Parts[i] = Distinct(ResultsOf(Ascending(Differing)[i]))
    BY <1>1, PartsFacts
  <2> QED
    BY <1>3, <2>1
<1>7. more \in Seq(Entries) /\ \A i \in 1 .. Len(more) : more[i].path = f
  <2>1. AllAbout(more, f, Cardinality(SourceOf(f)))
    BY <1>1, <1>4, ResultsOfFacts
  <2> QED
    BY <2>1 DEF AllAbout, About
<1>8. \A k \in 1 .. Len(results) : results[k].path # f
  BY <1>1, <1>5 DEF QueryPhases
<1> HIDE DEF n, f, more, whole
<1>9. \A i \in 1 .. Len(more) : ~Known(results, more[i])
  <2>1. ASSUME NEW i \in 1 .. Len(more), NEW k \in 1 .. Len(results) PROVE Key(results[k]) # Key(more[i])
    BY <1>7, <1>8 DEF Key
  <2> QED
    BY <2>1 DEF Known
<1>10. res = Cut(results \o Distinct(more))
  <2>1. res = AppendResults(results, more)
    BY DEF more, f
  <2> QED
    BY <1>2, <1>7, <1>9, <2>1, AppendsDistinct
<1>11. t = s \o Parts[j + 1]
  <2>1. Len(Parts) = n /\ n \in Nat
    BY <1>3, <1>6 DEF ListsOf
  <2> DEFINE i == j + 1
  <2>2. i \in 0 .. Len(Parts) /\ i # 0 /\ i - 1 = j
    BY <1>3, <2>1
  <2> HIDE DEF i
  <2>3. UpTo(Parts, i) = IF i = 0 THEN <<>> ELSE UpTo(Parts, i - 1) \o Parts[i]
    BY <2>1, <2>2, UpToRounds
  <2>4. UpTo(Parts, i) = UpTo(Parts, j) \o Parts[i]
    BY <2>2, <2>3
  <2> QED
    BY <2>4 DEF i
<1>12. res = Cut(t)
  BY <1>6, <1>10, <1>11
<1>13. j + 1 \in 0 .. n /\ n \in j + 1 .. n /\ n \in 0 .. n
  BY <1>3
<1>14. t \in Seq(Entries) /\ whole \in Seq(Entries) /\ Begins(t, whole)
  BY <1>6, <1>13, UpToCollects, UpToBegins DEF Collected
<1> HIDE DEF t
<1>15. ~Full(res) => res = t
  BY <1>2, <1>12, <1>14, CutFacts
<1>16. ASSUME Full(res) PROVE Len(whole) > opts.limit /\ res = SubSeq(whole, 1, opts.limit + 1)
  <2> DEFINE l == opts.limit
             w == SubSeq(whole, 1, l + 1)
  <2>1. Cut(t) \in Seq(Entries) /\ Len(Cut(t)) <= Len(t) /\ \A k \in 1 .. Len(Cut(t)) : Cut(t)[k] = t[k]
    BY <1>2, <1>14, CutFacts
  <2>2. l > 0 /\ Len(Cut(t)) = l + 1
    BY <1>2, <1>12, <1>14, <1>16, CutFacts
  <2>3. Len(t) \in Nat /\ Len(whole) \in Nat /\ l \in Nat
    BY <1>2, <1>14
  <2>4. l + 1 <= Len(t) /\ l + 1 <= Len(whole) /\ Len(whole) > l
        /\ \A k \in 1 .. l + 1 : whole[k] = t[k]
    BY <1>14, <2>1, <2>2, <2>3 DEF Begins
  <2>5. w \in Seq(Entries) /\ Len(w) = l + 1 /\ \A k \in 1 .. l + 1 : w[k] = whole[k]
    BY <1>14, <2>3, <2>4
  <2> DEFINE u == Cut(t)
  <2>6. u \in Seq(Entries) /\ Len(u) = Len(w) /\ \A k \in 1 .. Len(u) : u[k] = w[k]
    BY <2>1, <2>2, <2>4, <2>5
  <2> HIDE DEF u, w
  <2>7. u = w
    BY <2>5, <2>6
  <2> QED
    BY <1>12, <2>4, <2>7 DEF u, w
<1> QED
  BY <1>3, <1>13, <1>15, <1>16 DEF n, f, t, whole

-----------------------------------------------------------------------------
(* The answer of a repository that is left alone, or of two commits.       *)

\* What does not touch the commits compared, or the index and the working tree if they
\* are what is compared, leaves the answer as it is.
LEMMA SameAnswer ==
    ASSUME UNCHANGED <<opts, base, head>>, UNCHANGED TreeOf(head), UNCHANGED TreeOf(MergeBase),
           base = 0 => UNCHANGED <<index, work>>
    PROVE  /\ \A f : SourceOf(f)' = SourceOf(f)
           /\ \A f : ComparedContent(f)' = ComparedContent(f)
           /\ UNCHANGED Differing /\ UNCHANGED Parts /\ UNCHANGED WholeAnswer
           /\ \A j : UNCHANGED Left(j)
<1>1. ASSUME NEW f
      PROVE  /\ SourceOf(f)' = SourceOf(f) /\ ComparedContent(f)' = ComparedContent(f)
             /\ Old(f)' = Old(f) /\ New(f)' = New(f)
             /\ DiffersFrom(f)' <=> DiffersFrom(f)
  <2>1. SourceOf(f)' = SourceOf(f)
    BY DEF SourceOf
  <2>2. ComparedContent(f)' = ComparedContent(f)
    BY DEF ComparedContent, Tracked
  <2>3. DiffersFrom(f)' <=> DiffersFrom(f)
    BY DEF DiffersFrom
  <2>4. Old(f)' = Old(f) /\ New(f)' = New(f)
    BY <2>2 DEF Old, New
  <2> QED
    BY <2>1, <2>2, <2>3, <2>4
<1>2. ASSUME NEW f PROVE ResultsOf(f)' = ResultsOf(f)
  <2>1. ResultsOf(f) = IF SourceOf(f) \in {{}, Absent} THEN <<FileResult(f)>>
                       ELSE ResultsFor(f, Cardinality(SourceOf(f)), FileNumbers(f), opts.return)
    BY ResultsOfIs
  <2>2. ResultsOf(f)' = IF SourceOf(f)' \in {{}, Absent} THEN <<FileResult(f)>>
                        ELSE ResultsFor(f, Cardinality(SourceOf(f)'), FileNumbers(f)', opts'.return)
    BY DEF ResultsOf, SourceOf, FileNumbers
  <2>3. FileNumbers(f)' = FileNumbers(f)
    BY <1>1 DEF FileNumbers
  <2> QED
    BY <1>1, <2>1, <2>2, <2>3
<1>3. UNCHANGED Differing
  BY <1>1 DEF Differing
<1>4. UNCHANGED Parts
  BY <1>2, <1>3 DEF Parts
<1>5. UNCHANGED WholeAnswer
  BY <1>2, <1>3 DEF WholeAnswer
<1>6. \A j : UNCHANGED Left(j)
  BY <1>3 DEF Left
<1> QED
  BY <1>1, <1>3, <1>4, <1>5, <1>6

\* Nothing was done that the answer may depend on; and the steps, by what they know.
Quiet == ~unread /\ (base # 0 \/ edits = 0)
Early == {"base", "head", "compared", "staged", "unstaged", "untracked"}
Late  == {"read", "diff", "askUntracked", "finish", "done"}

\* What git has to say about a file.
NumbersOf(f) == ChangedNumbers(Hunks(ComparedContent(f)[1], ComparedContent(f)[2]),
                               Cardinality(SourceOf(f)))

\* While nothing happens: the files listed are those that differ, what was read is what
\* is there, and the results so far are those of the files that are done.
QuietHead == base = 0 /\ at \notin {"base", "head", "error"} => head = HEAD
QuietList ==
    /\ at = "unstaged" => listed = Staged
    /\ at = "untracked" => listed = Staged \cup Unstaged
    /\ at \in Late => listed = Differing
QuietRead ==
    at \in Late => \A f \in Files : read[f] # Absent =>
        read[f] = SourceOf(f) /\ SourceOf(f) \notin {{}, Absent}
QuietFile ==
    /\ at \in {"diff", "askUntracked"} => source = SourceOf(Min(todo))
    /\ at = "askUntracked" => base = 0 /\ NumbersOf(Min(todo)) = {}
QuietResults ==
    at \in {"read", "diff", "askUntracked"} =>
        /\ ~Full(results)
        /\ \E j \in 0 .. Cardinality(Differing) : todo = Left(j) /\ results = UpTo(Parts, j)
QuietEnd ==
    /\ at = "finish" =>
          /\ Full(results) /\ Len(WholeAnswer) > opts.limit
          /\ results = SubSeq(WholeAnswer, 1, opts.limit + 1)
    /\ at = "done" =>
          /\ truncated <=> opts.limit > 0 /\ Len(WholeAnswer) > opts.limit
          /\ results = IF truncated THEN SubSeq(WholeAnswer, 1, opts.limit) ELSE WholeAnswer
QuietPhases == QuietHead /\ QuietList /\ QuietRead /\ QuietFile /\ QuietResults /\ QuietEnd
AnswerPhases ==
    /\ at # "done" => truncated = FALSE
    /\ at \in Early => read = Empty
    /\ at = "compared" => base # 0
    /\ at \in {"staged", "unstaged", "untracked"} => base = 0
AnswerInv == AnswerPhases /\ (Quiet => QuietPhases)

LEMMA InitAnswer == QueryInit => AnswerInv
<1> SUFFICES ASSUME QueryInit PROVE AnswerInv
  OBVIOUS
<1>1. at = "base" /\ truncated = FALSE /\ read = Empty /\ base = 0
  BY DEF QueryInit
<1>2. AnswerPhases
  BY <1>1 DEF AnswerPhases
<1>3. QuietPhases
  BY <1>1 DEF QuietPhases, QuietHead, QuietList, QuietRead, QuietFile, QuietResults, QuietEnd, Late
<1> QED
  BY <1>2, <1>3 DEF AnswerInv

\* A commit does not change the commits before it.
LEMMA TreesStay ==
    ASSUME QueryTypes, UNCHANGED <<base, head>>, UNCHANGED commits \/ commits' = Append(commits, index)
    PROVE  UNCHANGED TreeOf(head) /\ UNCHANGED TreeOf(MergeBase)
<1> HIDE DEF Tree, Entries, Content, Empty, Absent
<1>1. commits \in Seq(Tree) /\ head \in 0 .. Len(commits) /\ base \in 0 .. Len(commits) /\ index \in Tree
  BY DEF QueryTypes
<1>2. \A c \in 1 .. Len(commits) : commits'[c] = commits[c]
  BY <1>1
<1>3. MergeBase' = MergeBase /\ MergeBase \in 0 .. Len(commits)
  BY <1>1 DEF MergeBase, Lesser
<1>4. \A c \in 0 .. Len(commits) : c = 0 \/ c \in 1 .. Len(commits)
  BY <1>1
<1>5. (IF head = 0 THEN Empty ELSE commits'[head]) = (IF head = 0 THEN Empty ELSE commits[head])
  BY <1>1, <1>2, <1>4
<1>6. (IF MergeBase = 0 THEN Empty ELSE commits'[MergeBase])
        = (IF MergeBase = 0 THEN Empty ELSE commits[MergeBase])
  BY <1>2, <1>3, <1>4
<1>7. TreeOf(head)' = IF head' = 0 THEN Empty ELSE commits'[head']
  BY DEF TreeOf
<1>8. TreeOf(MergeBase)' = IF MergeBase' = 0 THEN Empty ELSE commits'[MergeBase']
  BY DEF TreeOf
<1>9. TreeOf(head) = IF head = 0 THEN Empty ELSE commits[head]
  BY DEF TreeOf
<1>10. TreeOf(MergeBase) = IF MergeBase = 0 THEN Empty ELSE commits[MergeBase]
  BY DEF TreeOf
<1> QED
  BY <1>3, <1>5, <1>6, <1>7, <1>8, <1>9, <1>10

\* An edit after the base was resolved is not seen, and one without a base is no quiet.
LEMMA EditAnswer == ASSUME QueryInv, AnswerInv, Edit PROVE AnswerInv'
<1> HIDE DEF Tree, Entries, Content, Empty, Absent
<1>1. QueryTypes
  BY DEF QueryInv
<1>2. UNCHANGED <<opts, base, head, listed, todo, source, results, truncated, at, unread, read>>
  BY DEF Edit, query
<1>3. edits' # 0
  <2>1. edits' = edits + 1 /\ edits \in Nat
    BY <1>1 DEF Edit, QueryTypes
  <2> QED
    BY <2>1
<1>4. AnswerPhases'
  BY <1>2 DEF AnswerInv, AnswerPhases
<1>5. ASSUME base # 0, Quiet PROVE QuietPhases'
  <2>1. QuietPhases
    BY <1>5 DEF AnswerInv
  <2>2. UNCHANGED commits \/ commits' = Append(commits, index)
    BY DEF Edit
  <2>3. UNCHANGED TreeOf(head) /\ UNCHANGED TreeOf(MergeBase)
    BY <1>1, <1>2, <2>2, TreesStay
  <2>4. /\ \A f : SourceOf(f)' = SourceOf(f)
        /\ UNCHANGED Differing /\ UNCHANGED Parts /\ UNCHANGED WholeAnswer
        /\ \A j : UNCHANGED Left(j)
    BY <1>2, <1>5, <2>3, SameAnswer
  <2>5. QuietHead'
    BY <1>2, <1>5 DEF QuietHead
  <2>6. QuietList'
    BY <1>2, <1>5, <2>1, <2>4 DEF QuietPhases, QuietList, AnswerInv, AnswerPhases
  <2>7. QuietRead'
    BY <1>2, <2>1, <2>4 DEF QuietPhases, QuietRead
  <2>8. QuietFile'
    BY <1>2, <1>5, <2>1, <2>4 DEF QuietPhases, QuietFile
  <2>9. QuietResults'
    BY <1>2, <2>1, <2>4 DEF QuietPhases, QuietResults, Full, UpTo
  <2>10. QuietEnd'
    BY <1>2, <2>1, <2>4 DEF QuietPhases, QuietEnd, Full
  <2> QED
    BY <2>5, <2>6, <2>7, <2>8, <2>9, <2>10 DEF QuietPhases
<1>6. Quiet' => base # 0 /\ Quiet
  BY <1>2, <1>3 DEF Quiet
<1> QED
  BY <1>4, <1>5, <1>6 DEF AnswerInv

LEMMA FailAnswer == ASSUME Fail PROVE AnswerInv'
<1>1. at' = "error" /\ truncated' = FALSE
  BY DEF Fail, Goto
<1>2. AnswerPhases'
  BY <1>1 DEF AnswerPhases, Early
<1>3. QuietPhases'
  BY <1>1 DEF QuietPhases, QuietHead, QuietList, QuietRead, QuietFile, QuietResults, QuietEnd, Late
<1> QED
  BY <1>2, <1>3 DEF AnswerInv

LEMMA ResolveAnswer == ASSUME AnswerInv, ResolveBase \/ ResolveOptionalHead PROVE AnswerInv'
<1> HIDE DEF Tree, Entries, Content, Empty, Absent
<1>1. /\ UNCHANGED <<HEAD, read, truncated>> /\ at \in {"base", "head"}
      /\ \/ at' \in {"head", "error"}
         \/ at' = "compared" /\ base # 0 /\ UNCHANGED base
         \/ at' = "staged" /\ base = 0 /\ UNCHANGED base /\ head' = HEAD
  BY DEF ResolveBase, ResolveOptionalHead, Goto, repository
<1>2. AnswerPhases'
  BY <1>1 DEF AnswerInv, AnswerPhases, Early
<1>3. QuietPhases'
  BY <1>1 DEF QuietPhases, QuietHead, QuietList, QuietRead, QuietFile, QuietResults, QuietEnd, Late
<1> QED
  BY <1>2, <1>3 DEF AnswerInv

LEMMA ListAnswer == ASSUME QueryInv, AnswerInv, ListChangedFiles PROVE AnswerInv'
<1> HIDE DEF Tree, Entries, Content, Empty, Absent
<1>1. /\ UNCHANGED <<commits, HEAD, index, work, edits>>
      /\ UNCHANGED <<unread, read, opts, base, head, source, results, truncated>>
      /\ at \in {"compared", "staged", "unstaged", "untracked"}
      /\ \/ at = "compared" /\ listed' = Compared /\ at' = "read" /\ todo' = listed'
         \/ at = "staged" /\ listed' = Staged /\ at' = "unstaged"
         \/ at = "unstaged" /\ listed' = listed \cup Unstaged /\ at' = "untracked"
         \/ /\ at = "untracked" /\ listed' = listed \cup {f \in Files : Untracked(f)}
            /\ at' = "read" /\ todo' = listed'
  BY DEF ListChangedFiles, ChangedFiles, Goto, repository
<1>2. QueryTypes /\ results = <<>> /\ opts.limit \in Nat
  <2>1. QueryTypes /\ results = <<>>
    BY <1>1 DEF QueryInv, QueryPhases
  <2> QED
    BY <2>1, ChangedQueryAssumption DEF QueryTypes
<1>3. AnswerPhases /\ read = Empty /\ (at = "compared" <=> base # 0)
  BY <1>1 DEF AnswerInv, AnswerPhases, Early
<1>4. AnswerPhases'
  BY <1>1, <1>3 DEF AnswerPhases, Early
<1>5. ASSUME Quiet PROVE QuietPhases'
  <2>1. QuietHead /\ QuietList
    BY <1>5 DEF AnswerInv, QuietPhases
  <2>2. UNCHANGED TreeOf(head) /\ UNCHANGED TreeOf(MergeBase)
    BY <1>1, <1>2, TreesStay
  <2>3. /\ UNCHANGED Differing /\ UNCHANGED Parts /\ UNCHANGED WholeAnswer
        /\ \A j : UNCHANGED Left(j)
    BY <1>1, <2>2, SameAnswer
  <2>4. QuietHead'
    BY <1>1, <2>1 DEF QuietHead
  <2>5. Staged' = Staged /\ Unstaged' = Unstaged
    BY <1>1 DEF Staged, Unstaged, Tracked, TreeOf
  <2>6. ASSUME at' = "read" PROVE listed' = Differing
    <3>1. CASE at = "compared"
      <4>1. listed' = Compared /\ base # 0
        BY <1>1, <1>3, <3>1
      <4> QED
        BY <4>1 DEF Compared, Differing, DiffersFrom
    <3>2. CASE at # "compared"
      <4>1. /\ listed' = (Staged \cup Unstaged) \cup {f \in Files : Untracked(f)} /\ base = 0
            /\ head = HEAD
        BY <1>1, <1>3, <2>1, <2>6, <3>2 DEF QuietList, QuietHead
      <4>2. (IF head = 0 THEN HEAD ELSE head) = head
        BY <4>1
      <4>3. ASSUME NEW f \in Files
            PROVE  (TreeOf(head)[f] # index[f] \/ index[f] # Tracked(f) \/ Untracked(f))
                       <=> (TreeOf(head)[f] # index[f] \/ index[f] # work[f])
        BY DEF Tracked, Untracked
      <4>4. Differing = {f \in Files : TreeOf(head)[f] # index[f] \/ index[f] # work[f]}
        BY <4>1 DEF Differing, DiffersFrom
      <4>5. Staged = {f \in Files : TreeOf(head)[f] # index[f]}
        BY <4>2 DEF Staged
      <4>6. Unstaged = {f \in Files : index[f] # Tracked(f)}
        BY DEF Unstaged
      <4> QED
        BY <4>1, <4>3, <4>4, <4>5, <4>6
    <3> QED
      BY <3>1, <3>2
  <2>7. QuietList'
    <3>1. at' = "unstaged" => listed' = Staged'
      BY <1>1, <2>5
    <3>2. at' = "untracked" => listed' = Staged' \cup Unstaged'
      BY <1>1, <2>1, <2>5 DEF QuietList
    <3>3. at' \in Late => listed' = Differing'
      BY <1>1, <2>3, <2>6 DEF Late
    <3> QED
      BY <3>1, <3>2, <3>3 DEF QuietList
  <2>8. QuietRead'
    <3>1. \A f \in Files : read'[f] = Absent
      BY <1>1, <1>3 DEF Empty
    <3> QED
      BY <3>1 DEF QuietRead
  <2>9. QuietFile' /\ QuietEnd'
    BY <1>1 DEF QuietFile, QuietEnd
  <2>10. QuietResults'
    <3> SUFFICES ASSUME at' = "read"
                 PROVE  ~Full(results)' /\ todo' = Left(0)' /\ results' = UpTo(Parts, 0)'
      BY <1>1, <2>3, DifferingFacts DEF QuietResults
    <3>1. todo' = Differing
      BY <1>1, <2>6
    <3>2. Left(0)' = Differing
      BY <2>3, DifferingFacts, LeftFacts
    <3>3. UpTo(Parts, 0)' = UpTo(Parts, 0)
      BY <2>3 DEF UpTo
    <3>4. UpTo(Parts, 0) = <<>>
      <4>1. Len(Parts) = Cardinality(Differing)
        BY <1>2, PartsFacts DEF ListsOf
      <4> QED
        BY <4>1, DifferingFacts, UpToNone
    <3>5. results' = <<>> /\ opts' = opts
      BY <1>1, <1>2
    <3>6. ~Full(results)'
      BY <1>2, <3>5 DEF Full
    <3> QED
      BY <3>1, <3>2, <3>3, <3>4, <3>5, <3>6
  <2> QED
    BY <2>4, <2>7, <2>8, <2>9, <2>10 DEF QuietPhases
<1>6. Quiet' => Quiet
  BY <1>1 DEF Quiet
<1> QED
  BY <1>4, <1>5, <1>6 DEF AnswerInv

\* Steps of the command that keep to the files listed.
StaysPut == UNCHANGED <<commits, HEAD, index, work, edits, opts, base, head, listed>>

LEMMA SameAfter ==
    ASSUME QueryTypes, StaysPut
    PROVE  /\ \A f : SourceOf(f)' = SourceOf(f) /\ NumbersOf(f)' = NumbersOf(f)
           /\ UNCHANGED Differing /\ UNCHANGED Parts /\ UNCHANGED WholeAnswer
           /\ \A j : UNCHANGED Left(j)
           /\ \A j : UpTo(Parts, j)' = UpTo(Parts, j)
<1> HIDE DEF Tree, Entries, Content, Empty, Absent
<1>1. UNCHANGED <<commits, HEAD, index, work, edits, opts, base, head, listed>>
  BY DEF StaysPut
<1>2. UNCHANGED TreeOf(head) /\ UNCHANGED TreeOf(MergeBase)
  BY <1>1, TreesStay
<1>3. /\ \A f : SourceOf(f)' = SourceOf(f)
      /\ \A f : ComparedContent(f)' = ComparedContent(f)
      /\ UNCHANGED Differing /\ UNCHANGED Parts /\ UNCHANGED WholeAnswer
      /\ \A j : UNCHANGED Left(j)
  BY <1>1, <1>2, SameAnswer
<1>4. \A f : NumbersOf(f)' = NumbersOf(f)
  BY <1>3 DEF NumbersOf
<1>5. \A j : UpTo(Parts, j)' = UpTo(Parts, j)
  BY <1>3 DEF UpTo
<1> QED
  BY <1>3, <1>4, <1>5

\* A file is answered with its results.
LEMMA ReportAnswer ==
    ASSUME QueryInv, AnswerInv, Quiet, at \in {"read", "diff", "askUntracked"}, todo # {},
           StaysPut, UNCHANGED <<read, truncated>>,
           results' = AppendResults(results, ResultsOf(Min(todo))),
           IF Full(results') THEN at' = "finish" /\ UNCHANGED todo
           ELSE at' = "read" /\ todo' = todo \ {Min(todo)}
    PROVE  QuietPhases'
<1> HIDE DEF Tree, Entries, Content, Empty, Absent
<1>1. QueryTypes
  BY DEF QueryInv
<1>2. QuietPhases
  BY DEF AnswerInv
<1>3. /\ \A f : SourceOf(f)' = SourceOf(f)
      /\ UNCHANGED Differing /\ UNCHANGED WholeAnswer /\ \A j : UNCHANGED Left(j)
      /\ \A j : UpTo(Parts, j)' = UpTo(Parts, j)
  BY <1>1, SameAfter
<1>4. UNCHANGED <<HEAD, opts, base, head, listed>>
  BY DEF StaysPut
<1>5. PICK j \in 0 .. Cardinality(Differing) : todo = Left(j) /\ results = UpTo(Parts, j)
  BY <1>2 DEF QuietPhases, QuietResults
<1>6. ~Full(results)
  BY <1>2 DEF QuietPhases, QuietResults
<1> DEFINE res == AppendResults(results, ResultsOf(Min(todo)))
<1>7. /\ j + 1 \in 0 .. Cardinality(Differing) /\ todo \ {Min(todo)} = Left(j + 1)
      /\ ~Full(res) => res = UpTo(Parts, j + 1)
      /\ Full(res) => /\ Len(WholeAnswer) > opts.limit
                      /\ res = SubSeq(WholeAnswer, 1, opts.limit + 1)
  BY <1>5, <1>6, NextPart
<1>8. results' = res
  OBVIOUS
<1> HIDE DEF res
<1>9. at' \in {"finish", "read"} /\ (at' = "finish" <=> Full(results'))
      /\ (at' = "read" => todo' = todo \ {Min(todo)})
  OBVIOUS
<1>10. Full(results') <=> Full(results)'
  BY <1>4 DEF Full
<1>11. QuietHead'
  BY <1>2, <1>4, <1>9 DEF QuietPhases, QuietHead
<1>12. QuietList'
  BY <1>2, <1>3, <1>4, <1>9 DEF QuietPhases, QuietList, Late
<1>13. QuietRead'
  BY <1>2, <1>3, <1>9 DEF QuietPhases, QuietRead, Late
<1>14. QuietFile'
  BY <1>9 DEF QuietFile
<1>15. QuietResults'
  <2> SUFFICES ASSUME at' = "read" PROVE
          /\ ~Full(results)'
          /\ \E i \in 0 .. Cardinality(Differing)' : todo' = Left(i)' /\ results' = UpTo(Parts, i)'
    BY <1>9 DEF QuietResults
  <2>1. ~Full(results') /\ todo' = Left(j + 1) /\ results' = UpTo(Parts, j + 1)
    BY <1>7, <1>8, <1>9
  <2>2. Left(j + 1)' = Left(j + 1) /\ UpTo(Parts, j + 1)' = UpTo(Parts, j + 1)
    BY <1>3
  <2>3. j + 1 \in 0 .. Cardinality(Differing)'
    BY <1>3, <1>7
  <2> QED
    BY <1>10, <2>1, <2>2, <2>3
<1>16. QuietEnd'
  BY <1>3, <1>4, <1>7, <1>8, <1>9, <1>10 DEF QuietEnd
<1> QED
  BY <1>11, <1>12, <1>13, <1>14, <1>15, <1>16 DEF QuietPhases

\* The file that is looked at.
LEMMA FirstLeft ==
    ASSUME QueryTypes, todo # {}
    PROVE  Min(todo) \in todo /\ Min(todo) \in Files
<1>1. todo \subseteq listed /\ listed \subseteq Files /\ Files \subseteq Nat
  BY ChangedQueryAssumption DEF QueryTypes
<1>2. todo \subseteq Nat
  BY <1>1
<1>3. Min(todo) \in todo
  BY <1>2, Smallest
<1> QED
  BY <1>1, <1>3

LEMMA ReadFileAnswer == ASSUME QueryInv, AnswerInv, ReadFile PROVE AnswerInv'
<1> HIDE DEF Tree, Entries, Content, Empty, Absent
<1>1. QueryTypes
  BY DEF QueryInv
<1> DEFINE f == Min(todo)
           content == SourceOf(f)
<1>2. at = "read" /\ todo # {} /\ f \in Files
  BY <1>1, FirstLeft DEF ReadFile
<1>3. StaysPut /\ UNCHANGED <<truncated>> /\ base' = base /\ edits' = edits
  BY DEF ReadFile, repository, StaysPut
<1>4. \/ /\ content \notin {{}, Absent}
         /\ source' = content /\ read' = [read EXCEPT ![f] = content] /\ at' = "diff"
         /\ UNCHANGED <<todo, results, unread>>
      \/ /\ UNCHANGED read /\ unread' = (unread \/ content \notin {{}, Absent})
         /\ results' = AppendResults(results, <<FileResult(f)>>)
         /\ IF Full(results') THEN at' = "finish" /\ UNCHANGED todo
            ELSE at' = "read" /\ todo' = todo \ {f}
  BY DEF ReadFile, Goto, SourceOf
<1>5. AnswerPhases'
  <2>1. at' \in {"diff", "finish", "read"}
    BY <1>4
  <2> QED
    BY <1>2, <1>3, <2>1 DEF AnswerInv, AnswerPhases, Early
<1>6. ASSUME Quiet, Quiet' PROVE QuietPhases'
  <2>1. QuietPhases
    BY <1>6 DEF AnswerInv
  <2>2. CASE /\ content \notin {{}, Absent}
             /\ source' = content /\ read' = [read EXCEPT ![f] = content] /\ at' = "diff"
             /\ UNCHANGED <<todo, results, unread>>
    <3>1. /\ \A g : SourceOf(g)' = SourceOf(g)
          /\ UNCHANGED Differing /\ UNCHANGED WholeAnswer /\ \A j : UNCHANGED Left(j)
          /\ \A j : UpTo(Parts, j)' = UpTo(Parts, j)
      BY <1>1, <1>3, SameAfter
    <3>2. UNCHANGED <<HEAD, opts, base, head, listed>>
      BY <1>3 DEF StaysPut
    <3>3. read \in [Files -> Content]
      BY <1>1 DEF QueryTypes
    <3> HIDE DEF f, content
    <3>4. QuietHead'
      BY <1>2, <2>1, <3>2 DEF QuietPhases, QuietHead
    <3>5. QuietList'
      BY <1>2, <2>1, <2>2, <3>1, <3>2 DEF QuietPhases, QuietList, Late
    <3>6. QuietRead'
      <4>1. \A g \in Files : read[g] # Absent => read[g] = SourceOf(g) /\ SourceOf(g) \notin {{}, Absent}
        BY <1>2, <2>1 DEF QuietPhases, QuietRead, Late
      <4>2. \A g \in Files : read'[g] = IF g = f THEN SourceOf(g) ELSE read[g]
        BY <2>2, <3>3 DEF content
      <4>3. SourceOf(f) \notin {{}, Absent}
        BY <2>2 DEF content
      <4> QED
        BY <3>1, <4>1, <4>2, <4>3 DEF QuietRead
    <3>7. QuietFile'
      BY <2>2, <3>1 DEF QuietFile, f, content
    <3>8. QuietResults'
      <4>1. ~Full(results)' /\ at' = "diff" /\ todo' = todo /\ results' = results
        BY <1>2, <2>1, <2>2, <3>2 DEF QuietPhases, QuietResults, Full
      <4>2. PICK j \in 0 .. Cardinality(Differing) : todo = Left(j) /\ results = UpTo(Parts, j)
        BY <1>2, <2>1 DEF QuietPhases, QuietResults
      <4>3. j \in 0 .. Cardinality(Differing)' /\ todo' = Left(j)' /\ results' = UpTo(Parts, j)'
        BY <3>1, <4>1, <4>2
      <4> QED
        BY <4>1, <4>3 DEF QuietResults
    <3>9. QuietEnd'
      BY <2>2 DEF QuietEnd
    <3> QED
      BY <3>4, <3>5, <3>6, <3>7, <3>8, <3>9 DEF QuietPhases
  <2>3. CASE /\ UNCHANGED read /\ unread' = (unread \/ content \notin {{}, Absent})
             /\ results' = AppendResults(results, <<FileResult(f)>>)
             /\ IF Full(results') THEN at' = "finish" /\ UNCHANGED todo
                ELSE at' = "read" /\ todo' = todo \ {f}
    <3>1. content \in {{}, Absent}
      BY <1>6, <2>3 DEF Quiet
    <3>2. ResultsOf(f) = <<FileResult(f)>>
      BY <3>1, ResultsOfIs
    <3> QED
      BY <1>2, <1>3, <1>6, <2>3, <3>2, ReportAnswer
  <2> QED
    BY <1>4, <2>2, <2>3
<1>7. Quiet' => Quiet
  BY <1>3, <1>4 DEF Quiet
<1> QED
  BY <1>5, <1>6, <1>7 DEF AnswerInv

LEMMA ReportedAnswer ==
    ASSUME QueryInv, AnswerInv, at \in {"diff", "askUntracked"}, StaysPut,
           UNCHANGED <<unread, read, truncated>>, NEW numbers, Report(Min(todo), numbers),
           Quiet => numbers = FileNumbers(Min(todo))
    PROVE  AnswerInv'
<1> HIDE DEF Tree, Entries, Content, Empty, Absent
<1> DEFINE f == Min(todo)
<1>1. QueryTypes /\ todo # {} /\ source \notin {{}, Absent}
  BY DEF QueryInv, QueryPhases
<1>2. /\ results' = AppendResults(results, ResultsFor(f, Cardinality(source), numbers, opts.return))
      /\ IF Full(results') THEN at' = "finish" /\ UNCHANGED todo
         ELSE at' = "read" /\ todo' = todo \ {f}
  BY DEF Report, Goto
<1>3. AnswerPhases'
  <2>1. at' \in {"finish", "read"}
    BY <1>2
  <2> QED
    BY <2>1 DEF AnswerInv, AnswerPhases, Early
<1>4. ASSUME Quiet PROVE QuietPhases'
  <2>1. source = SourceOf(f)
    BY <1>4 DEF AnswerInv, QuietPhases, QuietFile
  <2>2. ResultsOf(f) = ResultsFor(f, Cardinality(source), numbers, opts.return)
    BY <1>1, <1>4, <2>1, ResultsOfIs
  <2> QED
    BY <1>1, <1>2, <1>4, <2>2, ReportAnswer
<1>5. Quiet' => Quiet
  BY DEF Quiet, StaysPut
<1> QED
  BY <1>3, <1>4, <1>5 DEF AnswerInv

LEMMA LinesAnswer == ASSUME QueryInv, AnswerInv, ChangedLines PROVE AnswerInv'
<1> HIDE DEF Tree, Entries, Content, Empty, Absent
<1> DEFINE f == Min(todo)
           c == ComparedContent(f)
           numbers == ChangedNumbers(Hunks(c[1], c[2]), Cardinality(source))
<1>1. QueryTypes /\ at = "diff" /\ todo # {} /\ source \notin {{}, Absent}
  BY DEF QueryInv, QueryPhases, ChangedLines
<1>2. f \in Files
  BY <1>1, FirstLeft
<1>3. StaysPut /\ UNCHANGED <<unread, read, source, truncated>>
  BY DEF ChangedLines, repository, StaysPut
<1>4. \/ base = 0 /\ head = 0 /\ Report(f, 1 .. Cardinality(source))
      \/ base = 0 /\ numbers = {} /\ at' = "askUntracked" /\ UNCHANGED <<results, todo>>
      \/ ~(base = 0 /\ numbers = {}) /\ ~(base = 0 /\ head = 0) /\ Report(f, numbers)
  BY DEF ChangedLines, NeedsUntracked, Goto
<1>5. ASSUME Quiet
      PROVE  /\ base = 0 /\ head = 0 => FileNumbers(f) = 1 .. Cardinality(source)
             /\ ~(base = 0 /\ numbers = {}) => FileNumbers(f) = numbers
             /\ source = SourceOf(f) /\ NumbersOf(f) = numbers
  <2>1. source = SourceOf(f)
    BY <1>1, <1>5 DEF AnswerInv, QuietPhases, QuietFile
  <2>2. NumbersOf(f) = numbers
    BY <2>1 DEF NumbersOf
  <2>3. /\ base # 0 => FileNumbers(f) = NumbersOf(f)
        /\ base = 0 /\ head = 0 => FileNumbers(f) = 1 .. Cardinality(SourceOf(f))
        /\ base = 0 /\ NumbersOf(f) # {} => FileNumbers(f) = NumbersOf(f)
    BY <1>1, <1>2, <2>1, NumbersOfFile DEF NumbersOf
  <2> HIDE DEF numbers, f
  <2> QED
    BY <2>1, <2>2, <2>3
<1>6. CASE base = 0 /\ head = 0 /\ Report(f, 1 .. Cardinality(source))
  BY <1>1, <1>3, <1>5, <1>6, ReportedAnswer
<1>7. CASE ~(base = 0 /\ numbers = {}) /\ ~(base = 0 /\ head = 0) /\ Report(f, numbers)
  <2> HIDE DEF numbers
  <2> QED
    BY <1>1, <1>3, <1>5, <1>7, ReportedAnswer
<1>8. CASE base = 0 /\ numbers = {} /\ at' = "askUntracked" /\ UNCHANGED <<results, todo>>
  <2>1. AnswerPhases'
    BY <1>1, <1>3, <1>8 DEF AnswerInv, AnswerPhases, Early
  <2>2. ASSUME Quiet PROVE QuietPhases'
    <3>1. QuietPhases
      BY <2>2 DEF AnswerInv
    <3>2. /\ \A g : SourceOf(g)' = SourceOf(g) /\ NumbersOf(g)' = NumbersOf(g)
          /\ UNCHANGED Differing /\ UNCHANGED WholeAnswer /\ \A j : UNCHANGED Left(j)
          /\ \A j : UpTo(Parts, j)' = UpTo(Parts, j)
      BY <1>1, <1>3, SameAfter
    <3>3. UNCHANGED <<HEAD, opts, base, head, listed>>
      BY <1>3 DEF StaysPut
    <3>4. NumbersOf(f) = {} /\ source = SourceOf(f)
      BY <1>5, <1>8, <2>2
    <3> HIDE DEF numbers, c
    <3>5. QuietHead'
      BY <1>1, <3>1, <3>3 DEF QuietPhases, QuietHead
    <3>6. QuietList'
      BY <1>1, <1>8, <3>1, <3>2, <3>3 DEF QuietPhases, QuietList, Late
    <3>7. QuietRead'
      BY <1>1, <1>3, <3>1, <3>2 DEF QuietPhases, QuietRead, Late
    <3>8. QuietFile'
      <4>1. Min(todo') = f
        BY <1>8
      <4>2. SourceOf(f)' = source' /\ NumbersOf(f)' = {} /\ base' = 0
        BY <1>3, <1>8, <3>2, <3>3, <3>4
      <4>3. SourceOf(Min(todo))' = SourceOf(f)' /\ NumbersOf(Min(todo))' = NumbersOf(f)'
        BY <4>1 DEF SourceOf, NumbersOf, ComparedContent, Tracked
      <4> QED
        BY <4>2, <4>3 DEF QuietFile
    <3>9. QuietResults'
      <4>1. ~Full(results)' /\ todo' = todo /\ results' = results
        BY <1>1, <1>8, <3>1, <3>3 DEF QuietPhases, QuietResults, Full
      <4>2. PICK j \in 0 .. Cardinality(Differing) : todo = Left(j) /\ results = UpTo(Parts, j)
        BY <1>1, <3>1 DEF QuietPhases, QuietResults
      <4>3. j \in 0 .. Cardinality(Differing)' /\ todo' = Left(j)' /\ results' = UpTo(Parts, j)'
        BY <3>2, <4>1, <4>2
      <4> QED
        BY <4>1, <4>3 DEF QuietResults
    <3>10. QuietEnd'
      BY <1>8 DEF QuietEnd
    <3> QED
      BY <3>5, <3>6, <3>7, <3>8, <3>9, <3>10 DEF QuietPhases
  <2>3. Quiet' => Quiet
    BY <1>3 DEF Quiet, StaysPut
  <2> QED
    BY <2>1, <2>2, <2>3 DEF AnswerInv
<1> QED
  BY <1>4, <1>6, <1>7, <1>8

LEMMA AskAnswer == ASSUME QueryInv, AnswerInv, AskUntracked PROVE AnswerInv'
<1> HIDE DEF Tree, Entries, Content, Empty, Absent
<1> DEFINE f == Min(todo)
           all == IF Untracked(f) THEN 1 .. Cardinality(source) ELSE {}
<1>1. QueryTypes /\ at = "askUntracked" /\ todo # {} /\ source \notin {{}, Absent}
  BY DEF QueryInv, QueryPhases, AskUntracked
<1>2. f \in Files
  BY <1>1, FirstLeft
<1>3. StaysPut /\ UNCHANGED <<unread, read, truncated>>
  BY DEF AskUntracked, repository, StaysPut
<1>4. Report(f, all)
  BY DEF AskUntracked
<1>5. Quiet => all = FileNumbers(f)
  <2> SUFFICES ASSUME Quiet PROVE all = FileNumbers(f)
    OBVIOUS
  <2>1. source = SourceOf(f) /\ base = 0 /\ NumbersOf(f) = {}
    BY <1>1 DEF AnswerInv, QuietPhases, QuietFile
  <2>2. base = 0 /\ NumbersOf(f) = {} =>
            FileNumbers(f) = IF Untracked(f) THEN 1 .. Cardinality(SourceOf(f)) ELSE {}
    BY <1>1, <1>2, <2>1, NumbersOfFile DEF NumbersOf
  <2> QED
    BY <2>1, <2>2
<1> HIDE DEF all
<1> QED
  BY <1>1, <1>3, <1>4, <1>5, ReportedAnswer

\* A limit cuts the answer off.
LEMMA CutTwice ==
    ASSUME NEW E
    PROVE  \A s \in Seq(E) : \A l \in Nat : l < Len(s) =>
               SubSeq(SubSeq(s, 1, l + 1), 1, l) = SubSeq(s, 1, l)
<1> SUFFICES ASSUME NEW s \in Seq(E), NEW l \in Nat, l < Len(s)
             PROVE  SubSeq(SubSeq(s, 1, l + 1), 1, l) = SubSeq(s, 1, l)
  OBVIOUS
<1> DEFINE w == SubSeq(s, 1, l + 1)
<1>1. Len(s) \in Nat /\ l + 1 <= Len(s)
  <2>1. Len(s) \in Nat
    OBVIOUS
  <2> QED
    BY <2>1
<1>2. w \in Seq(E) /\ Len(w) = l + 1 /\ \A k \in 1 .. l + 1 : w[k] = s[k]
  BY <1>1
<1> HIDE DEF w
<1>3. SubSeq(w, 1, l) \in Seq(E) /\ Len(SubSeq(w, 1, l)) = l /\ \A k \in 1 .. l : SubSeq(w, 1, l)[k] = s[k]
  BY <1>2
<1>4. SubSeq(s, 1, l) \in Seq(E) /\ Len(SubSeq(s, 1, l)) = l /\ \A k \in 1 .. l : SubSeq(s, 1, l)[k] = s[k]
  BY <1>1
<1> DEFINE u == SubSeq(w, 1, l)
           v == SubSeq(s, 1, l)
<1> HIDE DEF u, v
<1>5. /\ u \in Seq(E) /\ Len(u) = l /\ \A k \in 1 .. l : u[k] = s[k]
      /\ v \in Seq(E) /\ Len(v) = l /\ \A k \in 1 .. l : v[k] = s[k]
  BY <1>3, <1>4 DEF u, v
<1>6. u = v
  BY <1>5
<1> QED
  BY <1>6 DEF u, v, w

LEMMA FinishAnswer == ASSUME QueryInv, AnswerInv, Finish PROVE AnswerInv'
<1> HIDE DEF Tree, Entries, Content, Empty, Absent
<1>1. QueryTypes
  BY DEF QueryInv
<1>2. /\ StaysPut /\ UNCHANGED <<unread, read, todo>> /\ at' = "done"
      /\ at = "finish" \/ (at = "read" /\ todo = {})
      /\ IF Full(results)
         THEN results' = SubSeq(results, 1, opts.limit) /\ truncated' = TRUE
         ELSE UNCHANGED <<results, truncated>>
  BY DEF Finish, Goto, repository, StaysPut
<1>3. AnswerPhases'
  BY <1>2 DEF AnswerPhases, Early
<1>4. ASSUME Quiet PROVE QuietPhases'
  <2>1. QuietPhases /\ AnswerPhases
    BY <1>4 DEF AnswerInv
  <2>2. UNCHANGED Differing /\ UNCHANGED WholeAnswer /\ \A f : SourceOf(f)' = SourceOf(f)
    BY <1>1, <1>2, SameAfter
  <2>3. UNCHANGED <<HEAD, opts, base, head, listed>>
    BY <1>2 DEF StaysPut
  <2> DEFINE whole == WholeAnswer
             l == opts.limit
             n == Cardinality(Differing)
  <2>4. l \in Nat
    BY <1>1, ChangedQueryAssumption DEF QueryTypes
  <2>5. /\ ListsOf(Parts, n) /\ whole = UpTo(Parts, n) /\ n \in 0 .. n
    BY <1>1, PartsFacts, DifferingFacts
  <2>6. whole \in Seq(Entries)
    <3> HIDE DEF n, whole
    <3> QED
      BY <2>5, UpToCollects DEF Collected
  <2>7. /\ truncated' <=> l > 0 /\ Len(whole) > l
        /\ results' = IF truncated' THEN SubSeq(whole, 1, l) ELSE whole
    <3>1. CASE at = "finish"
      <4>1. Full(results) /\ Len(whole) > l /\ results = SubSeq(whole, 1, l + 1)
        BY <2>1, <3>1 DEF QuietPhases, QuietEnd
      <4>2. results' = SubSeq(results, 1, l) /\ truncated' = TRUE /\ l > 0
        BY <1>2, <4>1 DEF Full
      <4> HIDE DEF whole, l
      <4>3. l < Len(whole)
        <5>1. Len(whole) \in Nat
          BY <2>6
        <5> QED
          BY <2>4, <4>1, <5>1
      <4>4. SubSeq(SubSeq(whole, 1, l + 1), 1, l) = SubSeq(whole, 1, l)
        BY <2>4, <2>6, <4>3, CutTwice
      <4> QED
        BY <4>1, <4>2, <4>4
    <3>2. CASE at # "finish"
      <4>1. at = "read" /\ todo = {} /\ truncated = FALSE
        BY <1>2, <2>1, <3>2 DEF AnswerPhases
      <4>2. ~Full(results)
        BY <2>1, <4>1 DEF QuietPhases, QuietResults
      <4>3. PICK j \in 0 .. n : todo = Left(j) /\ results = UpTo(Parts, j)
        BY <2>1, <4>1 DEF QuietPhases, QuietResults
      <4>4. j = n
        BY <4>1, <4>3, LeftFacts
      <4>5. results = whole
        BY <2>5, <4>3, <4>4
      <4>6. results' = results /\ truncated' = FALSE
        BY <1>2, <4>1, <4>2
      <4> QED
        BY <4>2, <4>5, <4>6 DEF Full
    <3> QED
      BY <3>1, <3>2
  <2>8. QuietEnd'
    BY <1>2, <2>2, <2>3, <2>7 DEF QuietEnd
  <2>9. QuietHead'
    BY <1>2, <2>1, <2>3 DEF QuietPhases, QuietHead
  <2>10. QuietList'
    BY <1>2, <2>1, <2>2, <2>3 DEF QuietPhases, QuietList, Late
  <2>11. QuietRead'
    BY <1>2, <2>1, <2>2 DEF QuietPhases, QuietRead, Late
  <2>12. QuietFile' /\ QuietResults'
    BY <1>2 DEF QuietFile, QuietResults
  <2> QED
    BY <2>8, <2>9, <2>10, <2>11, <2>12 DEF QuietPhases
<1>5. Quiet' => Quiet
  BY <1>2 DEF Quiet, StaysPut
<1> QED
  BY <1>3, <1>4, <1>5 DEF AnswerInv

LEMMA StutterAnswer == ASSUME QueryInv, AnswerInv, UNCHANGED queryVars PROVE AnswerInv'
<1> HIDE DEF Tree, Entries, Content, Empty, Absent
<1>1. QueryTypes
  BY DEF QueryInv
<1>2. StaysPut /\ UNCHANGED <<unread, read, todo, source, at, results, truncated>>
  BY DEF queryVars, repository, query, StaysPut
<1>3. AnswerPhases'
  BY <1>2 DEF AnswerInv, AnswerPhases, StaysPut
<1>4. ASSUME Quiet PROVE QuietPhases'
  <2>1. QuietPhases
    BY <1>4 DEF AnswerInv
  <2>2. /\ \A f : SourceOf(f)' = SourceOf(f) /\ NumbersOf(f)' = NumbersOf(f)
        /\ UNCHANGED Differing /\ UNCHANGED WholeAnswer /\ \A j : UNCHANGED Left(j)
        /\ \A j : UpTo(Parts, j)' = UpTo(Parts, j)
    BY <1>1, <1>2, SameAfter
  <2>3. UNCHANGED <<commits, HEAD, index, work, opts, base, head, listed>>
    BY <1>2 DEF StaysPut
  <2>4. QuietHead'
    BY <1>2, <2>1, <2>3 DEF QuietPhases, QuietHead
  <2>5. QuietList'
    <3>1. Staged' = Staged /\ Unstaged' = Unstaged
      BY <2>3 DEF Staged, Unstaged, Tracked, TreeOf
    <3> QED
      BY <1>2, <2>1, <2>2, <2>3, <3>1 DEF QuietPhases, QuietList
  <2>6. QuietRead'
    BY <1>2, <2>1, <2>2 DEF QuietPhases, QuietRead
  <2>7. QuietFile'
    <3>4. PICK f : f = Min(todo)
      OBVIOUS
    <3>1. Min(todo') = f
      BY <1>2, <3>4
    <3>2. SourceOf(Min(todo))' = SourceOf(f)' /\ NumbersOf(Min(todo))' = NumbersOf(f)'
      BY <3>1 DEF SourceOf, NumbersOf, ComparedContent, Tracked
    <3>3. SourceOf(f)' = SourceOf(f) /\ NumbersOf(f)' = NumbersOf(f)
      BY <2>2
    <3> QED
      BY <1>2, <2>1, <2>3, <3>2, <3>3, <3>4 DEF QuietPhases, QuietFile
  <2>8. QuietResults'
    <3> SUFFICES ASSUME at \in {"read", "diff", "askUntracked"} PROVE
            /\ ~Full(results)'
            /\ \E j \in 0 .. Cardinality(Differing)' : todo' = Left(j)' /\ results' = UpTo(Parts, j)'
      BY <1>2 DEF QuietResults
    <3>1. ~Full(results)'
      BY <1>2, <2>1, <2>3 DEF QuietPhases, QuietResults, Full
    <3>2. PICK j \in 0 .. Cardinality(Differing) : todo = Left(j) /\ results = UpTo(Parts, j)
      BY <2>1 DEF QuietPhases, QuietResults
    <3>3. j \in 0 .. Cardinality(Differing)' /\ todo' = Left(j)' /\ results' = UpTo(Parts, j)'
      BY <1>2, <2>2, <3>2
    <3> QED
      BY <3>1, <3>3
  <2>9. QuietEnd'
    BY <1>2, <2>1, <2>2, <2>3 DEF QuietPhases, QuietEnd, Full
  <2> QED
    BY <2>4, <2>5, <2>6, <2>7, <2>8, <2>9 DEF QuietPhases
<1>5. Quiet' => Quiet
  BY <1>2 DEF Quiet, StaysPut
<1> QED
  BY <1>3, <1>4, <1>5 DEF AnswerInv

LEMMA NextAnswer == QueryInv /\ AnswerInv /\ [QueryNext]_queryVars => AnswerInv'
<1> SUFFICES ASSUME QueryInv, AnswerInv, [QueryNext]_queryVars PROVE AnswerInv'
  OBVIOUS
<1>1. CASE UNCHANGED queryVars
  BY <1>1, StutterAnswer
<1>2. CASE Edit
  BY <1>2, EditAnswer
<1>3. CASE Fail
  BY <1>3, FailAnswer
<1>4. CASE ResolveBase \/ ResolveOptionalHead
  BY <1>4, ResolveAnswer
<1>5. CASE ListChangedFiles
  BY <1>5, ListAnswer
<1>6. CASE ReadFile
  BY <1>6, ReadFileAnswer
<1>7. CASE ChangedLines
  BY <1>7, LinesAnswer
<1>8. CASE AskUntracked
  BY <1>8, AskAnswer
<1>9. CASE Finish
  BY <1>9, FinishAnswer
<1> QED
  BY <1>1, <1>2, <1>3, <1>4, <1>5, <1>6, <1>7, <1>8, <1>9 DEF QueryNext

LEMMA AnswerAlways == QuerySpec => []AnswerInv
<1>1. QuerySpec => []QueryInv
  BY QueryAlways
<1> QED
  BY <1>1, InitAnswer, NextAnswer, PTL DEF QuerySpec

\* The answer is about every file that differs and no other, each with its results, once
\* each; a limit only cuts it off, and it is marked as truncated exactly when something is
\* missing.  With a base this is so whatever is done to the repository meanwhile
\* (Changed, appendResult, navigate.go).
THEOREM AnswerComplete == QuerySpec => []AnswerIsPrefix
<1>1. ASSUME AnswerInv PROVE AnswerIsPrefix
  <2> SUFFICES ASSUME Settled
               PROVE  /\ truncated <=> opts.limit > 0 /\ Len(WholeAnswer) > opts.limit
                      /\ results = IF truncated THEN SubSeq(WholeAnswer, 1, opts.limit)
                                   ELSE WholeAnswer
    BY DEF AnswerIsPrefix
  <2>1. at = "done" /\ Quiet
    BY DEF Settled, Quiet
  <2> QED
    BY <1>1, <2>1 DEF AnswerInv, QuietPhases, QuietEnd
<1> QED
  BY <1>1, AnswerAlways, PTL

-----------------------------------------------------------------------------
(* The numbers in the answer.                                              *)

\* The lines a result reports, which its key tells among the results of a file.
Says(r, return) == IF return = "line" THEN {r.start} ELSE {r.lines[i] : i \in 1 .. Len(r.lines)}
SaysExactly(more, numbers, return) ==
    /\ \A k \in 1 .. Len(more) : more[k].kind = "changed" => Says(more[k], return) \subseteq numbers
    /\ \A n \in numbers : \E k \in 1 .. Len(more) :
           more[k].kind = "changed" /\ n \in Says(more[k], return)
    /\ \A j, k \in 1 .. Len(more) : Key(more[j]) = Key(more[k]) => more[j] = more[k]

LEMMA RangeSays ==
    ASSUME NEW f, NEW range, NEW list
    PROVE  LET r == ResultForRange(f, range, list) IN
           /\ r = [kind |-> "changed", path |-> f, start |-> range[1], end |-> range[2], lines |-> list]
           /\ r.kind = "changed" /\ r.start = range[1] /\ r.lines = list
           /\ Key(r) = <<"changed", f, range[1], range[2]>>
BY DEF ResultForRange, Key

LEMMA SameKeys ==
    \A f, x, y : <<"changed", f, x, x>> = <<"changed", f, y, y>> => x = y
OBVIOUS

LEMMA AscendingSays ==
    ASSUME NEW S, Numbered(S)
    PROVE  {Ascending(S)[i] : i \in 1 .. Len(Ascending(S))} = S
<1> DEFINE a == Ascending(S)
           m == Cardinality(S)
<1>1. /\ Len(a) = m /\ \A k \in 1 .. m : a[k] \in S
      /\ \A x \in S : Before(S, x) + 1 \in 1 .. m /\ a[Before(S, x) + 1] = x
  BY AscendingFacts
<1> HIDE DEF a, m
<1>2. {a[i] : i \in 1 .. Len(a)} = S
  BY <1>1
<1> QED
  BY <1>2 DEF a

LEMMA FileSays ==
    ASSUME NEW f, NEW size \in Nat, NEW numbers \in SUBSET (1 .. size),
           NEW return \in Modes, return # "scope"
    PROVE  SaysExactly(ResultsFor(f, size, numbers, return), numbers, return)
<1> DEFINE m == Cardinality(numbers)
           a == Ascending(numbers)
<1>0. Context \in Nat /\ Numbered(numbers)
  BY ChangedQueryAssumption, NumberedLines, NumberedPart
<1>1. CASE numbers = {}
  <2> DEFINE r == FileResult(f)
  <2>1. ResultsFor(f, size, numbers, return) = <<r>>
    BY <1>1 DEF ResultsFor
  <2>2. r.kind # "changed"
    BY DEF FileResult
  <2> HIDE DEF r
  <2>3. Len(<<r>>) = 1 /\ \A k \in 1 .. Len(<<r>>) : <<r>>[k] = r
    OBVIOUS
  <2>4. SaysExactly(<<r>>, numbers, return)
    BY <1>1, <2>2, <2>3 DEF SaysExactly
  <2> QED
    BY <2>1, <2>4
<1>2. CASE numbers # {} /\ return \in {"locations", "context"}
  <2> DEFINE c == IF return = "context" THEN Context ELSE 0
             ranges == MergeContextRanges(size, numbers, c)
             Part(k) == numbers \cap Lines(ranges[k])
             res == [k \in 1 .. Len(ranges) |-> ResultForRange(f, ranges[k], Ascending(Part(k)))]
  <2>1. ResultsFor(f, size, numbers, return) = res
    BY <1>2 DEF ResultsFor
  <2>2. c \in Nat
    BY <1>0
  <2> HIDE DEF c
  <2>3. Ranges(ranges) /\ \A n \in numbers : In(ranges, n)
    BY <2>2, SpansOfNumbers DEF Ranges
  <2> HIDE DEF ranges
  <2>4. /\ Len(ranges) \in Nat
        /\ \A k \in 1 .. Len(ranges) : ranges[k][1] \in Nat /\ ranges[k][2] \in Nat
        /\ \A k \in 1 .. Len(ranges) : ranges[k] = <<ranges[k][1], ranges[k][2]>>
    BY <2>3, PairsOf
  <2>5. Len(res) = Len(ranges)
    BY <2>4
  <2>6. ASSUME NEW k \in 1 .. Len(ranges)
        PROVE  /\ res[k] = ResultForRange(f, ranges[k], Ascending(Part(k)))
               /\ res[k].kind = "changed" /\ Says(res[k], return) = Part(k)
               /\ Key(res[k]) = <<"changed", f, ranges[k][1], ranges[k][2]>>
    <3>1. res[k] = ResultForRange(f, ranges[k], Ascending(Part(k)))
      OBVIOUS
    <3>2. Numbered(Part(k))
      BY <1>0, NumberedPart
    <3> HIDE DEF res, Part
    <3>3. res[k].lines = Ascending(Part(k)) /\ res[k].kind = "changed"
          /\ Key(res[k]) = <<"changed", f, ranges[k][1], ranges[k][2]>>
      BY <3>1, RangeSays
    <3>4. Says(res[k], return) = Part(k)
      BY <1>2, <3>2, <3>3, AscendingSays DEF Says
    <3> QED
      BY <3>1, <3>3, <3>4
  <2>7. \A k \in 1 .. Len(ranges) : Part(k) \subseteq numbers
    OBVIOUS
  <2>8. ASSUME NEW n \in numbers PROVE \E k \in 1 .. Len(ranges) : n \in Part(k)
    <3>1. PICK k \in 1 .. Len(ranges) : ranges[k][1] <= n /\ n <= ranges[k][2]
      BY <2>3 DEF In
    <3>2. n \in Lines(ranges[k])
      BY <2>4, <3>1 DEF Lines
    <3> QED
      BY <3>2
  <2>9. ASSUME NEW j \in 1 .. Len(ranges), NEW k \in 1 .. Len(ranges), ranges[j] = ranges[k]
        PROVE  res[j] = res[k]
    <3>1. Part(j) = Part(k)
      BY <2>9
    <3>2. res[j] = ResultForRange(f, ranges[j], Ascending(Part(j)))
          /\ res[k] = ResultForRange(f, ranges[k], Ascending(Part(k)))
      BY <2>6
    <3> HIDE DEF res, Part
    <3> QED
      BY <2>9, <3>1, <3>2
  <2> HIDE DEF res, Part
  <2>10. ASSUME NEW j \in 1 .. Len(ranges), NEW k \in 1 .. Len(ranges), Key(res[j]) = Key(res[k])
         PROVE  res[j] = res[k]
    <3>1. ranges[j][1] = ranges[k][1] /\ ranges[j][2] = ranges[k][2]
      BY <2>6, <2>10
    <3>2. ranges[j] = ranges[k]
      BY <2>4, <3>1
    <3> QED
      BY <2>9, <3>2
  <2>11. SaysExactly(res, numbers, return)
    <3>1. \A k \in 1 .. Len(res) : Says(res[k], return) \subseteq numbers
      BY <2>5, <2>6, <2>7
    <3>2. \A n \in numbers : \E k \in 1 .. Len(res) :
              res[k].kind = "changed" /\ n \in Says(res[k], return)
      BY <2>5, <2>6, <2>8
    <3> QED
      BY <2>5, <2>10, <3>1, <3>2 DEF SaysExactly
  <2> QED
    BY <2>1, <2>11
<1>3. CASE numbers # {} /\ return \notin {"locations", "context"}
  <2> DEFINE res == [k \in 1 .. m |-> ResultForRange(f, <<a[k], a[k]>>, <<>>)]
  <2>0. return = "line"
    BY <1>3 DEF Modes
  <2>1. ResultsFor(f, size, numbers, return) = res
    BY <1>3, <2>0 DEF ResultsFor
  <2>2. /\ m \in Nat /\ \A k \in 1 .. m : a[k] \in numbers
        /\ \A x \in numbers : Before(numbers, x) + 1 \in 1 .. m /\ a[Before(numbers, x) + 1] = x
    BY <1>0, AscendingFacts
  <2>3. Len(res) = m
    BY <2>2
  <2>4. ASSUME NEW k \in 1 .. m
        PROVE  /\ res[k] = ResultForRange(f, <<a[k], a[k]>>, <<>>)
               /\ res[k].kind = "changed" /\ Says(res[k], return) = {a[k]}
               /\ Key(res[k]) = <<"changed", f, a[k], a[k]>>
    <3> DEFINE l == a[k]
    <3>1. res[k] = ResultForRange(f, <<l, l>>, <<>>)
      OBVIOUS
    <3> HIDE DEF res, l
    <3>2. /\ res[k].kind = "changed" /\ res[k].start = l
          /\ Key(res[k]) = <<"changed", f, l, l>>
      BY <3>1, RangeSays
    <3> QED
      BY <2>0, <3>1, <3>2 DEF Says, l
  <2> HIDE DEF res, m, a
  <2>5. ASSUME NEW j \in 1 .. m, NEW k \in 1 .. m, Key(res[j]) = Key(res[k]) PROVE res[j] = res[k]
    <3>1. Key(res[j]) = <<"changed", f, a[j], a[j]>> /\ Key(res[k]) = <<"changed", f, a[k], a[k]>>
      BY <2>4
    <3>2. a[j] = a[k]
      BY <2>5, <3>1, SameKeys, Zenon
    <3> QED
      BY <2>4, <3>2
  <2>6. ASSUME NEW k \in 1 .. Len(res) PROVE Says(res[k], return) \subseteq numbers
    <3>1. a[k] \in numbers /\ Says(res[k], return) = {a[k]}
      BY <2>2, <2>3, <2>4
    <3> QED
      BY <3>1
  <2>7. \A n \in numbers : \E k \in 1 .. Len(res) :
            res[k].kind = "changed" /\ n \in Says(res[k], return)
    BY <2>2, <2>3, <2>4
  <2>8. SaysExactly(res, numbers, return)
    BY <2>3, <2>5, <2>6, <2>7 DEF SaysExactly
  <2> QED
    BY <2>1, <2>8
<1> QED
  BY <1>1, <1>2, <1>3

\* Keeping one result of each key loses none of them.
LEMMA DistinctSays ==
    ASSUME NEW more \in Seq(Entries), NEW numbers, NEW return, SaysExactly(more, numbers, return)
    PROVE  /\ \A k \in 1 .. Len(Distinct(more)) :
                 Distinct(more)[k].kind = "changed" => Says(Distinct(more)[k], return) \subseteq numbers
           /\ \A n \in numbers : \E k \in 1 .. Len(Distinct(more)) :
                 Distinct(more)[k].kind = "changed" /\ n \in Says(Distinct(more)[k], return)
           /\ \A k \in 1 .. Len(Distinct(more)) : \E j \in 1 .. Len(more) : Distinct(more)[k] = more[j]
<1> HIDE DEF Entries
<1> DEFINE i == Len(more)
           d == Distinct(more)
<1>1. i \in 0 .. i
  OBVIOUS
<1>2. /\ \A k \in 1 .. Len(d) : \E j \in 1 .. i : d[k] = more[j]
      /\ \A j \in 1 .. i : \E k \in 1 .. Len(d) : Key(d[k]) = Key(more[j])
  BY <1>1, DistinctFacts, DistinctIs
<1> HIDE DEF d
<1>3. /\ \A k \in 1 .. i : more[k].kind = "changed" => Says(more[k], return) \subseteq numbers
      /\ \A n \in numbers : \E k \in 1 .. i : more[k].kind = "changed" /\ n \in Says(more[k], return)
      /\ \A j, k \in 1 .. i : Key(more[j]) = Key(more[k]) => more[j] = more[k]
  BY DEF SaysExactly
<1> HIDE DEF i
<1>4. ASSUME NEW n \in numbers PROVE \E k \in 1 .. Len(d) : d[k].kind = "changed" /\ n \in Says(d[k], return)
  <2>1. PICK j \in 1 .. i : more[j].kind = "changed" /\ n \in Says(more[j], return)
    BY <1>3
  <2>2. PICK k \in 1 .. Len(d) : Key(d[k]) = Key(more[j])
    BY <1>2
  <2>3. PICK l \in 1 .. i : d[k] = more[l]
    BY <1>2
  <2>4. d[k] = more[j]
    BY <1>3, <2>2, <2>3
  <2> QED
    BY <2>1, <2>4
<1>5. ASSUME NEW k \in 1 .. Len(d), d[k].kind = "changed" PROVE Says(d[k], return) \subseteq numbers
  <2>1. PICK j \in 1 .. i : d[k] = more[j]
    BY <1>2
  <2> QED
    BY <1>3, <1>5, <2>1
<1> QED
  BY <1>2, <1>4, <1>5 DEF d, i

\* The whole answer reports the numbers of each file.
LEMMA AnswerSays ==
    ASSUME QueryTypes, opts.return # "scope", results = WholeAnswer,
           NEW f \in Differing, SourceOf(f) \notin {{}, Absent}
    PROVE  Reported(f) = FileNumbers(f)
<1> HIDE DEF Tree, Entries, Content, Empty, Absent
<1> DEFINE return == opts.return
           size == Cardinality(Differing)
           numbers == FileNumbers(f)
           a == Ascending(Differing)
<1>1. return \in Modes
  BY ChangedQueryAssumption DEF QueryTypes, Modes
<1>2. /\ ListsOf(Parts, size) /\ results = UpTo(Parts, size) /\ size \in 0 .. size
      /\ \A i \in 1 .. size : Parts[i] = Distinct(ResultsOf(a[i]))
      /\ \A i \in 1 .. size : a[i] \in Files
      /\ f \in Files
  BY PartsFacts, DifferingFacts
<1>3. PICK p \in 1 .. size : a[p] = f
  <2>1. Numbered(Differing)
    BY DifferingFacts
  <2>2. Before(Differing, f) + 1 \in 1 .. size /\ a[Before(Differing, f) + 1] = f
    BY <2>1, AscendingFacts
  <2> QED
    BY <2>2
<1>4. SaysExactly(ResultsOf(f), numbers, return)
  <2> DEFINE n == Cardinality(SourceOf(f))
  <2>1. n \in Nat /\ numbers \in SUBSET (1 .. n)
    BY <1>2, FileNumbersInside
  <2>2. ResultsOf(f) = ResultsFor(f, n, numbers, return)
    BY ResultsOfIs
  <2> HIDE DEF n, numbers, return
  <2>3. return # "scope"
    BY DEF return
  <2> QED
    BY <1>1, <2>1, <2>2, <2>3, FileSays
<1>5. \A g \in Files : ResultsOf(g) \in Seq(Entries) /\ \A k \in 1 .. Len(ResultsOf(g)) : ResultsOf(g)[k].path = g
  BY ResultsOfFacts DEF AllAbout, About
<1>6. \A g \in Files : \A k \in 1 .. Len(Distinct(ResultsOf(g))) : Distinct(ResultsOf(g))[k].path = g
  <2> SUFFICES ASSUME NEW g \in Files, NEW k \in 1 .. Len(Distinct(ResultsOf(g)))
               PROVE  Distinct(ResultsOf(g))[k].path = g
    OBVIOUS
  <2> DEFINE more == ResultsOf(g)
  <2>1. more \in Seq(Entries) /\ \A j \in 1 .. Len(more) : more[j].path = g
    BY <1>5
  <2> HIDE DEF more
  <2>2. Len(more) \in 0 .. Len(more)
    BY <2>1
  <2>3. \E j \in 1 .. Len(more) : Distinct(more)[k] = more[j]
    BY <2>1, <2>2, DistinctFacts, DistinctIs DEF more
  <2> QED
    BY <2>1, <2>3 DEF more
<1> DEFINE d == Distinct(ResultsOf(f))
<1>7. /\ \A k \in 1 .. Len(d) : d[k].kind = "changed" => Says(d[k], return) \subseteq numbers
      /\ \A n \in numbers : \E k \in 1 .. Len(d) : d[k].kind = "changed" /\ n \in Says(d[k], return)
      /\ \A k \in 1 .. Len(d) : d[k].path = f
  <2> HIDE DEF numbers, return
  <2> QED
    BY <1>2, <1>4, <1>5, <1>6, DistinctSays
<1>8. Parts[p] = d
  BY <1>2, <1>3
<1>10. Reported(f) = UNION {Says(results[k], return) :
            k \in {j \in 1 .. Len(results) : results[j].kind = "changed" /\ results[j].path = f}}
  BY DEF Reported, Says
<1> HIDE DEF d, numbers, return, size, a
<1>9. /\ \A k \in 1 .. Len(results) : \E i \in 1 .. size : \E l \in 1 .. Len(Parts[i]) :
            results[k] = Parts[i][l]
      /\ \A i \in 1 .. size : \A l \in 1 .. Len(Parts[i]) : \E k \in 1 .. Len(results) :
            results[k] = Parts[i][l]
  <2>1. Collected(UpTo(Parts, size), Parts, size)
    BY <1>2, UpToCollects
  <2>2. Collected(results, Parts, size)
    BY <1>2, <2>1
  <2> QED
    BY <2>2 DEF Collected
<1>11. ASSUME NEW k \in 1 .. Len(results), results[k].kind = "changed", results[k].path = f
       PROVE  Says(results[k], return) \subseteq numbers
  <2>1. PICK i \in 1 .. size : \E l \in 1 .. Len(Parts[i]) : results[k] = Parts[i][l]
    BY <1>9
  <2>2. PICK l \in 1 .. Len(Parts[i]) : results[k] = Parts[i][l]
    BY <2>1
  <2>3. Parts[i][l].path = a[i]
    BY <1>2, <1>6
  <2>4. a[i] = f
    BY <1>11, <2>2, <2>3
  <2>5. Parts[i] = d
    BY <1>2, <2>4 DEF d
  <2> QED
    BY <1>7, <1>11, <2>2, <2>5
<1>12. ASSUME NEW n \in numbers
       PROVE  \E k \in 1 .. Len(results) :
                  results[k].kind = "changed" /\ results[k].path = f /\ n \in Says(results[k], return)
  <2>1. PICK l \in 1 .. Len(d) : d[l].kind = "changed" /\ n \in Says(d[l], return)
    BY <1>7
  <2>2. PICK k \in 1 .. Len(results) : results[k] = Parts[p][l]
    BY <1>8, <1>9
  <2> QED
    BY <1>7, <1>8, <2>1, <2>2
<1>13. Reported(f) = numbers
  <2> DEFINE R == UNION {Says(results[k], return) :
            k \in {j \in 1 .. Len(results) : results[j].kind = "changed" /\ results[j].path = f}}
  <2>1. R \subseteq numbers
    BY <1>11
  <2>2. numbers \subseteq R
    BY <1>12
  <2> QED
    BY <1>10, <2>1, <2>2
<1> QED
  BY <1>13 DEF numbers

\* When nothing is cut off, the lines reported of a file are those that were added, and one
\* line next to each place where lines were only removed, whether they are given one by
\* one, in merged ranges or in context (changedLines, changedHunkLineRange,
\* mergeContextRanges).
THEOREM LinesExact == QuerySpec => []ChangedLinesExact
<1>1. ASSUME QueryInv, AnswerInv PROVE ChangedLinesExact
  <2> HIDE DEF Tree, Entries, Content, Empty, Absent
  <2> SUFFICES ASSUME Settled, ~truncated, opts.return # "scope",
                      NEW f \in listed, read[f] # Absent
               PROVE  /\ \A x \in New(f) \ Old(f) : Before(New(f), x) + 1 \in Reported(f)
                      /\ \A n \in Reported(f) :
                            \/ \E x \in New(f) \ Old(f) : n = Before(New(f), x) + 1
                            \/ NextToRemoved(n, f)
    BY DEF ChangedLinesExact
  <2>1. QueryTypes /\ at = "done" /\ at \in Late
    BY <1>1 DEF QueryInv, Settled, Late
  <2>2. QuietPhases
    BY <1>1 DEF Settled, Quiet, AnswerInv
  <2>3. results = WholeAnswer
    BY <2>1, <2>2 DEF QuietPhases, QuietEnd
  <2>4. f \in Differing /\ f \in Files
    BY <2>1, <2>2, DifferingFacts DEF QuietPhases, QuietList
  <2>5. SourceOf(f) \notin {{}, Absent}
    BY <2>1, <2>2, <2>4 DEF QuietPhases, QuietRead
  <2>6. Reported(f) = FileNumbers(f)
    BY <2>1, <2>3, <2>4, <2>5, AnswerSays
  <2>7. ExactNumbers(Old(f), New(f), FileNumbers(f))
    BY <2>1, <2>4, <2>5, FileNumbersInside
  <2> QED
    BY <2>6, <2>7 DEF ExactNumbers, NextToRemoved
<1>2. QuerySpec => []QueryInv /\ []AnswerInv
  BY QueryAlways, AnswerAlways
<1> QED
  BY <1>1, <1>2, PTL

=============================================================================
