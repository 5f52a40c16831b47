--------------------------- MODULE Results_proofs ---------------------------
(***************************************************************************)
(* Proofs about ResultBudget, for every limit and any number of selectors, *)
(* and about FindScan, for every tree of files and list of queries.        *)
(***************************************************************************)
EXTENDS ResultBudget, FindScan, FiniteSetTheorems, WellFoundedInduction, TLAPS

-----------------------------------------------------------------------------
(* Arithmetic of the shares.                                               *)

\* Quotient and remainder of naturals, as both roundings use them.
LEMMA Division ==
    ASSUME NEW x \in Nat, NEW d \in Nat \ {0}
    PROVE  /\ x \div d \in Nat
           /\ d * (x \div d) <= x
           /\ x < d * (x \div d) + d
           /\ x = d * (x \div d) + (x % d)
           /\ x % d \in 0 .. (d - 1)
<1>1. x \div d \in Int  OBVIOUS
<1>2. d * (x \div d) <= x  OBVIOUS
<1>3. x < d * (x \div d) + d  OBVIOUS
<1>4. x \div d \in Nat  BY Z3
<1>5. x = d * (x \div d) + (x % d)  OBVIOUS
<1>6. x % d \in 0 .. (d - 1)  OBVIOUS
<1> QED  BY <1>1, <1>2, <1>3, <1>4, <1>5, <1>6

\* A multiple of d below another one plus d is at most the other one.
LEMMA Multiples ==
    ASSUME NEW a \in Int, NEW b \in Int, NEW d \in Nat \ {0}, d * a < d * b + d
    PROVE  a <= b
<1>1. SUFFICES ASSUME a > b PROVE FALSE  OBVIOUS
<1>2. a >= b + 1  BY <1>1
<1>3. d * (a - (b + 1)) >= 0  BY <1>2
<1>4. d * (a - (b + 1)) = d * a - d * b - d  OBVIOUS
<1> QED  BY <1>3, <1>4

\* c is a divided by b, rounded up.
RoundedUp(c, a, b) == c \in Nat /\ a <= b * c /\ b * c < a + b

\* The two packages compute the same share as long as no int wraps: the loop of
\* the command line and limitFindResponses divide the limit alike.
LEMMA SharesRoundUp ==
    ASSUME NEW a \in Nat, NEW b \in Nat \ {0}
    PROVE  /\ RoundedUp(LibraryShare(a, b), a, b)
           /\ a + b <= MaxInt => RoundedUp(CommandShare(a, b), a, b)
<1>1. RoundedUp(LibraryShare(a, b), a, b)
  <2>1. /\ a \div b \in Nat
        /\ a = b * (a \div b) + (a % b)
        /\ a % b \in 0 .. (b - 1)
    BY Division
  <2>2. CASE a % b = 0
    BY <2>1, <2>2 DEF RoundedUp, LibraryShare
  <2>3. CASE a % b # 0
    <3> DEFINE q == a \div b
    <3>1. LibraryShare(a, b) = q + 1  BY <2>3 DEF LibraryShare
    <3>2. b * (q + 1) = b * q + b  BY <2>1
    <3>3. b * q \in Int  BY <2>1
    <3> HIDE DEF q
    <3> QED  BY <2>1, <2>3, <3>1, <3>2, <3>3 DEF RoundedUp, q
  <2> QED  BY <2>2, <2>3
<1>2. ASSUME a + b <= MaxInt PROVE RoundedUp(CommandShare(a, b), a, b)
  <2> DEFINE x == a + b - 1
  <2>0. x \in Nat  OBVIOUS
  <2>1. CommandShare(a, b) = x \div b
    <3>1. MaxInt \in Nat  BY BudgetAssumption
    <3>2. Wrap(a + b) = a + b  BY <1>2, <3>1 DEF Wrap
    <3>3. Wrap(a + b - 1) = x  BY <1>2, <3>1 DEF Wrap
    <3> QED  BY <2>0, <3>2, <3>3 DEF CommandShare, GoDiv
  <2>2. x \div b \in Nat /\ b * (x \div b) <= x /\ x < b * (x \div b) + b
    BY <2>0, Division
  <2> DEFINE q == x \div b
  <2>3. q \in Nat /\ b * q <= x /\ x < b * q + b  BY <2>2
  <2>4. b * q \in Int  BY <2>3
  <2> HIDE DEF q
  <2>5. a <= b * q /\ b * q < a + b  BY <2>3, <2>4
  <2> QED  BY <2>1, <2>3, <2>5 DEF RoundedUp, q
<1> QED  BY <1>1, <1>2

\* A share, taken or not in full, leaves one result per remaining selector, and
\* at least f of them where there were f for each.
LEMMA ShareLeavesEnough ==
    ASSUME NEW a \in Nat, NEW b \in Nat \ {0}, NEW f \in Nat, NEW c,
           RoundedUp(c, a, b), b <= a, f * b <= a
    PROVE  /\ 1 <= c /\ c <= a
           /\ b - 1 <= a - c
           /\ f <= c
           /\ f * (b - 1) <= a - c
<1>0. c \in Nat /\ a <= b * c /\ b * c < a + b  BY DEF RoundedUp
<1>1. 1 <= c
  <2>1. c # 0  BY <1>0
  <2> QED  BY <1>0, <2>1
<1>2. f <= c
  <2>1. b * f <= a  OBVIOUS
  <2>2. b * f < b * c + b  BY <1>0, <2>1
  <2> QED  BY <1>0, <2>2, Multiples
<1>3. b - 1 <= a - c
  <2>1. (b - 1) * (a - b) >= 0  OBVIOUS
  <2>2. b * (a - b + 1) = (b - 1) * (a - b) + a  OBVIOUS
  <2>3. b * c < b * (a - b + 1) + b  BY <1>0, <2>1, <2>2
  <2>4. c <= a - b + 1  BY <1>0, <2>3, Multiples
  <2> QED  BY <1>0, <2>4
<1>4. c <= a  BY <1>0, <1>3
<1>5. f * (b - 1) <= a - c
  <2> DEFINE m == a - f * (b - 1)
  <2>1. m \in Int /\ b * m = b * a - (b * f) * (b - 1)  OBVIOUS
  <2>2. (b * f) * (b - 1) <= a * (b - 1)  OBVIOUS
  <2>3. b * a - a * (b - 1) = a  OBVIOUS
  <2>4. b * m >= a  BY <2>1, <2>2, <2>3
  <2> HIDE DEF m
  <2>5. b * c < b * m + b  BY <1>0, <2>1, <2>4
  <2>6. c <= m  BY <1>0, <2>1, <2>5, Multiples
  <2> QED  BY <1>0, <2>6 DEF m
<1> QED  BY <1>1, <1>2, <1>3, <1>4, <1>5

-----------------------------------------------------------------------------
(* The answers of the library to a share.                                  *)

\* Find with one query, and Inspect around it, return all there is or exactly
\* the share, and say so when something was left out.
LEMMA AnswersWithinShare ==
    ASSUME NEW i \in Nat, NEW r \in Nat, NEW l \in Nat
    PROVE  LET a == InspectAnswer(i, r, l)
           IN  /\ a.count = (IF l > 0 THEN AtMost(i + r, l) ELSE i + r)
               /\ a.truncated <=> a.count < i + r
<1>1. CASE l = 0
  <2>1. FindOne(r, l).count = r /\ ~FindOne(r, l).truncated
    <3>1. ~(l > 0)  BY <1>1
    <3> QED  BY <3>1, Zenon DEF FindOne
  <2>2. /\ InspectAnswer(i, r, l).count = i + FindOne(r, l).count
        /\ InspectAnswer(i, r, l).truncated = FindOne(r, l).truncated
    <3>1. ~(l > 0)  BY <1>1
    <3> QED  BY <3>1, Zenon DEF InspectAnswer
  <2>3. InspectAnswer(i, r, l).count = i + r
    BY <2>1, <2>2
  <2>4. ~InspectAnswer(i, r, l).truncated
    BY <2>1, <2>2, Zenon
  <2> QED  BY <1>1, <2>3, <2>4
<1>2. CASE l > 0 /\ l < i
  <2>1. InspectAnswer(i, r, l) = [count |-> l, truncated |-> TRUE]
    BY <1>2 DEF InspectAnswer
  <2> QED  BY <1>2, <2>1 DEF AtMost
<1>3. CASE l > 0 /\ l >= i
  <2> DEFINE p == IF l = i THEN 1 ELSE l - i
             f == FindOne(r, p)
  <2>1. p \in Nat \ {0}  BY <1>3
  <2>2. f.count = AtMost(r, p) /\ (f.truncated <=> r > p)
    <3>1. p > 0 /\ AtMost(Candidates(r, p), p) = AtMost(r, p)
          /\ (Candidates(r, p) > p <=> r > p)
      BY <2>1 DEF Candidates, AtMost
    <3> HIDE DEF p
    <3> QED  BY <3>1, Zenon DEF FindOne
  <2>3. InspectAnswer(i, r, l) = IF i + f.count > l
                                 THEN [count |-> l, truncated |-> TRUE]
                                 ELSE [count |-> i + f.count, truncated |-> f.truncated]
    BY <1>3 DEF InspectAnswer
  <2> HIDE DEF f
  <2>4. CASE l = i
    BY <1>3, <2>2, <2>3, <2>4 DEF AtMost
  <2>5. CASE l > i
    BY <1>3, <2>2, <2>3, <2>5 DEF AtMost
  <2> QED  BY <1>3, <2>4, <2>5
<1> QED  BY <1>1, <1>2, <1>3

-----------------------------------------------------------------------------
(* The inductive invariant.                                                *)

ResponseType == [error : {"none", "limit", "selector"}, count : Nat, truncated : BOOLEAN,
             avail : Nat, as : {"none", "symbol", "file", "error"}]

TypeInv ==
    /\ cmd \in Commands /\ limit \in Limits /\ n \in 1 .. MaxSelectors
    /\ mode \in Modes
    /\ phase \in {"start", "serve", "symbols", "paths", "share", "done"}
    /\ found \in [1 .. n -> [as : {"none", "symbol", "file"}, avail : 0 .. MaxResults]]
    /\ responses \in Seq(ResponseType) /\ Len(responses) <= n
    /\ returned \in Nat
    /\ exit \in {0, 1, 2, 9}
    /\ remaining \in (-MaxInt - 1) .. MaxInt

\* What every response keeps for good.
Sound(r) ==
    /\ (limit > 0 /\ r.error = "none") => r.count >= AtMost(r.avail, limit \div n)
    /\ r.truncated <=> r.count < r.avail
    /\ cmd \in {"find", "library"} => (r.as = "none" <=> r.count = 0)
    /\ limit >= 0 => r.error # "limit"

Serving == phase \in {"serve", "symbols", "paths", "share"}

\* Each phase belongs to its commands, and nothing is answered before its time.
PhaseInv ==
    /\ phase = "start" => remaining = 0
    /\ phase \in {"start", "symbols", "paths"} => responses = <<>> /\ returned = 0
    /\ phase \in {"symbols", "paths", "share"} => cmd \in {"find", "library"} /\ limit >= 0
    /\ phase = "serve" => cmd \in {"inspect", "outline"}

\* The budget while selectors are served, with the even share set aside for each.
RunningInv ==
    /\ Serving /\ limit <= 0 => remaining = limit
    /\ Serving /\ limit > 0 => /\ remaining \in Nat /\ remaining + returned = limit
                               /\ (limit \div n) * left <= remaining
                               /\ limit >= n => left <= remaining
                               /\ cmd # "library" => limit >= n
                               /\ left > 0 => remaining > 0

LimitInv == limit > 0 => returned <= limit
FoundInv == \A i \in 1 .. n : found[i].as = "none" <=> found[i].avail = 0
SoundInv == \A i \in 1 .. Len(responses) : Sound(responses[i])

BudgetInv ==
    PhaseInv /\ RunningInv /\ LimitInv /\ FoundInv /\ SoundInv /\ EverySelectorReported

IInv == TypeInv /\ BudgetInv

\* Appending a sound response for the next selector, whatever else the step does.
LEMMA AppendSound ==
    ASSUME IInv, UNCHANGED request, left > 0, NEW r \in ResponseType,
           Sound(r), responses' = Append(responses, r)
    PROVE  /\ responses' \in Seq(ResponseType) /\ Len(responses') = Len(responses) + 1
           /\ Len(responses') <= n /\ left' = left - 1
           /\ SoundInv'
<1>1. /\ responses \in Seq(ResponseType) /\ n \in Nat /\ Len(responses) < n
  BY BudgetAssumption DEF IInv, TypeInv, left
<1>2. /\ responses' \in Seq(ResponseType) /\ Len(responses') = Len(responses) + 1
      /\ \A i \in 1 .. Len(responses') :
            responses'[i] = IF i <= Len(responses) THEN responses[i] ELSE r
  BY <1>1
<1>3. \A i \in 1 .. Len(responses') : Sound(responses'[i])
  BY <1>1, <1>2 DEF IInv, BudgetInv, SoundInv
<1>4. SoundInv'
  BY <1>3 DEF SoundInv, Sound, request
<1> QED  BY <1>1, <1>2, <1>4 DEF left, request

\* The values the budget arithmetic ranges over.
LEMMA Ranges ==
    ASSUME IInv
    PROVE  /\ MaxInt \in Nat /\ MaxResults \in Nat /\ n \in Nat \ {0} /\ limit \in Int
           /\ MaxSelectors \in Nat /\ n <= MaxSelectors /\ Len(responses) \in Nat /\ left \in Nat /\ left <= n
           /\ returned \in Nat /\ remaining \in Int /\ remaining <= MaxInt /\ limit <= MaxInt
           /\ responses \in Seq(ResponseType)
           /\ limit > 0 => limit \div n \in Nat /\ (limit \div n) * n <= limit
<1>1. /\ MaxInt \in Nat /\ MaxResults \in Nat /\ n \in Nat \ {0} /\ limit \in Int
      /\ MaxSelectors \in Nat /\ n <= MaxSelectors /\ Len(responses) \in Nat /\ left \in Nat /\ left <= n
      /\ returned \in Nat /\ remaining \in Int /\ remaining <= MaxInt /\ limit <= MaxInt
      /\ responses \in Seq(ResponseType)
  BY BudgetAssumption DEF IInv, TypeInv, left
<1>2. limit > 0 => limit \div n \in Nat /\ (limit \div n) * n <= limit
  <2>1. SUFFICES ASSUME limit > 0 PROVE limit \div n \in Nat /\ n * (limit \div n) <= limit
    BY <1>1
  <2>2. limit \in Nat  BY <1>1, <2>1
  <2> QED  BY <1>1, <2>2, Division
<1> QED  BY <1>1, <1>2

\* The share of an inspect or outline selector.
LEMMA BatchShare ==
    ASSUME IInv, NoOverflow, phase = "serve", left > 0, limit >= 0
    PROVE  /\ share \in Nat
           /\ limit > 0 => /\ share >= 1 /\ share >= limit \div n /\ share <= remaining
                           /\ left - 1 <= remaining - share
                           /\ (limit \div n) * (left - 1) <= remaining - share
           /\ limit = 0 => share = 0
<1>1. CASE limit = 0
  BY <1>1 DEF share
<1>2. CASE limit > 0
  <2>1. /\ remaining \in Nat /\ left <= remaining /\ remaining <= limit
        /\ (limit \div n) * left <= remaining
    <3>1. Serving /\ cmd # "library"  BY DEF IInv, BudgetInv, PhaseInv, RunningInv, LimitInv, Serving
    <3>2. /\ remaining \in Nat /\ remaining + returned = limit
          /\ (limit \div n) * left <= remaining
          /\ limit >= n => left <= remaining
          /\ limit >= n
      BY <1>2, <3>1 DEF IInv, BudgetInv, RunningInv
    <3> QED  BY <3>2, Ranges
  <2>2. remaining + left <= MaxInt
    BY <2>1, Ranges, SMTT(30) DEF IInv, TypeInv, NoOverflow
  <2>3. RoundedUp(share, remaining, left)
    BY <1>2, <2>1, <2>2, Ranges, SharesRoundUp DEF share
  <2>4. share \in Nat
    BY <2>3 DEF RoundedUp
  <2>5. /\ share >= 1 /\ limit \div n <= share /\ share <= remaining
        /\ left - 1 <= remaining - share
        /\ (limit \div n) * (left - 1) <= remaining - share
    <3>1. limit \div n \in Nat /\ left \in Nat \ {0}  BY <1>2, Ranges
    <3> QED  BY <2>1, <2>3, <2>4, <3>1, ShareLeavesEnough
  <2>6. share >= limit \div n  BY <1>2, <2>4, <2>5, Ranges
  <2> QED  BY <1>2, <2>4, <2>5, <2>6
<1> QED  BY <1>1, <1>2, Ranges

\* Every answer to a share is a sound response that keeps within it.
LEMMA AnswersSound ==
    ASSUME IInv, NoOverflow, phase = "serve", left > 0, share >= 0, limit >= 0,
           NEW a \in Answers
    PROVE  a \in ResponseType /\ Sound(a) /\ (limit > 0 => a.count <= share)
<1>0. /\ share \in Nat /\ MaxResults \in Nat
      /\ limit > 0 => share >= 1 /\ share >= limit \div n /\ limit \div n \in Nat
      /\ limit = 0 => share = 0
      /\ cmd \notin {"find", "library"}
  BY BatchShare, Ranges DEF IInv, BudgetInv, PhaseInv
<1>1. PICK t \in Nat, c \in Nat, m \in BOOLEAN :
         /\ a = [error |-> "none", count |-> c, truncated |-> m, avail |-> t, as |-> "symbol"]
         /\ c = (IF share > 0 THEN AtMost(t, share) ELSE t)
         /\ m <=> c < t
  <2>1. CASE cmd = "outline"
    <3>1. PICK d \in 0 .. MaxResults : a = Answered(OutlineAnswer(d, share), d, "symbol")
      BY <2>1 DEF Answers
    <3> DEFINE b == OutlineAnswer(d, share)
    <3>2. /\ b.count = (IF share > 0 THEN AtMost(d, share) ELSE d)
          /\ b.truncated <=> b.count < d
          /\ b.truncated \in BOOLEAN
      <4>0. d \in Nat  BY <1>0
      <4>1. CASE share > 0 /\ d > share
        <5>1. b.count = share /\ b.truncated = TRUE
          BY <4>1, Zenon DEF OutlineAnswer
        <5>2. AtMost(d, share) = share /\ share < d  BY <4>0, <4>1, <1>0 DEF AtMost
        <5> HIDE DEF b
        <5> QED  BY <4>1, <5>1, <5>2
      <4>2. CASE ~(share > 0 /\ d > share)
        <5>1. b.count = d /\ b.truncated = FALSE
          BY <4>2, Zenon DEF OutlineAnswer
        <5>2. (share > 0 => AtMost(d, share) = d) /\ ~(d < d)
          BY <4>0, <4>2, <1>0 DEF AtMost
        <5> HIDE DEF b
        <5> QED  BY <5>1, <5>2
      <4> QED  BY <4>1, <4>2
    <3>3. d \in Nat /\ b.count \in Nat
      BY <1>0, <3>2 DEF AtMost
    <3> HIDE DEF b
    <3> QED  BY <3>1, <3>2, <3>3, Zenon DEF Answered, b
  <2>2. CASE cmd # "outline"
    <3>1. PICK i \in {1, 2}, r \in 0 .. MaxResults :
             a = Answered(InspectAnswer(i, r, share), i + r, "symbol")
      BY <2>2 DEF Answers
    <3> DEFINE b == InspectAnswer(i, r, share)
    <3>2. i \in Nat /\ r \in Nat /\ i + r \in Nat  BY <1>0
    <3>3. /\ b.count = (IF share > 0 THEN AtMost(i + r, share) ELSE i + r)
          /\ b.truncated <=> b.count < i + r
      BY <1>0, <3>2, AnswersWithinShare
    <3>4. b.truncated \in BOOLEAN
      BY Zenon DEF InspectAnswer, FindOne
    <3>5. b.count \in Nat  BY <1>0, <3>2, <3>3 DEF AtMost
    <3> HIDE DEF b
    <3> QED  BY <3>1, <3>2, <3>3, <3>4, <3>5, Zenon DEF Answered, b
  <2> QED  BY <2>1, <2>2
<1>2. a \in ResponseType
  BY <1>1 DEF ResponseType
<1>3. /\ a.error = "none" /\ a.count = c /\ a.avail = t
  BY <1>1
<1>4. a.truncated <=> a.count < a.avail
  <2>1. a.truncated = m  BY <1>1, Zenon
  <2> QED  BY <1>1, <1>3, <2>1, Zenon
<1>5. limit > 0 => c >= AtMost(t, limit \div n) /\ c <= share
  BY <1>0, <1>1 DEF AtMost
<1> QED  BY <1>0, <1>2, <1>3, <1>4, <1>5 DEF Sound

-----------------------------------------------------------------------------
(* Preservation, one lemma per action that appends a response.             *)

LEMMA InitIInv == ASSUME Init PROVE IInv
<1>1. TypeInv  BY BudgetAssumption DEF Init, TypeInv, Modes
<1>2. BudgetInv
  BY BudgetAssumption DEF Init, BudgetInv, PhaseInv, RunningInv, LimitInv, FoundInv,
                          SoundInv, EverySelectorReported, Serving
<1> QED  BY <1>1, <1>2 DEF IInv

LEMMA ServeSelectorIInv == ASSUME IInv, NoOverflow, ServeSelector PROVE IInv'
<1>1. PICK a \in Answers :
         /\ phase = "serve" /\ left > 0 /\ share >= 0
         /\ responses' = Append(responses, a)
         /\ returned' = returned + a.count
         /\ remaining' = IF remaining > 0 THEN remaining - a.count ELSE remaining
         /\ UNCHANGED <<request, phase, found, exit>>
  BY DEF ServeSelector
<1>2. limit >= 0
  BY <1>1, Ranges DEF share
<1>3. a \in ResponseType /\ Sound(a) /\ (limit > 0 => a.count <= share) /\ a.count \in Nat
  BY <1>1, <1>2, AnswersSound DEF ResponseType
<1>4. /\ responses' \in Seq(ResponseType) /\ Len(responses') <= n /\ left' = left - 1
      /\ SoundInv'
  BY <1>1, <1>3, AppendSound
<1>5. limit > 0 => /\ remaining' \in Nat /\ remaining' + returned' = limit
                   /\ (limit \div n) * (left - 1) <= remaining'
                   /\ left - 1 <= remaining'
  <2>1. SUFFICES ASSUME limit > 0
                 PROVE  /\ remaining' \in Nat /\ remaining' + returned' = limit
                        /\ (limit \div n) * (left - 1) <= remaining'
                        /\ left - 1 <= remaining'
    OBVIOUS
  <2>2. /\ remaining \in Nat /\ remaining + returned = limit /\ left > 0
        /\ remaining > 0
    BY <1>1, <2>1 DEF IInv, BudgetInv, PhaseInv, RunningInv, LimitInv, Serving
  <2>3. remaining' = remaining - a.count /\ returned' = returned + a.count
    BY <1>1, <2>2
  <2>4. /\ share \in Nat /\ share <= remaining /\ left - 1 <= remaining - share
        /\ (limit \div n) * (left - 1) <= remaining - share
    BY <1>1, <1>2, <2>1, BatchShare
  <2> DEFINE e == (limit \div n) * (left - 1)
  <2>5. e \in Int /\ e <= remaining - share
    BY <2>1, <2>4, Ranges
  <2>6. left \in Nat /\ limit \in Nat /\ returned \in Nat  BY <1>2, Ranges
  <2> HIDE DEF e
  <2>7. /\ remaining' \in Nat /\ remaining' + returned' = limit
        /\ e <= remaining' /\ left - 1 <= remaining'
    BY <1>3, <2>1, <2>2, <2>3, <2>4, <2>5, <2>6
  <2> QED  BY <2>7 DEF e
<1>6. limit = 0 => remaining' = 0 /\ returned' \in Nat
  BY <1>1, <1>3, Ranges DEF IInv, BudgetInv, PhaseInv, RunningInv, LimitInv, Serving
<1>7. remaining' \in (-MaxInt - 1) .. MaxInt /\ returned' \in Nat
  <2>1. limit > 0 => remaining' \in Nat /\ remaining' <= limit
    <3>1. limit > 0 => remaining' \in Nat /\ remaining' + returned' = limit
      BY <1>5, Zenon
    <3>2. returned' \in Nat /\ limit \in Int
      BY <1>1, <1>3, Ranges, SMTT(30)
    <3> QED  BY <3>1, <3>2
  <2>2. /\ returned' \in Nat /\ limit \in Nat /\ limit <= MaxInt /\ MaxInt \in Nat
    BY <1>1, <1>2, <1>3, Ranges, SMTT(30)
  <2> QED  BY <1>6, <2>1, <2>2
<1>8. TypeInv'
  BY <1>1, <1>4, <1>7 DEF IInv, TypeInv, request
<1>9. left' = left - 1 /\ left \in Nat /\ limit \in Int /\ n' = n /\ limit' = limit
  BY <1>1, <1>4, Ranges DEF request
<1>10. BudgetInv'
  <2>1. RunningInv'
    <3>1. limit > 0 => limit >= n
      BY <1>1 DEF IInv, BudgetInv, RunningInv, PhaseInv, Serving
    <3> DEFINE e == (limit \div n) * (left - 1)
    <3>2. /\ limit > 0 => /\ remaining' \in Nat /\ remaining' + returned' = limit
                          /\ e <= remaining' /\ left - 1 <= remaining'
          /\ e = ((limit \div n) * left)'
      BY <1>5, <1>9
    <3> HIDE DEF e
    <3> QED  BY <1>2, <1>6, <1>9, <3>1, <3>2 DEF RunningInv
  <2>2. LimitInv'
    <3>1. limit > 0 => remaining' \in Nat /\ remaining' + returned' = limit
      BY <1>5, Zenon
    <3>2. returned' \in Nat /\ limit \in Int /\ limit' = limit  BY <1>7, <1>9
    <3> QED  BY <3>1, <3>2 DEF LimitInv
  <2>3. PhaseInv'
    BY <1>1 DEF IInv, BudgetInv, PhaseInv, request
  <2>4. FoundInv'
    BY <1>1 DEF IInv, BudgetInv, FoundInv, request
  <2>5. EverySelectorReported'
    BY <1>1 DEF EverySelectorReported
  <2> QED  BY <1>4, <2>1, <2>2, <2>3, <2>4, <2>5 DEF BudgetInv
<1> QED  BY <1>8, <1>10 DEF IInv

LEMMA ShareResponseIInv == ASSUME IInv, ShareResponse PROVE IInv'
<1> DEFINE query == found[Len(responses) + 1]
           kept  == Candidates(query.avail, limit)
           give  == IF limit > 0 THEN AtMost(LibraryShare(remaining, left), kept) ELSE kept
           r     == Answered([count |-> give, truncated |-> kept > give],
                             query.avail, query.as)
<1>1. /\ phase = "share" /\ left > 0
      /\ responses' = Append(responses, r)
      /\ returned' = returned + give
      /\ remaining' = IF remaining > 0 THEN remaining - give ELSE remaining
      /\ IF remaining > 0 /\ remaining - give <= 0
         THEN phase' = "done" /\ exit' = 0 ELSE UNCHANGED <<phase, exit>>
      /\ UNCHANGED <<request, found>>
  BY DEF ShareResponse, Stop
<1>2. /\ cmd \in {"find", "library"} /\ limit \in Nat
      /\ limit = 0 => remaining = 0
      /\ limit > 0 => /\ remaining \in Nat /\ remaining + returned = limit
                      /\ (limit \div n) * left <= remaining
                      /\ limit >= n => left <= remaining
                      /\ cmd # "library" => limit >= n
                      /\ remaining > 0 /\ remaining <= limit
  BY <1>1, Ranges DEF IInv, BudgetInv, PhaseInv, RunningInv, LimitInv, Serving
<1>3. /\ Len(responses) + 1 \in 1 .. n
      /\ query.avail \in Nat /\ query.as \in {"none", "symbol", "file"}
      /\ query.as = "none" <=> query.avail = 0
  <2>1. Len(responses) + 1 \in 1 .. n  BY <1>1, Ranges DEF left
  <2> QED  BY <2>1, Ranges DEF IInv, TypeInv, BudgetInv, FoundInv
<1> HIDE DEF query
<1>4. limit > 0 => /\ LibraryShare(remaining, left) \in Nat \ {0}
                   /\ LibraryShare(remaining, left) <= remaining
                   /\ limit \div n <= LibraryShare(remaining, left)
                   /\ (limit \div n) * (left - 1) <= remaining - LibraryShare(remaining, left)
                   /\ limit >= n => left - 1 <= remaining - LibraryShare(remaining, left)
  <2>1. SUFFICES ASSUME limit > 0
                 PROVE  /\ LibraryShare(remaining, left) \in Nat \ {0}
                        /\ LibraryShare(remaining, left) <= remaining
                        /\ limit \div n <= LibraryShare(remaining, left)
                        /\ (limit \div n) * (left - 1) <= remaining - LibraryShare(remaining, left)
                        /\ limit >= n => left - 1 <= remaining - LibraryShare(remaining, left)
    OBVIOUS
  <2> DEFINE c == LibraryShare(remaining, left)
  <2>2. left \in Nat \ {0} /\ remaining \in Nat \ {0} /\ RoundedUp(c, remaining, left)
    <3>1. remaining \in Nat \ {0}  BY <1>2, <2>1
    <3>2. left \in Nat \ {0}  BY <1>1, Ranges
    <3> QED  BY <3>1, <3>2, SharesRoundUp
  <2>3. c \in Nat /\ left * c < remaining + left /\ remaining <= left * c
    BY <2>2 DEF RoundedUp
  <2> HIDE DEF c
  <2>4. c # 0
    BY <2>2, <2>3
  <2>5. CASE limit >= n
    <3>1. limit \div n \in Nat /\ left <= remaining /\ (limit \div n) * left <= remaining
      BY <1>2, <2>1, <2>5, Ranges
    <3> QED  BY <2>2, <2>3, <2>4, <3>1, ShareLeavesEnough DEF c
  <2>6. CASE limit < n
    <3>1. limit \div n = 0
      BY <2>1, <2>6, Ranges
    <3>2. c <= remaining
      <4>1. left * remaining >= remaining
        <5>1. (left - 1) * remaining >= 0  BY <2>2
        <5>2. (left - 1) * remaining = left * remaining - remaining  BY <2>2
        <5> QED  BY <2>2, <5>1, <5>2
      <4>2. left * c < left * remaining + left  BY <2>2, <2>3, <4>1
      <4> QED  BY <2>2, <2>3, <4>2, Multiples
    <3> QED  BY <2>2, <2>3, <2>4, <2>6, <3>1, <3>2, Ranges DEF c
  <2> QED  BY <1>2, <2>5, <2>6, Ranges
<1>5. /\ give \in Nat /\ kept \in Nat
      /\ kept > give <=> give < query.avail
      /\ query.avail = 0 <=> give = 0
      /\ limit > 0 => give <= LibraryShare(remaining, left)
                      /\ give >= AtMost(query.avail, limit \div n)
  <2> DEFINE c == LibraryShare(remaining, left)
  <2>1. limit > 0 => c \in Nat \ {0} /\ c <= limit /\ limit \div n <= c /\ limit \div n \in Nat
    BY <1>2, <1>4, Ranges
  <2> HIDE DEF c
  <2>2. CASE limit > 0
    BY <1>2, <1>3, <2>1, <2>2 DEF Candidates, AtMost, c
  <2>3. CASE limit = 0
    BY <1>2, <1>3, <2>3 DEF Candidates
  <2> QED  BY <1>2, <2>2, <2>3
<1> HIDE DEF give, kept
<1>6. r \in ResponseType /\ Sound(r)
  <2>1. PICK m \in BOOLEAN :
           /\ r = [error |-> "none", count |-> give, truncated |-> m,
                   avail |-> query.avail, as |-> query.as]
           /\ m <=> kept > give
    <3>1. (kept > give) \in BOOLEAN  BY <1>5
    <3> QED  BY <3>1, Zenon DEF Answered
  <2> HIDE DEF r
  <2>3. r \in ResponseType
    BY <1>3, <1>5, <2>1 DEF ResponseType
  <2>4. r.error = "none" /\ r.count = give /\ r.avail = query.avail /\ r.as = query.as
    BY <2>1
  <2>5. r.truncated = m
    BY <2>1, Zenon
  <2>6. r.truncated <=> r.count < r.avail
    BY <1>5, <2>1, <2>4, <2>5, Zenon
  <2> QED  BY <1>3, <1>5, <2>3, <2>4, <2>6 DEF Sound
<1> HIDE DEF r
<1>7. /\ responses' \in Seq(ResponseType) /\ Len(responses') <= n /\ left' = left - 1
      /\ Len(responses') = Len(responses) + 1
      /\ SoundInv'
  BY <1>1, <1>6, AppendSound
<1>8. limit > 0 => /\ remaining' \in Nat /\ remaining' + returned' = limit
                   /\ (limit \div n) * (left - 1) <= remaining'
                   /\ limit >= n => left - 1 <= remaining'
  <2>1. SUFFICES ASSUME limit > 0
                 PROVE  /\ remaining' \in Nat /\ remaining' + returned' = limit
                        /\ (limit \div n) * (left - 1) <= remaining'
                        /\ limit >= n => left - 1 <= remaining'
    OBVIOUS
  <2> DEFINE c == LibraryShare(remaining, left)
             e == (limit \div n) * (left - 1)
  <2>2. /\ remaining \in Nat /\ remaining + returned = limit /\ remaining > 0
        /\ remaining' = remaining - give /\ returned' = returned + give
    BY <1>1, <1>2, <2>1
  <2>3. /\ c \in Nat /\ c <= remaining /\ e <= remaining - c
        /\ limit >= n => left - 1 <= remaining - c
    BY <1>4, <2>1
  <2>4. give \in Nat /\ give <= c  BY <1>5, <2>1
  <2>5. /\ e \in Int /\ left \in Nat /\ limit \in Nat /\ returned \in Nat /\ n \in Nat
    BY <1>2, <2>1, Ranges
  <2> HIDE DEF c, e
  <2>6. /\ remaining' \in Nat /\ remaining' + returned' = limit
        /\ e <= remaining'
        /\ limit >= n => left - 1 <= remaining'
    BY <2>2, <2>3, <2>4, <2>5
  <2> QED  BY <2>6 DEF e
<1>9. /\ limit = 0 => remaining' = 0
      /\ returned' \in Nat /\ remaining' \in (-MaxInt - 1) .. MaxInt
  <2>1. returned' \in Nat  BY <1>1, <1>5, Ranges
  <2>2. limit = 0 => remaining' = 0  BY <1>1, <1>2, Ranges
  <2>3. limit > 0 => remaining' \in Nat /\ remaining' + returned' = limit  BY <1>8
  <2>4. /\ limit \in Nat /\ limit <= MaxInt /\ MaxInt \in Nat  BY <1>2, Ranges
  <2> QED  BY <2>1, <2>2, <2>3, <2>4
<1>10. TypeInv'
  BY <1>1, <1>7, <1>9 DEF IInv, TypeInv, request
<1>11. left' = left - 1 /\ left \in Nat /\ limit \in Nat /\ n' = n /\ limit' = limit /\ cmd' = cmd
  BY <1>1, <1>2, <1>7, Ranges DEF request
<1>12. BudgetInv'
  <2>1. RunningInv'
    <3>1. (Serving /\ limit > 0)' => remaining' > 0
      BY <1>1, <1>2, <1>8, <1>11 DEF Serving
    <3>2. limit > 0 /\ cmd # "library" => limit >= n
      BY <1>2
    <3> DEFINE e == (limit \div n) * (left - 1)
    <3>3. /\ limit > 0 => /\ remaining' \in Nat /\ remaining' + returned' = limit
                          /\ e <= remaining'
                          /\ limit >= n => left - 1 <= remaining'
          /\ e = ((limit \div n) * left)'
      BY <1>8, <1>11
    <3>4. limit = 0 => remaining' = 0  BY <1>9
    <3> HIDE DEF e
    <3> QED  BY <1>11, <3>1, <3>2, <3>3, <3>4 DEF RunningInv
  <2>2. LimitInv'
    <3>1. limit > 0 => remaining' \in Nat /\ remaining' + returned' = limit
      BY <1>8, Zenon
    <3>2. returned' \in Nat /\ limit \in Int /\ limit' = limit  BY <1>9, <1>11
    <3> QED  BY <3>1, <3>2 DEF LimitInv
  <2>3. EverySelectorReported'
    <3>1. SUFFICES ASSUME phase' = "done", cmd # "library" PROVE Len(responses') = n
      BY <1>11 DEF EverySelectorReported
    <3>2. limit > 0 /\ limit >= n /\ remaining' <= 0
      BY <1>1, <1>2, <3>1, Ranges
    <3>3. left - 1 <= 0  BY <1>8, <1>11, <3>2
    <3> QED  BY <1>1, <1>7, <3>3, Ranges DEF left
  <2>4. PhaseInv'
    <3>1. /\ phase' \in {"share", "done"} /\ cmd' \in {"find", "library"} /\ limit' >= 0
      BY <1>1, <1>2, <1>11
    <3> QED  BY <3>1 DEF PhaseInv
  <2>5. FoundInv'
    BY <1>1 DEF IInv, BudgetInv, FoundInv, request
  <2> QED  BY <1>7, <2>1, <2>2, <2>3, <2>4, <2>5 DEF BudgetInv
<1> QED  BY <1>10, <1>12 DEF IInv

\* A step that answers nothing keeps the responses and what is known of them.
LEMMA NoAnswer ==
    ASSUME IInv, UNCHANGED <<request, responses, returned>>
    PROVE  LimitInv' /\ SoundInv' /\ left' = left
  BY DEF IInv, BudgetInv, LimitInv, SoundInv, Sound, request, left

LEMMA StepIInv == ASSUME IInv, NoOverflow, [Next]_vars PROVE IInv'
<1>1. CASE Reject
  BY <1>1, NoAnswer DEF Reject, Stop, IInv, TypeInv, BudgetInv, PhaseInv, RunningInv,
     FoundInv, EverySelectorReported, Serving, request
<1>2. CASE RejectFind
  BY <1>2, NoAnswer DEF RejectFind, Stop, IInv, TypeInv, BudgetInv, PhaseInv, RunningInv,
     FoundInv, EverySelectorReported, Serving, request
<1>3. CASE StartFind \/ StartBatch
  <2>1. /\ phase = "start" /\ UNCHANGED <<request, found, responses, returned, exit>>
        /\ phase' \in {"paths", "symbols", "serve"} /\ remaining' = limit
        /\ limit > 0 /\ cmd # "library" => limit >= n
        /\ phase' = "serve" => cmd \in {"inspect", "outline"}
        /\ phase' # "serve" => cmd \in {"find", "library"} /\ limit >= 0
    BY <1>3, Ranges DEF StartFind, StartBatch, IInv, TypeInv, Commands
  <2>2. responses = <<>> /\ returned = 0 /\ left = n
    BY <2>1, Ranges DEF IInv, BudgetInv, PhaseInv, left
  <2>3. TypeInv'
    BY <2>1, BudgetAssumption DEF IInv, TypeInv, request
  <2>4. LimitInv' /\ SoundInv' /\ left' = left
    BY <2>1, NoAnswer
  <2>5. RunningInv'
    <3>1. limit > 0 => (limit \div n) * left' <= remaining'
      BY <2>1, <2>2, <2>4, Ranges
    <3> DEFINE e == (limit \div n) * left'
    <3>2. e = ((limit \div n) * left)' /\ (limit > 0 => e <= remaining')
      BY <2>1, <3>1 DEF request
    <3> HIDE DEF e
    <3> QED  BY <2>1, <2>2, <2>4, <3>2, Ranges DEF RunningInv, Serving, request
  <2>6. PhaseInv' /\ FoundInv' /\ EverySelectorReported'
    BY <2>1, <2>2 DEF PhaseInv, IInv, BudgetInv, FoundInv, EverySelectorReported, request
  <2> QED  BY <2>3, <2>4, <2>5, <2>6 DEF IInv, BudgetInv
<1>4. CASE ServeSelector
  BY <1>4, ServeSelectorIInv
<1>5. CASE ServeFailure
  <2>1. phase = "serve" /\ left > 0 /\ UNCHANGED <<request, remaining, found, returned>>
    BY <1>5 DEF ServeFailure
  <2>2. CASE n = 1
    <3>1. phase' = "done" /\ exit' = 1 /\ UNCHANGED responses /\ Len(responses) = 0
      BY <1>5, <2>1, <2>2, Ranges DEF ServeFailure, Stop, left
    <3> QED
      BY <2>1, <3>1, NoAnswer DEF IInv, TypeInv, BudgetInv, PhaseInv, RunningInv,
         FoundInv, EverySelectorReported, Serving, request
  <2>3. CASE n # 1
    <3>1. PICK why \in (IF share < 0 THEN {"limit", "selector"} ELSE {"selector"}) :
             responses' = Append(responses, Failed(why)) /\ UNCHANGED <<phase, exit>>
      BY <1>5, <2>3 DEF ServeFailure
    <3>2. limit >= 0 => why = "selector"
      <4>1. limit >= 0 => share \in Nat  BY <2>1, BatchShare
      <4> QED  BY <3>1, <4>1
    <3>3. cmd \notin {"find", "library"}
      BY <2>1 DEF IInv, BudgetInv, PhaseInv
    <3>4. Failed(why) \in ResponseType
      BY <3>1 DEF Failed, ResponseType
    <3>5. /\ Failed(why).error = why /\ Failed(why).count = 0 /\ Failed(why).avail = 0
          /\ Failed(why).truncated = FALSE
      BY Zenon DEF Failed
    <3>6. Sound(Failed(why))
      BY <3>1, <3>2, <3>3, <3>5 DEF Sound
    <3>7. /\ responses' \in Seq(ResponseType) /\ Len(responses') <= n /\ left' = left - 1
          /\ SoundInv'
      BY <2>1, <3>1, <3>4, <3>6, AppendSound
    <3>8. TypeInv'
      BY <2>1, <3>1, <3>7 DEF IInv, TypeInv, request
    <3>9. RunningInv'
      <4> DEFINE e == (limit \div n) * (left - 1)
      <4>1. limit > 0 => e <= remaining
        <5>1. limit > 0 => /\ (limit \div n) * left <= remaining /\ remaining \in Nat
                           /\ limit \div n \in Nat /\ left \in Nat
          BY <2>1, Ranges DEF IInv, BudgetInv, RunningInv, Serving
        <5>2. limit > 0 => (limit \div n) * left = e + (limit \div n)
          BY <5>1
        <5> QED  BY <5>1, <5>2
      <4>2. e = ((limit \div n) * left)'
        BY <2>1, <3>7 DEF request
      <4>3. left' = left - 1 /\ left \in Nat /\ limit \in Int /\ n \in Nat /\ limit' = limit
            /\ n' = n /\ cmd' = cmd /\ remaining' = remaining /\ returned' = returned
        BY <2>1, <3>7, Ranges DEF request
      <4> HIDE DEF e
      <4>4. /\ limit <= 0 => remaining = limit
            /\ limit > 0 => /\ remaining \in Nat /\ remaining + returned = limit
                            /\ limit >= n => left <= remaining
                            /\ cmd # "library" => limit >= n
                            /\ left > 0 => remaining > 0
        BY <2>1 DEF IInv, BudgetInv, RunningInv, Serving
      <4> QED  BY <2>1, <4>1, <4>2, <4>3, <4>4 DEF RunningInv
    <3>10. LimitInv' /\ PhaseInv' /\ FoundInv' /\ EverySelectorReported'
      BY <2>1, <3>1 DEF IInv, BudgetInv, LimitInv, PhaseInv, FoundInv,
         EverySelectorReported, request
    <3> QED  BY <3>7, <3>8, <3>9, <3>10 DEF IInv, BudgetInv
  <2> QED  BY <2>2, <2>3
<1>6. CASE FinishBatch \/ FinishFind
  <2>1. /\ left = 0 /\ phase' = "done" /\ exit' \in {0, 1}
        /\ UNCHANGED <<request, remaining, found, responses, returned>>
    BY <1>6 DEF FinishBatch, FinishFind, Stop
  <2>2. Len(responses) = n
    BY <2>1, Ranges DEF left
  <2> QED  BY <2>1, <2>2, NoAnswer DEF IInv, TypeInv, BudgetInv, PhaseInv, RunningInv,
              FoundInv, EverySelectorReported, Serving, request
<1>7. CASE SymbolPass \/ PathPass
  <2>1. /\ phase \in {"symbols", "paths"} /\ phase' \in {"paths", "share"}
        /\ UNCHANGED <<request, remaining, responses, returned, exit>>
    BY <1>7 DEF SymbolPass, PathPass
  <2>2. /\ found' \in [1 .. n -> [as : {"none", "symbol", "file"}, avail : 0 .. MaxResults]]
        /\ \A i \in 1 .. n : found'[i].as = "none" <=> found'[i].avail = 0
    <3>0. 0 \in 0 .. MaxResults /\ n \in Nat  BY Ranges
    <3>1. CASE SymbolPass
      <4>1. PICK avail \in [1 .. n -> 0 .. MaxResults] :
               found' = [i \in 1 .. n |-> [as |-> IF avail[i] = 0 THEN "none" ELSE "symbol",
                                           avail |-> avail[i]]]
        BY <3>1 DEF SymbolPass
      <4> QED  BY <4>1
    <3>2. CASE PathPass
      <4>1. PICK avail \in [{i \in 1 .. n : found[i].avail = 0} -> 0 .. MaxResults] :
               found' = [i \in 1 .. n |->
                           IF i \notin DOMAIN avail THEN found[i]
                           ELSE [as |-> IF avail[i] = 0 THEN "none" ELSE "file",
                                 avail |-> avail[i]]]
        BY <3>2 DEF PathPass
      <4>2. ASSUME NEW i \in 1 .. n
            PROVE  /\ found'[i] \in [as : {"none", "symbol", "file"}, avail : 0 .. MaxResults]
                   /\ found'[i].as = "none" <=> found'[i].avail = 0
        <5>1. CASE i \notin DOMAIN avail
          BY <4>1, <5>1 DEF IInv, TypeInv, BudgetInv, FoundInv
        <5>2. CASE i \in DOMAIN avail
          BY <4>1, <5>2
        <5> QED  BY <5>1, <5>2
      <4>3. found' = [i \in 1 .. n |-> found'[i]]
        BY <4>1
      <4> QED  BY <4>2, <4>3
    <3> QED  BY <1>7, <3>1, <3>2
  <2>3. TypeInv' /\ FoundInv'
    BY <2>1, <2>2 DEF IInv, TypeInv, FoundInv, request
  <2>4. LimitInv' /\ SoundInv' /\ left' = left
    BY <2>1, NoAnswer
  <2>5. RunningInv'
    BY <2>1, <2>4 DEF IInv, BudgetInv, RunningInv, Serving, request
  <2>6. PhaseInv' /\ EverySelectorReported'
    BY <2>1 DEF IInv, BudgetInv, PhaseInv, EverySelectorReported, request
  <2> QED  BY <2>3, <2>4, <2>5, <2>6 DEF IInv, BudgetInv
<1>8. CASE FindFailure
  <2>1. /\ responses' = <<>> /\ returned' = 0 /\ phase' = "done" /\ exit' = 1
        /\ UNCHANGED <<request, remaining, found>>
    BY <1>8 DEF FindFailure, Stop
  <2> QED  BY <2>1, Ranges, SMTT(30) DEF IInv, TypeInv, BudgetInv, PhaseInv, RunningInv, LimitInv,
              SoundInv, FoundInv, EverySelectorReported, Serving, request
<1>9. CASE ShareResponse
  BY <1>9, ShareResponseIInv
<1>10. CASE UNCHANGED vars
  BY <1>10, NoAnswer DEF vars, IInv, TypeInv, BudgetInv, PhaseInv, RunningInv,
     FoundInv, EverySelectorReported, Serving, request
<1> QED
  BY <1>1, <1>2, <1>3, <1>4, <1>5, <1>6, <1>7, <1>8, <1>9, <1>10 DEF Next

-----------------------------------------------------------------------------
(* What holds of every command.                                            *)

LEMMA Invariance == ASSUME NoOverflow PROVE Spec => []IInv
<1>1. IInv /\ [Next]_vars => IInv'  BY StepIInv
<1> QED  BY InitIInv, <1>1, PTL DEF Spec

\* The state keeps its shape: no share of any limit leaves the range of an int.
THEOREM BudgetTypes == ASSUME NoOverflow PROVE Spec => []TypeOK
<1>1. IInv => TypeOK  BY DEF IInv, TypeInv, TypeOK
<1> QED  BY Invariance, <1>1, PTL

\* A command never returns more results than its limit.
THEOREM BudgetTotal == ASSUME NoOverflow PROVE Spec => []TotalWithinLimit
<1>1. IInv => TotalWithinLimit
  BY DEF IInv, BudgetInv, LimitInv, RunningInv, Serving, TotalWithinLimit
<1> QED  BY Invariance, <1>1, PTL

\* Behind the guard of the command line no selector's share becomes "no limit".
THEOREM BudgetShares == ASSUME NoOverflow PROVE Spec => []ShareNeverUnlimited
<1>1. IInv => ShareNeverUnlimited
  BY Ranges DEF IInv, BudgetInv, RunningInv, Serving, ShareNeverUnlimited
<1> QED  BY Invariance, <1>1, PTL

\* For any limit, number of selectors and results below the overflow, what a response
\* says of itself is true: whether results were omitted, and whether there are none.
THEOREM BudgetTruthful ==
    ASSUME NoOverflow PROVE Spec => []ResponsesTruthful
<1>1. IInv => TruncatedIffOmitted
  BY Ranges DEF IInv, BudgetInv, SoundInv, Sound, TruncatedIffOmitted
<1>2. IInv => NoneIffEmpty
  BY Ranges DEF IInv, BudgetInv, SoundInv, Sound, NoneIffEmpty
<1>3. IInv => ResponsesTruthful
  BY <1>1, <1>2 DEF ResponsesTruthful
<1> QED  BY Invariance, <1>3, PTL

\* Whatever the selectors before it consume and whichever of them fail, every selector
\* is reported, gets its even share, and, unless an int wraps, is not refused for it.
THEOREM BudgetServes == ASSUME NoOverflow PROVE Spec => []SelectorsServed
<1>1. IInv => EvenShareServed
  <2>1. IInv => DOMAIN responses = 1 .. Len(responses)  BY DEF IInv, TypeInv
  <2> QED  BY <2>1, Zenon DEF IInv, BudgetInv, SoundInv, Sound, EvenShareServed
<1>2. IInv => EverySelectorReported  BY DEF IInv, BudgetInv
<1>3. IInv => NoShareRefused
  BY Ranges DEF IInv, BudgetInv, SoundInv, Sound, NoShareRefused
<1>4. IInv => SelectorsServed
  BY <1>1, <1>2, <1>3 DEF SelectorsServed
<1> QED  BY Invariance, <1>4, PTL

-----------------------------------------------------------------------------
(* Sequences.                                                              *)

LEMMA Least ==
    ASSUME NEW T, T \subseteq Nat, T # {}
    PROVE  \E x \in T : \A y \in T : ~(y < x)
<1> DEFINE R == {s \in Nat \X Nat : s[1] < s[2]}
<1>1. IsWellFoundedOn(R, Nat)
  BY NatLessThanWellFounded DEF OpToRel
<1>2. \E x \in T : \A y \in T : ~(<<y, x>> \in R)
  BY <1>1, WFMin, Zenon
<1>3. ASSUME NEW x \in T, NEW y \in T, y < x PROVE <<y, x>> \in R
  BY <1>3
<1> QED
  BY <1>2, <1>3, Zenon


\* Induction over sequences: a set of them that has the empty one, and with each its
\* extensions, has them all.
LEMMA SeqInduction ==
    ASSUME NEW E, NEW P, <<>> \in P, \A s \in P \cap Seq(E) : \A x \in E : Append(s, x) \in P
    PROVE  Seq(E) \subseteq P
<1> DEFINE T == {k \in Nat : \E s \in Seq(E) : s \notin P /\ Len(s) = k}
<1> SUFFICES ASSUME T # {} PROVE FALSE
  <2>1. \A s \in Seq(E) : Len(s) \in Nat
    OBVIOUS
  <2> QED
    BY <2>1
<1>1. PICK k \in T : \A y \in T : ~(y < k)
  <2>1. T \subseteq Nat
    OBVIOUS
  <2> HIDE DEF T
  <2> QED
    BY <2>1, Least
<1>2. PICK s \in Seq(E) : s \notin P /\ Len(s) = k
  OBVIOUS
<1>3. k \in Nat /\ k # 0
  <2>1. k = 0 => s = <<>>
    BY <1>2
  <2> QED
    BY <1>2, <2>1
<1> DEFINE t == SubSeq(s, 1, k - 1)
<1>4. t \in Seq(E) /\ Len(t) = k - 1 /\ s[k] \in E /\ s = Append(t, s[k])
  <2>1. t \in Seq(E) /\ Len(t) = k - 1 /\ \A i \in 1 .. k - 1 : t[i] = s[i]
    BY <1>2, <1>3
  <2>2. s[k] \in E
    BY <1>2, <1>3
  <2> HIDE DEF t
  <2>3. s = Append(t, s[k])
    BY <1>2, <1>3, <2>1, <2>2
  <2> QED
    BY <2>1, <2>2, <2>3
<1>5. t \in P
  <2>1. k - 1 \in Nat /\ k - 1 < k
    BY <1>3
  <2>2. k - 1 \notin T
    <3> HIDE DEF T
    <3> QED
      BY <1>1, <2>1
  <2> HIDE DEF t
  <2> QED
    BY <1>4, <2>1, <2>2
<1> HIDE DEF t
<1> QED
  BY <1>2, <1>4, <1>5

LEMMA Concatenation ==
    ASSUME NEW E
    PROVE  /\ \A s, d \in Seq(E) : \A r \in E : s \o Append(d, r) = Append(s \o d, r)
           /\ \A s, d, e \in Seq(E) : (s \o d) \o e = s \o (d \o e)
           /\ \A s \in Seq(E) : s \o <<>> = s /\ <<>> \o s = s
           /\ \A s, d \in Seq(E) : s \o d \in Seq(E)
           /\ \A s \in Seq(E) : \A r \in E : s \o <<r>> = Append(s, r) /\ Append(s, r) \in Seq(E)
           /\ <<>> \in Seq(E) /\ \A r \in E : <<r>> \in Seq(E)
<1>1. \A s, d \in Seq(E) : \A r \in E : s \o Append(d, r) = Append(s \o d, r)
  OBVIOUS
<1>2. \A s, d, e \in Seq(E) : (s \o d) \o e = s \o (d \o e)
  OBVIOUS
<1>3. \A s \in Seq(E) : s \o <<>> = s /\ <<>> \o s = s
  OBVIOUS
<1>4. \A s, d \in Seq(E) : s \o d \in Seq(E)
  OBVIOUS
<1>5. \A s \in Seq(E) : \A r \in E : s \o <<r>> = Append(s, r) /\ Append(s, r) \in Seq(E)
  OBVIOUS
<1>6. <<>> \in Seq(E) /\ \A r \in E : <<r>> \in Seq(E)
  OBVIOUS
<1> QED
  BY <1>1, <1>2, <1>3, <1>4, <1>5, <1>6

LEMMA Extended ==
    ASSUME NEW E, NEW b \in Seq(E), NEW a \in Seq(E), Len(a) = Len(b) + 1,
           \A k \in 1 .. Len(b) : a[k] = b[k]
    PROVE  a = Append(b, a[Len(b) + 1]) /\ a[Len(b) + 1] \in E
<1>1. Len(b) \in Nat /\ Len(b) + 1 \in 1 .. Len(a)
  OBVIOUS
<1>2. a[Len(b) + 1] \in E
  BY <1>1
<1>3. a = Append(b, a[Len(b) + 1])
  BY <1>1, <1>2
<1> QED
  BY <1>2, <1>3

\* Lists joined, up to one of them.
Flattening(g, lists, m) ==
    g = [i \in 1 .. m |-> IF i = 1 THEN lists[i] ELSE g[i - 1] \o lists[i]]
FlatTo(lists, j) == (CHOOSE g : Flattening(g, lists, Len(lists)))[j]

LEMMA FlatteningTo ==
    ASSUME NEW lists, NEW k \in Nat
    PROVE  \E g : Flattening(g, lists, k)
<1> DEFINE T == {m \in Nat : ~\E g : Flattening(g, lists, m)}
<1> SUFFICES ASSUME T # {} PROVE FALSE
  OBVIOUS
<1>1. PICK m \in T : \A y \in T : ~(y < m)
  <2>1. T \subseteq Nat
    OBVIOUS
  <2> HIDE DEF T
  <2> QED
    BY <2>1, Least
<1>2. CASE m = 0
  <2> DEFINE g == [i \in 1 .. 0 |-> <<>>]
  <2>1. Flattening(g, lists, 0)
    BY DEF Flattening
  <2> QED
    BY <1>1, <1>2, <2>1
<1>3. CASE m # 0
  <2>1. m \in Nat /\ m - 1 \in Nat /\ m - 1 < m /\ m - 1 \notin T
    <3>1. m \in Nat
      BY <1>1
    <3>2. m - 1 \in Nat /\ m - 1 < m
      BY <1>3, <3>1
    <3> HIDE DEF T
    <3> QED
      BY <1>1, <3>1, <3>2
  <2>2. PICK f : Flattening(f, lists, m - 1)
    BY <2>1
  <2> DEFINE last == IF m = 1 THEN lists[m] ELSE f[m - 1] \o lists[m]
             g == [i \in 1 .. m |-> IF i = m THEN last ELSE f[i]]
             h == [i \in 1 .. m |-> IF i = 1 THEN lists[i] ELSE g[i - 1] \o lists[i]]
  <2>3. ASSUME NEW i \in 1 .. m PROVE g[i] = h[i]
    <3>0. h[i] = IF i = 1 THEN lists[i] ELSE g[i - 1] \o lists[i]
      OBVIOUS
    <3>1. CASE i = m
      <4>1. g[i] = last
        BY <3>1
      <4>2. i # 1 => g[i - 1] = f[m - 1]
        BY <2>1, <3>1
      <4> QED
        BY <3>0, <3>1, <4>1, <4>2, Zenon
    <3>2. CASE i # m
      <4>1. i \in 1 .. m - 1 /\ (i # 1 => i - 1 \in 1 .. m /\ i - 1 # m)
        BY <2>1, <3>2
      <4>2. g[i] = f[i] /\ (i # 1 => g[i - 1] = f[i - 1])
        BY <3>2, <4>1
      <4>3. f[i] = IF i = 1 THEN lists[i] ELSE f[i - 1] \o lists[i]
        BY <2>2, <4>1 DEF Flattening
      <4> QED
        BY <3>0, <4>2, <4>3, Zenon
    <3> QED
      BY <3>1, <3>2
  <2>4. g = h
    BY <2>3
  <2>5. Flattening(g, lists, m)
    BY <2>4 DEF Flattening
  <2> HIDE DEF g, h
  <2> QED
    BY <1>1, <2>5
<1> QED
  BY <1>2, <1>3

LEMMA FlatIs ==
    ASSUME NEW lists
    PROVE  FlattenSeq(lists) = IF Len(lists) = 0 THEN lists ELSE FlatTo(lists, Len(lists))
BY DEF FlattenSeq, FlatTo, Flattening

LEMMA FlatRounds ==
    ASSUME NEW lists, Len(lists) \in Nat, NEW j \in 1 .. Len(lists)
    PROVE  FlatTo(lists, j) = IF j = 1 THEN lists[j] ELSE FlatTo(lists, j - 1) \o lists[j]
<1> DEFINE g == CHOOSE g : Flattening(g, lists, Len(lists))
<1>1. Flattening(g, lists, Len(lists))
  BY FlatteningTo
<1>2. \A i : FlatTo(lists, i) = g[i]
  BY DEF FlatTo
<1> HIDE DEF g
<1>3. g[j] = IF j = 1 THEN lists[j] ELSE g[j - 1] \o lists[j]
  BY <1>1 DEF Flattening
<1> QED
  BY <1>2, <1>3

LEMMA FlatSame ==
    ASSUME NEW lists, NEW more, Len(lists) \in Nat, Len(more) \in Nat, Len(lists) <= Len(more),
           \A i \in 1 .. Len(lists) : more[i] = lists[i], NEW k \in 1 .. Len(lists)
    PROVE  FlatTo(more, k) = FlatTo(lists, k)
<1> DEFINE T == {i \in 1 .. Len(lists) : FlatTo(more, i) # FlatTo(lists, i)}
<1> SUFFICES ASSUME T # {} PROVE FALSE
  OBVIOUS
<1>1. PICK j \in T : \A y \in T : ~(y < j)
  <2>1. T \subseteq Nat
    OBVIOUS
  <2> HIDE DEF T
  <2> QED
    BY <2>1, Least
<1>2. j \in 1 .. Len(lists) /\ j \in 1 .. Len(more) /\ FlatTo(more, j) # FlatTo(lists, j)
  OBVIOUS
<1>3. /\ FlatTo(lists, j) = IF j = 1 THEN lists[j] ELSE FlatTo(lists, j - 1) \o lists[j]
      /\ FlatTo(more, j) = IF j = 1 THEN more[j] ELSE FlatTo(more, j - 1) \o more[j]
  BY <1>2, FlatRounds
<1>4. more[j] = lists[j]
  BY <1>2
<1>5. j # 1
  BY <1>2, <1>3, <1>4
<1>6. j - 1 \in 1 .. Len(lists) /\ j - 1 < j
  BY <1>2, <1>5
<1>7. j - 1 \notin T
  <2> HIDE DEF T
  <2> QED
    BY <1>1, <1>6
<1>8. FlatTo(more, j - 1) = FlatTo(lists, j - 1)
  BY <1>6, <1>7
<1> QED
  BY <1>2, <1>3, <1>4, <1>5, <1>8, Zenon

\* Joining lists one by one.
LEMMA FlatAppend ==
    ASSUME NEW E
    PROVE  /\ FlattenSeq(<<>>) = <<>>
           /\ \A lists \in Seq(Seq(E)) : FlattenSeq(lists) \in Seq(E)
           /\ \A lists \in Seq(Seq(E)), l \in Seq(E) :
                 FlattenSeq(Append(lists, l)) = FlattenSeq(lists) \o l
<1>1. FlattenSeq(<<>>) = <<>>
  BY DEF FlattenSeq
<1>2. ASSUME NEW lists \in Seq(Seq(E)), NEW l \in Seq(E)
      PROVE  FlattenSeq(Append(lists, l)) = FlattenSeq(lists) \o l
  <2> DEFINE more == Append(lists, l)
             m == Len(lists)
  <2>1. /\ m \in Nat /\ Len(more) = m + 1 /\ more[m + 1] = l /\ m + 1 # 0
        /\ \A i \in 1 .. m : more[i] = lists[i]
    OBVIOUS
  <2>2. m = 0 => lists = <<>>
    OBVIOUS
  <2> HIDE DEF more, m
  <2>3. FlattenSeq(more) = FlatTo(more, m + 1)
    BY <2>1, FlatIs
  <2>4. FlatTo(more, m + 1) = IF m = 0 THEN more[m + 1] ELSE FlatTo(more, m) \o more[m + 1]
    <3>1. m + 1 \in 1 .. Len(more) /\ Len(more) \in Nat
      BY <2>1
    <3>2. \A j \in 1 .. Len(more) :
             FlatTo(more, j) = IF j = 1 THEN more[j] ELSE FlatTo(more, j - 1) \o more[j]
      BY <3>1, FlatRounds
    <3>3. PICK j : j = m + 1
      OBVIOUS
    <3>4. j \in 1 .. Len(more) /\ (j = 1 <=> m = 0) /\ j - 1 = m
      BY <2>1, <3>1, <3>3
    <3> QED
      BY <3>2, <3>3, <3>4, Zenon
  <2>5. CASE m = 0
    <3>1. FlattenSeq(more) = l
      BY <2>1, <2>3, <2>4, <2>5, Zenon
    <3>2. FlattenSeq(lists) = <<>>
      BY <1>1, <2>2, <2>5
    <3>3. <<>> \o l = l
      BY Concatenation
    <3> QED
      BY <3>1, <3>2, <3>3 DEF more
  <2>6. CASE m # 0
    <3>1. m \in 1 .. m /\ m <= Len(more) /\ Len(more) \in Nat
      BY <2>1, <2>6
    <3>2. FlattenSeq(more) = FlatTo(more, m) \o l
      BY <2>1, <2>3, <2>4, <2>6, Zenon
    <3>3. FlatTo(more, m) = FlatTo(lists, m)
      BY <2>1, <3>1, FlatSame DEF m
    <3>4. FlattenSeq(lists) = FlatTo(lists, m)
      BY <2>6, FlatIs DEF m
    <3> QED
      BY <3>2, <3>3, <3>4 DEF more
  <2> QED
    BY <2>5, <2>6
<1>3. ASSUME NEW lists \in Seq(Seq(E)) PROVE FlattenSeq(lists) \in Seq(E)
  <2> DEFINE P == {s \in Seq(Seq(E)) : FlattenSeq(s) \in Seq(E)}
  <2>0. <<>> \in Seq(E) /\ <<>> \in Seq(Seq(E))
    BY Concatenation, Zenon
  <2>1. <<>> \in P
    BY <1>1, <2>0, Zenon
  <2>2. ASSUME NEW s \in P \cap Seq(Seq(E)), NEW x \in Seq(E) PROVE Append(s, x) \in P
    <3>1. FlattenSeq(Append(s, x)) = FlattenSeq(s) \o x /\ FlattenSeq(s) \in Seq(E)
      BY <1>2
    <3>2. Append(s, x) \in Seq(Seq(E))
      OBVIOUS
    <3>3. FlattenSeq(s) \o x \in Seq(E)
      BY <3>1, Concatenation, Zenon
    <3> QED
      BY <3>1, <3>2, <3>3
  <2> HIDE DEF P
  <2>3. Seq(Seq(E)) \subseteq P
    BY <2>1, <2>2, SeqInduction
  <2> QED
    BY <2>3 DEF P
<1> QED
  BY <1>1, <1>2, <1>3

-----------------------------------------------------------------------------
(* What is said of a file, and what is said once.                          *)

Hits == [kind : {"definition", "reference", "file"}, path : Files, start : Nat, end : Nat]

LEMMA SameSeq ==
    ASSUME NEW E, NEW s \in Seq(E), NEW t \in Seq(E), Len(s) = Len(t),
           \A k \in 1 .. Len(s) : s[k] = t[k]
    PROVE  s = t
OBVIOUS

LEMMA Concatenated ==
    ASSUME NEW E, NEW s \in Seq(E), NEW d \in Seq(E)
    PROVE  /\ s \o d \in Seq(E) /\ Len(s \o d) = Len(s) + Len(d)
           /\ \A k \in 1 .. Len(s) : (s \o d)[k] = s[k]
           /\ \A k \in 1 .. Len(d) : (s \o d)[Len(s) + k] = d[k]
           /\ \A k \in 1 .. Len(s \o d) : \/ k \in 1 .. Len(s)
                                          \/ \E l \in 1 .. Len(d) : k = Len(s) + l
<1>1. s \o d \in Seq(E) /\ Len(s \o d) = Len(s) + Len(d)
  OBVIOUS
<1>2. \A k \in 1 .. Len(s) : (s \o d)[k] = s[k]
  OBVIOUS
<1>3. \A k \in 1 .. Len(d) : (s \o d)[Len(s) + k] = d[k]
  OBVIOUS
<1>4. ASSUME NEW k \in 1 .. Len(s \o d), k \notin 1 .. Len(s)
      PROVE  k - Len(s) \in 1 .. Len(d) /\ k = Len(s) + (k - Len(s))
  BY <1>1, <1>4
<1> QED
  BY <1>1, <1>2, <1>3, <1>4

LEMMA SetPrefix ==
    ASSUME NEW E, NEW s \in Seq(E), NEW t \in Seq(E)
    PROVE  IsPrefix(s, t) <=> \E u \in Seq(E) : t = s \o u
<1>1. ASSUME IsPrefix(s, t) PROVE \E u \in Seq(E) : t = s \o u
  <2>1. Len(s) <= Len(t) /\ SubSeq(s, 1, Len(s)) = SubSeq(t, 1, Len(s))
    BY <1>1 DEF IsPrefix
  <2>2. \A k \in 1 .. Len(s) : SubSeq(s, 1, Len(s))[k] = s[k] /\ SubSeq(t, 1, Len(s))[k] = t[k]
    BY <2>1
  <2>3. \A k \in 1 .. Len(s) : s[k] = t[k]
    BY <2>1, <2>2
  <2> DEFINE u == SubSeq(t, Len(s) + 1, Len(t))
  <2>4. u \in Seq(E) /\ Len(u) = Len(t) - Len(s) /\ \A k \in 1 .. Len(u) : u[k] = t[Len(s) + k]
    BY <2>1
  <2> HIDE DEF u
  <2> DEFINE v == s \o u
  <2>5. v \in Seq(E) /\ Len(v) = Len(t) /\ \A k \in 1 .. Len(t) : v[k] = t[k]
    BY <2>1, <2>3, <2>4
  <2> HIDE DEF v
  <2>7. t = v
    BY <2>5, SameSeq
  <2> QED
    BY <2>4, <2>7 DEF v
<1>2. ASSUME NEW u \in Seq(E), t = s \o u PROVE IsPrefix(s, t)
  <2>1. Len(s) <= Len(t) /\ \A k \in 1 .. Len(s) : s[k] = t[k]
    BY <1>2
  <2> DEFINE v == SubSeq(s, 1, Len(s))
             w == SubSeq(t, 1, Len(s))
  <2>2. v \in Seq(E) /\ Len(v) = Len(s) /\ \A k \in 1 .. Len(s) : v[k] = s[k]
    OBVIOUS
  <2>3. w \in Seq(E) /\ Len(w) = Len(s) /\ \A k \in 1 .. Len(s) : w[k] = t[k]
    BY <2>1
  <2> HIDE DEF v, w
  <2>4. v = w
    BY <2>1, <2>2, <2>3, SMTT(30)
  <2> QED
    BY <2>1, <2>4 DEF IsPrefix, v, w
<1> QED
  BY <1>1, <1>2

LEMMA PrefixFacts ==
    ASSUME NEW E
    PROVE  /\ \A s \in Seq(E) : IsPrefix(<<>>, s) /\ IsPrefix(s, s)
           /\ \A s, t, u \in Seq(E) : IsPrefix(s, t) /\ IsPrefix(t, u) => IsPrefix(s, u)
           /\ \A s, u \in Seq(E) : IsPrefix(s, s \o u)
<1>1. \A s \in Seq(E) : IsPrefix(<<>>, s) /\ IsPrefix(s, s)
  BY SetPrefix, Concatenation
<1>2. ASSUME NEW s \in Seq(E), NEW t \in Seq(E), NEW u \in Seq(E), IsPrefix(s, t), IsPrefix(t, u)
      PROVE  IsPrefix(s, u)
  <2>1. PICK a \in Seq(E) : t = s \o a
    BY <1>2, SetPrefix
  <2>2. PICK b \in Seq(E) : u = t \o b
    BY <1>2, SetPrefix
  <2>3. u = s \o (a \o b) /\ a \o b \in Seq(E)
    BY <2>1, <2>2, Concatenation, SMTT(30)
  <2> QED
    BY <2>3, SetPrefix
<1>3. ASSUME NEW s \in Seq(E), NEW u \in Seq(E) PROVE IsPrefix(s, s \o u)
  <2>1. s \o u \in Seq(E)
    BY Concatenation, Zenon
  <2> QED
    BY <2>1, SetPrefix
<1> QED
  BY <1>1, <1>2, <1>3

LEMMA Beginning ==
    ASSUME NEW E, NEW s \in Seq(E), NEW m \in 0 .. Len(s)
    PROVE  /\ SubSeq(s, 1, m) \in Seq(E) /\ IsPrefix(SubSeq(s, 1, m), s)
           /\ Len(SubSeq(s, 1, m)) = m /\ \A k \in 1 .. m : SubSeq(s, 1, m)[k] = s[k]
           /\ m = Len(s) => SubSeq(s, 1, m) = s
<1> DEFINE a == SubSeq(s, 1, m)
           b == SubSeq(s, m + 1, Len(s))
<1>1. a \in Seq(E) /\ Len(a) = m /\ \A k \in 1 .. m : a[k] = s[k]
  OBVIOUS
<1>2. b \in Seq(E) /\ Len(b) = Len(s) - m /\ \A k \in 1 .. Len(b) : b[k] = s[m + k]
  OBVIOUS
<1> HIDE DEF a, b
<1> DEFINE c == a \o b
<1>0. Len(s) \in Nat /\ m \in Nat /\ m <= Len(s)
  OBVIOUS
<1>3. c \in Seq(E) /\ Len(c) = Len(s) /\ \A k \in 1 .. Len(s) : c[k] = s[k]
  <2>1. /\ c \in Seq(E) /\ Len(c) = Len(a) + Len(b)
        /\ \A k \in 1 .. Len(a) : c[k] = a[k]
        /\ \A k \in 1 .. Len(b) : c[Len(a) + k] = b[k]
    <3>1. a \in Seq(E) /\ b \in Seq(E)
      BY <1>1, <1>2
    <3> QED
      BY <3>1, Concatenated
  <2> HIDE DEF c
  <2>2. ASSUME NEW k \in 1 .. Len(s) PROVE c[k] = s[k]
    <3>1. CASE k <= m
      BY <1>0, <1>1, <2>1, <3>1
    <3>2. CASE k > m
      <4>1. PICK l : l = k - m
        OBVIOUS
      <4>2. l \in 1 .. Len(b) /\ k = m + l
        BY <1>0, <1>2, <3>2, <4>1
      <4> QED
        BY <1>1, <1>2, <2>1, <4>2
    <3> QED
      BY <1>0, <3>1, <3>2
  <2> QED
    BY <1>0, <1>1, <1>2, <2>1, <2>2
<1> HIDE DEF c
<1>4. s = a \o b
  BY <1>3, SameSeq DEF c
<1>5. IsPrefix(a, s)
  BY <1>1, <1>2, <1>4, SetPrefix
<1>6. m = Len(s) => a = s
  BY <1>1, SameSeq
<1> QED
  BY <1>1, <1>5, <1>6 DEF a

PartsAbout(list, f) == [k \in DOMAIN list |-> IF list[k].path = f THEN <<list[k]>> ELSE <<>>]

LEMMA AboutAppend ==
    ASSUME NEW f
    PROVE  /\ About(<<>>, f) = <<>>
           /\ \A s \in Seq(Hits) : About(s, f) \in Seq(Hits)
           /\ \A s \in Seq(Hits), x \in Hits :
                 About(Append(s, x), f) = IF x.path = f THEN Append(About(s, f), x) ELSE About(s, f)
<1> HIDE DEF Hits
<1>0. \A s : About(s, f) = FlattenSeq(PartsAbout(s, f))
  BY DEF About, PartsAbout
<1>9. ASSUME NEW s \in Seq(Hits)
      PROVE  /\ PartsAbout(s, f) \in Seq(Seq(Hits)) /\ Len(PartsAbout(s, f)) = Len(s)
             /\ \A k \in 1 .. Len(s) :
                   PartsAbout(s, f)[k] = IF s[k].path = f THEN <<s[k]>> ELSE <<>>
  <2> DEFINE p == [k \in 1 .. Len(s) |-> IF s[k].path = f THEN <<s[k]>> ELSE <<>>]
  <2>1. PartsAbout(s, f) = p
    BY DEF PartsAbout
  <2>2. \A k \in 1 .. Len(s) : s[k] \in Hits
    OBVIOUS
  <2>3. \A k \in 1 .. Len(s) : (IF s[k].path = f THEN <<s[k]>> ELSE <<>>) \in Seq(Hits)
    BY <2>2, Concatenation
  <2>4. p \in Seq(Seq(Hits)) /\ Len(p) = Len(s)
    BY <2>3
  <2> QED
    BY <2>1, <2>4
<1>1. About(<<>>, f) = <<>>
  <2>1. PartsAbout(<<>>, f) = <<>>
    <3>1. <<>> \in Seq(Hits) /\ Len(<<>>) = 0
      OBVIOUS
    <3>2. PartsAbout(<<>>, f) \in Seq(Seq(Hits)) /\ Len(PartsAbout(<<>>, f)) = 0
      BY <1>9, <3>1
    <3> QED
      BY <3>2
  <2> QED
    BY <1>0, <2>1, FlatAppend
<1>2. ASSUME NEW s \in Seq(Hits) PROVE About(s, f) \in Seq(Hits)
  BY <1>0, <1>9, FlatAppend
<1>3. ASSUME NEW s \in Seq(Hits), NEW x \in Hits
      PROVE  About(Append(s, x), f) = IF x.path = f THEN Append(About(s, f), x) ELSE About(s, f)
  <2> DEFINE t == Append(s, x)
             a == PartsAbout(t, f)
             b == PartsAbout(s, f)
             l == IF x.path = f THEN <<x>> ELSE <<>>
  <2>1. t \in Seq(Hits) /\ Len(t) = Len(s) + 1 /\ t[Len(s) + 1] = x /\ \A k \in 1 .. Len(s) : t[k] = s[k]
    OBVIOUS
  <2> HIDE DEF t
  <2>2. /\ a \in Seq(Seq(Hits)) /\ Len(a) = Len(t) /\ b \in Seq(Seq(Hits)) /\ Len(b) = Len(s)
        /\ \A k \in 1 .. Len(t) : a[k] = IF t[k].path = f THEN <<t[k]>> ELSE <<>>
        /\ \A k \in 1 .. Len(s) : b[k] = IF s[k].path = f THEN <<s[k]>> ELSE <<>>
    BY <1>9, <2>1
  <2>8. Len(s) \in Nat
    OBVIOUS
  <2>9. \A k \in 1 .. Len(s) : k \in 1 .. Len(t)
    BY <2>1, <2>8
  <2>3. \A k \in 1 .. Len(b) : a[k] = b[k]
    BY <2>1, <2>2, <2>9, Zenon
  <2>4. a[Len(b) + 1] = l
    BY <2>1, <2>2, <2>8
  <2> HIDE DEF a, b, l
  <2>5. a = Append(b, l) /\ l \in Seq(Hits)
    BY <2>1, <2>2, <2>3, <2>4, Extended
  <2>6. FlattenSeq(a) = FlattenSeq(b) \o l /\ FlattenSeq(b) \in Seq(Hits)
    BY <2>2, <2>5, FlatAppend
  <2>7. About(t, f) = About(s, f) \o l /\ About(s, f) \in Seq(Hits)
    BY <1>0, <2>6 DEF a, b
  <2> QED
    BY <2>7, Concatenation DEF t, l
<1> QED
  BY <1>1, <1>2, <1>3

\* What two lists say is what the first says and then what the second says.
LEMMA AboutBoth ==
    ASSUME NEW f, NEW s \in Seq(Hits)
    PROVE  \A t \in Seq(Hits) : About(s \o t, f) = About(s, f) \o About(t, f)
<1> HIDE DEF Hits
<1> DEFINE P == {t \in Seq(Hits) : About(s \o t, f) = About(s, f) \o About(t, f)}
<1>1. <<>> \in P
  <2>1. s \o <<>> = s /\ About(s, f) \o <<>> = About(s, f) /\ <<>> \in Seq(Hits)
    BY AboutAppend, Concatenation
  <2> QED
    BY <2>1, AboutAppend
<1>2. ASSUME NEW t \in P \cap Seq(Hits), NEW x \in Hits PROVE Append(t, x) \in P
  <2>1. /\ s \o Append(t, x) = Append(s \o t, x) /\ s \o t \in Seq(Hits) /\ Append(t, x) \in Seq(Hits)
    BY Concatenation
  <2>2. About(s \o t, f) = About(s, f) \o About(t, f)
    OBVIOUS
  <2>3. /\ About(Append(s \o t, x), f)
              = IF x.path = f THEN Append(About(s \o t, f), x) ELSE About(s \o t, f)
        /\ About(Append(t, x), f) = IF x.path = f THEN Append(About(t, f), x) ELSE About(t, f)
        /\ About(s, f) \in Seq(Hits) /\ About(t, f) \in Seq(Hits)
    BY <2>1, AboutAppend
  <2>4. About(s, f) \o Append(About(t, f), x) = Append(About(s, f) \o About(t, f), x)
    BY <2>3, Concatenation, SMTT(30)
  <2>5. About(s \o Append(t, x), f) = About(s, f) \o About(Append(t, x), f)
    BY <2>1, <2>2, <2>3, <2>4
  <2> QED
    BY <2>1, <2>5
<1> HIDE DEF P
<1>3. Seq(Hits) \subseteq P
  BY <1>1, <1>2, SeqInduction
<1> QED
  BY <1>3 DEF P

Paths(s) == {s[k].path : k \in 1 .. Len(s)}

LEMMA PathsAppend ==
    ASSUME NEW s \in Seq(Hits), NEW x \in Hits
    PROVE  Paths(Append(s, x)) = Paths(s) \cup {x.path}
<1> HIDE DEF Hits
<1> DEFINE t == Append(s, x)
<1>1. /\ Len(t) = Len(s) + 1 /\ Len(s) \in Nat /\ t[Len(s) + 1] = x
      /\ \A k \in 1 .. Len(s) : t[k] = s[k]
  OBVIOUS
<1> HIDE DEF t
<1>2. ASSUME NEW k \in 1 .. Len(t) PROVE t[k].path \in Paths(s) \cup {x.path}
  <2>1. k = Len(s) + 1 \/ k \in 1 .. Len(s)
    BY <1>1
  <2> QED
    BY <1>1, <2>1 DEF Paths
<1>3. ASSUME NEW k \in 1 .. Len(s) PROVE s[k].path \in Paths(t)
  <2>1. k \in 1 .. Len(t) /\ t[k] = s[k]
    BY <1>1
  <2> QED
    BY <2>1 DEF Paths
<1>4. x.path \in Paths(t)
  <2>1. Len(s) + 1 \in 1 .. Len(t)
    BY <1>1
  <2> QED
    BY <1>1, <2>1 DEF Paths
<1> QED
  BY <1>2, <1>3, <1>4 DEF Paths, t

\* A list that names no other file says what it says of that file, and nothing of others.
LEMMA AboutOne ==
    ASSUME NEW f
    PROVE  /\ \A s \in Seq(Hits) : Paths(s) \subseteq {f} => About(s, f) = s
           /\ \A s \in Seq(Hits) : f \notin Paths(s) <=> About(s, f) = <<>>
<1> HIDE DEF Hits
<1> DEFINE P == {s \in Seq(Hits) : Paths(s) \subseteq {f} => About(s, f) = s}
           N == {s \in Seq(Hits) : f \notin Paths(s) <=> About(s, f) = <<>>}
<1>1. <<>> \in P /\ <<>> \in N
  <2>1. <<>> \in Seq(Hits) /\ Paths(<<>>) = {}
    BY DEF Paths
  <2> QED
    BY <2>1, AboutAppend
<1>2. ASSUME NEW s \in P \cap Seq(Hits), NEW x \in Hits PROVE Append(s, x) \in P
  <2>1. Paths(Append(s, x)) = Paths(s) \cup {x.path} /\ Append(s, x) \in Seq(Hits)
    BY PathsAppend, Concatenation
  <2>2. About(Append(s, x), f) = IF x.path = f THEN Append(About(s, f), x) ELSE About(s, f)
    BY AboutAppend
  <2> QED
    BY <2>1, <2>2
<1>3. ASSUME NEW s \in N \cap Seq(Hits), NEW x \in Hits PROVE Append(s, x) \in N
  <2>1. Paths(Append(s, x)) = Paths(s) \cup {x.path} /\ Append(s, x) \in Seq(Hits)
    BY PathsAppend, Concatenation
  <2>2. About(Append(s, x), f) = IF x.path = f THEN Append(About(s, f), x) ELSE About(s, f)
    BY AboutAppend
  <2>3. Append(About(s, f), x) # <<>>
    <3>1. About(s, f) \in Seq(Hits)
      BY AboutAppend
    <3>2. \A a \in Seq(Hits) : Append(a, x) # <<>>
      <4>1. \A a \in Seq(Hits) : Len(Append(a, x)) = Len(a) + 1 /\ Len(a) \in Nat
        OBVIOUS
      <4> QED
        BY <4>1
    <3> QED
      BY <3>1, <3>2
  <2> QED
    BY <2>1, <2>2, <2>3
<1> HIDE DEF P, N
<1>4. Seq(Hits) \subseteq P
  BY <1>1, <1>2, SeqInduction
<1>5. Seq(Hits) \subseteq N
  BY <1>1, <1>3, SeqInduction
<1> QED
  BY <1>4, <1>5 DEF P, N

LEMMA ContainsMore ==
    ASSUME NEW E
    PROVE  /\ \A y : ~Contains(<<>>, y)
           /\ \A s \in Seq(E), x \in E : \A y : Contains(Append(s, x), y) <=> Contains(s, y) \/ y = x
           /\ \A s, t \in Seq(E) : \A y : Contains(s \o t, y) <=> Contains(s, y) \/ Contains(t, y)
<1>1. \A y : ~Contains(<<>>, y)
  BY DEF Contains
<1>2. ASSUME NEW s \in Seq(E), NEW x \in E, NEW y
      PROVE  Contains(Append(s, x), y) <=> Contains(s, y) \/ y = x
  <2> DEFINE t == Append(s, x)
  <2>1. /\ Len(t) = Len(s) + 1 /\ Len(s) \in Nat /\ t[Len(s) + 1] = x
        /\ \A k \in 1 .. Len(s) : t[k] = s[k]
    OBVIOUS
  <2> HIDE DEF t
  <2>2. \A k \in 1 .. Len(t) : k \in 1 .. Len(s) \/ k = Len(s) + 1
    BY <2>1
  <2>3. \A k \in 1 .. Len(s) : k \in 1 .. Len(t)
    BY <2>1
  <2>4. Len(s) + 1 \in 1 .. Len(t)
    BY <2>1
  <2>5. Contains(t, y) <=> Contains(s, y) \/ y = x
    BY <2>1, <2>2, <2>3, <2>4 DEF Contains
  <2> QED
    BY <2>5 DEF t
<1>3. ASSUME NEW s \in Seq(E), NEW t \in Seq(E), NEW y
      PROVE  Contains(s \o t, y) <=> Contains(s, y) \/ Contains(t, y)
  <2> DEFINE u == s \o t
  <2>1. /\ Len(u) = Len(s) + Len(t)
        /\ \A k \in 1 .. Len(s) : u[k] = s[k]
        /\ \A k \in 1 .. Len(t) : u[Len(s) + k] = t[k]
        /\ \A k \in 1 .. Len(u) : k \in 1 .. Len(s) \/ \E l \in 1 .. Len(t) : k = Len(s) + l
    BY Concatenated
  <2>2. Len(s) \in Nat /\ Len(t) \in Nat
    OBVIOUS
  <2> HIDE DEF u
  <2>3. \A k \in 1 .. Len(s) : k \in 1 .. Len(u)
    BY <2>1, <2>2
  <2>4. \A k \in 1 .. Len(t) : Len(s) + k \in 1 .. Len(u)
    BY <2>1, <2>2
  <2>5. Contains(u, y) => Contains(s, y) \/ Contains(t, y)
    BY <2>1 DEF Contains
  <2>6. Contains(s, y) => Contains(u, y)
    BY <2>1, <2>3 DEF Contains
  <2>7. Contains(t, y) => Contains(u, y)
    BY <2>1, <2>4 DEF Contains
  <2> QED
    BY <2>5, <2>6, <2>7 DEF u
<1> QED
  BY <1>1, <1>2, <1>3

LEMMA InjectiveMore ==
    ASSUME NEW E, NEW s \in Seq(E), NEW x \in E
    PROVE  IsInjective(Append(s, x)) <=> IsInjective(s) /\ ~Contains(s, x)
<1> DEFINE t == Append(s, x)
           m == Len(s)
<1>1. /\ Len(t) = m + 1 /\ m \in Nat /\ t[m + 1] = x /\ DOMAIN t = 1 .. m + 1 /\ DOMAIN s = 1 .. m
      /\ \A k \in 1 .. m : t[k] = s[k]
  OBVIOUS
<1> HIDE DEF t, m
<1>2. \A k \in 1 .. m + 1 : k \in 1 .. m \/ k = m + 1
  BY <1>1
<1>3. \A k \in 1 .. m : k \in 1 .. m + 1 /\ k # m + 1
  BY <1>1
<1>4. m + 1 \in 1 .. m + 1
  BY <1>1
<1>5. IsInjective(t) <=> \A a, b \in 1 .. m + 1 : t[a] = t[b] => a = b
  BY <1>1 DEF IsInjective
<1>6. IsInjective(s) <=> \A a, b \in 1 .. m : s[a] = s[b] => a = b
  BY <1>1 DEF IsInjective
<1>7. Contains(s, x) <=> \E k \in 1 .. m : s[k] = x
  BY DEF Contains, m
<1>8. ASSUME IsInjective(t) PROVE IsInjective(s) /\ ~Contains(s, x)
  BY <1>1, <1>3, <1>4, <1>5, <1>6, <1>7, <1>8
<1>9. ASSUME IsInjective(s), ~Contains(s, x), NEW a \in 1 .. m + 1, NEW b \in 1 .. m + 1, t[a] = t[b]
      PROVE  a = b
  BY <1>1, <1>2, <1>6, <1>7, <1>9
<1> QED
  BY <1>5, <1>8, <1>9 DEF t

PartsDistinct(list) ==
    [k \in DOMAIN list |-> IF \E j \in 1 .. k - 1 : list[j] = list[k] THEN <<>> ELSE <<list[k]>>]

LEMMA DistinctAppend ==
    /\ Distinct(<<>>) = <<>>
    /\ \A s \in Seq(Hits) : Distinct(s) \in Seq(Hits)
    /\ \A s \in Seq(Hits), x \in Hits :
          Distinct(Append(s, x)) = IF Contains(s, x) THEN Distinct(s) ELSE Append(Distinct(s), x)
<1> HIDE DEF Hits
<1>0. \A s : Distinct(s) = FlattenSeq(PartsDistinct(s))
  BY DEF Distinct, PartsDistinct
<1>9. ASSUME NEW s \in Seq(Hits)
      PROVE  /\ PartsDistinct(s) \in Seq(Seq(Hits)) /\ Len(PartsDistinct(s)) = Len(s)
             /\ \A k \in 1 .. Len(s) :
                   PartsDistinct(s)[k] = IF \E j \in 1 .. k - 1 : s[j] = s[k] THEN <<>> ELSE <<s[k]>>
  <2> DEFINE p == [k \in 1 .. Len(s) |-> IF \E j \in 1 .. k - 1 : s[j] = s[k] THEN <<>> ELSE <<s[k]>>]
  <2>1. PartsDistinct(s) = p
    BY DEF PartsDistinct
  <2>2. \A k \in 1 .. Len(s) : s[k] \in Hits
    OBVIOUS
  <2>3. \A k \in 1 .. Len(s) :
           (IF \E j \in 1 .. k - 1 : s[j] = s[k] THEN <<>> ELSE <<s[k]>>) \in Seq(Hits)
    BY <2>2, Concatenation
  <2>4. p \in Seq(Seq(Hits)) /\ Len(p) = Len(s)
    BY <2>3
  <2> QED
    BY <2>1, <2>4
<1>1. Distinct(<<>>) = <<>>
  <2>1. PartsDistinct(<<>>) = <<>>
    <3>1. <<>> \in Seq(Hits) /\ Len(<<>>) = 0
      OBVIOUS
    <3>2. PartsDistinct(<<>>) \in Seq(Seq(Hits)) /\ Len(PartsDistinct(<<>>)) = 0
      BY <1>9, <3>1
    <3> QED
      BY <3>2
  <2> QED
    BY <1>0, <2>1, FlatAppend
<1>2. ASSUME NEW s \in Seq(Hits) PROVE Distinct(s) \in Seq(Hits)
  BY <1>0, <1>9, FlatAppend
<1>3. ASSUME NEW s \in Seq(Hits), NEW x \in Hits
      PROVE  Distinct(Append(s, x)) = IF Contains(s, x) THEN Distinct(s) ELSE Append(Distinct(s), x)
  <2> DEFINE t == Append(s, x)
             m == Len(s)
             a == PartsDistinct(t)
             b == PartsDistinct(s)
             l == IF Contains(s, x) THEN <<>> ELSE <<x>>
  <2>1. t \in Seq(Hits) /\ Len(t) = m + 1 /\ t[m + 1] = x /\ \A k \in 1 .. m : t[k] = s[k]
    OBVIOUS
  <2> HIDE DEF t
  <2>2. /\ a \in Seq(Seq(Hits)) /\ Len(a) = Len(t) /\ b \in Seq(Seq(Hits)) /\ Len(b) = m
        /\ \A k \in 1 .. Len(t) :
              a[k] = IF \E j \in 1 .. k - 1 : t[j] = t[k] THEN <<>> ELSE <<t[k]>>
        /\ \A k \in 1 .. m : b[k] = IF \E j \in 1 .. k - 1 : s[j] = s[k] THEN <<>> ELSE <<s[k]>>
    BY <1>9, <2>1
  <2>8. m \in Nat
    OBVIOUS
  <2>11. l \in Seq(Hits)
    BY Concatenation
  <2>12. Contains(s, x) <=> \E j \in 1 .. m : s[j] = x
    BY DEF Contains
  <2> HIDE DEF a, b, m
  <2>9. \A k \in 1 .. m : k \in 1 .. Len(t) /\ \A j \in 1 .. k - 1 : j \in 1 .. m
    BY <2>1, <2>8
  <2>3. ASSUME NEW k \in 1 .. m PROVE a[k] = b[k]
    <3>1. (\E j \in 1 .. k - 1 : t[j] = t[k]) <=> \E j \in 1 .. k - 1 : s[j] = s[k]
      BY <2>1, <2>9
    <3>2. t[k] = s[k] /\ k \in 1 .. Len(t)
      BY <2>1, <2>9
    <3> QED
      BY <2>2, <3>1, <3>2, Zenon
  <2>4. a[m + 1] = l
    <3>1. m + 1 \in 1 .. Len(t) /\ m + 1 - 1 = m
      BY <2>1, <2>8
    <3>2. (\E j \in 1 .. m : t[j] = x) <=> \E j \in 1 .. m : s[j] = x
      BY <2>1
    <3>3. a[m + 1] = IF \E j \in 1 .. m : t[j] = x THEN <<>> ELSE <<x>>
      <4>1. PICK k : k = m + 1
        OBVIOUS
      <4>5. k \in 1 .. Len(t) /\ t[k] = x
        BY <2>1, <3>1, <4>1, Zenon
      <4>6. k - 1 = m
        BY <2>8, <4>1
      <4>2. k \in 1 .. Len(t) /\ k - 1 = m /\ t[k] = x
        BY <4>5, <4>6
      <4>3. a[k] = IF \E j \in 1 .. k - 1 : t[j] = t[k] THEN <<>> ELSE <<t[k]>>
        BY <2>2, <4>2
      <4>4. a[k] = IF \E j \in 1 .. m : t[j] = x THEN <<>> ELSE <<x>>
        BY <4>2, <4>3, Zenon
      <4> QED
        BY <4>1, <4>4, Zenon
    <3> QED
      BY <2>12, <3>2, <3>3, Zenon
  <2> HIDE DEF l
  <2>5. a = Append(b, l)
    BY <2>1, <2>2, <2>3, <2>4, Extended
  <2>6. FlattenSeq(a) = FlattenSeq(b) \o l /\ FlattenSeq(b) \in Seq(Hits)
    BY <2>2, <2>5, <2>11, FlatAppend
  <2>7. Distinct(t) = Distinct(s) \o l /\ Distinct(s) \in Seq(Hits)
    BY <1>0, <2>6 DEF a, b
  <2> QED
    BY <2>7, Concatenation DEF t, l
<1> QED
  BY <1>1, <1>2, <1>3

\* Each is kept once.
LEMMA DistinctFacts ==
    ASSUME NEW s \in Seq(Hits)
    PROVE  /\ Distinct(s) \in Seq(Hits) /\ IsInjective(Distinct(s))
           /\ \A y : Contains(Distinct(s), y) <=> Contains(s, y)
           /\ IsInjective(s) => Distinct(s) = s
<1> HIDE DEF Hits
<1> DEFINE P == {t \in Seq(Hits) : /\ IsInjective(Distinct(t))
                                   /\ \A y : Contains(Distinct(t), y) <=> Contains(t, y)
                                   /\ IsInjective(t) => Distinct(t) = t}
<1>1. <<>> \in P
  <2>1. <<>> \in Seq(Hits) /\ IsInjective(<<>>) /\ Distinct(<<>>) = <<>>
    BY DistinctAppend DEF IsInjective
  <2> QED
    BY <2>1
<1>2. ASSUME NEW t \in P \cap Seq(Hits), NEW x \in Hits PROVE Append(t, x) \in P
  <2> DEFINE u == Append(t, x)
             d == Distinct(t)
  <2>1. u \in Seq(Hits) /\ d \in Seq(Hits)
    BY DistinctAppend, Concatenation
  <2>2. Distinct(u) = IF Contains(t, x) THEN d ELSE Append(d, x)
    BY DistinctAppend
  <2>3. IsInjective(d) /\ (\A y : Contains(d, y) <=> Contains(t, y)) /\ (IsInjective(t) => d = t)
    OBVIOUS
  <2>4. /\ IsInjective(u) <=> IsInjective(t) /\ ~Contains(t, x)
        /\ \A y : Contains(u, y) <=> Contains(t, y) \/ y = x
    BY InjectiveMore, ContainsMore
  <2>5. /\ IsInjective(Append(d, x)) <=> IsInjective(d) /\ ~Contains(d, x)
        /\ \A y : Contains(Append(d, x), y) <=> Contains(d, y) \/ y = x
    <3> HIDE DEF d
    <3> QED
      BY <2>1, InjectiveMore, ContainsMore
  <2>6. IsInjective(u) => Distinct(u) = u
    BY <2>2, <2>3, <2>4
  <2>7. CASE Contains(t, x)
    <3>1. \A y : Contains(u, y) <=> Contains(t, y)
      BY <2>4, <2>7
    <3>2. Distinct(u) = d
      BY <2>2, <2>7
    <3> QED
      BY <2>1, <2>3, <2>6, <3>1, <3>2
  <2>8. CASE ~Contains(t, x)
    <3>1. Distinct(u) = Append(d, x)
      BY <2>2, <2>8
    <3>2. IsInjective(Append(d, x))
      BY <2>3, <2>5, <2>8
    <3>3. \A y : Contains(Append(d, x), y) <=> Contains(u, y)
      BY <2>3, <2>4, <2>5
    <3> QED
      BY <2>1, <2>6, <3>1, <3>2, <3>3
  <2> QED
    BY <2>7, <2>8
<1> HIDE DEF P
<1>3. Seq(Hits) \subseteq P
  BY <1>1, <1>2, SeqInduction
<1> QED
  BY <1>3, DistinctAppend DEF P

-----------------------------------------------------------------------------
(* Candidates are kept once each, up to one beyond the limit.              *)

Full(list) == opts.limit > 0 /\ Len(list) > opts.limit
Cut(s) == IF opts.limit > 0 /\ Len(s) > opts.limit + 1 THEN SubSeq(s, 1, opts.limit + 1) ELSE s
Fitting(list) == opts.limit > 0 => Len(list) <= opts.limit + 1

LEMMA CutFacts ==
    ASSUME NEW E, opts.limit \in Nat, NEW s \in Seq(E)
    PROVE  /\ Cut(s) \in Seq(E) /\ IsPrefix(Cut(s), s) /\ Fitting(Cut(s))
           /\ ~Full(Cut(s)) => Cut(s) = s
           /\ Fitting(s) => Cut(s) = s
           /\ Len(Cut(s)) = IF opts.limit > 0 /\ Len(s) > opts.limit + 1 THEN opts.limit + 1 ELSE Len(s)
<1> DEFINE l == opts.limit
<1>1. CASE l > 0 /\ Len(s) > l + 1
  <2> DEFINE c == SubSeq(s, 1, l + 1)
             m == l + 1
  <2>1. Cut(s) = c /\ l \in Nat /\ m \in 0 .. Len(s)
    BY <1>1 DEF Cut
  <2> HIDE DEF m
  <2>2. SubSeq(s, 1, m) \in Seq(E) /\ IsPrefix(SubSeq(s, 1, m), s) /\ Len(SubSeq(s, 1, m)) = m
    BY <2>1, Beginning
  <2>3. c \in Seq(E) /\ IsPrefix(c, s) /\ Len(c) = l + 1
    BY <2>2 DEF m
  <2> HIDE DEF c
  <2>4. Full(c) /\ Fitting(c) /\ ~Fitting(s)
    <3>1. l \in Nat /\ Len(s) \in Nat
      OBVIOUS
    <3> QED
      BY <1>1, <2>3, <3>1 DEF Full, Fitting
  <2>5. Len(c) = IF opts.limit > 0 /\ Len(s) > opts.limit + 1 THEN opts.limit + 1 ELSE Len(s)
    BY <1>1, <2>3, Zenon
  <2> QED
    BY <2>1, <2>3, <2>4, <2>5
<1>2. CASE ~(l > 0 /\ Len(s) > l + 1)
  <2>1. Cut(s) = s
    BY <1>2, Zenon DEF Cut
  <2>2. IsPrefix(s, s)
    BY PrefixFacts
  <2>3. Fitting(s)
    <3>1. l \in Nat /\ Len(s) \in Nat
      OBVIOUS
    <3> QED
      BY <1>2, <3>1 DEF Fitting
  <2>4. Len(s) = IF opts.limit > 0 /\ Len(s) > opts.limit + 1 THEN opts.limit + 1 ELSE Len(s)
    BY <1>2, Zenon
  <2> QED
    BY <2>1, <2>2, <2>3, <2>4
<1> QED
  BY <1>1, <1>2

\* What is cut off stays cut off.
LEMMA CutMore ==
    ASSUME NEW E, opts.limit \in Nat, NEW s \in Seq(E), NEW u \in Seq(E)
    PROVE  /\ Full(Cut(s)) => Cut(s \o u) = Cut(s)
           /\ Cut(Cut(s) \o u) = Cut(s \o u)
<1> DEFINE l == opts.limit
           t == s \o u
<1>1. /\ t \in Seq(E) /\ Len(t) = Len(s) + Len(u)
      /\ \A k \in 1 .. Len(s) : t[k] = s[k]
  BY Concatenated
<1>2. Len(s) \in Nat /\ Len(u) \in Nat /\ l \in Nat
  OBVIOUS
<1> HIDE DEF t
<1>3. ASSUME Full(Cut(s)) PROVE Cut(t) = Cut(s)
  <2>1. l > 0 /\ Len(Cut(s)) = l + 1 /\ l + 1 <= Len(s) /\ l + 1 <= Len(t)
    <3>1. Len(Cut(s)) = IF l > 0 /\ Len(s) > l + 1 THEN l + 1 ELSE Len(s)
      BY CutFacts
    <3>2. l > 0 /\ Len(Cut(s)) > l
      BY <1>3 DEF Full
    <3> QED
      BY <1>1, <1>2, <3>1, <3>2
  <2> DEFINE m == l + 1
             c == SubSeq(s, 1, m)
             d == SubSeq(t, 1, m)
  <2>2. m \in 0 .. Len(s) /\ m \in 0 .. Len(t) /\ \A k \in 1 .. m : k \in 1 .. Len(s)
    BY <1>2, <1>1, <2>1
  <2>3. Cut(s) = c /\ Cut(t) = d
    <3> HIDE DEF m
    <3>1. /\ m = Len(s) => SubSeq(s, 1, m) = s
          /\ m = Len(t) => SubSeq(t, 1, m) = t
      BY <1>1, <2>2, Beginning
    <3>2. Len(s) = m \/ Len(s) > m
      BY <1>2, <2>2
    <3>3. Len(t) = m \/ Len(t) > m
      BY <1>1, <1>2, <2>2
    <3>4. /\ Cut(s) = IF l > 0 /\ Len(s) > m THEN c ELSE s
          /\ Cut(t) = IF l > 0 /\ Len(t) > m THEN d ELSE t
      BY DEF Cut, m
    <3>5. l > 0
      BY <2>1
    <3> HIDE DEF l, c, d
    <3> QED
      BY <3>1, <3>2, <3>3, <3>4, <3>5 DEF c, d
  <2> HIDE DEF m
  <2>4. /\ c \in Seq(E) /\ Len(c) = m /\ \A k \in 1 .. m : c[k] = s[k]
        /\ d \in Seq(E) /\ Len(d) = m /\ \A k \in 1 .. m : d[k] = t[k]
    BY <1>1, <2>2, Beginning
  <2>5. \A k \in 1 .. m : c[k] = d[k]
    BY <1>1, <2>2, <2>4
  <2> HIDE DEF c, d
  <2>6. c = d
    BY <2>4, <2>5, SameSeq
  <2> QED
    BY <2>3, <2>6
<1>4. Cut(Cut(s) \o u) = Cut(t)
  <2>1. CASE Full(Cut(s))
    <3>1. PICK c : c = Cut(s)
      OBVIOUS
    <3>2. c \in Seq(E) /\ Fitting(c) /\ Cut(c) = c
      <4>1. c \in Seq(E) /\ Fitting(c)
        BY <3>1, CutFacts
      <4> QED
        BY <4>1, CutFacts
    <3>3. Len(c) = l + 1 /\ l > 0
      <4>1. Len(c) \in Nat
        BY <3>2
      <4> QED
        BY <1>2, <2>1, <3>1, <3>2, <4>1 DEF Full, Fitting
    <3>4. Len(c \o u) = Len(c) + Len(u) /\ c \o u \in Seq(E) /\ \A k \in 1 .. Len(c) : (c \o u)[k] = c[k]
      BY <3>2, Concatenated
    <3> DEFINE v == c \o u
               m == l + 1
               d == SubSeq(v, 1, m)
    <3>5. m \in Nat /\ m <= Len(v) /\ m \in 0 .. Len(v)
      BY <1>2, <3>3, <3>4
    <3>6. v \in Seq(E) /\ \A k \in 1 .. m : v[k] = c[k]
      BY <3>3, <3>4
    <3>8. Cut(v) = IF l > 0 /\ Len(v) > m THEN d ELSE v
      BY DEF Cut
    <3>11. Len(c) = m
      BY <3>3
    <3> HIDE DEF v, m
    <3>7. d \in Seq(E) /\ Len(d) = m /\ (\A k \in 1 .. m : d[k] = v[k]) /\ (m = Len(v) => d = v)
      BY <3>5, <3>6, Beginning
    <3> HIDE DEF d
    <3>9. Cut(v) = d
      <4>1. CASE m = Len(v)
        BY <3>7, <3>8, <4>1
      <4>2. CASE m # Len(v)
        <5>1. Len(v) > m
          BY <3>5, <3>6, <4>2
        <5> QED
          BY <3>3, <3>8, <5>1
      <4> QED
        BY <4>1, <4>2
    <3>10. d = c
      BY <3>2, <3>6, <3>7, <3>11, SameSeq
    <3> QED
      BY <1>3, <2>1, <3>1, <3>9, <3>10 DEF v
  <2>2. CASE ~Full(Cut(s))
    <3>1. Cut(s) = s
      BY <2>2, CutFacts
    <3> QED
      BY <3>1 DEF t
  <2> QED
    BY <2>1, <2>2
<1> QED
  BY <1>3, <1>4 DEF t

\* A list that fits is not cut, only what is added to it.
LEMMA CutAfter ==
    ASSUME NEW E, opts.limit \in Nat, NEW s \in Seq(E), Fitting(s), NEW u \in Seq(E)
    PROVE  \E v \in Seq(E) : /\ Cut(s \o u) = s \o v /\ IsPrefix(v, u)
                             /\ ~Full(Cut(s \o u)) => v = u
<1> DEFINE t == s \o u
           c == Cut(t)
<1>1. t \in Seq(E) /\ Len(t) = Len(s) + Len(u) /\ \A k \in 1 .. Len(s) : t[k] = s[k]
  BY Concatenated
<1>2. Len(s) \in Nat /\ Len(u) \in Nat /\ opts.limit \in Nat
  OBVIOUS
<1> HIDE DEF t
<1>3. /\ c \in Seq(E) /\ IsPrefix(c, t) /\ (~Full(c) => c = t)
      /\ Len(c) = IF opts.limit > 0 /\ Len(t) > opts.limit + 1 THEN opts.limit + 1 ELSE Len(t)
  BY <1>1, CutFacts
<1>4. Len(s) <= Len(c) /\ Len(c) \in Nat /\ Len(c) - Len(s) \in 0 .. Len(u)
  BY <1>1, <1>2, <1>3 DEF Fitting
<1>5. PICK w \in Seq(E) : t = c \o w
  BY <1>1, <1>3, SetPrefix
<1> HIDE DEF c
<1>6. PICK m : m = Len(c) - Len(s)
  OBVIOUS
<1> DEFINE v == SubSeq(u, 1, m)
<1>7. /\ m \in 0 .. Len(u) /\ m \in Nat /\ Len(c) = Len(s) + m
  BY <1>2, <1>4, <1>6
<1>8. v \in Seq(E) /\ IsPrefix(v, u) /\ Len(v) = m /\ (\A k \in 1 .. m : v[k] = u[k]) /\ (m = Len(u) => v = u)
  BY <1>7, Beginning
<1> HIDE DEF v
<1>9. /\ s \o v \in Seq(E) /\ Len(s \o v) = Len(c)
      /\ \A k \in 1 .. Len(s) : (s \o v)[k] = s[k]
      /\ \A k \in 1 .. m : (s \o v)[Len(s) + k] = u[k]
  <2>1. /\ s \o v \in Seq(E) /\ Len(s \o v) = Len(s) + Len(v)
        /\ \A k \in 1 .. Len(s) : (s \o v)[k] = s[k]
        /\ \A k \in 1 .. Len(v) : (s \o v)[Len(s) + k] = v[k]
    <3>1. v \in Seq(E)
      BY <1>8
    <3> QED
      BY <3>1, Concatenated
  <2> QED
    BY <1>7, <1>8, <2>1
<1>10. \A k \in 1 .. Len(c) : c[k] = t[k]
  <2>1. \A k \in 1 .. Len(c) : (c \o w)[k] = c[k]
    BY <1>3, Concatenated
  <2> QED
    BY <1>5, <2>1
<1>11. \A k \in 1 .. Len(u) : t[Len(s) + k] = u[k]
  BY Concatenated DEF t
<1> DEFINE d == s \o v
<1>12. ASSUME NEW k \in 1 .. Len(c) PROVE c[k] = d[k]
  <2> HIDE DEF d
  <2>1. CASE k \in 1 .. Len(s)
    BY <1>1, <1>9, <1>10, <2>1 DEF d
  <2>2. CASE k \notin 1 .. Len(s)
    <3>1. PICK j : j = k - Len(s)
      OBVIOUS
    <3>2. j \in 1 .. m /\ k = Len(s) + j /\ j \in 1 .. Len(u)
      BY <1>2, <1>7, <2>2, <3>1
    <3>3. d[Len(s) + j] = u[j] /\ t[Len(s) + j] = u[j]
      BY <1>9, <1>11, <3>2 DEF d
    <3> QED
      BY <1>10, <3>2, <3>3
  <2> QED
    BY <2>1, <2>2
<1>14. d \in Seq(E) /\ Len(d) = Len(c)
  BY <1>9
<1> HIDE DEF d
<1>13. c = d
  BY <1>3, <1>12, <1>14, SameSeq
<1>15. ~Full(c) => v = u
  <2>1. c = t => m = Len(u)
    BY <1>1, <1>2, <1>6
  <2> QED
    BY <1>3, <1>8, <2>1
<1> QED
  BY <1>8, <1>13, <1>15 DEF c, t, d

Adding(g, list, hits, m) ==
    g = [i \in 0 .. m |-> IF i = 0 THEN list ELSE AddCandidate(g[i - 1], hits[i])]
AddTo(list, hits, j) == (CHOOSE g : Adding(g, list, hits, Len(hits)))[j]

LEMMA AddingTo ==
    ASSUME NEW list, NEW hits, NEW k \in Nat
    PROVE  \E g : Adding(g, list, hits, k)
<1> DEFINE T == {m \in Nat : ~\E g : Adding(g, list, hits, m)}
<1> SUFFICES ASSUME T # {} PROVE FALSE
  OBVIOUS
<1>1. PICK m \in T : \A y \in T : ~(y < m)
  <2>1. T \subseteq Nat
    OBVIOUS
  <2> HIDE DEF T
  <2> QED
    BY <2>1, Least
<1>2. CASE m = 0
  <2> DEFINE g == [i \in 0 .. 0 |-> list]
  <2>1. Adding(g, list, hits, 0)
    BY DEF Adding
  <2> QED
    BY <1>1, <1>2, <2>1
<1>3. CASE m # 0
  <2>1. m \in Nat /\ m - 1 \in Nat /\ m - 1 < m /\ m - 1 \notin T
    <3>1. m \in Nat
      BY <1>1
    <3>2. m - 1 \in Nat /\ m - 1 < m
      BY <1>3, <3>1
    <3> HIDE DEF T
    <3> QED
      BY <1>1, <3>1, <3>2
  <2>2. PICK f : Adding(f, list, hits, m - 1)
    BY <2>1
  <2> DEFINE last == AddCandidate(f[m - 1], hits[m])
             g == [i \in 0 .. m |-> IF i = m THEN last ELSE f[i]]
             h == [i \in 0 .. m |-> IF i = 0 THEN list ELSE AddCandidate(g[i - 1], hits[i])]
  <2>3. ASSUME NEW i \in 0 .. m PROVE g[i] = h[i]
    <3>0. h[i] = IF i = 0 THEN list ELSE AddCandidate(g[i - 1], hits[i])
      OBVIOUS
    <3>1. CASE i = m
      <4>1. g[i] = last
        BY <3>1
      <4>2. g[i - 1] = f[m - 1]
        BY <1>3, <2>1, <3>1
      <4> QED
        BY <1>3, <3>0, <3>1, <4>1, <4>2, Zenon
    <3>2. CASE i # m
      <4>1. i \in 0 .. m - 1 /\ (i # 0 => i - 1 \in 0 .. m /\ i - 1 # m)
        BY <2>1, <3>2
      <4>2. g[i] = f[i] /\ (i # 0 => g[i - 1] = f[i - 1])
        BY <3>2, <4>1
      <4>3. f[i] = IF i = 0 THEN list ELSE AddCandidate(f[i - 1], hits[i])
        BY <2>2, <4>1 DEF Adding
      <4> QED
        BY <3>0, <4>2, <4>3, Zenon
    <3> QED
      BY <3>1, <3>2
  <2>4. g = h
    BY <2>3
  <2>5. Adding(g, list, hits, m)
    BY <2>4 DEF Adding
  <2> HIDE DEF g, h
  <2> QED
    BY <1>1, <2>5
<1> QED
  BY <1>2, <1>3

LEMMA AddRounds ==
    ASSUME NEW list, NEW hits, Len(hits) \in Nat, NEW j \in 0 .. Len(hits)
    PROVE  AddTo(list, hits, j) = IF j = 0 THEN list ELSE AddCandidate(AddTo(list, hits, j - 1), hits[j])
<1> DEFINE g == CHOOSE g : Adding(g, list, hits, Len(hits))
<1>1. Adding(g, list, hits, Len(hits))
  BY AddingTo
<1>2. \A i : AddTo(list, hits, i) = g[i]
  BY DEF AddTo
<1> HIDE DEF g
<1>3. g[j] = IF j = 0 THEN list ELSE AddCandidate(g[j - 1], hits[j])
  BY <1>1 DEF Adding
<1> QED
  BY <1>2, <1>3, Zenon

LEMMA AddSame ==
    ASSUME NEW list, NEW hits, NEW more, Len(hits) \in Nat, Len(more) \in Nat, Len(hits) <= Len(more),
           \A i \in 1 .. Len(hits) : more[i] = hits[i], NEW k \in 0 .. Len(hits)
    PROVE  AddTo(list, more, k) = AddTo(list, hits, k)
<1> DEFINE T == {i \in 0 .. Len(hits) : AddTo(list, more, i) # AddTo(list, hits, i)}
<1> SUFFICES ASSUME T # {} PROVE FALSE
  OBVIOUS
<1>1. PICK j \in T : \A y \in T : ~(y < j)
  <2>1. T \subseteq Nat
    OBVIOUS
  <2> HIDE DEF T
  <2> QED
    BY <2>1, Least
<1>2. j \in 0 .. Len(hits) /\ j \in 0 .. Len(more) /\ AddTo(list, more, j) # AddTo(list, hits, j)
  OBVIOUS
<1>3. /\ AddTo(list, hits, j) = IF j = 0 THEN list ELSE AddCandidate(AddTo(list, hits, j - 1), hits[j])
      /\ AddTo(list, more, j) = IF j = 0 THEN list ELSE AddCandidate(AddTo(list, more, j - 1), more[j])
  <2> HIDE DEF T
  <2>1. \A h : Len(h) \in Nat => \A i \in 0 .. Len(h) :
           AddTo(list, h, i) = IF i = 0 THEN list ELSE AddCandidate(AddTo(list, h, i - 1), h[i])
    BY AddRounds
  <2> QED
    BY <1>2, <2>1, Zenon
<1>5. j # 0
  BY <1>2, <1>3
<1>6. j - 1 \in 0 .. Len(hits) /\ j - 1 < j
  BY <1>2, <1>5
<1>4. more[j] = hits[j]
  BY <1>2, <1>5
<1>7. j - 1 \notin T
  <2> HIDE DEF T
  <2> QED
    BY <1>1, <1>6
<1>8. AddTo(list, more, j - 1) = AddTo(list, hits, j - 1)
  BY <1>6, <1>7
<1> QED
  BY <1>2, <1>3, <1>4, <1>5, <1>8, Zenon

\* Adding one more.
LEMMA AddAppend ==
    ASSUME NEW list
    PROVE  /\ AddCandidates(list, <<>>) = list
           /\ \A hits \in Seq(Hits), x \in Hits :
                 AddCandidates(list, Append(hits, x)) = AddCandidate(AddCandidates(list, hits), x)
<1> HIDE DEF Hits
<1>0. \A hits : AddCandidates(list, hits) = AddTo(list, hits, Len(hits))
  BY DEF AddCandidates, AddTo, Adding
<1>1. AddCandidates(list, <<>>) = list
  <2>1. PICK e : e = <<>>
    OBVIOUS
  <2>2. Len(e) = 0 /\ Len(e) \in Nat /\ Len(e) \in 0 .. Len(e)
    BY <2>1
  <2>3. AddTo(list, e, Len(e)) = list
    BY <2>2, AddRounds, Zenon
  <2> QED
    BY <1>0, <2>1, <2>3, Zenon
<1>2. ASSUME NEW hits \in Seq(Hits), NEW x \in Hits
      PROVE  AddCandidates(list, Append(hits, x)) = AddCandidate(AddCandidates(list, hits), x)
  <2> DEFINE more == Append(hits, x)
             m == Len(hits)
  <2>1. /\ m \in Nat /\ Len(more) = m + 1 /\ more[m + 1] = x /\ m \in 0 .. m
        /\ \A i \in 1 .. m : more[i] = hits[i]
    OBVIOUS
  <2> HIDE DEF more, m
  <2>2. m <= Len(more) /\ Len(more) \in Nat
    BY <2>1
  <2>3. AddTo(list, more, m) = AddTo(list, hits, m)
    BY <2>1, <2>2, AddSame DEF m
  <2>4. PICK j : j = Len(more)
    OBVIOUS
  <2>5. j \in 0 .. Len(more) /\ j # 0 /\ j - 1 = m /\ more[j] = x
    <3>1. j = m + 1
      BY <2>1, <2>4, Zenon
    <3>2. more[j] = x
      BY <2>1, <3>1, Zenon
    <3> QED
      BY <2>1, <2>2, <2>4, <3>1, <3>2
  <2>6. AddTo(list, more, j) = AddCandidate(AddTo(list, more, m), x)
    <3>1. AddTo(list, more, j) = IF j = 0 THEN list ELSE AddCandidate(AddTo(list, more, j - 1), more[j])
      BY <2>2, <2>5, AddRounds, Zenon
    <3> QED
      BY <2>5, <3>1, Zenon
  <2>7. AddCandidates(list, more) = AddCandidate(AddCandidates(list, hits), x)
    BY <1>0, <2>3, <2>4, <2>6, Zenon DEF m
  <2> QED
    BY <2>7 DEF more
<1> QED
  BY <1>1, <1>2

\* Adding hits that are not there yet adds each of them once, as far as they fit.
LEMMA AddIsCut ==
    ASSUME opts.limit \in Nat, NEW list \in Seq(Hits), Fitting(list), NEW hits \in Seq(Hits),
           \A y : Contains(hits, y) => ~Contains(list, y)
    PROVE  AddCandidates(list, hits) = Cut(list \o Distinct(hits))
<1> HIDE DEF Hits
<1> DEFINE P == {h \in Seq(Hits) : (\A y : Contains(h, y) => ~Contains(list, y))
                                      => AddCandidates(list, h) = Cut(list \o Distinct(h))}
<1>1. <<>> \in P
  <2>1. <<>> \in Seq(Hits) /\ list \o <<>> = list
    BY Concatenation
  <2>2. Cut(list) = list
    BY CutFacts
  <2> QED
    BY <2>1, <2>2, AddAppend, DistinctAppend
<1>2. ASSUME NEW h \in P \cap Seq(Hits), NEW x \in Hits PROVE Append(h, x) \in P
  <2> DEFINE k == Append(h, x)
             d == Distinct(h)
             s == list \o d
             a == AddCandidates(list, h)
  <2>1. k \in Seq(Hits) /\ \A y : Contains(k, y) <=> Contains(h, y) \/ y = x
    BY Concatenation, ContainsMore
  <2> SUFFICES ASSUME \A y : Contains(k, y) => ~Contains(list, y)
               PROVE  AddCandidates(list, k) = Cut(list \o Distinct(k))
    BY <2>1
  <2>2. a = Cut(s)
    BY <2>1
  <2>3. AddCandidates(list, k) = AddCandidate(a, x)
    BY AddAppend
  <2>4. /\ d \in Seq(Hits) /\ \A y : Contains(d, y) <=> Contains(h, y)
        /\ Distinct(k) = IF Contains(h, x) THEN d ELSE Append(d, x)
    BY DistinctAppend, DistinctFacts
  <2>5. ~Contains(list, x)
    BY <2>1
  <2>10. AddCandidate(a, x) = IF Full(a) \/ Contains(a, x) THEN a ELSE Append(a, x)
    BY DEF AddCandidate, Full
  <2> HIDE DEF d, k, a
  <2>6. s \in Seq(Hits) /\ \A y : Contains(s, y) <=> Contains(list, y) \/ Contains(d, y)
    BY <2>4, Concatenation, ContainsMore
  <2>7. list \o Distinct(k) = IF Contains(h, x) THEN s ELSE s \o <<x>>
    <3>1. list \o Append(d, x) = Append(s, x) /\ s \o <<x>> = Append(s, x)
      BY <2>4, <2>6, Concatenation
    <3> QED
      BY <2>4, <3>1
  <2> HIDE DEF s
  <2>8. CASE Full(Cut(s))
    <3>1. AddCandidates(list, k) = Cut(s)
      BY <2>2, <2>3, <2>8, <2>10
    <3>2. Cut(s \o <<x>>) = Cut(s)
      <4>1. <<x>> \in Seq(Hits)
        BY Concatenation
      <4> QED
        BY <2>6, <2>8, <4>1, CutMore
    <3> QED
      BY <2>7, <3>1, <3>2
  <2>9. CASE ~Full(Cut(s))
    <3>1. Cut(s) = s
      BY <2>6, <2>9, CutFacts
    <3>2. Contains(s, x) <=> Contains(h, x)
      BY <2>4, <2>5, <2>6
    <3>3. Append(s, x) = s \o <<x>> /\ Append(s, x) \in Seq(Hits)
      BY <2>6, Concatenation
    <3>4. Cut(Append(s, x)) = Append(s, x)
      <4>1. Len(Append(s, x)) = Len(s) + 1 /\ Len(s) \in Nat
        BY <2>6
      <4>2. Fitting(Append(s, x))
        BY <2>9, <3>1, <4>1 DEF Full, Fitting
      <4> QED
        BY <3>3, <4>2, CutFacts
    <3>5. AddCandidates(list, k) = IF Contains(h, x) THEN s ELSE Append(s, x)
      BY <2>2, <2>3, <2>9, <2>10, <3>1, <3>2
    <3> QED
      BY <2>7, <3>1, <3>3, <3>4, <3>5
  <2> QED
    BY <2>8, <2>9
<1> HIDE DEF P
<1>3. Seq(Hits) \subseteq P
  BY <1>1, <1>2, SeqInduction
<1> QED
  BY <1>3 DEF P

\* Adding to a list never makes it hold a hit twice, and never more than fit.
LEMMA AddKeeps ==
    ASSUME opts.limit \in Nat, NEW list \in Seq(Hits), Fitting(list), IsInjective(list)
    PROVE  \A hits \in Seq(Hits) : LET a == AddCandidates(list, hits)
                                   IN  a \in Seq(Hits) /\ Fitting(a) /\ IsInjective(a)
<1> HIDE DEF Hits
<1> DEFINE P == {h \in Seq(Hits) : /\ AddCandidates(list, h) \in Seq(Hits)
                                   /\ Fitting(AddCandidates(list, h))
                                   /\ IsInjective(AddCandidates(list, h))}
<1>1. <<>> \in P
  BY AddAppend, Concatenation
<1>2. ASSUME NEW h \in P \cap Seq(Hits), NEW x \in Hits PROVE Append(h, x) \in P
  <2>1. PICK a : a = AddCandidates(list, h)
    OBVIOUS
  <2>2. a \in Seq(Hits) /\ Fitting(a) /\ IsInjective(a) /\ Append(h, x) \in Seq(Hits)
    BY <2>1, Concatenation
  <2>3. AddCandidates(list, Append(h, x)) = IF Full(a) \/ Contains(a, x) THEN a ELSE Append(a, x)
    <3>1. AddCandidates(list, Append(h, x)) = AddCandidate(a, x)
      BY <2>1, AddAppend, ZenonT(30)
    <3> QED
      BY <3>1, Zenon DEF AddCandidate, Full
  <2>4. ASSUME ~Full(a), ~Contains(a, x)
        PROVE  Append(a, x) \in Seq(Hits) /\ Fitting(Append(a, x)) /\ IsInjective(Append(a, x))
    <3>1. Append(a, x) \in Seq(Hits) /\ Len(Append(a, x)) = Len(a) + 1 /\ Len(a) \in Nat
      BY <2>2
    <3>2. Fitting(Append(a, x))
      BY <2>4, <3>1 DEF Full, Fitting
    <3> QED
      BY <2>2, <2>4, <3>1, <3>2, InjectiveMore
  <2> QED
    BY <2>2, <2>3, <2>4
<1> HIDE DEF P
<1>3. Seq(Hits) \subseteq P
  BY <1>1, <1>2, SeqInduction
<1> QED
  BY <1>3 DEF P

-----------------------------------------------------------------------------
(* The members of a finite set in an order.                                *)

Orders(R, S) ==
    /\ IsFiniteSet(S)
    /\ \A x \in S : <<x, x>> \notin R
    /\ \A x, y, z \in S : <<x, y>> \in R /\ <<y, z>> \in R => <<x, z>> \in R
    /\ \A x, y \in S : x # y => <<x, y>> \in R \/ <<y, x>> \in R
Earlier(S, R, x) == {y \in S : <<y, x>> \in R}
Place(S, R, x) == Cardinality(Earlier(S, R, x))
Ranked(list, S, R) ==
    /\ list \in Seq(S) /\ Len(list) = Cardinality(S) /\ Cardinality(S) \in Nat
    /\ \A k \in 1 .. Len(list) : Place(S, R, list[k]) = k - 1

LEMMA PlaceFacts ==
    ASSUME NEW S, NEW R, Orders(R, S)
    PROVE  /\ Cardinality(S) \in Nat
           /\ \A x \in S : Place(S, R, x) \in Nat /\ Place(S, R, x) < Cardinality(S)
           /\ \A x, y \in S : <<x, y>> \in R <=> Place(S, R, x) < Place(S, R, y)
           /\ \A x, y \in S : Place(S, R, x) = Place(S, R, y) => x = y
<1>0. IsFiniteSet(S) /\ Cardinality(S) \in Nat
  BY FS_CardinalityType DEF Orders
<1>1. ASSUME NEW x \in S
      PROVE  IsFiniteSet(Earlier(S, R, x)) /\ Place(S, R, x) \in Nat /\ Place(S, R, x) < Cardinality(S)
  <2> DEFINE B == Earlier(S, R, x)
  <2>1. B \in SUBSET S /\ x \notin B
    BY DEF Earlier, Orders
  <2>4. Place(S, R, x) = Cardinality(B)
    BY DEF Place
  <2> HIDE DEF B
  <2>2. IsFiniteSet(B) /\ Cardinality(B) <= Cardinality(S) /\ (Cardinality(S) = Cardinality(B) => S = B)
    BY <1>0, <2>1, FS_Subset
  <2>3. Cardinality(B) \in Nat
    BY <2>2, FS_CardinalityType
  <2>5. Cardinality(B) < Cardinality(S)
    BY <1>0, <2>1, <2>2, <2>3
  <2> QED
    BY <2>2, <2>3, <2>4, <2>5 DEF B
<1>2. ASSUME NEW x \in S, NEW y \in S, <<x, y>> \in R PROVE Place(S, R, x) < Place(S, R, y)
  <2> DEFINE A == Earlier(S, R, x)
             B == Earlier(S, R, y)
  <2>1. A \in SUBSET B /\ x \in B /\ x \notin A
    BY <1>2 DEF Earlier, Orders
  <2>4. Place(S, R, x) = Cardinality(A) /\ Place(S, R, y) = Cardinality(B)
    BY DEF Place
  <2>5. IsFiniteSet(B) /\ Cardinality(A) \in Nat /\ Cardinality(B) \in Nat
    BY <1>1, <2>4
  <2> HIDE DEF A, B
  <2>2. Cardinality(A) <= Cardinality(B) /\ (Cardinality(B) = Cardinality(A) => B = A)
    BY <2>1, <2>5, FS_Subset
  <2> QED
    BY <2>1, <2>2, <2>4, <2>5
<1>3. ASSUME NEW x \in S, NEW y \in S, x # y
      PROVE  Place(S, R, x) < Place(S, R, y) \/ Place(S, R, y) < Place(S, R, x)
  BY <1>2, <1>3 DEF Orders
<1>4. ASSUME NEW x \in S, NEW y \in S, Place(S, R, x) = Place(S, R, y) PROVE x = y
  <2>1. Place(S, R, x) \in Nat /\ Place(S, R, y) \in Nat
    BY <1>1
  <2> QED
    BY <1>3, <1>4, <2>1
<1>5. ASSUME NEW x \in S, NEW y \in S, Place(S, R, x) < Place(S, R, y) PROVE <<x, y>> \in R
  <2>1. Place(S, R, x) \in Nat /\ Place(S, R, y) \in Nat
    BY <1>1
  <2>2. x # y /\ ~(Place(S, R, y) < Place(S, R, x))
    BY <1>5, <2>1
  <2>3. <<x, y>> \in R \/ <<y, x>> \in R
    BY <2>2 DEF Orders
  <2> QED
    BY <1>2, <2>2, <2>3
<1> QED
  BY <1>0, <1>1, <1>2, <1>4, <1>5

\* Every place up to the size of the set is that of one member.
LEMMA EveryPlace ==
    ASSUME NEW S, NEW R, Orders(R, S), NEW k \in 1 .. Cardinality(S)
    PROVE  \E x \in S : Place(S, R, x) = k - 1
<1> DEFINE c == Cardinality(S)
           T == 1 .. c
           g == [x \in S |-> Place(S, R, x) + 1]
<1>1. /\ c \in Nat /\ IsFiniteSet(S)
      /\ \A x \in S : Place(S, R, x) \in Nat /\ Place(S, R, x) < c
      /\ \A x, y \in S : Place(S, R, x) = Place(S, R, y) => x = y
  BY PlaceFacts DEF Orders
<1>3. IsFiniteSet(T) /\ Cardinality(T) = c
  BY <1>1, FS_Interval
<1>4. g \in [S -> T]
  BY <1>1
<1>6. \A x, y \in S : g[x] = g[y] => x = y
  <2>1. \A x \in S : g[x] = Place(S, R, x) + 1 /\ Place(S, R, x) \in Nat
    BY <1>1
  <2> HIDE DEF g, T, c
  <2>2. \A x, y \in S : g[x] = g[y] => Place(S, R, x) = Place(S, R, y)
    BY <2>1
  <2> QED
    BY <1>1, <2>2
<1>7. g \in Injection(S, T)
  BY <1>4, <1>6 DEF Injection, IsInjective
<1>8. g \in Surjection(S, T)
  <2> HIDE DEF g, T
  <2> QED
    BY <1>1, <1>3, <1>7, FS_Injection
<1>9. \E x \in S : g[x] = k
  BY <1>8 DEF Surjection
<1> QED
  BY <1>1, <1>9

\* A list of the members in order has each of them at its place, and is the only one.
LEMMA RankedFacts ==
    ASSUME NEW S, NEW R, Orders(R, S), NEW list, Ranked(list, S, R)
    PROVE  /\ list \in Seq(S) /\ Len(list) = Cardinality(S) /\ Cardinality(S) \in Nat
           /\ \A i, j \in 1 .. Len(list) : i < j <=> <<list[i], list[j]>> \in R
           /\ \A i, j \in 1 .. Len(list) : list[i] = list[j] => i = j
           /\ \A x \in S : \E k \in 1 .. Len(list) : list[k] = x
           /\ \A more : Ranked(more, S, R) => more = list
<1>1. /\ list \in Seq(S) /\ Len(list) = Cardinality(S) /\ Cardinality(S) \in Nat
      /\ \A k \in 1 .. Len(list) : Place(S, R, list[k]) = k - 1
  BY DEF Ranked
<1>2. \A k \in 1 .. Len(list) : list[k] \in S
  BY <1>1
<1>3. ASSUME NEW i \in 1 .. Len(list), NEW j \in 1 .. Len(list)
      PROVE  (i < j <=> <<list[i], list[j]>> \in R) /\ (list[i] = list[j] => i = j)
  <2>1. list[i] \in S /\ list[j] \in S /\ Place(S, R, list[i]) = i - 1 /\ Place(S, R, list[j]) = j - 1
    BY <1>1, <1>2
  <2>2. <<list[i], list[j]>> \in R <=> Place(S, R, list[i]) < Place(S, R, list[j])
    BY <2>1, PlaceFacts
  <2>3. i \in Int /\ j \in Int /\ (i < j <=> i - 1 < j - 1) /\ (i - 1 = j - 1 => i = j)
    BY <1>1
  <2> QED
    BY <2>1, <2>2, <2>3, Zenon
<1>4. ASSUME NEW x \in S PROVE \E k \in 1 .. Len(list) : list[k] = x
  <2>1. PICK k : k = Place(S, R, x) + 1
    OBVIOUS
  <2>2. Place(S, R, x) \in Nat /\ Place(S, R, x) < Cardinality(S)
    BY PlaceFacts
  <2>3. k \in 1 .. Len(list) /\ k - 1 = Place(S, R, x)
    BY <1>1, <2>1, <2>2
  <2>4. Place(S, R, list[k]) = Place(S, R, x) /\ list[k] \in S
    BY <1>1, <1>2, <2>3
  <2>5. list[k] = x
    BY <2>4, PlaceFacts
  <2> QED
    BY <2>3, <2>5
<1>5. ASSUME NEW more, Ranked(more, S, R) PROVE more = list
  <2>1. /\ more \in Seq(S) /\ Len(more) = Len(list)
        /\ \A k \in 1 .. Len(more) : Place(S, R, more[k]) = k - 1
    BY <1>1, <1>5 DEF Ranked
  <2>2. ASSUME NEW k \in 1 .. Len(list) PROVE more[k] = list[k]
    <3>1. more[k] \in S /\ list[k] \in S /\ Place(S, R, more[k]) = Place(S, R, list[k])
      BY <1>1, <1>2, <2>1
    <3> QED
      BY <3>1, PlaceFacts
  <2> QED
    BY <1>1, <2>1, <2>2, SameSeq
<1> QED
  BY <1>1, <1>3, <1>4, <1>5

LEMMA OrdersPart ==
    ASSUME NEW S, NEW R, Orders(R, S), NEW T \in SUBSET S
    PROVE  Orders(R, T)
<1>1. IsFiniteSet(T)
  BY FS_Subset DEF Orders
<1> QED
  BY <1>1 DEF Orders

\* One that comes after all others is the last.
LEMMA RankedMore ==
    ASSUME NEW S, NEW R, NEW x, x \notin S, Orders(R, S \cup {x}), \A y \in S : <<y, x>> \in R,
           NEW list, Ranked(list, S, R)
    PROVE  Ranked(Append(list, x), S \cup {x}, R)
<1> DEFINE T == S \cup {x}
           t == Append(list, x)
           c == Cardinality(S)
<1>1. IsFiniteSet(S) /\ Orders(R, S)
  <2>1. S \in SUBSET T
    OBVIOUS
  <2>2. Orders(R, S)
    BY <2>1, OrdersPart
  <2> QED
    BY <2>2 DEF Orders
<1>2. Cardinality(T) = c + 1
  BY <1>1, FS_AddElement
<1>3. /\ list \in Seq(S) /\ Len(list) = c /\ c \in Nat
      /\ \A k \in 1 .. Len(list) : Place(S, R, list[k]) = k - 1
  BY DEF Ranked
<1>4. /\ t \in Seq(T) /\ Len(t) = c + 1 /\ t[c + 1] = x /\ \A k \in 1 .. c : t[k] = list[k] /\ list[k] \in S
  <2>1. list \in Seq(T) /\ x \in T
    BY <1>3
  <2>2. t \in Seq(T)
    BY <2>1
  <2> QED
    BY <1>3, <2>2
<1>5. Place(T, R, x) = c
  <2>1. <<x, x>> \notin R
    BY DEF Orders
  <2>2. Earlier(T, R, x) = S
    BY <2>1 DEF Earlier
  <2> QED
    BY <2>2 DEF Place
<1>6. ASSUME NEW y \in S PROVE Place(T, R, y) = Place(S, R, y)
  <2>1. <<y, x>> \in R /\ <<x, x>> \notin R
    BY DEF Orders
  <2>2. <<x, y>> \notin R
    BY <2>1 DEF Orders
  <2>3. Earlier(T, R, y) = Earlier(S, R, y)
    BY <2>2 DEF Earlier
  <2> QED
    BY <2>3 DEF Place
<1> HIDE DEF T, t, c
<1>7. ASSUME NEW k \in 1 .. c + 1 PROVE Place(T, R, t[k]) = k - 1
  <2>1. CASE k = c + 1
    <3>1. t[k] = x /\ k - 1 = c
      BY <1>3, <1>4, <2>1
    <3> QED
      BY <1>5, <3>1
  <2>2. CASE k # c + 1
    <3>1. k \in 1 .. c
      BY <1>3, <2>2
    <3>2. t[k] = list[k] /\ list[k] \in S /\ Place(S, R, list[k]) = k - 1
      BY <1>3, <1>4, <3>1
    <3> QED
      BY <1>6, <3>2
  <2> QED
    BY <2>1, <2>2
<1>8. Ranked(t, T, R)
  BY <1>2, <1>3, <1>4, <1>7 DEF Ranked
<1> QED
  BY <1>8 DEF T, t

\* The beginning of such a list is the list of its members.
LEMMA RankedPart ==
    ASSUME NEW S, NEW R, Orders(R, S), NEW list, Ranked(list, S, R), NEW m \in 0 .. Len(list)
    PROVE  Ranked(SubSeq(list, 1, m), {list[k] : k \in 1 .. m}, R)
<1> DEFINE P == {i \in 0 .. Len(list) : ~Ranked(SubSeq(list, 1, i), {list[k] : k \in 1 .. i}, R)}
<1>0. /\ list \in Seq(S) /\ Len(list) \in Nat
      /\ \A i, j \in 1 .. Len(list) : i < j <=> <<list[i], list[j]>> \in R
      /\ \A i, j \in 1 .. Len(list) : list[i] = list[j] => i = j
  BY RankedFacts
<1>9. \A k \in 1 .. Len(list) : list[k] \in S
  BY <1>0
<1> SUFFICES ASSUME P # {} PROVE FALSE
  OBVIOUS
<1>1. PICK i \in P : \A y \in P : ~(y < i)
  <2>1. P \subseteq Nat
    BY <1>0
  <2> HIDE DEF P
  <2> QED
    BY <2>1, Least
<1>2. i \in 0 .. Len(list) /\ ~Ranked(SubSeq(list, 1, i), {list[k] : k \in 1 .. i}, R)
  OBVIOUS
<1>3. i # 0
  <2> SUFFICES ASSUME i = 0 PROVE FALSE
    OBVIOUS
  <2>1. SubSeq(list, 1, 0) = <<>> /\ {list[k] : k \in 1 .. 0} = {} /\ <<>> \in Seq({}) /\ Len(<<>>) = 0
    BY <1>0
  <2>2. Ranked(<<>>, {}, R)
    BY <2>1, FS_EmptySet DEF Ranked
  <2> QED
    BY <1>2, <2>1, <2>2
<1>4. i - 1 \in 0 .. Len(list) /\ i - 1 < i /\ i \in 1 .. Len(list)
  BY <1>0, <1>2, <1>3
<1>5. PICK j : j = i - 1
  OBVIOUS
<1>6. /\ j \in 0 .. Len(list) /\ j < i /\ j + 1 = i /\ j \in Nat
      /\ \A k \in 1 .. j : k \in 1 .. Len(list) /\ k < i /\ k \in 1 .. i
      /\ \A k \in 1 .. i : k \in 1 .. j \/ k = i
  BY <1>0, <1>2, <1>4, <1>5
<1> DEFINE A == {list[k] : k \in 1 .. j}
           B == {list[k] : k \in 1 .. i}
           s == SubSeq(list, 1, j)
           t == SubSeq(list, 1, i)
           x == list[i]
<1>7. Ranked(s, A, R)
  <2>1. j \notin P
    <3> HIDE DEF P
    <3> QED
      BY <1>1, <1>6
  <2> QED
    BY <1>6, <2>1
<1>8. x \in S /\ A \in SUBSET S
  BY <1>4, <1>6, <1>9
<1>10. B = A \cup {x}
  BY <1>4, <1>6
<1>11. x \notin A /\ \A y \in A : <<y, x>> \in R
  BY <1>0, <1>4, <1>6
<1>12. ~Ranked(t, B, R)
  BY <1>2
<1>13. t = Append(s, x)
  <2>1. s \in Seq(S) /\ Len(s) = j /\ \A k \in 1 .. j : s[k] = list[k]
    BY <1>0, <1>6, Beginning
  <2>2. t \in Seq(S) /\ Len(t) = i /\ \A k \in 1 .. i : t[k] = list[k]
    BY <1>0, <1>2, Beginning
  <2> HIDE DEF s, t, x
  <2>3. Len(t) = Len(s) + 1 /\ \A k \in 1 .. Len(s) : t[k] = s[k]
    BY <1>6, <2>1, <2>2
  <2>4. t = Append(s, t[Len(s) + 1])
    BY <2>1, <2>2, <2>3, Extended
  <2>5. t[Len(s) + 1] = x
    <3>1. Len(s) + 1 = i /\ i \in 1 .. i
      BY <1>4, <1>6, <2>1
    <3> QED
      BY <2>2, <3>1 DEF x
  <2> QED
    BY <2>4, <2>5
<1> HIDE DEF A, B, s, t, x, P
<1>14. Orders(R, A \cup {x})
  <2>1. A \cup {x} \in SUBSET S
    BY <1>8
  <2> QED
    BY <2>1, OrdersPart
<1>15. Ranked(Append(s, x), A \cup {x}, R)
  BY <1>7, <1>11, <1>14, RankedMore
<1> QED
  BY <1>10, <1>12, <1>13, <1>15

-----------------------------------------------------------------------------
(* The hits of a source, and of the paths.                                 *)

HitsOf(f) == {h \in Hits : h.path = f}

\* A scope is around its line, and within the source.
LEMMA ScopeFacts ==
    ASSUME NEW lines, NEW m \in Nat, Len(lines) = m, NEW j \in 1 .. m
    PROVE  LET r == EnclosingScope(lines, j) IN
           /\ r = <<r[1], r[2]>> /\ r[1] \in Nat /\ r[2] \in Nat
           /\ 1 <= r[1] /\ r[1] <= j /\ j <= r[2] /\ r[2] <= m
<1> DEFINE around == {s \in (1 .. j) \X (j .. m) : s \in Scopes(lines)}
           span(s) == s[2] - s[1]
           r == EnclosingScope(lines, j)
<1>1. r = IF around = {} THEN <<j, j>>
          ELSE CHOOSE s \in around : \A t \in around : span(s) <= span(t)
  BY DEF EnclosingScope
<1>2. CASE around = {}
  BY <1>1, <1>2
<1>3. CASE around # {}
  <2>1. \A s \in around : /\ s = <<s[1], s[2]>> /\ s[1] \in Nat /\ s[2] \in Nat
                          /\ 1 <= s[1] /\ s[1] <= j /\ j <= s[2] /\ s[2] <= m
    OBVIOUS
  <2>2. \A s \in around : span(s) \in Nat
    <3> HIDE DEF around
    <3> QED
      BY <2>1
  <2> HIDE DEF around, span
  <2> DEFINE T == {span(s) : s \in around}
  <2>3. T \subseteq Nat /\ T # {}
    BY <1>3, <2>2
  <2>4. PICK x \in T : \A y \in T : ~(y < x)
    <3> HIDE DEF T
    <3> QED
      BY <2>3, Least
  <2>5. PICK s \in around : x = span(s)
    OBVIOUS
  <2>6. ASSUME NEW t \in around PROVE span(s) <= span(t)
    <3>1. ~(span(t) < x) /\ span(t) \in Nat /\ x \in Nat
      BY <2>2, <2>3, <2>4
    <3> QED
      BY <2>5, <3>1
  <2> HIDE DEF r
  <2>7. r \in around
    BY <1>1, <1>3, <2>6
  <2> QED
    BY <2>1, <2>7 DEF r
<1> QED
  BY <1>2, <1>3

LEMMA FindHitsFacts ==
    ASSUME NEW query, NEW f \in Files, NEW lines, IsASeq(lines)
    PROVE  /\ FindHits(query, f, lines) \in Seq(Hits)
           /\ Paths(FindHits(query, f, lines)) \subseteq {f}
           /\ lines = <<>> => FindHits(query, f, lines) = <<>>
<1> DEFINE kinds(line) == MatchKinds(query, lines[line])
           hits(line) == [k \in DOMAIN kinds(line) |-> FindHit(kinds(line)[k], f, lines, line)]
           c == Len(lines)
           parts == [line \in 1 .. c |-> hits(line)]
<1>1. c \in Nat /\ DOMAIN lines = 1 .. c
  BY DEF IsASeq
<1>2. FindHits(query, f, lines) = FlattenSeq(parts)
  BY <1>1 DEF FindHits
<1>3. ASSUME NEW line \in 1 .. c, NEW kind \in {"definition", "reference"}
      PROVE  FindHit(kind, f, lines, line) \in HitsOf(f)
  <2>1. line \in Nat
    BY <1>1
  <2>2. PICK range \in Nat \X Nat :
           FindHit(kind, f, lines, line) = [kind |-> kind, path |-> f, start |-> range[1], end |-> range[2]]
    <3>1. EnclosingScope(lines, line) \in Nat \X Nat
      <4> DEFINE r == EnclosingScope(lines, line)
      <4>1. r = <<r[1], r[2]>> /\ r[1] \in Nat /\ r[2] \in Nat
        BY <1>1, ScopeFacts
      <4> HIDE DEF r
      <4> QED
        BY <4>1 DEF r
    <3>2. <<line, line>> \in Nat \X Nat
      BY <2>1
    <3> DEFINE range == IF opts.return = "scope" THEN EnclosingScope(lines, line) ELSE <<line, line>>
    <3>3. FindHit(kind, f, lines, line) = [kind |-> kind, path |-> f, start |-> range[1], end |-> range[2]]
      BY DEF FindHit
    <3>4. range \in Nat \X Nat
      BY <3>1, <3>2, Zenon
    <3> QED
      BY <3>3, <3>4, Zenon
  <2>3. range[1] \in Nat /\ range[2] \in Nat
    OBVIOUS
  <2>4. FindHit(kind, f, lines, line) \in Hits /\ FindHit(kind, f, lines, line).path = f
    BY <2>2, <2>3 DEF Hits
  <2> QED
    BY <2>4 DEF HitsOf
<1>4. ASSUME NEW line \in 1 .. c PROVE hits(line) \in Seq(HitsOf(f))
  <2>1. PICK ks : ks = kinds(line)
    OBVIOUS
  <2>2. ks \in Seq({"definition", "reference"})
    <3> DEFINE K == {"definition", "reference"}
    <3>1. \A x, y \in Seq(K) : x \o y \in Seq(K)
      BY Concatenation
    <3>4. <<>> \in Seq(K) /\ <<"definition">> \in Seq(K) /\ <<"reference">> \in Seq(K)
      BY Concatenation
    <3> DEFINE a == IF <<query, "definition">> \in lines[line] THEN <<"definition">> ELSE <<>>
               b == IF <<query, "reference">> \in lines[line] THEN <<"reference">> ELSE <<>>
    <3>2. ks = a \o b
      BY <2>1 DEF MatchKinds
    <3>3. a \in Seq(K) /\ b \in Seq(K)
      BY <3>4
    <3> HIDE DEF a, b
    <3> QED
      BY <3>1, <3>2, <3>3
  <2>3. hits(line) = [k \in 1 .. Len(ks) |-> FindHit(ks[k], f, lines, line)]
    BY <2>1, <2>2
  <2>4. \A k \in 1 .. Len(ks) : ks[k] \in {"definition", "reference"}
    BY <2>2
  <2>5. \A k \in 1 .. Len(ks) : FindHit(ks[k], f, lines, line) \in HitsOf(f)
    BY <1>3, <2>4
  <2>6. Len(ks) \in Nat
    BY <2>2
  <2> HIDE DEF hits
  <2> QED
    BY <2>3, <2>5, <2>6
<1> HIDE DEF hits
<1>5. parts \in Seq(Seq(HitsOf(f)))
  BY <1>1, <1>4
<1> HIDE DEF parts
<1>6. FlattenSeq(parts) \in Seq(HitsOf(f))
  BY <1>5, FlatAppend
<1> DEFINE s == FlattenSeq(parts)
<1>7. s \in Seq(Hits) /\ \A k \in 1 .. Len(s) : s[k].path = f
  <2> HIDE DEF s
  <2>1. s \in Seq(HitsOf(f))
    BY <1>6 DEF s
  <2>2. \A k \in 1 .. Len(s) : s[k] \in HitsOf(f)
    BY <2>1
  <2>3. \A h \in HitsOf(f) : h \in Hits /\ h.path = f
    BY DEF HitsOf
  <2> HIDE DEF HitsOf, Hits
  <2> QED
    BY <2>1, <2>2, <2>3
<1>8. lines = <<>> => s = <<>>
  <2> SUFFICES ASSUME lines = <<>> PROVE s = <<>>
    OBVIOUS
  <2>1. c = 0
    OBVIOUS
  <2>2. Len(parts) = 0
    BY <2>1 DEF parts
  <2>3. parts = <<>>
    BY <1>5, <2>2
  <2> QED
    BY <2>3, FlatAppend
<1> HIDE DEF s
<1> QED
  BY <1>2, <1>7, <1>8 DEF Paths, s

Matching(query, files) == {f \in files : Rank(query, f) # NoMatch}
RankOrder(query) == {p \in Files \X Files : Better(query, p[1], p[2])}
HitsAt(list) == [k \in 1 .. Len(list) |-> FileHit(list[k])]

LEMMA RankOrders ==
    ASSUME NEW query, \A f \in Files : Rank(query, f) \in Nat, NEW files \in SUBSET Files
    PROVE  Orders(RankOrder(query), Matching(query, files))
<1>1. IsFiniteSet(Matching(query, files)) /\ Matching(query, files) \subseteq Files
  <2>1. Matching(query, files) \in SUBSET Files
    BY DEF Matching
  <2> QED
    BY <2>1, FindScanAssumption, FS_Subset
<1>2. \A x, y \in Files : <<x, y>> \in RankOrder(query) <=> Better(query, x, y)
  BY DEF RankOrder
<1>3. \A x \in Files : x \in Nat /\ Rank(query, x) \in Nat
  BY FindScanAssumption
<1>4. \A x \in Files : ~Better(query, x, x)
  BY <1>3 DEF Better
<1>5. \A x, y, z \in Files : Better(query, x, y) /\ Better(query, y, z) => Better(query, x, z)
  BY <1>3 DEF Better
<1>6. \A x, y \in Files : x # y => Better(query, x, y) \/ Better(query, y, x)
  BY <1>3 DEF Better
<1> QED
  BY <1>1, <1>2, <1>4, <1>5, <1>6 DEF Orders

\* The paths that match are reported in the order of their ranks.
LEMMA PathHitsFacts ==
    ASSUME NEW query, \A f \in Files : Rank(query, f) \in Nat, NEW files \in SUBSET Files
    PROVE  \E list : /\ Ranked(list, Matching(query, files), RankOrder(query))
                     /\ PathHits(query, files) = HitsAt(list)
<1> DEFINE S == Matching(query, files)
           R == RankOrder(query)
           c == Cardinality(S)
           list == InOrder(S, LAMBDA f, g : Better(query, f, g))
<1>1. Orders(R, S)
  BY RankOrders
<1>2. S \subseteq Files
  BY DEF Matching
<1>3. list = [k \in 1 .. c |-> CHOOSE x \in S : Cardinality({y \in S : Better(query, y, x)}) = k - 1]
  BY DEF InOrder
<1>4. PathHits(query, files) = [k \in DOMAIN list |-> FileHit(list[k])]
  BY DEF PathHits, Matching
<1> HIDE DEF list
<1>5. ASSUME NEW x \in S PROVE Place(S, R, x) = Cardinality({y \in S : Better(query, y, x)})
  <2>1. \A y \in S : <<y, x>> \in R <=> Better(query, y, x)
    BY <1>2 DEF RankOrder
  <2>2. Earlier(S, R, x) = {y \in S : Better(query, y, x)}
    BY <2>1 DEF Earlier
  <2> QED
    BY <2>2 DEF Place
<1> HIDE DEF S, R
<1>6. c \in Nat
  BY <1>1, PlaceFacts
<1>7. ASSUME NEW k \in 1 .. c PROVE list[k] \in S /\ Place(S, R, list[k]) = k - 1
  <2>1. PICK x \in S : Place(S, R, x) = k - 1
    BY <1>1, EveryPlace
  <2>2. \E z \in S : Cardinality({y \in S : Better(query, y, z)}) = k - 1
    BY <1>5, <2>1
  <2>3. list[k] = CHOOSE z \in S : Cardinality({y \in S : Better(query, y, z)}) = k - 1
    BY <1>3
  <2>4. list[k] \in S /\ Cardinality({y \in S : Better(query, y, list[k])}) = k - 1
    BY <2>2, <2>3
  <2> QED
    BY <1>5, <2>4
<1>8. DOMAIN list = 1 .. c /\ list \in Seq(S) /\ Len(list) = c
  <2>1. DOMAIN list = 1 .. c
    BY <1>3
  <2>2. list \in [1 .. c -> S]
    <3>1. list = [k \in 1 .. c |-> list[k]]
      BY <1>3
    <3> QED
      BY <1>7, <3>1
  <2> QED
    BY <1>6, <2>1, <2>2
<1>9. Ranked(list, S, R)
  BY <1>6, <1>7, <1>8 DEF Ranked
<1>10. PathHits(query, files) = HitsAt(list)
  BY <1>4, <1>8 DEF HitsAt
<1> QED
  BY <1>9, <1>10 DEF S, R

-----------------------------------------------------------------------------
(* What holds of a request while it is served.                             *)

Kept(list) == list \in Seq(Hits) /\ IsInjective(list) /\ Fitting(list)

FindLabels == {"start", "walk", "changed", "next", "read", "scan", "choose", "paths", "share",
               "done", "error", "failed"}

RepositoryTypes ==
    /\ content \in Repository /\ changes \in 0 .. MaxChanges
    /\ version \in [Files -> Nat] /\ \A f \in Files : version[f] <= changes
    /\ held \in [Files -> UNION {SUBSET Contents[f] : f \in Files}]
    /\ \A f \in Files : content[f] \in held[f] /\ held[f] \subseteq Contents[f]
    /\ dirty \in SUBSET Files /\ sameRoot \in BOOLEAN
WalkTypes ==
    /\ looking \in [for : {"none", "source", "all"}, left : SUBSET Files]
    /\ listed \in SUBSET Files /\ changed \in SUBSET Files
    /\ looking.for = "source" => listed \subseteq Sources
SourceTypes ==
    /\ queries \in QueryLists /\ opts \in Requests /\ cancelled \in BOOLEAN
    /\ todo \in SUBSET Sources /\ unread \in SUBSET Sources
    /\ turn \in DOMAIN queries /\ pc \in FindLabels
    /\ pc \in {"read", "scan"} => todo # {}
    /\ opened \in Nat /\ IsASeq(source)
CandidateTypes ==
    /\ symbols = [i \in DOMAIN queries |-> symbols[i]] /\ paths = [i \in DOMAIN queries |-> paths[i]]
    /\ \A i \in DOMAIN queries : Kept(symbols[i]) /\ Kept(paths[i])
FindTypes == RepositoryTypes /\ WalkTypes /\ SourceTypes /\ CandidateTypes

LEMMA RequestFacts ==
    ASSUME SourceTypes
    PROVE  /\ opts.limit \in Nat /\ opts.changedOnly \in BOOLEAN /\ opts.match \in {"symbol", "path", "auto"}
           /\ Len(queries) \in Nat \ {0} /\ DOMAIN queries = 1 .. Len(queries) /\ 1 \in DOMAIN queries
           /\ \A i \in DOMAIN queries : \A f \in Files : Rank(queries[i], f) \in Nat
<1>1. queries \in QueryLists /\ opts \in Requests
  BY DEF SourceTypes
<1>2. opts.limit \in Nat /\ opts.changedOnly \in BOOLEAN /\ opts.match \in {"symbol", "path", "auto"}
  BY <1>1, FindScanAssumption
<1>3. Len(queries) \in Nat \ {0} /\ DOMAIN queries = 1 .. Len(queries)
  BY <1>1, FindScanAssumption DEF IsASeq
<1>4. \A i \in DOMAIN queries : \A f \in Files : Rank(queries[i], f) \in Nat
  BY <1>1, FindScanAssumption
<1> QED
  BY <1>2, <1>3, <1>4

LEMMA RepositoryFacts ==
    ASSUME RepositoryTypes
    PROVE  \A f \in Files : content[f] \in Contents[f] /\ (content[f] = Absent \/ IsASeq(content[f]))
<1>1. \A f \in Files : content[f] \in Contents[f]
  BY DEF RepositoryTypes, Repository
<1> QED
  BY <1>1, FindScanAssumption

\* The next source is one of those left, and comes before the others.
SourceOrder == {p \in Files \X Files : Sooner(p[1], p[2])}

LEMMA SourceOrders ==
    ASSUME NEW S \in SUBSET Files
    PROVE  Orders(SourceOrder, S)
<1>1. IsFiniteSet(S)
  BY FindScanAssumption, FS_Subset
<1>2. \A x, y \in Files : <<x, y>> \in SourceOrder <=> Sooner(x, y)
  BY DEF SourceOrder
<1>3. \A x \in Files : x \in Nat
  BY FindScanAssumption
<1>4. \A x \in Files : ~Sooner(x, x)
  BY <1>3 DEF Sooner
<1>5. \A x, y, z \in Files : Sooner(x, y) /\ Sooner(y, z) => Sooner(x, z)
  BY <1>3 DEF Sooner
<1>6. \A x, y \in Files : x # y => Sooner(x, y) \/ Sooner(y, x)
  BY <1>3 DEF Sooner
<1> QED
  BY <1>1, <1>2, <1>4, <1>5, <1>6 DEF Orders

LEMMA NextSourceFacts ==
    ASSUME todo \in SUBSET Files, todo # {}
    PROVE  NextSource \in todo /\ \A g \in todo \ {NextSource} : Sooner(NextSource, g)
<1> DEFINE R == SourceOrder
<1>1. Orders(R, todo)
  BY SourceOrders
<1>2. Cardinality(todo) \in Nat /\ Cardinality(todo) # 0
  BY <1>1, PlaceFacts, FS_EmptySet DEF Orders
<1>3. \E x \in todo : Place(todo, R, x) = 0
  <2>1. PICK k : k = 1
    OBVIOUS
  <2>2. k \in 1 .. Cardinality(todo)
    BY <1>2, <2>1
  <2>3. \E x \in todo : Place(todo, R, x) = k - 1
    BY <1>1, <2>2, EveryPlace
  <2> QED
    BY <2>1, <2>3
<1>4. PICK x \in todo : Place(todo, R, x) = 0
  BY <1>3
<1>5. ASSUME NEW g \in todo \ {x} PROVE Sooner(x, g)
  <2>1. ~(<<g, x>> \in R)
    <3>1. Place(todo, R, g) \in Nat /\ (<<g, x>> \in R <=> Place(todo, R, g) < Place(todo, R, x))
      BY <1>1, PlaceFacts
    <3> QED
      BY <1>4, <3>1
  <2>2. <<x, g>> \in R
    BY <1>1, <2>1 DEF Orders
  <2> QED
    BY <2>2 DEF SourceOrder
<1>6. \E f \in todo : \A g \in todo \ {f} : Sooner(f, g)
  BY <1>4, <1>5
<1> QED
  BY <1>6 DEF NextSource

LEMMA InitTypes == ASSUME FindInit PROVE FindTypes
<1>1. /\ content \in Repository /\ version = [f \in Files |-> 0]
      /\ queries \in QueryLists /\ opts \in Requests
      /\ sameRoot = TRUE /\ changes = 0 /\ cancelled = FALSE
      /\ looking = [for |-> "none", left |-> {}] /\ listed = {} /\ changed = {}
      /\ todo = {} /\ opened = 0 /\ source = <<>> /\ turn = 1
      /\ symbols = [i \in DOMAIN queries |-> <<>>] /\ paths = symbols
      /\ pc = "start" /\ held = [f \in Files |-> {content[f]}] /\ unread = {}
  BY DEF FindInit
<1>2. dirty \in SUBSET Files
  <2>1. dirty \in IF opts.changedOnly THEN SUBSET Sources ELSE {{}}
    BY DEF FindInit
  <2> QED
    BY <2>1, FindScanAssumption
<1>3. RepositoryTypes
  <2>1. \A f \in Files : content[f] \in Contents[f]
    BY <1>1 DEF Repository
  <2>2. held \in [Files -> UNION {SUBSET Contents[f] : f \in Files}]
    <3>1. \A f \in Files : {content[f]} \in SUBSET Contents[f]
      BY <2>1
    <3>2. \A f \in Files : {content[f]} \in UNION {SUBSET Contents[g] : g \in Files}
      BY <3>1
    <3> QED
      BY <1>1, <3>2
  <2>3. \A f \in Files : content[f] \in held[f] /\ held[f] \subseteq Contents[f]
    BY <1>1, <2>1
  <2>4. changes \in 0 .. MaxChanges /\ version \in [Files -> Nat] /\ \A f \in Files : version[f] <= changes
    BY <1>1, FindScanAssumption
  <2> QED
    BY <1>1, <1>2, <2>2, <2>3, <2>4 DEF RepositoryTypes
<1>4. WalkTypes
  BY <1>1 DEF WalkTypes
<1>5. SourceTypes
  <2>1. Len(queries) \in Nat \ {0} /\ DOMAIN queries = 1 .. Len(queries)
    BY <1>1, FindScanAssumption DEF IsASeq
  <2>2. IsASeq(source)
    BY <1>1 DEF IsASeq
  <2>3. turn \in DOMAIN queries
    <3>1. 1 \in 1 .. Len(queries)
      BY <2>1
    <3> QED
      BY <1>1, <2>1, <3>1
  <2> QED
    BY <1>1, <2>2, <2>3 DEF SourceTypes, FindLabels
<1>6. CandidateTypes
  <2>1. Kept(<<>>)
    <3>1. <<>> \in Seq(Hits) /\ IsInjective(<<>>) /\ Len(<<>>) = 0
      BY DEF IsInjective
    <3>2. Fitting(<<>>)
      BY <1>1, <3>1, FindScanAssumption DEF Fitting
    <3> QED
      BY <3>1, <3>2 DEF Kept
  <2> QED
    BY <1>1, <2>1 DEF CandidateTypes
<1> QED
  BY <1>3, <1>4, <1>5, <1>6 DEF FindTypes

LEMMA RepositorySame ==
    ASSUME RepositoryTypes, UNCHANGED others
    PROVE  RepositoryTypes'
BY DEF RepositoryTypes, Repository, others

LEMMA CandidatesSame ==
    ASSUME CandidateTypes, UNCHANGED inputs, UNCHANGED <<symbols, paths>>
    PROVE  CandidateTypes'
<1>1. CandidateTypes' <=> CandidateTypes
  BY DEF CandidateTypes, Kept, Fitting, inputs
<1> QED
  BY <1>1

LEMMA ChangeTypes ==
    ASSUME FindTypes, Change
    PROVE  FindTypes'
<1>1. RepositoryTypes'
  <2>0. /\ content \in Repository /\ changes \in 0 .. MaxChanges
        /\ version \in [Files -> Nat] /\ (\A f \in Files : version[f] <= changes)
        /\ held \in [Files -> UNION {SUBSET Contents[f] : f \in Files}]
        /\ \A f \in Files : content[f] \in held[f] /\ held[f] \subseteq Contents[f]
        /\ dirty \in SUBSET Files /\ sameRoot \in BOOLEAN
    BY DEF FindTypes, RepositoryTypes
  <2>1. changes' \in 0 .. MaxChanges /\ changes' = changes + 1 /\ changes \in Nat
    BY <2>0, FindScanAssumption DEF Change
  <2>2. CASE sameRoot' = ~sameRoot /\ UNCHANGED <<content, version, dirty, held>>
    <3>1. \A f \in Files : version[f] \in Nat /\ version[f] <= changes'
      BY <2>0, <2>1
    <3> QED
      BY <2>0, <2>1, <2>2, <3>1 DEF RepositoryTypes, Repository
  <2>3. ASSUME NEW f \in Files, NEW c \in Contents[f],
               /\ content' = [content EXCEPT ![f] = c]
               /\ version' = [version EXCEPT ![f] = @ + 1]
               /\ dirty' = dirty \cup {f}
               /\ held' = [held EXCEPT ![f] = @ \cup {c}]
               /\ UNCHANGED sameRoot
        PROVE  RepositoryTypes'
    <3>1. content \in [Files -> UNION {Contents[g] : g \in Files}] /\ \A g \in Files : content[g] \in Contents[g]
      BY <2>0 DEF Repository
    <3>2. content' \in Repository
      <4>1. content' \in [Files -> UNION {Contents[g] : g \in Files}]
        BY <2>3, <3>1
      <4>2. \A g \in Files : content'[g] \in Contents[g]
        BY <2>3, <3>1
      <4> QED
        BY <4>1, <4>2 DEF Repository
    <3>3. version' \in [Files -> Nat] /\ \A g \in Files : version'[g] <= changes'
      BY <2>0, <2>1, <2>3
    <3>4. \A g \in Files : content'[g] \in held'[g] /\ held'[g] \subseteq Contents[g]
      BY <2>0, <2>3, <3>1
    <3>5. held' \in [Files -> UNION {SUBSET Contents[g] : g \in Files}]
      <4>1. \A g \in Files : held'[g] \in UNION {SUBSET Contents[h] : h \in Files}
        BY <3>4
      <4>2. held' = [g \in Files |-> held'[g]]
        BY <2>0, <2>3
      <4> QED
        BY <4>1, <4>2
    <3>6. dirty' \in SUBSET Files /\ sameRoot' \in BOOLEAN
      BY <2>0, <2>3
    <3>7. content' \in Repository'
      BY <3>2 DEF Repository
    <3> QED
      BY <2>1, <3>3, <3>4, <3>5, <3>6, <3>7 DEF RepositoryTypes
  <2> QED
    BY <2>2, <2>3 DEF Change
<1>2. WalkTypes' /\ SourceTypes'
  BY DEF FindTypes, WalkTypes, SourceTypes, Change, inputs
<1>3. CandidateTypes'
  BY CandidatesSame DEF FindTypes, Change
<1> QED
  BY <1>1, <1>2, <1>3 DEF FindTypes

LEMMA CancelTypes ==
    ASSUME FindTypes, Cancel
    PROVE  FindTypes'
<1>1. RepositoryTypes' /\ CandidateTypes'
  BY RepositorySame, CandidatesSame DEF FindTypes, Cancel
<1>2. WalkTypes' /\ SourceTypes'
  BY DEF FindTypes, WalkTypes, SourceTypes, Cancel, inputs
<1> QED
  BY <1>1, <1>2 DEF FindTypes

\* A step of the request that goes on changes neither the files nor what was asked.
LEMMA RequestTypes ==
    ASSUME FindTypes, Request, WalkTypes', CandidateTypes',
           todo' \in SUBSET Sources, unread' \in SUBSET Sources,
           turn' \in DOMAIN queries, pc' \in FindLabels,
           pc' \in {"read", "scan"} => todo' # {}, opened' \in Nat, IsASeq(source')
    PROVE  FindTypes'
<1>1. RepositoryTypes'
  BY RepositorySame DEF FindTypes, Request
<1>2. SourceTypes'
  BY DEF FindTypes, SourceTypes, Request, inputs
<1> QED
  BY <1>1, <1>2 DEF FindTypes

\* ... and in many of them, not the candidates either.
LEMMA PlainTypes ==
    ASSUME FindTypes, Request, UNCHANGED <<symbols, paths>>, WalkTypes',
           todo' \in SUBSET Sources, unread' \in SUBSET Sources,
           turn' \in DOMAIN queries, pc' \in FindLabels,
           pc' \in {"read", "scan"} => todo' # {}, opened' \in Nat, IsASeq(source')
    PROVE  FindTypes'
<1>1. CandidateTypes'
  BY CandidatesSame DEF FindTypes, Request
<1> QED
  BY <1>1, RequestTypes

LEMMA WalkStepTypes ==
    ASSUME FindTypes, Start \/ (\E f \in Files : Look(f)) \/ WalkEnd \/ ChangedFileSet \/ Fail
    PROVE  FindTypes'
<1>1. /\ todo \in SUBSET Sources /\ unread \in SUBSET Sources /\ turn \in DOMAIN queries
      /\ pc \in FindLabels /\ opened \in Nat /\ IsASeq(source)
      /\ looking \in [for : {"none", "source", "all"}, left : SUBSET Files]
      /\ listed \in SUBSET Files /\ changed \in SUBSET Files /\ dirty \in SUBSET Files
      /\ looking.for = "source" => listed \subseteq Sources
  BY DEF FindTypes, SourceTypes, WalkTypes, RepositoryTypes
<1>2. CASE Start
  <2>1. /\ Request /\ UNCHANGED <<symbols, paths, todo, unread, turn, opened, source>>
        /\ pc' \in FindLabels \ {"read", "scan"}
    BY <1>2 DEF Start, Checked, Goto, Walk, FindLabels
  <2>2. WalkTypes'
    BY <1>1, <1>2 DEF Start, Checked, Goto, Walk, WalkTypes
  <2> QED
    BY <1>1, <2>1, <2>2, PlainTypes
<1>3. ASSUME NEW f \in Files, Look(f) PROVE FindTypes'
  <2>1. /\ Request /\ UNCHANGED <<symbols, paths, todo, unread, turn, opened, source>>
        /\ pc' \in FindLabels \ {"read", "scan"}
    BY <1>1, <1>3 DEF Look, Checked, Goto, FindLabels
  <2>2. WalkTypes'
    <3>1. CASE cancelled
      BY <1>1, <1>3, <3>1 DEF Look, Checked, WalkTypes
    <3>2. CASE ~cancelled
      <4>1. /\ looking' = [looking EXCEPT !.left = @ \ {f}] /\ UNCHANGED changed
            /\ listed' \in {listed, listed \cup
                               {g \in {f} : content[g] # Absent /\ (looking.for = "source" => g \in Sources)}}
        BY <1>3, <3>2 DEF Look, Checked
      <4>2. looking'.for = looking.for /\ looking' \in [for : {"none", "source", "all"}, left : SUBSET Files]
        BY <1>1, <4>1
      <4>3. listed' \in SUBSET Files /\ (looking.for = "source" => listed' \subseteq Sources)
        BY <1>1, <4>1
      <4> QED
        BY <1>1, <4>1, <4>2, <4>3 DEF WalkTypes
    <3> QED
      BY <3>1, <3>2
  <2> QED
    BY <1>1, <2>1, <2>2, PlainTypes
<1>4. CASE WalkEnd
  <2>1. /\ Request /\ UNCHANGED <<symbols, paths, unread, turn, opened, source>>
        /\ pc' \in FindLabels \ {"read", "scan"}
        /\ todo' \in SUBSET Sources
    BY <1>1, <1>4 DEF WalkEnd, Goto, FindLabels
  <2>2. WalkTypes'
    BY <1>1, <1>4 DEF WalkEnd, WalkTypes
  <2> QED
    BY <1>1, <2>1, <2>2, PlainTypes
<1>5. CASE ChangedFileSet
  <2>1. /\ Request /\ UNCHANGED <<symbols, paths, todo, unread, turn, opened, source>>
        /\ pc' \in FindLabels \ {"read", "scan"}
    BY <1>5 DEF ChangedFileSet, Checked, Goto, FindLabels
  <2>2. WalkTypes'
    BY <1>1, <1>5 DEF ChangedFileSet, Checked, WalkTypes
  <2> QED
    BY <1>1, <2>1, <2>2, PlainTypes
<1>6. CASE Fail
  <2>1. /\ Request /\ UNCHANGED <<symbols, paths, todo, unread, turn, opened, source>>
        /\ pc' \in FindLabels \ {"read", "scan"}
    BY <1>6 DEF Fail, Goto, FindLabels
  <2>2. WalkTypes'
    BY <1>1, <1>6 DEF Fail, WalkTypes
  <2> QED
    BY <1>1, <2>1, <2>2, PlainTypes
<1> QED
  BY <1>2, <1>3, <1>4, <1>5, <1>6

LEMMA SourceStepTypes ==
    ASSUME FindTypes, OpenSource \/ ReadSource \/ ScanQuery \/ SourcesEnd
    PROVE  FindTypes'
<1>1. /\ todo \in SUBSET Sources /\ unread \in SUBSET Sources /\ turn \in DOMAIN queries
      /\ pc \in FindLabels /\ opened \in Nat /\ IsASeq(source) /\ (pc \in {"read", "scan"} => todo # {})
      /\ version \in [Files -> Nat] /\ todo \in SUBSET Files
      /\ DOMAIN queries = 1 .. Len(queries) /\ Len(queries) \in Nat /\ 1 \in DOMAIN queries
  BY RequestFacts, FindScanAssumption DEF FindTypes, SourceTypes, RepositoryTypes
<1>2. \A f \in Files : content[f] # Absent => IsASeq(content[f])
  BY RepositoryFacts DEF FindTypes
<1>3. ASSUME UNCHANGED <<looking, listed, changed>> PROVE WalkTypes'
  BY <1>3 DEF FindTypes, WalkTypes
<1>4. todo # {} => NextSource \in todo
  BY <1>1, NextSourceFacts
<1> HIDE DEF NextSource
<1>5. CASE OpenSource
  <2>1. Request /\ UNCHANGED <<symbols, paths, turn, looking, listed, changed>> /\ todo # {}
    BY <1>5 DEF OpenSource, Checked
  <2>2. \/ UNCHANGED <<todo, opened, source, unread>> /\ pc' = "error"
        \/ todo' = todo \ {NextSource} /\ pc' = "next" /\ UNCHANGED <<opened, source, unread>>
        \/ pc' = "read" /\ opened' = version[NextSource] /\ source' = content[NextSource]
           /\ content[NextSource] # Absent /\ UNCHANGED <<todo, unread>>
        \/ todo' = todo \ {NextSource} /\ pc' = "next" /\ unread' = unread \cup {NextSource}
           /\ UNCHANGED <<opened, source>>
    BY <1>5 DEF OpenSource, Checked, Goto, Skip
  <2>3. /\ todo' \in SUBSET Sources /\ unread' \in SUBSET Sources /\ pc' \in FindLabels
        /\ (pc' \in {"read", "scan"} => todo' # {}) /\ opened' \in Nat /\ IsASeq(source')
    <3>1. NextSource \in Sources /\ NextSource \in Files
      BY <1>1, <1>4, <2>1
    <3>2. CASE UNCHANGED <<todo, opened, source, unread>> /\ pc' = "error"
      BY <1>1, <3>2 DEF FindLabels
    <3>3. CASE todo' = todo \ {NextSource} /\ pc' = "next" /\ UNCHANGED <<opened, source, unread>>
      BY <1>1, <3>3 DEF FindLabels
    <3>4. CASE /\ pc' = "read" /\ opened' = version[NextSource] /\ source' = content[NextSource]
               /\ content[NextSource] # Absent /\ UNCHANGED <<todo, unread>>
      BY <1>1, <1>2, <2>1, <3>1, <3>4 DEF FindLabels
    <3>5. CASE /\ todo' = todo \ {NextSource} /\ pc' = "next" /\ unread' = unread \cup {NextSource}
               /\ UNCHANGED <<opened, source>>
      BY <1>1, <3>1, <3>5 DEF FindLabels
    <3> QED
      BY <2>2, <3>2, <3>3, <3>4, <3>5
  <2> QED
    BY <1>1, <1>3, <2>1, <2>3, PlainTypes
<1>6. CASE ReadSource
  <2>1. /\ Request /\ UNCHANGED <<symbols, paths, opened, source, looking, listed, changed>> /\ todo # {}
        /\ pc = "read"
    BY <1>1, <1>6 DEF ReadSource
  <2>2. \/ todo' = todo \ {NextSource} /\ pc' = "next" /\ UNCHANGED turn
           /\ unread' \in {unread, unread \cup {NextSource}}
        \/ pc' = "error" /\ UNCHANGED <<todo, turn, unread>>
        \/ pc' = "scan" /\ turn' = 1 /\ UNCHANGED <<todo, unread>>
    BY <1>6 DEF ReadSource, Goto, Skip
  <2>3. /\ todo' \in SUBSET Sources /\ unread' \in SUBSET Sources /\ pc' \in FindLabels
        /\ (pc' \in {"read", "scan"} => todo' # {}) /\ turn' \in DOMAIN queries
    BY <1>1, <1>4, <2>1, <2>2 DEF FindLabels
  <2> QED
    BY <1>1, <1>3, <2>1, <2>3, PlainTypes
<1>7. CASE ScanQuery
  <2>1. /\ Request /\ UNCHANGED <<paths, opened, source, looking, listed, changed, unread>> /\ todo # {}
        /\ pc = "scan"
    BY <1>1, <1>7 DEF ScanQuery, Checked
  <2>2. \/ pc' = "error" /\ UNCHANGED <<symbols, todo, turn>>
        \/ /\ symbols' = [symbols EXCEPT ![turn] =
                             AddCandidates(@, FindHits(queries[turn], NextSource, source))]
           /\ \/ turn < Len(queries) /\ turn' = turn + 1 /\ UNCHANGED <<todo, pc>>
              \/ turn' = 1 /\ todo' = todo \ {NextSource} /\ pc' = "next"
    BY <1>7 DEF ScanQuery, Checked, Goto, Skip, ScannedLines
  <2>3. /\ todo' \in SUBSET Sources /\ pc' \in FindLabels
        /\ (pc' \in {"read", "scan"} => todo' # {}) /\ turn' \in DOMAIN queries
    <3>1. ASSUME turn < Len(queries) PROVE turn + 1 \in DOMAIN queries
      BY <1>1, <3>1
    <3> QED
      BY <1>1, <2>1, <2>2, <3>1 DEF FindLabels
  <2>4. CandidateTypes'
    <3>1. CASE UNCHANGED symbols
      BY <2>1, <3>1, CandidatesSame DEF FindTypes, Request
    <3>2. CASE symbols' = [symbols EXCEPT ![turn] =
                              AddCandidates(@, FindHits(queries[turn], NextSource, source))]
      <4> DEFINE new == AddCandidates(symbols[turn], FindHits(queries[turn], NextSource, source))
      <4>1. /\ symbols = [i \in DOMAIN queries |-> symbols[i]] /\ paths = [i \in DOMAIN queries |-> paths[i]]
            /\ \A i \in DOMAIN queries : Kept(symbols[i]) /\ Kept(paths[i])
            /\ opts.limit \in Nat
        BY RequestFacts DEF FindTypes, CandidateTypes
      <4>2. NextSource \in Files
        BY <1>1, <1>4, <2>1
      <4>3. FindHits(queries[turn], NextSource, source) \in Seq(Hits)
        BY <1>1, <4>2, FindHitsFacts
      <4>4. Kept(new)
        <5>1. Kept(symbols[turn])
          BY <1>1, <4>1
        <5> HIDE DEF Hits
        <5> QED
          BY <4>1, <4>3, <5>1, AddKeeps DEF Kept
      <4>5. symbols' = [symbols EXCEPT ![turn] = new]
        BY <3>2
      <4> HIDE DEF new
      <4>6. /\ \A i \in DOMAIN queries : Kept(symbols'[i])
            /\ symbols' = [i \in DOMAIN queries |-> symbols'[i]]
        BY <1>1, <4>1, <4>4, <4>5
      <4>7. \A i \in DOMAIN queries : Kept(symbols[i])' /\ Kept(paths[i])'
        <5>1. UNCHANGED <<opts, queries, paths>>
          BY <2>1 DEF Request, inputs
        <5> QED
          BY <4>1, <4>6, <5>1 DEF Kept, Fitting
      <4>8. UNCHANGED <<queries, paths>>
        BY <2>1 DEF Request, inputs
      <4> QED
        BY <4>1, <4>6, <4>7, <4>8 DEF CandidateTypes
    <3> QED
      BY <2>2, <3>1, <3>2
  <2> QED
    BY <1>1, <1>3, <2>1, <2>3, <2>4, RequestTypes
<1>8. CASE SourcesEnd
  <2>1. /\ Request /\ UNCHANGED <<symbols, paths, opened, source, looking, listed, changed, unread, todo, turn>>
        /\ pc' = "choose"
    BY <1>8 DEF SourcesEnd, Goto
  <2>2. pc' \in FindLabels /\ (pc' \in {"read", "scan"} => todo' # {})
    BY <2>1 DEF FindLabels
  <2> QED
    BY <1>1, <1>3, <2>1, <2>2, PlainTypes
<1> QED
  BY <1>5, <1>6, <1>7, <1>8

LEMMA HitsAtFacts ==
    ASSUME NEW S \in SUBSET Files, NEW list \in Seq(S)
    PROVE  /\ HitsAt(list) \in Seq(Hits) /\ Len(HitsAt(list)) = Len(list)
           /\ \A k \in 1 .. Len(list) : HitsAt(list)[k] = FileHit(list[k]) /\ HitsAt(list)[k].path = list[k]
<1>1. \A f \in S : FileHit(f) \in Hits /\ FileHit(f).path = f
  BY DEF FileHit, Hits
<1>2. Len(list) \in Nat /\ \A k \in 1 .. Len(list) : list[k] \in S
  OBVIOUS
<1> DEFINE h == [k \in 1 .. Len(list) |-> FileHit(list[k])]
<1>3. \A k \in 1 .. Len(list) : h[k] = FileHit(list[k]) /\ h[k] \in Hits /\ h[k].path = list[k]
  BY <1>1, <1>2
<1>4. h \in Seq(Hits) /\ Len(h) = Len(list)
  <2>1. \A k \in 1 .. Len(list) : FileHit(list[k]) \in Hits
    BY <1>1, <1>2
  <2> HIDE DEF Hits
  <2> QED
    BY <1>2, <2>1
<1> HIDE DEF h
<1>5. HitsAt(list) = h
  BY DEF HitsAt, h
<1> QED
  BY <1>3, <1>4, <1>5, Zenon

LEMMA PathHitsTypes ==
    ASSUME NEW query, \A f \in Files : Rank(query, f) \in Nat, NEW files \in SUBSET Files
    PROVE  PathHits(query, files) \in Seq(Hits)
<1>1. PICK list : /\ Ranked(list, Matching(query, files), RankOrder(query))
                  /\ PathHits(query, files) = HitsAt(list)
  BY PathHitsFacts
<1>2. list \in Seq(Matching(query, files)) /\ Matching(query, files) \in SUBSET Files
  BY <1>1 DEF Ranked, Matching
<1> QED
  BY <1>1, <1>2, HitsAtFacts

LEMMA EmptyKept ==
    ASSUME opts.limit \in Nat
    PROVE  Kept(<<>>)
<1>1. <<>> \in Seq(Hits) /\ IsInjective(<<>>) /\ Len(<<>>) = 0
  BY DEF IsInjective
<1>2. Fitting(<<>>)
  BY <1>1 DEF Fitting
<1> QED
  BY <1>1, <1>2 DEF Kept

LEMMA AnswerStepTypes ==
    ASSUME FindTypes, ChoosePathQueries \/ FindPathCandidates \/ Finish
    PROVE  FindTypes'
<1>1. /\ todo \in SUBSET Sources /\ unread \in SUBSET Sources /\ turn \in DOMAIN queries
      /\ pc \in FindLabels /\ opened \in Nat /\ IsASeq(source)
      /\ looking \in [for : {"none", "source", "all"}, left : SUBSET Files]
      /\ listed \in SUBSET Files /\ changed \in SUBSET Files
      /\ looking.for = "source" => listed \subseteq Sources
  BY DEF FindTypes, SourceTypes, WalkTypes
<1>2. CASE ChoosePathQueries
  <2>1. /\ Request /\ UNCHANGED <<symbols, paths, todo, unread, turn, opened, source>>
        /\ pc' \in FindLabels \ {"read", "scan"}
    BY <1>2 DEF ChoosePathQueries, Goto, Walk, FindLabels
  <2>2. WalkTypes'
    BY <1>1, <1>2 DEF ChoosePathQueries, Goto, Walk, WalkTypes
  <2> QED
    BY <1>1, <2>1, <2>2, PlainTypes
<1>3. CASE FindPathCandidates
  <2>1. /\ Request /\ UNCHANGED <<symbols, looking, listed, changed, todo, unread, turn, opened, source>>
        /\ pc' \in FindLabels \ {"read", "scan"}
    BY <1>3 DEF FindPathCandidates, Goto, FindLabels
  <2>2. WalkTypes'
    BY <1>1, <2>1 DEF WalkTypes
  <2>3. CandidateTypes'
    <3>1. CASE UNCHANGED paths
      BY <2>1, <3>1, CandidatesSame DEF FindTypes, Request
    <3>2. CASE ~UNCHANGED paths
      <4>1. /\ symbols = [i \in DOMAIN queries |-> symbols[i]] /\ \A i \in DOMAIN queries : Kept(symbols[i])
            /\ opts.limit \in Nat /\ \A i \in DOMAIN queries : \A f \in Files : Rank(queries[i], f) \in Nat
        BY RequestFacts DEF FindTypes, CandidateTypes
      <4> DEFINE new(i) == IF AsPath(i)
                           THEN AddCandidates(<<>>, PathHits(queries[i], {f \in listed : Wanted(f)}))
                           ELSE <<>>
      <4>2. paths' = [i \in DOMAIN queries |-> new(i)]
        BY <1>3, <3>2 DEF FindPathCandidates
      <4>3. ASSUME NEW i \in DOMAIN queries PROVE Kept(new(i))
        <5>1. PathHits(queries[i], {f \in listed : Wanted(f)}) \in Seq(Hits)
          <6>1. {f \in listed : Wanted(f)} \in SUBSET Files
            BY <1>1
          <6> QED
            BY <4>1, <6>1, PathHitsTypes
        <5>2. Kept(AddCandidates(<<>>, PathHits(queries[i], {f \in listed : Wanted(f)})))
          <6>1. Kept(<<>>)
            BY <4>1, EmptyKept
          <6> HIDE DEF Hits
          <6> QED
            BY <4>1, <5>1, <6>1, AddKeeps DEF Kept
        <5> QED
          BY <4>1, <5>2, EmptyKept
      <4> HIDE DEF new
      <4>4. \A i \in DOMAIN queries : paths'[i] = new(i)
        BY <4>2
      <4>5. paths' = [i \in DOMAIN queries |-> paths'[i]] /\ \A i \in DOMAIN queries : Kept(paths'[i])
        BY <4>2, <4>3, <4>4
      <4>6. UNCHANGED <<opts, queries, symbols>>
        BY <2>1 DEF Request, inputs
      <4>7. \A i \in DOMAIN queries : Kept(symbols[i])' /\ Kept(paths[i])'
        BY <4>1, <4>5, <4>6 DEF Kept, Fitting
      <4> QED
        BY <4>1, <4>5, <4>6, <4>7 DEF CandidateTypes
    <3> QED
      BY <3>1, <3>2
  <2> QED
    BY <1>1, <2>1, <2>2, <2>3, RequestTypes
<1>4. CASE Finish
  <2>1. /\ Request /\ UNCHANGED <<symbols, paths, looking, listed, changed, todo, unread, turn, opened, source>>
        /\ pc' \in FindLabels \ {"read", "scan"}
    BY <1>4 DEF Finish, Goto, FindLabels
  <2>2. WalkTypes'
    BY <1>1, <2>1 DEF WalkTypes
  <2> QED
    BY <1>1, <2>1, <2>2, PlainTypes
<1> QED
  BY <1>2, <1>3, <1>4

LEMMA NextTypes == FindTypes /\ [FindNext]_findVars => FindTypes'
<1> SUFFICES ASSUME FindTypes, [FindNext]_findVars PROVE FindTypes'
  OBVIOUS
<1>1. CASE UNCHANGED findVars
  <2>1. RepositoryTypes' /\ CandidateTypes'
    BY <1>1, RepositorySame, CandidatesSame DEF FindTypes, findVars
  <2>2. WalkTypes' /\ SourceTypes'
    BY <1>1 DEF FindTypes, WalkTypes, SourceTypes, findVars, inputs
  <2> QED
    BY <2>1, <2>2 DEF FindTypes
<1>2. CASE FindNext
  BY <1>2, ChangeTypes, CancelTypes, WalkStepTypes, SourceStepTypes, AnswerStepTypes DEF FindNext
<1> QED
  BY <1>1, <1>2

LEMMA TypesAlways == FindSpec => []FindTypes
<1>1. FindInit => FindTypes
  BY InitTypes
<1> QED
  BY <1>1, NextTypes, PTL DEF FindSpec

\* Whatever other processes do, and wherever a request is cancelled, every part of it is
\* in its type, and every query has each of its candidates once and no more than one
\* beyond the limit.
THEOREM FindTypeCorrect == FindSpec => []FindTypeOK
<1>1. FindTypes => FindTypeOK
  <2> SUFFICES ASSUME FindTypes PROVE FindTypeOK
    OBVIOUS
  <2>1. content \in Repository /\ version \in [Files -> 0 .. MaxChanges]
    <3>1. /\ changes \in 0 .. MaxChanges /\ version \in [Files -> Nat]
          /\ \A f \in Files : version[f] <= changes
      BY DEF FindTypes, RepositoryTypes
    <3>2. \A f \in Files : version[f] \in 0 .. MaxChanges
      BY <3>1, FindScanAssumption
    <3>3. version \in [Files -> 0 .. MaxChanges]
      BY <3>1, <3>2
    <3> QED
      BY <3>3 DEF FindTypes, RepositoryTypes
  <2>2. /\ dirty \subseteq Files /\ changed \subseteq Files /\ listed \subseteq Files
        /\ unread \subseteq Sources /\ {sameRoot, cancelled} \subseteq BOOLEAN
        /\ looking.left \subseteq Files /\ looking.for \in {"none", "source", "all"}
        /\ todo \subseteq Sources /\ turn \in DOMAIN queries
    BY DEF FindTypes, RepositoryTypes, WalkTypes, SourceTypes
  <2>3. pc \in {"start", "walk", "changed", "next", "read", "scan", "choose", "paths", "share",
                "done", "error", "failed"}
    BY DEF FindTypes, SourceTypes, FindLabels
  <2>4. \A i \in DOMAIN queries : \A list \in {symbols[i], paths[i]} :
           IsInjective(list) /\ (opts.limit > 0 => Len(list) <= opts.limit + 1)
    BY DEF FindTypes, CandidateTypes, Kept, Fitting
  <2> QED
    BY <2>1, <2>2, <2>3, <2>4 DEF FindTypeOK
<1> QED
  BY <1>1, TypesAlways, PTL

-----------------------------------------------------------------------------
(* What is said of the files.                                              *)

LEMMA HitsSame ==
    ASSUME UNCHANGED opts, NEW query, NEW f, NEW lines
    PROVE  FindHits(query, f, lines)' = FindHits(query, f, lines)
<1>1. \A kind, line : FindHit(kind, f, lines, line)' = FindHit(kind, f, lines, line)
  BY DEF FindHit
<1> QED
  BY <1>1 DEF FindHits

\* What a walk has found, of the files that nobody has touched since the request began.
WalkFacts ==
    /\ \A f \in listed : held[f] # {Absent}
    /\ pc \in {"walk", "changed"} => looking.for \in {"source", "all"}
    /\ pc \in {"changed", "paths"} => looking.left = {}
    /\ pc = "paths" => looking.for = "all"
    /\ pc \in {"walk", "changed", "paths"} =>
          \A f \in Files \ looking.left :
              version[f] = 0 /\ content[f] # Absent /\ (looking.for = "source" => f \in Sources)
                  => f \in listed
    /\ opts.changedOnly /\ pc \in {"next", "read", "scan", "paths"} =>
          \A f \in Files : version[f] = 0 => (f \in changed <=> f \in dirty)

\* The source that is looked at, and those left.
SourceFacts ==
    /\ pc \in {"read", "scan"} =>
          /\ Wanted(NextSource)
          /\ source # Absent /\ source \in held[NextSource] /\ opened <= version[NextSource]
          /\ opened = version[NextSource] => source = content[NextSource]
    /\ pc \in {"start", "walk", "choose", "paths", "share", "done"} => todo = {}
    /\ pc = "changed" => todo = IF looking.for = "source" THEN listed ELSE {}

\* The sources have been listed.
Began == pc \in {"next", "read", "scan", "choose", "paths", "share", "done"}
            \/ (pc \in {"walk", "changed"} /\ looking.for = "all")

\* What may be said of a file, and what is.
Sayable(f) == IF Untouched(f) THEN {IF InQuestion(f) THEN content[f] ELSE Absent}
              ELSE held[f] \cup {Absent}
Fits(i, f, c) ==
    /\ IsPrefix(About(symbols[i], f), Found(queries[i], f, c))
    /\ ~Full(symbols[i]) => About(symbols[i], f) = Found(queries[i], f, c)

NothingYet ==
    pc = "start" \/ (pc \in {"walk", "changed"} /\ looking.for = "source") =>
        \A i \in DOMAIN queries : symbols[i] = <<>>
SymbolPaths ==
    \A i \in DOMAIN queries : \A f \in Paths(symbols[i]) : f \in Sources /\ held[f] # {Absent}
SourcesDone ==
    Began /\ opts.match # "path" =>
        \A f \in Sources \ todo : \E c \in Sayable(f) : \A i \in DOMAIN queries : Fits(i, f, c)
SourcesLeft ==
    pc \in {"next", "read", "scan"} =>
        \A f \in todo : \A i \in DOMAIN queries :
            IF pc = "scan" /\ f = NextSource /\ i < turn THEN Fits(i, f, source)
            ELSE About(symbols[i], f) = <<>>
SymbolFacts == NothingYet /\ SymbolPaths /\ SourcesDone /\ SourcesLeft

PathFacts ==
    pc \in {"share", "done"} => \A i \in PathQueries :
        /\ paths[i] = Cut(PathHits(queries[i], {f \in listed : Wanted(f)}))
        /\ \A f \in Files : Untouched(f) /\ content[f] # Absent /\ InQuestion(f) =>
              f \in listed /\ Wanted(f)
\* How the candidates are shared out.
Given(answer, i, give) ==
    /\ answer = Response(i, give) /\ (opts.limit > 0 => give <= opts.limit)
    /\ give < Len(CandidatesOf(i)) => opts.limit > 0 /\ give >= opts.limit \div Len(queries)
SharedOut ==
    pc = "done" =>
        /\ DOMAIN answers \subseteq DOMAIN queries
        /\ opts.limit = 0 \/ opts.limit >= Len(queries) => DOMAIN answers = DOMAIN queries
        /\ \A i \in DOMAIN answers : \E give \in 0 .. Len(CandidatesOf(i)) : Given(answers[i], i, give)
AnswerFacts == PathFacts /\ SharedOut

FindFacts == WalkFacts /\ SourceFacts /\ SymbolFacts /\ AnswerFacts

\* Files change only for good, and versions tell.
Onward ==
    \A f \in Files :
        /\ held[f] \subseteq held'[f] /\ version[f] <= version'[f]
        /\ version'[f] = version[f] => content'[f] = content[f]
        /\ version'[f] = 0 => version[f] = 0 /\ (f \in dirty' <=> f \in dirty)

LEMMA OnwardFacts ==
    ASSUME RepositoryTypes
    PROVE  /\ Change => Onward
           /\ UNCHANGED others => Onward
<1>1. version \in [Files -> Nat] /\ DOMAIN held = Files /\ content \in [Files -> UNION {Contents[f] : f \in Files}]
  BY DEF RepositoryTypes, Repository
<1>2. ASSUME UNCHANGED others PROVE Onward
  BY <1>1, <1>2 DEF others, Onward
<1>3. ASSUME Change PROVE Onward
  <2>1. CASE UNCHANGED <<content, version, dirty, held>>
    BY <1>1, <2>1 DEF Onward
  <2>2. CASE ~UNCHANGED <<content, version, dirty, held>>
    <3>1. PICK f \in Files : \E c \in Contents[f] :
             /\ content' = [content EXCEPT ![f] = c]
             /\ version' = [version EXCEPT ![f] = @ + 1]
             /\ dirty' = dirty \cup {f}
             /\ held' = [held EXCEPT ![f] = @ \cup {c}]
      BY <1>3, <2>2 DEF Change
    <3>2. PICK c : /\ content' = [content EXCEPT ![f] = c]
                   /\ version' = [version EXCEPT ![f] = @ + 1]
                   /\ dirty' = dirty \cup {f}
                   /\ held' = [held EXCEPT ![f] = @ \cup {c}]
      BY <3>1
    <3>3. ASSUME NEW g \in Files
          PROVE  /\ held[g] \subseteq held'[g] /\ version[g] <= version'[g]
                 /\ version'[g] = version[g] => content'[g] = content[g]
                 /\ version'[g] = 0 => version[g] = 0 /\ (g \in dirty' <=> g \in dirty)
      <4>1. CASE g = f
        <5>1. version[f] \in Nat /\ version'[f] = version[f] + 1
          BY <1>1, <3>2
        <5>2. held[f] \subseteq held'[f]
          BY <1>1, <3>2
        <5> QED
          BY <4>1, <5>1, <5>2
      <4>2. CASE g # f
        BY <1>1, <3>2, <4>2
      <4> QED
        BY <4>1, <4>2
    <3> QED
      BY <3>3 DEF Onward
  <2> QED
    BY <2>1, <2>2
<1> QED
  BY <1>2, <1>3

\* What may be said of a file stays so.
LEMMA SayableGrows ==
    ASSUME RepositoryTypes, Onward, UNCHANGED opts, unread \subseteq unread', cancelled => cancelled',
           NEW f \in Files
    PROVE  Sayable(f) \subseteq Sayable(f)' /\ (Untouched(f)' => Untouched(f))
<1>1. /\ content[f] \in held[f] /\ held[f] \subseteq held'[f] /\ version[f] \in Nat
      /\ version'[f] = version[f] => content'[f] = content[f]
      /\ version'[f] = 0 => version[f] = 0 /\ (f \in dirty' <=> f \in dirty)
  BY DEF RepositoryTypes, Onward
<1>2. CASE Untouched(f)'
  <2>1. Untouched(f) /\ content'[f] = content[f] /\ (f \in dirty' <=> f \in dirty)
    BY <1>1, <1>2 DEF Untouched
  <2> QED
    BY <1>2, <2>1 DEF Sayable, InQuestion
<1>3. CASE ~Untouched(f)'
  <2>1. Sayable(f)' = held'[f] \cup {Absent}
    BY <1>3 DEF Sayable
  <2>2. Sayable(f) \subseteq held[f] \cup {Absent}
    BY <1>1 DEF Sayable
  <2> QED
    BY <1>1, <1>3, <2>1, <2>2
<1> QED
  BY <1>2, <1>3

\* What is said depends on the request and its candidates only.
LEMMA FitsSame ==
    ASSUME UNCHANGED inputs, NEW i, symbols'[i] = symbols[i], NEW f, NEW c
    PROVE  Fits(i, f, c) => Fits(i, f, c)'
<1>1. UNCHANGED opts /\ UNCHANGED queries
  BY DEF inputs
<1>2. FindHits(queries[i], f, Lines(c))' = FindHits(queries[i], f, Lines(c))
  <2>1. PICK q : q = queries[i]
    OBVIOUS
  <2>2. FindHits(q, f, Lines(c))' = FindHits(q, f, Lines(c))
    BY <1>1, HitsSame
  <2>3. queries'[i] = q
    BY <1>1, <2>1
  <2> QED
    BY <2>1, <2>2, <2>3
<1>3. Found(queries[i], f, c)' = Found(queries[i], f, c)
  BY <1>2 DEF Found
<1>4. About(symbols[i], f)' = About(symbols[i], f) /\ (Full(symbols[i])' <=> Full(symbols[i]))
  BY <1>1 DEF Full
<1> QED
  BY <1>3, <1>4 DEF Fits

\* Other processes, and a cancellation, make nothing wrong that has been found.
LEMMA WalkElsewhere ==
    ASSUME RepositoryTypes, WalkTypes, WalkFacts, Onward, UNCHANGED <<inputs, looking, listed, changed, pc>>
    PROVE  WalkFacts'
<1>1. UNCHANGED opts
  BY DEF inputs
<1>2. \A f \in Files : held[f] # {Absent} /\ content[f] \in held[f] => held'[f] # {Absent}
  BY DEF Onward
<1>3. \A f \in Files : /\ version[f] \in Nat /\ content[f] \in held[f]
                       /\ version'[f] = 0 => version[f] = 0 /\ content'[f] = content[f]
                                             /\ (f \in dirty' <=> f \in dirty)
  BY DEF RepositoryTypes, Onward
<1>4. listed \in SUBSET Files /\ looking.left \in SUBSET Files
  BY DEF WalkTypes
<1>5. \A f \in listed' : held'[f] # {Absent}
  BY <1>2, <1>3, <1>4 DEF WalkFacts
<1>6. pc' \in {"walk", "changed", "paths"} =>
          \A f \in Files \ looking'.left :
              version'[f] = 0 /\ content'[f] # Absent /\ (looking'.for = "source" => f \in Sources)
                  => f \in listed'
  BY <1>3 DEF WalkFacts
<1>7. opts'.changedOnly /\ pc' \in {"next", "read", "scan", "paths"} =>
          \A f \in Files : version'[f] = 0 => (f \in changed' <=> f \in dirty')
  BY <1>1, <1>3 DEF WalkFacts
<1> QED
  BY <1>5, <1>6, <1>7 DEF WalkFacts

LEMMA NextSourceSame ==
    ASSUME UNCHANGED inputs, UNCHANGED todo
    PROVE  NextSource' = NextSource
<1>1. \A f, g : Sooner(f, g)' <=> Sooner(f, g)
  BY DEF Sooner, inputs
<1> QED
  BY <1>1 DEF NextSource

LEMMA SourceElsewhere ==
    ASSUME RepositoryTypes, RepositoryTypes', SourceTypes, SourceFacts, Onward,
           UNCHANGED <<inputs, looking, listed, changed, todo, opened, source, pc>>
    PROVE  SourceFacts'
<1>1. UNCHANGED NextSource
  BY NextSourceSame
<1>2. pc \in {"read", "scan"} => NextSource \in Files
  BY NextSourceFacts, FindScanAssumption DEF SourceTypes
<1> HIDE DEF NextSource
<1>3. ASSUME pc \in {"read", "scan"}
      PROVE  /\ Wanted(NextSource)'
             /\ source' # Absent /\ source' \in held'[NextSource] /\ opened' <= version'[NextSource]
             /\ opened' = version'[NextSource] => source' = content'[NextSource]
  <2>1. /\ Wanted(NextSource) /\ source # Absent /\ source \in held[NextSource]
        /\ opened <= version[NextSource] /\ (opened = version[NextSource] => source = content[NextSource])
    BY <1>3 DEF SourceFacts
  <2>2. PICK f \in Files : f = NextSource
    BY <1>2, <1>3
  <2>3. /\ held[f] \subseteq held'[f] /\ version[f] <= version'[f]
        /\ (version'[f] = version[f] => content'[f] = content[f])
    BY DEF Onward
  <2>4. version[f] \in Nat /\ opened \in Nat
    BY DEF RepositoryTypes, SourceTypes
  <2>5. version'[f] \in Nat
    BY DEF RepositoryTypes
  <2>6. opened <= version'[f]
    BY <2>1, <2>2, <2>3, <2>4, <2>5
  <2>7. opened = version'[f] => version[f] = opened
    BY <2>1, <2>2, <2>3, <2>4, <2>5
  <2>8. Wanted(f)'
    BY <2>1, <2>2 DEF Wanted, inputs
  <2> QED
    BY <1>1, <2>1, <2>2, <2>3, <2>6, <2>7, <2>8
<1> QED
  BY <1>1, <1>3 DEF SourceFacts

LEMMA SymbolElsewhere ==
    ASSUME RepositoryTypes, RepositoryTypes', SourceTypes, SymbolFacts, Onward, cancelled => cancelled',
           UNCHANGED <<inputs, looking, todo, source, turn, symbols, pc, unread>>
    PROVE  SymbolFacts'
<1>1. UNCHANGED NextSource
  BY NextSourceSame
<1> HIDE DEF NextSource
<1>2. UNCHANGED opts /\ UNCHANGED queries
  BY DEF inputs
<1>3. \A i : \A f, c : Fits(i, f, c) => Fits(i, f, c)'
  BY FitsSame
<1>4. \A f \in Files : Sayable(f) \subseteq Sayable(f)'
  BY <1>2, SayableGrows
<1>5. Sources \subseteq Files
  BY FindScanAssumption
<1>6. Began' <=> Began
  BY DEF Began
<1>7. NothingYet'
  BY <1>2 DEF SymbolFacts, NothingYet
<1>8. SymbolPaths'
  <2>1. \A f \in Files : held[f] # {Absent} /\ content[f] \in held[f] => held'[f] # {Absent}
    BY DEF Onward
  <2>2. \A f \in Files : content[f] \in held[f]
    BY DEF RepositoryTypes
  <2>3. \A i \in DOMAIN queries : \A f \in Paths(symbols'[i]) : f \in Sources /\ held'[f] # {Absent}
    BY <1>5, <2>1, <2>2 DEF SymbolFacts, SymbolPaths
  <2> QED
    BY <1>2, <2>3 DEF SymbolPaths
<1>9. SourcesDone'
  <2> SUFFICES ASSUME Began', opts'.match # "path", NEW f \in Sources \ todo'
               PROVE  \E c \in Sayable(f)' : \A i \in DOMAIN queries' : Fits(i, f, c)'
    BY DEF SourcesDone
  <2>1. PICK c \in Sayable(f) : \A i \in DOMAIN queries : Fits(i, f, c)
    BY <1>2, <1>6 DEF SymbolFacts, SourcesDone
  <2>2. c \in Sayable(f)'
    BY <1>4, <1>5, <2>1
  <2>3. \A i \in DOMAIN queries : Fits(i, f, c)'
    BY <1>3, <2>1
  <2> QED
    BY <1>2, <2>2, <2>3
<1>10. SourcesLeft'
  <2> SUFFICES ASSUME pc' \in {"next", "read", "scan"}, NEW f \in todo', NEW i \in DOMAIN queries'
               PROVE  IF pc' = "scan" /\ f = NextSource' /\ i < turn' THEN Fits(i, f, source)'
                      ELSE About(symbols'[i], f) = <<>>
    BY DEF SourcesLeft
  <2>1. IF pc = "scan" /\ f = NextSource /\ i < turn THEN Fits(i, f, source)
        ELSE About(symbols[i], f) = <<>>
    BY <1>2 DEF SymbolFacts, SourcesLeft
  <2>2. Fits(i, f, source) => Fits(i, f, source)'
    <3>1. PICK c : c = source
      OBVIOUS
    <3>2. Fits(i, f, c) => Fits(i, f, c)'
      BY <1>3
    <3>3. Fits(i, f, c)' => Fits(i, f, source)'
      BY <3>1
    <3> QED
      BY <3>1, <3>2, <3>3
  <2> QED
    BY <1>1, <2>1, <2>2
<1> QED
  BY <1>7, <1>8, <1>9, <1>10 DEF SymbolFacts

\* The candidates of the paths.
LEMMA PathsElsewhere ==
    ASSUME RepositoryTypes, PathFacts, Onward, cancelled => cancelled', unread \subseteq unread',
           pc' \in {"share", "done"} => pc \in {"share", "done"},
           UNCHANGED <<inputs, listed, changed, symbols, paths>>
    PROVE  PathFacts'
<1>1. UNCHANGED opts /\ UNCHANGED queries
  BY DEF inputs
<1>2. UNCHANGED PathQueries
  <2>1. \A i : AsPath(i)' <=> AsPath(i)
    BY <1>1 DEF AsPath
  <2> QED
    BY <1>1, <2>1 DEF PathQueries
<1>3. \A f : Wanted(f)' <=> Wanted(f)
  BY <1>1 DEF Wanted
<1>4. {f \in listed : Wanted(f)}' = {f \in listed : Wanted(f)}
  BY <1>3
<1> SUFFICES ASSUME pc' \in {"share", "done"}, NEW i \in PathQueries'
             PROVE  /\ paths'[i] = Cut(PathHits(queries[i], {f \in listed : Wanted(f)}))'
                    /\ \A f \in Files : Untouched(f)' /\ content'[f] # Absent /\ InQuestion(f)' =>
                          f \in listed' /\ Wanted(f)'
  BY DEF PathFacts
<1>5. /\ paths[i] = Cut(PathHits(queries[i], {f \in listed : Wanted(f)}))
      /\ \A f \in Files : Untouched(f) /\ content[f] # Absent /\ InQuestion(f) =>
            f \in listed /\ Wanted(f)
  BY <1>2 DEF PathFacts
<1>6. Cut(PathHits(queries[i], {f \in listed : Wanted(f)}))' = Cut(PathHits(queries[i], {f \in listed : Wanted(f)}))
  <2> DEFINE hits == PathHits(queries[i], {f \in listed : Wanted(f)})
  <2>1. hits' = hits
    BY <1>1, <1>4
  <2> HIDE DEF hits
  <2>2. Cut(hits)' = Cut(hits)
    BY <1>1, <2>1 DEF Cut
  <2> QED
    BY <2>2 DEF hits
<1>7. ASSUME NEW f \in Files, Untouched(f)', content'[f] # Absent, InQuestion(f)'
      PROVE  f \in listed' /\ Wanted(f)'
  <2>1. Untouched(f)
    BY <1>1, <1>7, SayableGrows
  <2>2. content[f] # Absent /\ InQuestion(f)
    BY <1>1, <1>7, <2>1 DEF Untouched, InQuestion, Onward
  <2> QED
    BY <1>3, <1>5, <2>1, <2>2
<1> QED
  BY <1>5, <1>6, <1>7

LEMMA SharedSame ==
    ASSUME SharedOut, UNCHANGED <<inputs, symbols, paths, answers>>, pc' = "done" => pc = "done"
    PROVE  SharedOut'
<1>1. UNCHANGED opts /\ UNCHANGED queries
  BY DEF inputs
<1>2. \A i : CandidatesOf(i)' = CandidatesOf(i) /\ MatchedAs(i)' = MatchedAs(i)
  BY <1>1 DEF CandidatesOf, MatchedAs, AsPath
<1>3. \A i, give : Response(i, give)' = Response(i, give)
  BY <1>2 DEF Response
<1>4. \A a, i, give : Given(a, i, give)' <=> Given(a, i, give)
  BY <1>1, <1>2, <1>3 DEF Given
<1> QED
  BY <1>1, <1>2, <1>4 DEF SharedOut

LEMMA Elsewhere ==
    ASSUME FindTypes, FindTypes', FindFacts, Onward, cancelled => cancelled',
           UNCHANGED <<inputs, looking, listed, changed, todo, opened, source, turn, symbols, paths,
                       answers, pc, unread>>
    PROVE  FindFacts'
<1>1. WalkFacts' /\ SourceFacts'
  BY WalkElsewhere, SourceElsewhere DEF FindTypes, FindFacts
<1>2. SymbolFacts'
  BY SymbolElsewhere DEF FindTypes, FindFacts
<1>3. PathFacts' /\ SharedOut'
  BY PathsElsewhere, SharedSame DEF FindTypes, FindFacts, AnswerFacts
<1> QED
  BY <1>1, <1>2, <1>3 DEF FindFacts, AnswerFacts

LEMMA InitFacts == ASSUME FindInit PROVE FindFacts
<1>1. /\ listed = {} /\ looking.for = "none" /\ todo = {} /\ pc = "start"
      /\ \A i \in DOMAIN queries : symbols[i] = <<>>
  BY DEF FindInit
<1>2. Paths(<<>>) = {}
  BY DEF Paths
<1>3. WalkFacts
  BY <1>1 DEF WalkFacts
<1>4. SourceFacts
  BY <1>1 DEF SourceFacts
<1>5. SymbolFacts
  BY <1>1, <1>2 DEF SymbolFacts, NothingYet, SymbolPaths, SourcesDone, SourcesLeft, Began
<1>6. AnswerFacts
  BY <1>1 DEF AnswerFacts, PathFacts, SharedOut
<1> QED
  BY <1>3, <1>4, <1>5, <1>6 DEF FindFacts

\* A walk goes on.
LEMMA WalkStepFacts ==
    ASSUME FindTypes, WalkFacts,
           Start \/ (\E f \in Files : Look(f)) \/ WalkEnd \/ ChangedFileSet \/ Fail
    PROVE  WalkFacts'
<1>1. UNCHANGED opts /\ UNCHANGED <<content, version, dirty, sameRoot, held>>
  BY DEF Start, Look, WalkEnd, ChangedFileSet, Fail, Request, inputs, others
<1>2. \A f \in Files : content[f] # Absent => held[f] # {Absent}
  BY DEF FindTypes, RepositoryTypes
<1>3. looking \in [for : {"none", "source", "all"}, left : SUBSET Files]
  BY DEF FindTypes, WalkTypes
<1>4. CASE Start
  <2>1. \/ pc' \in {"error", "choose"} /\ UNCHANGED <<looking, listed>>
        \/ pc' = "walk" /\ looking' = [for |-> "source", left |-> Files] /\ listed' = {}
    BY <1>4 DEF Start, Checked, Walk, Goto
  <2> QED
    BY <1>1, <2>1 DEF WalkFacts
<1>5. ASSUME NEW f \in Files, Look(f) PROVE WalkFacts'
  <2>1. pc = "walk" /\ UNCHANGED changed
    BY <1>5 DEF Look, Checked
  <2>2. \/ pc' = "error" /\ UNCHANGED listed
        \/ /\ pc' = "walk" /\ looking' = [looking EXCEPT !.left = @ \ {f}]
           /\ listed' = listed \cup
                 {g \in {f} : content[g] # Absent /\ (looking.for = "source" => g \in Sources)}
    BY <1>5, <2>1 DEF Look, Checked, Goto
  <2>3. CASE pc' = "error" /\ UNCHANGED listed
    BY <1>1, <2>3 DEF WalkFacts
  <2>4. CASE /\ pc' = "walk" /\ looking' = [looking EXCEPT !.left = @ \ {f}]
             /\ listed' = listed \cup
                   {g \in {f} : content[g] # Absent /\ (looking.for = "source" => g \in Sources)}
    <3>1. looking'.for = looking.for /\ looking'.left = looking.left \ {f}
      BY <1>3, <2>4
    <3>2. looking.for \in {"source", "all"}
      BY <2>1 DEF WalkFacts
    <3>3. \A g \in listed' : held'[g] # {Absent}
      BY <1>1, <1>2, <2>4 DEF WalkFacts
    <3>4. ASSUME NEW g \in Files \ looking'.left, version'[g] = 0, content'[g] # Absent,
                 looking'.for = "source" => g \in Sources
          PROVE  g \in listed'
      <4>1. CASE g = f
        BY <1>1, <2>4, <3>1, <3>4, <4>1
      <4>2. CASE g # f
        <5>1. g \in listed
          BY <1>1, <2>1, <3>1, <3>4, <4>2 DEF WalkFacts
        <5> QED
          BY <2>4, <5>1
      <4> QED
        BY <4>1, <4>2
    <3> QED
      BY <2>4, <3>1, <3>2, <3>3, <3>4 DEF WalkFacts
  <2> QED
    BY <2>2, <2>3, <2>4
<1>6. CASE WalkEnd
  <2>1. /\ UNCHANGED <<looking, listed, changed>> /\ pc = "walk" /\ looking.left = {}
        /\ pc' = IF ~sameRoot THEN "error" ELSE IF opts.changedOnly THEN "changed"
                 ELSE IF looking.for = "source" THEN "next" ELSE "paths"
    BY <1>6 DEF WalkEnd, Goto
  <2>2. looking.for \in {"source", "all"}
    BY <2>1 DEF WalkFacts
  <2>3. opts.changedOnly => pc' \notin {"next", "read", "scan", "paths"}
    BY <2>1
  <2>4. pc' \in {"error", "changed", "next", "paths"} /\ (pc' = "paths" => looking.for = "all")
    BY <2>1, <2>2
  <2> QED
    BY <1>1, <2>1, <2>2, <2>3, <2>4 DEF WalkFacts
<1>7. CASE ChangedFileSet
  <2>1. /\ UNCHANGED <<looking, listed>> /\ pc = "changed"
        /\ \/ pc' = "error" /\ UNCHANGED changed
           \/ /\ changed' = dirty
              /\ pc' = IF ~sameRoot THEN "error" ELSE IF looking.for = "source" THEN "next" ELSE "paths"
    BY <1>7 DEF ChangedFileSet, Checked, Goto
  <2>2. looking.for \in {"source", "all"} /\ looking.left = {}
    BY <2>1 DEF WalkFacts
  <2>3. pc' \in {"error", "next", "paths"} /\ (pc' = "paths" => looking.for = "all")
        /\ (pc' \in {"next", "paths"} => changed' = dirty)
    BY <2>1, <2>2
  <2> QED
    BY <1>1, <2>1, <2>2, <2>3 DEF WalkFacts
<1>8. CASE Fail
  <2>1. UNCHANGED <<looking, listed, changed>> /\ pc' = "failed"
    BY <1>8 DEF Fail, Goto
  <2> QED
    BY <1>1, <2>1 DEF WalkFacts
<1> QED
  BY <1>4, <1>5, <1>6, <1>7, <1>8

\* Of a file of which nothing is said, nothing has to be said if it was not there.
LEMMA FitsNothing ==
    ASSUME NEW i, NEW f \in Files, About(symbols[i], f) = <<>>
    PROVE  Fits(i, f, Absent)
<1>1. Lines(Absent) = <<>> /\ IsASeq(<<>>)
  BY DEF Lines, IsASeq
<1>2. FindHits(queries[i], f, <<>>) = <<>>
  BY <1>1, FindHitsFacts
<1>3. Found(queries[i], f, Absent) = <<>>
  BY <1>1, <1>2, DistinctAppend DEF Found
<1>4. IsPrefix(<<>>, <<>>)
  BY DEF IsPrefix
<1> QED
  BY <1>3, <1>4 DEF Fits

\* What has been said of the sources that are done stays right.
LEMMA DoneSame ==
    ASSUME RepositoryTypes, SourcesDone, Began, UNCHANGED others, UNCHANGED inputs,
           UNCHANGED <<cancelled, symbols>>, todo \subseteq todo', unread \subseteq unread'
    PROVE  SourcesDone'
<1>1. UNCHANGED opts /\ UNCHANGED queries
  BY DEF inputs
<1>2. Onward
  BY OnwardFacts
<1>3. \A f \in Files : Sayable(f) \subseteq Sayable(f)'
  BY <1>1, <1>2, SayableGrows
<1>4. \A i : \A f, c : Fits(i, f, c) => Fits(i, f, c)'
  BY FitsSame
<1> SUFFICES ASSUME opts'.match # "path", NEW f \in Sources \ todo'
             PROVE  \E c \in Sayable(f)' : \A i \in DOMAIN queries' : Fits(i, f, c)'
  BY DEF SourcesDone
<1>5. PICK c \in Sayable(f) : \A i \in DOMAIN queries : Fits(i, f, c)
  BY <1>1 DEF SourcesDone
<1>6. f \in Files
  BY FindScanAssumption
<1>7. \A i \in DOMAIN queries : Fits(i, f, c)'
  BY <1>4, <1>5
<1> QED
  BY <1>1, <1>3, <1>5, <1>6, <1>7

\* The sources are listed: of those that are not, nothing has to be said.
LEMMA DoneFirst ==
    ASSUME FindTypes, WalkFacts, pc \in {"walk", "changed"}, looking.for = "source", looking.left = {},
           \A i \in DOMAIN queries : symbols[i] = <<>>,
           Request, UNCHANGED <<symbols, unread>>, pc' = "next", todo' = listed
    PROVE  SourcesDone' /\ SourcesLeft'
<1>1. /\ UNCHANGED <<opts, queries>> /\ UNCHANGED others /\ UNCHANGED <<cancelled, symbols>>
      /\ UNCHANGED inputs
  BY DEF Request, inputs
<1>2. \A f : About(<<>>, f) = <<>>
  BY AboutAppend
<1>3. SourcesLeft'
  BY <1>1, <1>2 DEF SourcesLeft
<1>4. ASSUME NEW f \in Sources \ listed PROVE Absent \in Sayable(f)
  <2>1. f \in Files /\ version[f] \in Nat
    BY FindScanAssumption DEF FindTypes, RepositoryTypes
  <2>2. CASE ~Untouched(f)
    BY <2>2 DEF Sayable
  <2>3. CASE Untouched(f)
    <3>1. version[f] = 0
      BY <2>3 DEF Untouched
    <3>2. content[f] = Absent
      BY <1>4, <2>1, <3>1 DEF WalkFacts
    <3> QED
      BY <2>3, <3>2 DEF Sayable
  <2> QED
    BY <2>2, <2>3
<1>5. ASSUME NEW f \in Sources \ listed, NEW i \in DOMAIN queries PROVE Fits(i, f, Absent)'
  <2>1. f \in Files /\ About(symbols[i], f) = <<>>
    BY <1>2, FindScanAssumption
  <2>2. Fits(i, f, Absent)
    BY <2>1, FitsNothing
  <2>3. symbols'[i] = symbols[i]
    BY <1>1
  <2> QED
    BY <1>1, <2>2, <2>3, FitsSame
<1>6. \A f \in Files : Sayable(f) \subseteq Sayable(f)'
  <2>1. RepositoryTypes /\ Onward
    BY <1>1, OnwardFacts DEF FindTypes
  <2> QED
    BY <1>1, <2>1, SayableGrows
<1>7. \A f \in Sources \ listed : Absent \in Sayable(f)'
  BY <1>4, <1>6, FindScanAssumption
<1> QED
  BY <1>1, <1>3, <1>5, <1>7 DEF SourcesDone

\* What is said of the sources names sources.
LEMMA SymbolPathsSame ==
    ASSUME SymbolPaths, UNCHANGED inputs, UNCHANGED others, UNCHANGED symbols
    PROVE  SymbolPaths'
BY DEF SymbolPaths, inputs, others

LEMMA WalkStepSymbols ==
    ASSUME FindTypes, FindFacts,
           Start \/ (\E f \in Files : Look(f)) \/ WalkEnd \/ ChangedFileSet \/ Fail
    PROVE  SourceFacts' /\ SymbolFacts' /\ AnswerFacts'
<1>1. /\ Request /\ UNCHANGED <<symbols, unread>> /\ UNCHANGED inputs /\ UNCHANGED others
      /\ UNCHANGED cancelled /\ UNCHANGED <<opts, queries>>
  BY DEF Start, Look, WalkEnd, ChangedFileSet, Fail, Request, inputs, Checked
<1>2. /\ RepositoryTypes /\ WalkFacts /\ SourceFacts /\ SymbolPaths /\ SourcesDone /\ NothingYet
      /\ looking \in [for : {"none", "source", "all"}, left : SUBSET Files]
  BY DEF FindTypes, FindFacts, SymbolFacts, WalkTypes
<1>3. SymbolPaths'
  BY <1>1, <1>2, SymbolPathsSame
<1>4. ASSUME pc' \in {"error", "failed"} PROVE SourceFacts' /\ SymbolFacts' /\ AnswerFacts'
  BY <1>3, <1>4 DEF SourceFacts, SymbolFacts, NothingYet, SourcesDone, SourcesLeft, Began, AnswerFacts,
                    PathFacts, SharedOut
<1>5. CASE Start
  <2>1. /\ pc = "start" /\ UNCHANGED todo
        /\ \/ pc' = "error"
           \/ opts.match = "path" /\ pc' = "choose"
           \/ pc' = "walk" /\ looking' = [for |-> "source", left |-> Files]
    BY <1>5 DEF Start, Checked, Walk, Goto
  <2>2. todo = {} /\ \A i \in DOMAIN queries : symbols[i] = <<>>
    BY <1>2, <2>1 DEF SourceFacts, NothingYet
  <2>3. CASE opts.match = "path" /\ pc' = "choose"
    BY <1>1, <1>3, <2>1, <2>2, <2>3
    DEF SourceFacts, SymbolFacts, NothingYet, SourcesDone, SourcesLeft, AnswerFacts, PathFacts, SharedOut
  <2>4. CASE pc' = "walk" /\ looking' = [for |-> "source", left |-> Files]
    <3>1. ~Began'
      BY <2>4 DEF Began
    <3> QED
      BY <1>1, <1>3, <2>1, <2>2, <2>4, <3>1
      DEF SourceFacts, SymbolFacts, NothingYet, SourcesDone, SourcesLeft, AnswerFacts, PathFacts, SharedOut
  <2> QED
    BY <1>4, <2>1, <2>3, <2>4
<1>6. ASSUME NEW f \in Files, Look(f) PROVE SourceFacts' /\ SymbolFacts' /\ AnswerFacts'
  <2>1. pc = "walk" /\ UNCHANGED todo
    BY <1>6 DEF Look, Checked
  <2>2. pc' = "error" \/ (pc' = "walk" /\ looking' = [looking EXCEPT !.left = @ \ {f}])
    BY <1>6, <2>1 DEF Look, Checked, Goto
  <2>3. CASE pc' = "walk" /\ looking' = [looking EXCEPT !.left = @ \ {f}]
    <3>1. looking'.for = looking.for
      BY <1>2, <2>3
    <3>2. SourceFacts'
      BY <1>2, <2>1, <2>3 DEF SourceFacts
    <3>3. NothingYet' /\ SourcesLeft' /\ AnswerFacts'
      BY <1>1, <1>2, <2>1, <2>3, <3>1 DEF NothingYet, SourcesLeft, AnswerFacts, PathFacts, SharedOut
    <3>4. SourcesDone'
      <4>1. CASE Began
        BY <1>1, <1>2, <2>1, <4>1, DoneSame
      <4>2. CASE ~Began
        <5>1. ~Began'
          BY <2>1, <2>3, <3>1, <4>2 DEF Began
        <5> QED
          BY <5>1 DEF SourcesDone
      <4> QED
        BY <4>1, <4>2
    <3> QED
      BY <1>3, <3>2, <3>3, <3>4 DEF SymbolFacts
  <2> QED
    BY <1>4, <2>2, <2>3
<1>7. CASE WalkEnd
  <2>1. /\ UNCHANGED looking /\ UNCHANGED <<listed, changed>> /\ pc = "walk" /\ looking.left = {}
        /\ todo' = IF looking.for = "source" THEN listed ELSE todo
        /\ pc' = IF ~sameRoot THEN "error" ELSE IF opts.changedOnly THEN "changed"
                 ELSE IF looking.for = "source" THEN "next" ELSE "paths"
    BY <1>7 DEF WalkEnd, Goto
  <2>2. looking.for \in {"source", "all"} /\ todo = {}
    BY <1>2, <2>1 DEF WalkFacts, SourceFacts
  <2>3. CASE looking.for = "all"
    <3>1. Began /\ todo' = {} /\ pc' \in {"error", "changed", "paths"}
      BY <2>1, <2>2, <2>3 DEF Began
    <3>2. SourceFacts' /\ NothingYet' /\ SourcesLeft' /\ AnswerFacts'
      BY <2>1, <2>3, <3>1 DEF SourceFacts, NothingYet, SourcesLeft, AnswerFacts, PathFacts, SharedOut
    <3>3. SourcesDone'
      BY <1>1, <1>2, <2>2, <3>1, DoneSame
    <3> QED
      BY <1>3, <3>2, <3>3 DEF SymbolFacts
  <2>4. CASE looking.for = "source"
    <3>1. pc' \in {"error", "changed", "next"} /\ todo' = listed
          /\ \A i \in DOMAIN queries : symbols[i] = <<>>
      BY <1>2, <2>1, <2>4 DEF NothingYet
    <3>2. SourceFacts' /\ NothingYet' /\ AnswerFacts'
      BY <1>1, <2>1, <2>4, <3>1 DEF SourceFacts, NothingYet, AnswerFacts, PathFacts, SharedOut
    <3>3. SourcesDone' /\ SourcesLeft'
      <4>1. CASE pc' = "next"
        BY <1>1, <1>2, <2>1, <2>4, <3>1, <4>1, DoneFirst
      <4>2. CASE pc' # "next"
        BY <2>1, <2>4, <3>1, <4>2 DEF SourcesDone, SourcesLeft, Began
      <4> QED
        BY <4>1, <4>2
    <3> QED
      BY <1>3, <3>2, <3>3 DEF SymbolFacts
  <2> QED
    BY <2>2, <2>3, <2>4
<1>8. CASE ChangedFileSet
  <2>1. /\ UNCHANGED looking /\ UNCHANGED <<listed, todo>> /\ pc = "changed"
        /\ \/ pc' = "error"
           \/ pc' = IF ~sameRoot THEN "error" ELSE IF looking.for = "source" THEN "next" ELSE "paths"
    BY <1>8 DEF ChangedFileSet, Checked, Goto
  <2>2. /\ looking.for \in {"source", "all"} /\ looking.left = {}
        /\ todo = IF looking.for = "source" THEN listed ELSE {}
    BY <1>2, <2>1 DEF WalkFacts, SourceFacts
  <2>3. CASE looking.for = "all" /\ pc' # "error"
    <3>1. Began /\ todo' = {} /\ pc' = "paths"
      BY <2>1, <2>2, <2>3 DEF Began
    <3>2. SourceFacts' /\ NothingYet' /\ SourcesLeft' /\ AnswerFacts'
      BY <2>1, <2>3, <3>1 DEF SourceFacts, NothingYet, SourcesLeft, AnswerFacts, PathFacts, SharedOut
    <3>3. SourcesDone'
      BY <1>1, <1>2, <2>1, <2>2, <2>3, <3>1, DoneSame
    <3> QED
      BY <1>3, <3>2, <3>3 DEF SymbolFacts
  <2>4. CASE looking.for = "source" /\ pc' # "error"
    <3>1. pc' = "next" /\ todo' = listed /\ \A i \in DOMAIN queries : symbols[i] = <<>>
      BY <1>2, <2>1, <2>2, <2>4 DEF NothingYet
    <3>2. SourceFacts' /\ NothingYet' /\ AnswerFacts'
      BY <1>1, <2>1, <2>4, <3>1 DEF SourceFacts, NothingYet, AnswerFacts, PathFacts, SharedOut
    <3>3. SourcesDone' /\ SourcesLeft'
      BY <1>1, <1>2, <2>1, <2>2, <2>4, <3>1, DoneFirst
    <3> QED
      BY <1>3, <3>2, <3>3 DEF SymbolFacts
  <2> QED
    BY <1>4, <2>2, <2>3, <2>4
<1>9. CASE Fail
  <2>1. pc' = "failed"
    BY <1>9 DEF Fail, Goto
  <2> QED
    BY <1>4, <2>1
<1> QED
  BY <1>5, <1>6, <1>7, <1>8, <1>9

\* While the sources are read the walk is over.
LEMMA WalkOver ==
    ASSUME WalkFacts, pc \in {"next", "read", "scan"}, pc' \in {"next", "read", "scan", "choose", "error"},
           Request, UNCHANGED <<looking, listed, changed>>
    PROVE  WalkFacts'
BY DEF WalkFacts, Request, others, inputs

\* A source of which nothing is said, and nothing has to be said, is passed over.
LEMMA Passed ==
    ASSUME FindTypes, FindFacts, pc \in {"next", "read"}, todo # {},
           NEW g, g = NextSource, Absent \in Sayable(g)',
           Request, UNCHANGED <<symbols, looking, listed, changed>>, pc' = "next",
           todo' = todo \ {g}, unread \subseteq unread'
    PROVE  FindFacts'
<1>1. /\ UNCHANGED <<opts, queries>> /\ UNCHANGED others /\ UNCHANGED inputs /\ UNCHANGED cancelled
  BY DEF Request, inputs
<1>2. /\ RepositoryTypes /\ WalkFacts /\ SymbolPaths /\ SourcesDone /\ SourcesLeft
      /\ todo \in SUBSET Sources /\ Sources \subseteq Files
  BY FindScanAssumption DEF FindTypes, SourceTypes, FindFacts, SymbolFacts
<1>3. NextSource \in todo /\ NextSource \in Files
  BY <1>2, NextSourceFacts
<1> HIDE DEF NextSource
<1>4. WalkFacts' /\ SymbolPaths'
  BY <1>1, <1>2, WalkOver, SymbolPathsSame
<1>5. SourceFacts' /\ NothingYet' /\ AnswerFacts'
  BY DEF SourceFacts, NothingYet, AnswerFacts, PathFacts, SharedOut
<1>6. \A f \in todo : \A i \in DOMAIN queries : About(symbols[i], f) = <<>>
  BY <1>2 DEF SourcesLeft
<1>7. SourcesLeft'
  BY <1>1, <1>6 DEF SourcesLeft
<1>8. SourcesDone'
  <2> SUFFICES ASSUME opts'.match # "path", NEW f \in Sources \ todo'
               PROVE  \E c \in Sayable(f)' : \A i \in DOMAIN queries' : Fits(i, f, c)'
    BY DEF SourcesDone
  <2>0. \A i, c : Fits(i, f, c) => Fits(i, f, c)'
    BY <1>1, FitsSame
  <2>1. CASE f = NextSource
    <3>2. ASSUME NEW i \in DOMAIN queries PROVE Fits(i, f, Absent)'
      <4>1. Fits(i, f, Absent)
        BY <1>3, <1>6, <2>1, FitsNothing
      <4> QED
        BY <2>0, <4>1
    <3>3. Absent \in Sayable(f)'
      BY <2>1
    <3> QED
      BY <1>1, <3>2, <3>3
  <2>2. CASE f # NextSource
    <3>1. f \in Sources \ todo /\ f \in Files
      BY <1>2, <2>2
    <3>2. Began /\ opts.match # "path"
      BY <1>1 DEF Began
    <3>3. PICK c \in Sayable(f) : \A i \in DOMAIN queries : Fits(i, f, c)
      BY <1>2, <3>1, <3>2 DEF SourcesDone
    <3>4. Sayable(f) \subseteq Sayable(f)'
      BY <1>1, <1>2, <3>1, OnwardFacts, SayableGrows
    <3> QED
      BY <1>1, <2>0, <3>3, <3>4
  <2> QED
    BY <2>1, <2>2
<1> QED
  BY <1>4, <1>5, <1>7, <1>8 DEF FindFacts, SymbolFacts

LEMMA Stopped ==
    ASSUME FindFacts, Request, UNCHANGED <<symbols, listed>>, pc' \in {"error", "failed"}
    PROVE  FindFacts'
<1>1. UNCHANGED inputs /\ UNCHANGED others
  BY DEF Request
<1>2. SymbolPaths'
  BY <1>1, SymbolPathsSame DEF FindFacts, SymbolFacts
<1>3. WalkFacts'
  BY <1>1 DEF FindFacts, WalkFacts, others
<1>4. SourceFacts' /\ NothingYet' /\ SourcesDone' /\ SourcesLeft' /\ AnswerFacts'
  BY DEF SourceFacts, NothingYet, SourcesDone, SourcesLeft, Began, AnswerFacts, PathFacts, SharedOut
<1> QED
  BY <1>2, <1>3, <1>4 DEF FindFacts, SymbolFacts

LEMMA OpenFacts ==
    ASSUME FindTypes, FindFacts, OpenSource
    PROVE  FindFacts'
<1>1. /\ Request /\ UNCHANGED <<symbols, looking, listed, changed>> /\ todo # {} /\ pc = "next"
      /\ UNCHANGED inputs /\ UNCHANGED others /\ UNCHANGED cancelled /\ UNCHANGED <<opts, queries>>
  BY DEF OpenSource, Checked, Request, inputs
<1>2. /\ RepositoryTypes /\ WalkFacts /\ SymbolPaths /\ SourcesDone /\ SourcesLeft
      /\ todo \in SUBSET Sources /\ Sources \subseteq Files
  BY FindScanAssumption DEF FindTypes, SourceTypes, FindFacts, SymbolFacts
<1>3. PICK f \in Files : f = NextSource
  BY <1>1, <1>2, NextSourceFacts
<1> HIDE DEF NextSource
<1>4. \/ pc' = "error"
      \/ ~Wanted(f) /\ todo' = todo \ {f} /\ pc' = "next" /\ unread' = unread
      \/ content[f] = Absent /\ todo' = todo \ {f} /\ pc' = "next" /\ unread' = unread
      \/ /\ Wanted(f) /\ content[f] # Absent /\ pc' = "read" /\ opened' = version[f]
         /\ source' = content[f] /\ UNCHANGED <<todo, unread>>
      \/ todo' = todo \ {f} /\ pc' = "next" /\ unread' = unread \cup {f}
  BY <1>3 DEF OpenSource, Checked, Goto, Skip
<1>5. CASE pc' = "error"
  BY <1>1, <1>5, Stopped
<1>6. CASE /\ todo' = todo \ {f} /\ pc' = "next" /\ unread \subseteq unread'
           /\ ~Wanted(f) \/ content[f] = Absent \/ f \in unread'
  <2>1. f \in unread' \/ ~Untouched(f)' => Absent \in Sayable(f)'
    BY DEF Untouched, Sayable
  <2>2. UNCHANGED <<content, version, dirty, held>>
    BY <1>1 DEF others
  <2>3. ASSUME ~Wanted(f), Untouched(f)' PROVE Absent \in Sayable(f)'
    <3>1. version[f] = 0 /\ opts.changedOnly /\ f \notin changed
      BY <2>2, <2>3 DEF Untouched, Wanted
    <3>2. f \notin dirty
      BY <1>1, <1>2, <3>1 DEF WalkFacts
    <3>3. ~InQuestion(f)'
      BY <1>1, <2>2, <3>1, <3>2 DEF InQuestion
    <3> QED
      BY <2>3, <3>3 DEF Sayable
  <2>4. ASSUME content[f] = Absent PROVE Absent \in Sayable(f)'
    BY <2>2, <2>4 DEF Sayable
  <2>5. Absent \in Sayable(f)'
    BY <1>6, <2>1, <2>3, <2>4
  <2> QED
    BY <1>1, <1>3, <1>6, <2>5, Passed
<1>7. CASE /\ Wanted(f) /\ content[f] # Absent /\ pc' = "read" /\ opened' = version[f]
           /\ source' = content[f] /\ UNCHANGED <<todo, unread>>
  <2>1. NextSource' = NextSource
    BY <1>1, <1>7, NextSourceSame
  <2>2. WalkFacts' /\ SymbolPaths'
    BY <1>1, <1>2, <1>7, WalkOver, SymbolPathsSame
  <2>3. SourceFacts'
    <3>1. Wanted(f)' /\ content[f] \in held[f] /\ UNCHANGED <<content, version, held>>
          /\ version[f] \in Nat
      BY <1>1, <1>2, <1>7 DEF Wanted, RepositoryTypes, others
    <3>2. \A g : g = f => Wanted(g)'
      BY <3>1
    <3>3. Wanted(NextSource)'
      BY <1>3, <2>1, <3>1
    <3>4. source' \in held'[NextSource'] /\ source' # Absent /\ opened' <= version'[NextSource']
          /\ (opened' = version'[NextSource'] => source' = content'[NextSource'])
      BY <1>3, <1>7, <2>1, <3>1
    <3> QED
      BY <1>7, <3>3, <3>4 DEF SourceFacts
  <2>4. NothingYet' /\ AnswerFacts'
    BY <1>7 DEF NothingYet, AnswerFacts, PathFacts, SharedOut
  <2>5. SourcesDone'
    <3>1. Began
      BY <1>1 DEF Began
    <3> QED
      BY <1>1, <1>2, <1>7, <3>1, DoneSame
  <2>6. SourcesLeft'
    BY <1>1, <1>2, <1>7 DEF SourcesLeft
  <2> QED
    BY <2>2, <2>3, <2>4, <2>5, <2>6 DEF FindFacts, SymbolFacts
<1> QED
  BY <1>4, <1>5, <1>6, <1>7

\* The source that is looked at stays what it is.
LEMMA SourceSame ==
    ASSUME SourceFacts, pc \in {"read", "scan"}, pc' \in {"read", "scan"}, UNCHANGED inputs, UNCHANGED others,
           UNCHANGED <<todo, changed, opened, source>>
    PROVE  SourceFacts'
<1>1. NextSource' = NextSource
  BY NextSourceSame
<1> HIDE DEF NextSource
<1>2. PICK f : f = NextSource
  OBVIOUS
<1>3. Wanted(f)' <=> Wanted(f)
  BY DEF Wanted, inputs
<1>4. UNCHANGED <<content, version, held>>
  BY DEF others
<1>5. /\ Wanted(f) /\ source # Absent /\ source \in held[f] /\ opened <= version[f]
      /\ (opened = version[f] => source = content[f])
  BY <1>2 DEF SourceFacts
<1>6. Wanted(NextSource)'
  BY <1>1, <1>2, <1>3, <1>5
<1>7. /\ source' # Absent /\ source' \in held'[NextSource'] /\ opened' <= version'[NextSource']
      /\ (opened' = version'[NextSource'] => source' = content'[NextSource'])
  BY <1>1, <1>2, <1>4, <1>5
<1> QED
  BY <1>6, <1>7 DEF SourceFacts

LEMMA ReadFacts ==
    ASSUME FindTypes, FindFacts, ReadSource
    PROVE  FindFacts'
<1>1. /\ Request /\ UNCHANGED <<symbols, looking, listed, changed, opened, source>> /\ pc = "read"
      /\ UNCHANGED inputs /\ UNCHANGED others /\ UNCHANGED cancelled /\ UNCHANGED <<opts, queries>>
  BY DEF ReadSource, Request, inputs
<1>2. /\ RepositoryTypes /\ WalkFacts /\ SymbolPaths /\ SourcesDone /\ SourcesLeft /\ SourceFacts
      /\ todo \in SUBSET Sources /\ Sources \subseteq Files /\ todo # {}
      /\ DOMAIN queries = 1 .. Len(queries) /\ Len(queries) \in Nat
  BY <1>1, RequestFacts, FindScanAssumption DEF FindTypes, SourceTypes, FindFacts, SymbolFacts
<1>3. PICK f \in Files : f = NextSource
  BY <1>1, <1>2, NextSourceFacts
<1> HIDE DEF NextSource
<1>4. \/ pc' = "error"
      \/ todo' = todo \ {f} /\ pc' = "next" /\ UNCHANGED unread /\ (cancelled \/ version[f] # opened)
      \/ pc' = "scan" /\ turn' = 1 /\ UNCHANGED <<todo, unread>>
      \/ todo' = todo \ {f} /\ pc' = "next" /\ unread' = unread \cup {f}
  BY <1>3 DEF ReadSource, Goto, Skip, StillThere
<1>5. CASE pc' = "error"
  BY <1>1, <1>5, Stopped
<1>6. CASE /\ todo' = todo \ {f} /\ pc' = "next" /\ unread \subseteq unread'
           /\ cancelled \/ version[f] # opened \/ f \in unread'
  <2>1. UNCHANGED <<content, version, dirty, held>>
    BY <1>1 DEF others
  <2>2. opened <= version[f] /\ version[f] \in Nat /\ opened \in Nat
    BY <1>1, <1>2, <1>3 DEF SourceFacts, RepositoryTypes, FindTypes, SourceTypes
  <2>3. ~Untouched(f)'
    <3>1. version[f] # opened => version[f] # 0
      BY <2>2
    <3> QED
      BY <1>1, <1>6, <2>1, <3>1 DEF Untouched
  <2>4. Absent \in Sayable(f)'
    BY <2>3 DEF Sayable
  <2> QED
    BY <1>1, <1>2, <1>3, <1>6, <2>4, Passed
<1>7. CASE pc' = "scan" /\ turn' = 1 /\ UNCHANGED <<todo, unread>>
  <2>1. WalkFacts' /\ SymbolPaths'
    BY <1>1, <1>2, <1>7, WalkOver, SymbolPathsSame
  <2>2. SourceFacts'
    BY <1>1, <1>2, <1>7, SourceSame
  <2>3. NothingYet' /\ AnswerFacts'
    BY <1>7 DEF NothingYet, AnswerFacts, PathFacts, SharedOut
  <2>4. SourcesDone'
    <3>1. Began
      BY <1>1 DEF Began
    <3> QED
      BY <1>1, <1>2, <1>7, <3>1, DoneSame
  <2>5. SourcesLeft'
    <3>1. \A i \in DOMAIN queries : ~(i < 1)
      BY <1>2
    <3> QED
      BY <1>1, <1>2, <1>7, <3>1 DEF SourcesLeft
  <2> QED
    BY <2>1, <2>2, <2>3, <2>4, <2>5 DEF FindFacts, SymbolFacts
<1> QED
  BY <1>4, <1>5, <1>6, <1>7

LEMMA EndFacts ==
    ASSUME FindTypes, FindFacts, SourcesEnd
    PROVE  FindFacts'
<1>1. /\ Request /\ UNCHANGED <<symbols, looking, listed, changed, todo, unread>> /\ pc = "next"
      /\ todo = {} /\ pc' = "choose"
      /\ UNCHANGED inputs /\ UNCHANGED others /\ UNCHANGED cancelled /\ UNCHANGED <<opts, queries>>
  BY DEF SourcesEnd, Request, inputs, Goto
<1>2. RepositoryTypes /\ WalkFacts /\ SymbolPaths /\ SourcesDone
  BY DEF FindTypes, FindFacts, SymbolFacts
<1>3. WalkFacts' /\ SymbolPaths'
  BY <1>1, <1>2, WalkOver, SymbolPathsSame
<1>4. SourceFacts' /\ NothingYet' /\ AnswerFacts' /\ SourcesLeft'
  BY <1>1 DEF SourceFacts, NothingYet, AnswerFacts, PathFacts, SharedOut, SourcesLeft
<1>5. SourcesDone'
  <2>1. Began
    BY <1>1 DEF Began
  <2> QED
    BY <1>1, <1>2, <2>1, DoneSame
<1> QED
  BY <1>3, <1>4, <1>5 DEF FindFacts, SymbolFacts

\* A source in which a query is looked up: as far as they fit, its hits are added, and
\* nothing changes for the other files.
LEMMA ScanAdds ==
    ASSUME opts.limit \in Nat, NEW old \in Seq(Hits), Fitting(old), NEW f \in Files, About(old, f) = <<>>,
           NEW query, NEW lines, IsASeq(lines),
           NEW new, new = AddCandidates(old, FindHits(query, f, lines))
    PROVE  /\ new \in Seq(Hits) /\ new = Cut(old \o Distinct(FindHits(query, f, lines)))
           /\ IsPrefix(About(new, f), Distinct(FindHits(query, f, lines)))
           /\ ~Full(new) => About(new, f) = Distinct(FindHits(query, f, lines))
           /\ \A g : g # f => About(new, g) = About(old, g)
           /\ Full(old) => Full(new)
           /\ Paths(new) \subseteq Paths(old) \cup {f}
<1> HIDE DEF Hits
<1>1. PICK hits : hits = FindHits(query, f, lines)
  OBVIOUS
<1>2. hits \in Seq(Hits) /\ Paths(hits) \subseteq {f}
  BY <1>1, FindHitsFacts
<1>3. PICK once : once = Distinct(hits)
  OBVIOUS
<1>4. once \in Seq(Hits) /\ \A y : Contains(once, y) => Contains(hits, y)
  BY <1>2, <1>3, DistinctFacts
<1>5. \A y : Contains(hits, y) => ~Contains(old, y)
  <2> SUFFICES ASSUME NEW y, Contains(hits, y), Contains(old, y) PROVE FALSE
    OBVIOUS
  <2>1. y.path = f
    BY <1>2 DEF Contains, Paths
  <2>2. f \in Paths(old)
    BY <2>1 DEF Contains, Paths
  <2> QED
    BY <2>2, AboutOne
<1>6. new = Cut(old \o once)
  BY <1>1, <1>2, <1>3, <1>5, AddIsCut
<1>7. PICK v \in Seq(Hits) : /\ new = old \o v /\ IsPrefix(v, once)
                             /\ ~Full(new) => v = once
  <2>1. opts.limit \in Nat /\ old \in Seq(Hits) /\ Fitting(old) /\ once \in Seq(Hits)
    BY <1>4
  <2>2. \E v \in Seq(Hits) : /\ Cut(old \o once) = old \o v /\ IsPrefix(v, once)
                             /\ ~Full(Cut(old \o once)) => v = once
    BY <2>1, CutAfter
  <2> QED
    BY <1>6, <2>2
<1>8. Paths(v) \subseteq {f}
  <2> SUFFICES ASSUME NEW k \in 1 .. Len(v) PROVE v[k].path = f
    BY DEF Paths
  <2>1. PICK u \in Seq(Hits) : once = v \o u
    BY <1>4, <1>7, SetPrefix
  <2>2. k \in 1 .. Len(once) /\ once[k] = v[k]
    BY <2>1, Concatenated
  <2>3. Contains(once, v[k])
    BY <2>2 DEF Contains
  <2>4. Contains(hits, v[k])
    BY <1>4, <2>3
  <2> QED
    BY <1>2, <2>4 DEF Contains, Paths
<1>9. About(v, f) = v /\ \A g : g # f => About(v, g) = <<>>
  BY <1>7, <1>8, AboutOne
<1>10. \A g : About(new, g) = About(old, g) \o About(v, g)
  BY <1>7, AboutBoth
<1>11. About(new, f) = v
  BY <1>7, <1>9, <1>10, Concatenation, SMTT(30)
<1>12. ASSUME NEW g, g # f PROVE About(new, g) = About(old, g)
  <2>1. About(old, g) \in Seq(Hits)
    BY AboutAppend
  <2> QED
    BY <1>9, <1>10, <1>12, <2>1, Concatenation
<1>13. /\ new \in Seq(Hits) /\ Len(new) = Len(old) + Len(v)
       /\ \A k \in 1 .. Len(old) : new[k] = old[k]
       /\ \A k \in 1 .. Len(v) : new[Len(old) + k] = v[k]
       /\ \A k \in 1 .. Len(new) : k \in 1 .. Len(old) \/ \E l \in 1 .. Len(v) : k = Len(old) + l
  BY <1>7, Concatenated
<1>14. Full(old) => Full(new)
  <2>1. Len(old) \in Nat /\ Len(v) \in Nat
    OBVIOUS
  <2> QED
    BY <1>13, <2>1 DEF Full
<1>15. Paths(new) \subseteq Paths(old) \cup {f}
  <2> SUFFICES ASSUME NEW k \in 1 .. Len(new) PROVE new[k].path \in Paths(old) \cup {f}
    BY DEF Paths
  <2>1. CASE k \in 1 .. Len(old)
    BY <1>13, <2>1 DEF Paths
  <2>2. CASE \E l \in 1 .. Len(v) : k = Len(old) + l
    <3>1. PICK l \in 1 .. Len(v) : k = Len(old) + l
      BY <2>2
    <3>2. new[k] = v[l]
      BY <1>13, <3>1
    <3>3. v[l].path \in Paths(v)
      BY <3>1 DEF Paths
    <3> QED
      BY <1>8, <3>2, <3>3
  <2> QED
    BY <1>13, <2>1, <2>2
<1> QED
  BY <1>1, <1>3, <1>6, <1>7, <1>11, <1>12, <1>13, <1>14, <1>15

LEMMA FoundSame ==
    ASSUME UNCHANGED opts, NEW query, NEW f, NEW c
    PROVE  Found(query, f, c)' = Found(query, f, c)
<1>1. PICK l : l = Lines(c)
  OBVIOUS
<1>2. FindHits(query, f, l)' = FindHits(query, f, l)
  BY HitsSame
<1> QED
  BY <1>1, <1>2 DEF Found

\* One query in one source.
LEMMA ScanFacts ==
    ASSUME FindTypes, FindFacts, ScanQuery
    PROVE  FindFacts'
<1>1. /\ Request /\ UNCHANGED <<looking, listed, changed, opened, source, unread>> /\ pc = "scan"
      /\ UNCHANGED inputs /\ UNCHANGED others /\ UNCHANGED cancelled /\ UNCHANGED <<opts, queries>>
      /\ UNCHANGED <<content, version, dirty, held>>
  BY DEF ScanQuery, Request, inputs, others, Checked
<1>2. /\ RepositoryTypes /\ WalkFacts /\ SymbolPaths /\ SourcesDone /\ SourcesLeft /\ SourceFacts
      /\ todo \in SUBSET Sources /\ Sources \subseteq Files /\ todo # {} /\ turn \in DOMAIN queries
      /\ IsASeq(source) /\ opened \in Nat
      /\ DOMAIN queries = 1 .. Len(queries) /\ Len(queries) \in Nat /\ opts.limit \in Nat
  BY <1>1, RequestFacts, FindScanAssumption DEF FindTypes, SourceTypes, FindFacts, SymbolFacts
<1>3. PICK f \in Files : f = NextSource
  BY <1>1, <1>2, NextSourceFacts
<1>4. f \in todo
  BY <1>2, <1>3, NextSourceFacts
<1>5. UNCHANGED todo => NextSource' = NextSource
  BY <1>1, NextSourceSame
<1> HIDE DEF NextSource
<1>6. PICK t \in DOMAIN queries : t = turn
  BY <1>2
<1>7. PICK new : new = AddCandidates(symbols[t], FindHits(queries[t], f, source))
  OBVIOUS
<1>8. \/ pc' = "error" /\ UNCHANGED symbols
      \/ /\ symbols' = [symbols EXCEPT ![t] = new]
         /\ \/ t < Len(queries) /\ turn' = t + 1 /\ UNCHANGED <<todo, pc>>
            \/ t >= Len(queries) /\ turn' = 1 /\ todo' = todo \ {f} /\ pc' = "next"
  <2>1. \/ pc' = "error" /\ UNCHANGED symbols
        \/ /\ symbols' = [symbols EXCEPT ![t] = new]
           /\ IF t < Len(queries) THEN turn' = t + 1 /\ UNCHANGED <<todo, pc>>
              ELSE turn' = 1 /\ todo' = todo \ {f} /\ pc' = "next"
    BY <1>3, <1>6, <1>7 DEF ScanQuery, Checked, Goto, Skip, ScannedLines
  <2> QED
    BY <1>2, <2>1
<1>9. CASE pc' = "error" /\ UNCHANGED symbols
  BY <1>1, <1>9, Stopped
<1>10. CASE /\ symbols' = [symbols EXCEPT ![t] = new]
            /\ \/ t < Len(queries) /\ turn' = t + 1 /\ UNCHANGED <<todo, pc>>
               \/ t >= Len(queries) /\ turn' = 1 /\ todo' = todo \ {f} /\ pc' = "next"
  <2> DEFINE what == Distinct(FindHits(queries[t], f, source))
  <2>1. \A i \in DOMAIN queries : About(symbols[i], f) = <<>> \/ (i < t /\ Fits(i, f, source))
    BY <1>1, <1>3, <1>4, <1>2, <1>6 DEF SourcesLeft
  <2>2. About(symbols[t], f) = <<>>
    BY <2>1, <1>2
  <2>3. symbols[t] \in Seq(Hits) /\ Fitting(symbols[t]) /\ symbols = [i \in DOMAIN queries |-> symbols[i]]
    BY DEF FindTypes, CandidateTypes, Kept
  <2>4. /\ IsPrefix(About(new, f), what) /\ (~Full(new) => About(new, f) = what)
        /\ \A g : g # f => About(new, g) = About(symbols[t], g)
        /\ Full(symbols[t]) => Full(new)
        /\ Paths(new) \subseteq Paths(symbols[t]) \cup {f}
    BY <1>2, <1>7, <2>2, <2>3, ScanAdds
  <2>5. symbols'[t] = new /\ \A i \in DOMAIN queries : i # t => symbols'[i] = symbols[i]
    BY <1>10, <2>3
  <2>6. what = Found(queries[t], f, source)
    <3>1. Lines(source) = source
      BY <1>1, <1>2 DEF SourceFacts, Lines
    <3> QED
      BY <3>1 DEF Found
  <2> HIDE DEF what
  \* What holds of the query that was looked up.
  <2>7. ASSUME NEW g, NEW c, Fits(t, g, c), g # f PROVE Fits(t, g, c)'
    <3>1. Found(queries[t], g, c)' = Found(queries[t], g, c)
      <4>1. PICK q : q = queries[t]
        OBVIOUS
      <4>2. Found(q, g, c)' = Found(q, g, c)
        BY <1>1, FoundSame
      <4> QED
        BY <1>1, <4>1, <4>2
    <3>2. About(symbols[t], g)' = About(symbols[t], g)
      BY <2>4, <2>5, <2>7
    <3>3. Full(symbols[t]) => Full(symbols[t])'
      BY <1>1, <2>4, <2>5 DEF Full
    <3> QED
      BY <2>7, <3>1, <3>2, <3>3 DEF Fits
  <2>8. Fits(t, f, source)'
    <3>1. Found(queries[t], f, source)' = what
      <4>1. PICK q : q = queries[t]
        OBVIOUS
      <4>2. PICK c : c = source
        OBVIOUS
      <4>3. Found(q, f, c)' = Found(q, f, c)
        BY <1>1, FoundSame
      <4> QED
        BY <1>1, <2>6, <4>1, <4>2, <4>3
    <3>2. About(symbols[t], f)' = About(new, f)
      BY <2>5
    <3>3. Full(symbols[t])' <=> Full(new)
      BY <1>1, <2>5 DEF Full
    <3> QED
      BY <2>4, <3>1, <3>2, <3>3 DEF Fits
  <2>9. ASSUME NEW i \in DOMAIN queries, NEW g, NEW c, Fits(i, g, c), g # f \/ i # t PROVE Fits(i, g, c)'
    <3>1. CASE i = t
      BY <2>7, <2>9, <3>1
    <3>2. CASE i # t
      BY <1>1, <2>5, <2>9, <3>2, FitsSame
    <3> QED
      BY <3>1, <3>2
  <2>10. ASSUME NEW i \in DOMAIN queries, i < t PROVE Fits(i, f, source)'
    <3>1. Fits(i, f, source)
      BY <1>1, <1>3, <1>4, <1>2, <1>6, <2>10 DEF SourcesLeft
    <3>2. PICK c : c = source
      OBVIOUS
    <3>3. Fits(i, f, c)'
      BY <1>2, <2>9, <2>10, <3>1, <3>2
    <3> QED
      BY <1>1, <3>2, <3>3
  <2>11. \A i \in DOMAIN queries : \A g \in todo : g # f => About(symbols'[i], g) = <<>>
    <3>1. \A i \in DOMAIN queries : \A g \in todo : g # f => About(symbols[i], g) = <<>>
      BY <1>2, <1>1, <1>3 DEF SourcesLeft
    <3> QED
      BY <2>4, <2>5, <3>1
  <2>12. WalkFacts'
    BY <1>1, <1>2, <1>10, WalkOver
  <2>13. SourceFacts'
    <3>1. CASE pc' = "scan" /\ UNCHANGED todo
      BY <1>1, <1>2, <3>1, SourceSame
    <3>2. CASE pc' = "next"
      BY <3>2 DEF SourceFacts
    <3> QED
      BY <1>1, <1>10, <3>1, <3>2
  <2>14. NothingYet' /\ AnswerFacts'
    BY <1>1, <1>10 DEF NothingYet, AnswerFacts, PathFacts, SharedOut
  <2>15. SymbolPaths'
    <3>1. source # Absent /\ source \in held[f] /\ f \in Sources
      BY <1>1, <1>2, <1>3, <1>4 DEF SourceFacts
    <3>2. \A i \in DOMAIN queries : Paths(symbols'[i]) \subseteq Paths(symbols[i]) \cup {f}
      BY <2>4, <2>5
    <3>3. \A i \in DOMAIN queries : \A g \in Paths(symbols'[i]) : g \in Sources /\ held'[g] # {Absent}
      BY <1>1, <1>2, <3>1, <3>2 DEF SymbolPaths
    <3> QED
      BY <1>1, <3>3 DEF SymbolPaths
  <2>16. ASSUME NEW g \in Sources \ todo, opts.match # "path"
         PROVE  \E c \in Sayable(g)' : \A i \in DOMAIN queries : Fits(i, g, c)'
    <3>1. g \in Files /\ g # f /\ Began
      BY <1>1, <1>2, <1>4 DEF Began
    <3>2. PICK c \in Sayable(g) : \A i \in DOMAIN queries : Fits(i, g, c)
      BY <1>2, <2>16, <3>1 DEF SourcesDone
    <3>3. Sayable(g) \subseteq Sayable(g)'
      BY <1>1, <1>2, <3>1, OnwardFacts, SayableGrows
    <3>4. \A i \in DOMAIN queries : Fits(i, g, c)'
      BY <2>9, <3>1, <3>2
    <3> QED
      BY <3>2, <3>3, <3>4
  <2>17. CASE t < Len(queries) /\ turn' = t + 1 /\ UNCHANGED <<todo, pc>>
    <3>1. SourcesDone'
      BY <1>1, <2>16, <2>17 DEF SourcesDone
    <3>2. SourcesLeft'
      <4> SUFFICES ASSUME NEW g \in todo, NEW i \in DOMAIN queries
                   PROVE  IF g = f /\ i < t + 1 THEN Fits(i, g, source)' ELSE About(symbols'[i], g) = <<>>
        BY <1>1, <1>3, <1>5, <2>17 DEF SourcesLeft
      <4>1. CASE g = f /\ i < t + 1
        <5>1. i < t \/ i = t
          BY <1>2, <4>1
        <5> QED
          BY <2>8, <2>10, <4>1, <5>1
      <4>2. CASE g = f /\ ~(i < t + 1)
        <5>1. i # t /\ ~(i < t)
          BY <1>2, <4>2
        <5> QED
          BY <2>1, <2>5, <4>2, <5>1
      <4>3. CASE g # f
        BY <2>11, <4>3
      <4> QED
        BY <4>1, <4>2, <4>3
    <3> QED
      BY <2>12, <2>13, <2>14, <2>15, <3>1, <3>2 DEF FindFacts, SymbolFacts
  <2>18. CASE t >= Len(queries) /\ turn' = 1 /\ todo' = todo \ {f} /\ pc' = "next"
    <3>1. SourcesLeft'
      BY <1>1, <2>11, <2>18 DEF SourcesLeft
    <3>2. source \in Sayable(f)'
      <4>1. source \in Sayable(f)
        <5>1. /\ Wanted(f) /\ source \in held[f] /\ opened <= version[f]
              /\ (opened = version[f] => source = content[f])
          BY <1>1, <1>3 DEF FindFacts, SourceFacts
        <5>2. CASE Untouched(f)
          <6>1. version[f] = 0 /\ opened = version[f]
            BY <1>2, <5>1, <5>2 DEF Untouched
          <6>2. InQuestion(f)
            BY <1>1, <1>2, <5>1, <6>1 DEF InQuestion, Wanted, WalkFacts
          <6> QED
            BY <5>1, <5>2, <6>1, <6>2 DEF Sayable
        <5>3. CASE ~Untouched(f)
          BY <5>1, <5>3 DEF Sayable
        <5> QED
          BY <5>2, <5>3
      <4>2. Sayable(f) \subseteq Sayable(f)'
        BY <1>1, <1>2, OnwardFacts, SayableGrows
      <4> QED
        BY <1>1, <4>1, <4>2
    <3>3. \A i \in DOMAIN queries : Fits(i, f, source)'
      <4>1. \A i \in DOMAIN queries : i < t \/ i = t
        BY <1>2, <2>18
      <4> QED
        BY <2>8, <2>10, <4>1
    <3>4. \E c \in Sayable(f)' : \A i \in DOMAIN queries : Fits(i, f, c)'
      <4>1. PICK c : c = source
        OBVIOUS
      <4>2. \A i \in DOMAIN queries : Fits(i, f, c)'
        BY <1>1, <3>3, <4>1
      <4> QED
        BY <3>2, <1>1, <4>1, <4>2
    <3>5. SourcesDone'
      BY <1>1, <2>16, <2>18, <3>4 DEF SourcesDone
    <3> QED
      BY <2>12, <2>13, <2>14, <2>15, <3>1, <3>5 DEF FindFacts, SymbolFacts
  <2> QED
    BY <1>10, <2>17, <2>18
<1> QED
  BY <1>8, <1>9, <1>10

-----------------------------------------------------------------------------
(* The limit is shared.                                                    *)

GiveOf(i, rest) ==
    IF opts.limit = 0 THEN Len(CandidatesOf(i))
    ELSE LET fair == FairResultLimit(rest, Len(queries) - i + 1)
         IN  IF fair > Len(CandidatesOf(i)) THEN Len(CandidatesOf(i)) ELSE fair
RoundAfter(sofar, i) ==
    LET give == GiveOf(i, sofar.left)
    IN  IF opts.limit > 0 /\ sofar.left = 0 THEN sofar
        ELSE [left |-> IF opts.limit > 0 THEN sofar.left - give ELSE 0,
              list |-> Append(sofar.list, Response(i, give))]
Sharing(g, m) ==
    g = [i \in 0 .. m |-> IF i = 0 THEN [left |-> opts.limit, list |-> <<>>] ELSE RoundAfter(g[i - 1], i)]
SharedTo(j) == (CHOOSE g : Sharing(g, Len(queries)))[j]

LEMMA SharingTo ==
    ASSUME NEW k \in Nat
    PROVE  \E g : Sharing(g, k)
<1> DEFINE T == {m \in Nat : ~\E g : Sharing(g, m)}
<1> SUFFICES ASSUME T # {} PROVE FALSE
  OBVIOUS
<1>1. PICK m \in T : \A y \in T : ~(y < m)
  <2>1. T \subseteq Nat
    OBVIOUS
  <2> HIDE DEF T
  <2> QED
    BY <2>1, Least
<1> DEFINE first == [left |-> opts.limit, list |-> <<>>]
<1>2. CASE m = 0
  <2> DEFINE g == [i \in 0 .. 0 |-> first]
  <2>1. Sharing(g, 0)
    BY DEF Sharing
  <2> QED
    BY <1>1, <1>2, <2>1
<1>3. CASE m # 0
  <2>1. m \in Nat /\ m - 1 \in Nat /\ m - 1 < m /\ m - 1 \notin T
    <3>1. m \in Nat
      BY <1>1
    <3>2. m - 1 \in Nat /\ m - 1 < m
      BY <1>3, <3>1
    <3> HIDE DEF T
    <3> QED
      BY <1>1, <3>1, <3>2
  <2>2. PICK f : Sharing(f, m - 1)
    BY <2>1
  <2> DEFINE last == RoundAfter(f[m - 1], m)
             g == [i \in 0 .. m |-> IF i = m THEN last ELSE f[i]]
             h == [i \in 0 .. m |-> IF i = 0 THEN first ELSE RoundAfter(g[i - 1], i)]
  <2>3. ASSUME NEW i \in 0 .. m PROVE g[i] = h[i]
    <3>0. h[i] = IF i = 0 THEN first ELSE RoundAfter(g[i - 1], i)
      OBVIOUS
    <3>1. CASE i = m
      <4>1. g[i] = last
        BY <3>1
      <4>2. g[i - 1] = f[m - 1]
        BY <1>3, <2>1, <3>1
      <4> QED
        BY <1>3, <3>0, <3>1, <4>1, <4>2, Zenon
    <3>2. CASE i # m
      <4>1. i \in 0 .. m - 1 /\ (i # 0 => i - 1 \in 0 .. m /\ i - 1 # m)
        BY <2>1, <3>2
      <4>2. g[i] = f[i] /\ (i # 0 => g[i - 1] = f[i - 1])
        BY <3>2, <4>1
      <4>3. f[i] = IF i = 0 THEN first ELSE RoundAfter(f[i - 1], i)
        BY <2>2, <4>1 DEF Sharing
      <4> QED
        BY <3>0, <4>2, <4>3, Zenon
    <3> QED
      BY <3>1, <3>2
  <2>4. g = h
    BY <2>3
  <2>5. Sharing(g, m)
    BY <2>4 DEF Sharing
  <2> HIDE DEF g, h
  <2> QED
    BY <1>1, <2>5
<1> QED
  BY <1>2, <1>3

LEMMA ShareRounds ==
    ASSUME Len(queries) \in Nat, NEW j \in 0 .. Len(queries)
    PROVE  SharedTo(j) = IF j = 0 THEN [left |-> opts.limit, list |-> <<>>]
                         ELSE RoundAfter(SharedTo(j - 1), j)
<1> DEFINE g == CHOOSE g : Sharing(g, Len(queries))
<1>1. Sharing(g, Len(queries))
  BY SharingTo
<1>2. \A i : SharedTo(i) = g[i]
  BY DEF SharedTo
<1> HIDE DEF g
<1>3. g[j] = IF j = 0 THEN [left |-> opts.limit, list |-> <<>>] ELSE RoundAfter(g[j - 1], j)
  BY <1>1 DEF Sharing
<1> QED
  BY <1>2, <1>3, Zenon

LEMMA LimitIsShared == LimitFindResponses = SharedTo(Len(queries)).list
BY DEF LimitFindResponses, SharedTo, Sharing, RoundAfter, GiveOf

LEMMA FairRoundsUp ==
    ASSUME NEW a \in Nat, NEW b \in Nat \ {0}
    PROVE  RoundedUp(FairResultLimit(a, b), a, b)
<1>1. /\ a \div b \in Nat /\ a = b * (a \div b) + (a % b) /\ a % b \in 0 .. (b - 1)
  BY Division
<1>2. CASE a % b = 0
  BY <1>1, <1>2 DEF RoundedUp, FairResultLimit
<1>3. CASE a % b # 0
  <2> DEFINE q == a \div b
  <2>1. FairResultLimit(a, b) = q + 1
    BY <1>3 DEF FairResultLimit
  <2>2. b * (q + 1) = b * q + b
    BY <1>1
  <2>3. b * q \in Int
    BY <1>1
  <2> HIDE DEF q
  <2> QED
    BY <1>1, <1>3, <2>1, <2>2, <2>3 DEF RoundedUp, q
<1> QED
  BY <1>2, <1>3

\* A share of what is left is no more than that.
LEMMA ShareAtMost ==
    ASSUME NEW a \in Nat \ {0}, NEW b \in Nat \ {0}, NEW c, RoundedUp(c, a, b)
    PROVE  c <= a
<1> SUFFICES ASSUME c > a PROVE FALSE
  BY DEF RoundedUp
<1>1. c \in Nat /\ b * c < a + b
  BY DEF RoundedUp
<1>2. PICK d \in Nat : c = a + 1 + d
  <2>1. c - a - 1 \in Nat /\ c = a + 1 + (c - a - 1)
    BY <1>1
  <2> QED
    BY <2>1
<1>3. b * c = b * a + b + b * d
  BY <1>2
<1>4. b * d \in Nat /\ b * a \in Nat
  BY <1>2
<1>5. b * a >= a
  <2>1. PICK e \in Nat : b = 1 + e
    <3>1. b - 1 \in Nat /\ b = 1 + (b - 1)
      OBVIOUS
    <3> QED
      BY <3>1
  <2>2. b * a = a + e * a /\ e * a \in Nat
    BY <2>1
  <2> QED
    BY <2>2
<1> QED
  BY <1>1, <1>3, <1>4, <1>5

\* What the loop over the queries has given, and what it has left.
ShareOf == opts.limit \div Len(queries)
Round(r, j) ==
    /\ Len(r.list) \in 0 .. j /\ DOMAIN r.list = 1 .. Len(r.list)
    /\ \A k \in 1 .. Len(r.list) : \E give \in 0 .. Len(CandidatesOf(k)) : Given(r.list[k], k, give)
    /\ opts.limit = 0 => Len(r.list) = j
    /\ opts.limit > 0 => /\ r.left \in 0 .. opts.limit
                         /\ r.left > 0 => Len(r.list) = j
    /\ opts.limit >= Len(queries) => /\ Len(r.list) = j /\ Len(queries) - j <= r.left
                                     /\ ShareOf * (Len(queries) - j) <= r.left

LEMMA RoundAppend ==
    ASSUME NEW list, Len(list) \in Nat, DOMAIN list = 1 .. Len(list), NEW x,
           NEW more, more = Append(list, x)
    PROVE  /\ Len(more) = Len(list) + 1 /\ DOMAIN more = 1 .. Len(more)
           /\ more[Len(list) + 1] = x
           /\ \A k \in 1 .. Len(list) : more[k] = list[k]
           /\ \A k \in 1 .. Len(more) : k \in 1 .. Len(list) \/ k = Len(list) + 1
<1>1. PICK many \in Nat : many = Len(list)
  OBVIOUS
<1> QED
  BY <1>1

LEMMA RoundStep ==
    ASSUME opts.limit \in Nat, Len(queries) \in Nat, NEW j \in 1 .. Len(queries),
           Len(CandidatesOf(j)) \in Nat, NEW r, Round(r, j - 1), NEW s, s = RoundAfter(r, j)
    PROVE  Round(s, j)
<1>1. PICK most : most = opts.limit
  OBVIOUS
<1>2. PICK many : many = Len(queries)
  OBVIOUS
<1>3. PICK has : has = Len(CandidatesOf(j))
  OBVIOUS
<1>4. PICK b : b = many - j + 1
  OBVIOUS
<1>5. most \in Nat /\ many \in Nat /\ has \in Nat /\ b \in Nat \ {0} /\ j \in Nat /\ j <= many /\ 1 <= j
      /\ b = many - (j - 1) /\ b - 1 = many - j
  BY <1>1, <1>2, <1>3, <1>4
<1>6. PICK give : give = GiveOf(j, r.left)
  OBVIOUS
<1>7. s = IF most > 0 /\ r.left = 0 THEN r
          ELSE [left |-> IF most > 0 THEN r.left - give ELSE 0, list |-> Append(r.list, Response(j, give))]
  BY <1>1, <1>6 DEF RoundAfter
<1>8. PICK q : q = ShareOf
  OBVIOUS
<1>9. q \in Nat /\ (most < many => q = 0)
  <2>1. many \in Nat \ {0} /\ q = most \div many
    BY <1>1, <1>2, <1>5, <1>8 DEF ShareOf
  <2>2. q \in Nat /\ many * q <= most
    BY <1>5, <2>1, Division
  <2>3. ASSUME most < many, q # 0 PROVE FALSE
    <3>1. PICK d \in Nat : q = 1 + d
      <4>1. q - 1 \in Nat /\ q = 1 + (q - 1)
        BY <2>2, <2>3
      <4> QED
        BY <4>1
    <3>2. many * q = many + many * d /\ many * d \in Nat
      BY <2>1, <3>1
    <3>3. PICK p \in Nat : p = many * d
      BY <3>2
    <3>4. many + p <= most
      BY <2>2, <3>2, <3>3
    <3> QED
      BY <1>5, <2>3, <3>3, <3>4
  <2> QED
    BY <2>2, <2>3
<1>10. /\ Len(r.list) \in 0 .. j - 1 /\ DOMAIN r.list = 1 .. Len(r.list)
       /\ \A k \in 1 .. Len(r.list) : \E g \in 0 .. Len(CandidatesOf(k)) : Given(r.list[k], k, g)
       /\ most = 0 => Len(r.list) = j - 1
       /\ most > 0 => r.left \in 0 .. most /\ (r.left > 0 => Len(r.list) = j - 1)
       /\ most >= many => Len(r.list) = j - 1 /\ b <= r.left /\ q * b <= r.left
  BY <1>1, <1>2, <1>5, <1>8 DEF Round
<1>11. CASE most > 0 /\ r.left = 0
  <2>1. s = r /\ most < many
    BY <1>5, <1>7, <1>10, <1>11
  <2>2. Len(r.list) \in 0 .. j
    BY <1>5, <1>10
  <2> QED
    BY <1>1, <1>2, <1>10, <1>11, <2>1, <2>2 DEF Round
<1>12. CASE ~(most > 0 /\ r.left = 0)
  <2>1. Len(r.list) = j - 1
    BY <1>5, <1>10, <1>12
  <2>2. /\ give \in 0 .. has /\ (most > 0 => give <= r.left)
        /\ give < has => most > 0 /\ give >= q
        /\ most >= many => b - 1 <= r.left - give /\ q * (b - 1) <= r.left - give
    <3>1. CASE most = 0
      <4>1. give = has
        BY <1>1, <1>3, <1>6, <3>1 DEF GiveOf
      <4> QED
        BY <1>5, <3>1, <4>1
    <3>2. CASE most > 0
      <4>1. PICK a : a = r.left
        OBVIOUS
      <4>2. a \in Nat \ {0} /\ a <= most
        BY <1>5, <1>10, <1>12, <3>2, <4>1
      <4>3. PICK fair : fair = FairResultLimit(a, b)
        OBVIOUS
      <4>4. RoundedUp(fair, a, b)
        BY <1>5, <4>2, <4>3, FairRoundsUp
      <4>5. fair \in Nat /\ fair <= a
        BY <1>5, <4>2, <4>4, ShareAtMost DEF RoundedUp
      <4>6. give = IF fair > has THEN has ELSE fair
        <5>1. many - j + 1 = b
          BY <1>4
        <5> QED
          BY <1>1, <1>2, <1>3, <1>5, <1>6, <3>2, <4>1, <4>3, <5>1 DEF GiveOf
      <4>7. give \in 0 .. has /\ give <= fair /\ give <= a /\ (give < has => give = fair)
        BY <1>5, <4>2, <4>5, <4>6
      <4>8. ASSUME most >= many PROVE b - 1 <= a - fair /\ q <= fair /\ q * (b - 1) <= a - fair
        <5>1. b <= a /\ q * b <= a
          BY <1>10, <4>1, <4>8
        <5> QED
          BY <1>5, <1>9, <4>2, <4>4, <5>1, ShareLeavesEnough
      <4>9. give < has => give >= q
        BY <1>5, <1>9, <4>5, <4>7, <4>8
      <4>10. ASSUME most >= many PROVE b - 1 <= a - give /\ q * (b - 1) <= a - give
        <5>1. PICK p : p = q * (b - 1)
          OBVIOUS
        <5>2. p \in Int
          BY <1>5, <1>9, <5>1
        <5> QED
          BY <1>5, <4>2, <4>5, <4>7, <4>8, <4>10, <5>1, <5>2
      <4> QED
        BY <3>2, <4>1, <4>7, <4>9, <4>10
    <3> QED
      BY <1>5, <3>1, <3>2
  <2>3. PICK x : x = Response(j, give)
    OBVIOUS
  <2>4. s.list = Append(r.list, x) /\ s.left = IF most > 0 THEN r.left - give ELSE 0
    BY <1>7, <1>12, <2>3
  <2>5. /\ Len(s.list) = j /\ DOMAIN s.list = 1 .. Len(s.list) /\ s.list[j] = x
        /\ \A k \in 1 .. j - 1 : s.list[k] = r.list[k]
        /\ \A k \in 1 .. j : k \in 1 .. j - 1 \/ k = j
    <3>1. PICK list : list = r.list
      OBVIOUS
    <3>2. Len(list) = j - 1 /\ Len(list) \in Nat /\ DOMAIN list = 1 .. Len(list)
      BY <1>5, <1>10, <2>1, <3>1
    <3>3. PICK more : more = Append(list, x)
      OBVIOUS
    <3>4. /\ Len(more) = Len(list) + 1 /\ DOMAIN more = 1 .. Len(more)
          /\ more[Len(list) + 1] = x /\ \A k \in 1 .. Len(list) : more[k] = list[k]
          /\ \A k \in 1 .. Len(more) : k \in 1 .. Len(list) \/ k = Len(list) + 1
      BY <3>2, <3>3, RoundAppend
    <3>5. Len(list) + 1 = j
      BY <1>5, <3>2
    <3>6. Len(more) = j
      BY <3>4, <3>5
    <3> QED
      BY <2>4, <3>1, <3>2, <3>3, <3>4, <3>5, <3>6
  <2>6. Given(x, j, give)
    <3>1. most > 0 => give <= most
      BY <1>5, <1>10, <2>2
    <3> QED
      BY <1>1, <1>3, <1>8, <2>2, <2>3, <3>1 DEF Given, ShareOf
  <2>7. \A k \in 1 .. Len(s.list) : \E g \in 0 .. Len(CandidatesOf(k)) : Given(s.list[k], k, g)
    <3> SUFFICES ASSUME NEW k \in 1 .. j PROVE \E g \in 0 .. Len(CandidatesOf(k)) : Given(s.list[k], k, g)
      BY <2>5
    <3>1. CASE k = j
      BY <1>3, <2>2, <2>5, <2>6, <3>1
    <3>2. CASE k \in 1 .. j - 1
      BY <1>10, <2>1, <2>5, <3>2
    <3> QED
      BY <2>5, <3>1, <3>2
  <2>8. most > 0 => s.left \in 0 .. most
    BY <1>5, <1>10, <2>2, <2>4
  <2>9. most >= many => many - j <= s.left /\ q * (many - j) <= s.left
    <3>1. most >= many => most > 0
      BY <1>5
    <3> QED
      BY <1>5, <2>2, <2>4, <3>1
  <2>10. Len(s.list) \in 0 .. j
    BY <1>5, <2>5
  <2> QED
    BY <1>1, <1>2, <1>8, <2>5, <2>7, <2>8, <2>9, <2>10 DEF Round
<1> QED
  BY <1>11, <1>12

LEMMA CandidatesFacts ==
    ASSUME FindTypes, NEW i \in DOMAIN queries
    PROVE  CandidatesOf(i) \in Seq(Hits) /\ Len(CandidatesOf(i)) \in Nat /\ Fitting(CandidatesOf(i))
<1>1. Kept(symbols[i]) /\ Kept(paths[i])
  BY DEF FindTypes, CandidateTypes
<1> HIDE DEF Hits
<1>2. CandidatesOf(i) \in Seq(Hits) /\ Fitting(CandidatesOf(i))
  BY <1>1 DEF CandidatesOf, Kept
<1> QED
  BY <1>2

LEMMA EveryRound ==
    ASSUME FindTypes, NEW m \in 0 .. Len(queries)
    PROVE  Round(SharedTo(m), m)
<1>1. /\ opts.limit \in Nat /\ Len(queries) \in Nat \ {0} /\ DOMAIN queries = 1 .. Len(queries)
  BY RequestFacts DEF FindTypes
<1>2. \A i \in 1 .. Len(queries) : Len(CandidatesOf(i)) \in Nat
  BY <1>1, CandidatesFacts
<1> DEFINE T == {i \in 0 .. Len(queries) : ~Round(SharedTo(i), i)}
<1> SUFFICES ASSUME T # {} PROVE FALSE
  OBVIOUS
<1>3. PICK j \in T : \A y \in T : ~(y < j)
  <2>1. T \subseteq Nat
    OBVIOUS
  <2> HIDE DEF T
  <2> QED
    BY <2>1, Least
<1>4. j \in 0 .. Len(queries) /\ ~Round(SharedTo(j), j)
  OBVIOUS
<1>5. \A i \in 0 .. Len(queries) :
         SharedTo(i) = IF i = 0 THEN [left |-> opts.limit, list |-> <<>>] ELSE RoundAfter(SharedTo(i - 1), i)
  BY <1>1, ShareRounds
<1>6. CASE j = 0
  <2>1. SharedTo(0) = [left |-> opts.limit, list |-> <<>>]
    BY <1>1, <1>5
  <2>2. PICK r : r = SharedTo(0)
    OBVIOUS
  <2>3. Len(r.list) = 0 /\ DOMAIN r.list = 1 .. 0 /\ r.left = opts.limit
    BY <2>1, <2>2
  <2>4. opts.limit >= Len(queries) => ShareOf * (Len(queries) - 0) <= r.left
    <3>1. ShareOf \in Nat /\ Len(queries) * ShareOf <= opts.limit
      BY <1>1, Division DEF ShareOf
    <3>2. ShareOf * (Len(queries) - 0) = Len(queries) * ShareOf
      BY <1>1, <3>1
    <3> QED
      BY <2>3, <3>1, <3>2
  <2>5. Round(r, 0)
    BY <1>1, <2>3, <2>4 DEF Round
  <2> QED
    BY <1>4, <1>6, <2>2, <2>5
<1>7. CASE j # 0
  <2>1. j \in 1 .. Len(queries) /\ j - 1 \in 0 .. Len(queries) /\ j - 1 < j
    BY <1>1, <1>4, <1>7
  <2>2. j - 1 \notin T
    <3> HIDE DEF T
    <3> QED
      BY <1>3, <2>1
  <2>3. Round(SharedTo(j - 1), j - 1)
    BY <2>1, <2>2
  <2>4. SharedTo(j) = RoundAfter(SharedTo(j - 1), j)
    BY <1>4, <1>5, <1>7
  <2>5. Len(CandidatesOf(j)) \in Nat
    BY <1>2, <2>1
  <2>6. PICK r : r = SharedTo(j - 1)
    OBVIOUS
  <2>7. PICK s : s = SharedTo(j)
    OBVIOUS
  <2>8. Round(s, j)
    BY <1>1, <2>1, <2>3, <2>4, <2>5, <2>6, <2>7, RoundStep
  <2> QED
    BY <1>4, <2>7, <2>8
<1> QED
  BY <1>6, <1>7

\* What limitFindResponses returns.
LEMMA SharedFacts ==
    ASSUME FindTypes, NEW list, list = LimitFindResponses
    PROVE  /\ DOMAIN list \subseteq DOMAIN queries
           /\ opts.limit = 0 \/ opts.limit >= Len(queries) => DOMAIN list = DOMAIN queries
           /\ \A i \in DOMAIN list : \E give \in 0 .. Len(CandidatesOf(i)) : Given(list[i], i, give)
<1>1. Len(queries) \in Nat \ {0} /\ DOMAIN queries = 1 .. Len(queries)
  BY RequestFacts DEF FindTypes
<1>2. Len(queries) \in 0 .. Len(queries)
  BY <1>1
<1>3. PICK m \in 0 .. Len(queries) : m = Len(queries)
  BY <1>2
<1>4. PICK r : r = SharedTo(m)
  OBVIOUS
<1>5. Round(r, m)
  BY <1>4, EveryRound
<1>6. list = r.list
  BY <1>3, <1>4, LimitIsShared
<1>7. /\ Len(list) \in 0 .. m /\ DOMAIN list = 1 .. Len(list)
      /\ \A k \in 1 .. Len(list) : \E give \in 0 .. Len(CandidatesOf(k)) : Given(list[k], k, give)
      /\ opts.limit = 0 \/ opts.limit >= Len(queries) => Len(list) = m
  BY <1>5, <1>6 DEF Round
<1>8. DOMAIN list \subseteq DOMAIN queries
  <2>1. PICK l : l = Len(list)
    OBVIOUS
  <2>2. l \in 0 .. m /\ DOMAIN list = 1 .. l /\ m \in Nat /\ DOMAIN queries = 1 .. m
    BY <1>1, <1>3, <1>7, <2>1
  <2>3. 1 .. l \subseteq 1 .. m
    BY <2>2
  <2> QED
    BY <2>2, <2>3
<1>9. opts.limit = 0 \/ opts.limit >= Len(queries) => DOMAIN list = DOMAIN queries
  BY <1>1, <1>3, <1>7
<1> QED
  BY <1>7, <1>8, <1>9, Zenon

-----------------------------------------------------------------------------
(* The paths, and the answer.                                              *)

LEMMA ChooseFacts ==
    ASSUME FindTypes, FindFacts, ChoosePathQueries
    PROVE  FindFacts'
<1>1. /\ Request /\ UNCHANGED <<symbols, todo, unread>> /\ UNCHANGED inputs /\ UNCHANGED others
      /\ UNCHANGED cancelled /\ UNCHANGED <<opts, queries>> /\ pc = "choose"
      /\ UNCHANGED <<content, version, dirty, held>>
  BY DEF ChoosePathQueries, Request, inputs, others
<1>2. RepositoryTypes /\ WalkFacts /\ SymbolPaths /\ SourcesDone /\ todo = {} /\ Began
  BY <1>1 DEF FindTypes, FindFacts, SymbolFacts, SourceFacts, Began
<1>3. SymbolPaths' /\ SourcesDone'
  BY <1>1, <1>2, SymbolPathsSame, DoneSame
<1>4. \/ PathQueries = {} /\ pc' = "share" /\ UNCHANGED <<looking, listed>>
      \/ pc' = "walk" /\ looking' = [for |-> "all", left |-> Files] /\ listed' = {}
  BY DEF ChoosePathQueries, Walk, Goto
<1>5. PathQueries' = PathQueries
  <2>1. \A i : AsPath(i)' <=> AsPath(i)
    BY <1>1 DEF AsPath
  <2> QED
    BY <1>1, <2>1 DEF PathQueries
<1>6. SourceFacts' /\ NothingYet' /\ SourcesLeft'
  BY <1>1, <1>2, <1>4 DEF SourceFacts, NothingYet, SourcesLeft
<1>7. AnswerFacts'
  BY <1>4, <1>5 DEF AnswerFacts, PathFacts, SharedOut
<1>8. WalkFacts'
  BY <1>1, <1>2, <1>4 DEF WalkFacts
<1> QED
  BY <1>3, <1>6, <1>7, <1>8 DEF FindFacts, SymbolFacts

\* The paths that match, as far as they fit.
LEMMA PathCandidates ==
    ASSUME opts.limit \in Nat, NEW query, \A f \in Files : Rank(query, f) \in Nat, NEW files \in SUBSET Files
    PROVE  AddCandidates(<<>>, PathHits(query, files)) = Cut(PathHits(query, files))
<1> HIDE DEF Hits
<1>1. PICK hits : hits = PathHits(query, files)
  OBVIOUS
<1>2. PICK list : Ranked(list, Matching(query, files), RankOrder(query)) /\ hits = HitsAt(list)
  BY <1>1, PathHitsFacts
<1>3. /\ list \in Seq(Matching(query, files)) /\ Matching(query, files) \in SUBSET Files
      /\ \A i, j \in 1 .. Len(list) : list[i] = list[j] => i = j
  <2>1. Orders(RankOrder(query), Matching(query, files))
    BY RankOrders
  <2> QED
    BY <1>2, <2>1, RankedFacts DEF Matching
<1>4. /\ hits \in Seq(Hits) /\ Len(hits) = Len(list)
      /\ \A k \in 1 .. Len(list) : hits[k].path = list[k]
  BY <1>2, <1>3, HitsAtFacts
<1>5. IsInjective(hits)
  <2>1. \A i, j \in 1 .. Len(hits) : hits[i] = hits[j] => i = j
    BY <1>3, <1>4
  <2>2. DOMAIN hits = 1 .. Len(hits)
    BY <1>4
  <2> QED
    BY <2>1, <2>2 DEF IsInjective
<1>6. Distinct(hits) = hits
  BY <1>4, <1>5, DistinctFacts
<1>7. PICK none \in Seq(Hits) : none = <<>>
  BY Concatenation
<1>8. Fitting(none) /\ \A y : ~Contains(none, y)
  <2>1. Len(none) = 0
    BY <1>7
  <2> QED
    BY <2>1 DEF Fitting, Contains
<1>9. AddCandidates(none, hits) = Cut(none \o Distinct(hits))
  <2>1. \A y : Contains(hits, y) => ~Contains(none, y)
    BY <1>8
  <2> QED
    BY <1>4, <1>8, <2>1, AddIsCut
<1>10. none \o hits = hits
  BY <1>4, <1>7, Concatenation
<1> QED
  BY <1>1, <1>6, <1>7, <1>9, <1>10

LEMMA PathStepFacts ==
    ASSUME FindTypes, FindFacts, FindPathCandidates
    PROVE  FindFacts'
<1>1. /\ Request /\ UNCHANGED <<symbols, looking, listed, changed, todo, unread>> /\ UNCHANGED inputs
      /\ UNCHANGED others /\ UNCHANGED cancelled /\ UNCHANGED <<opts, queries>> /\ pc = "paths"
      /\ UNCHANGED <<content, version, dirty, held>>
  BY DEF FindPathCandidates, Request, inputs, others
<1>2. /\ RepositoryTypes /\ WalkFacts /\ SymbolPaths /\ SourcesDone /\ todo = {} /\ Began
      /\ listed \in SUBSET Files
      /\ opts.limit \in Nat /\ \A i \in DOMAIN queries : \A f \in Files : Rank(queries[i], f) \in Nat
  BY <1>1, RequestFacts DEF FindTypes, FindFacts, SymbolFacts, SourceFacts, Began, WalkTypes
<1>3. SymbolPaths' /\ SourcesDone'
  BY <1>1, <1>2, SymbolPathsSame, DoneSame
<1>4. CASE pc' = "error"
  BY <1>1, <1>4, Stopped
<1>5. CASE /\ pc' = "share"
           /\ paths' = [i \in DOMAIN queries |->
                  IF AsPath(i) THEN AddCandidates(<<>>, PathHits(queries[i], {f \in listed : Wanted(f)}))
                  ELSE <<>>]
  <2>1. SourceFacts' /\ NothingYet' /\ SourcesLeft' /\ SharedOut'
    BY <1>1, <1>2, <1>5 DEF SourceFacts, NothingYet, SourcesLeft, SharedOut
  <2>2. WalkFacts'
    BY <1>1, <1>2, <1>5 DEF WalkFacts
  <2>3. PathQueries' = PathQueries
    <3>1. \A i : AsPath(i)' <=> AsPath(i)
      BY <1>1 DEF AsPath
    <3> QED
      BY <1>1, <3>1 DEF PathQueries
  <2> DEFINE files == {f \in listed : Wanted(f)}
  <2>4. files' = files
    <3>1. \A f : Wanted(f)' <=> Wanted(f)
      BY <1>1 DEF Wanted
    <3> QED
      BY <1>1, <3>1
  <2>5. ASSUME NEW i \in PathQueries PROVE paths'[i] = Cut(PathHits(queries[i], files))'
    <3>1. i \in DOMAIN queries /\ AsPath(i)
      BY DEF PathQueries
    <3>2. paths'[i] = AddCandidates(<<>>, PathHits(queries[i], files))
      BY <1>5, <3>1
    <3>3. paths'[i] = Cut(PathHits(queries[i], files))
      <4>1. files \in SUBSET Files
        BY <1>2
      <4> HIDE DEF files
      <4> QED
        BY <1>2, <3>1, <3>2, <4>1, PathCandidates
    <3> DEFINE hits == PathHits(queries[i], files)
    <3>4. hits' = hits
      <4> HIDE DEF files
      <4> QED
        BY <1>1, <2>4
    <3>5. paths'[i] = Cut(hits)
      BY <3>3
    <3> HIDE DEF hits
    <3>6. Cut(hits)' = Cut(hits)
      BY <1>1, <3>4 DEF Cut
    <3>7. paths'[i] = Cut(hits)'
      BY <3>5, <3>6
    <3> QED
      BY <3>7 DEF hits
  <2>6. ASSUME NEW f \in Files, Untouched(f)', content'[f] # Absent, InQuestion(f)'
        PROVE  f \in listed' /\ Wanted(f)'
    <3>1. version[f] = 0 /\ content[f] # Absent /\ InQuestion(f)
      BY <1>1, <2>6 DEF Untouched, InQuestion
    <3>2. f \in listed
      BY <1>1, <1>2, <3>1 DEF WalkFacts
    <3>3. Wanted(f)
      BY <1>1, <1>2, <3>1 DEF WalkFacts, Wanted, InQuestion
    <3> QED
      BY <1>1, <3>2, <3>3 DEF Wanted
  <2>7. PathFacts'
    BY <2>3, <2>5, <2>6 DEF PathFacts
  <2> QED
    BY <1>3, <2>1, <2>2, <2>7 DEF FindFacts, SymbolFacts, AnswerFacts
<1> QED
  BY <1>4, <1>5 DEF FindPathCandidates, Goto

LEMMA FinishFacts ==
    ASSUME FindTypes, FindFacts, Finish
    PROVE  FindFacts'
<1>1. /\ Request /\ UNCHANGED <<symbols, paths, looking, listed, changed, todo, unread>> /\ UNCHANGED inputs
      /\ UNCHANGED others /\ UNCHANGED cancelled /\ UNCHANGED <<opts, queries>> /\ pc = "share"
      /\ UNCHANGED <<content, version, dirty, held>>
  BY DEF Finish, Request, inputs, others
<1>2. RepositoryTypes /\ WalkFacts /\ SymbolPaths /\ SourcesDone /\ todo = {} /\ Began /\ PathFacts
  BY <1>1 DEF FindTypes, FindFacts, SymbolFacts, SourceFacts, Began, AnswerFacts
<1>3. CASE pc' = "error"
  BY <1>1, <1>3, Stopped
<1>4. CASE pc' = "done" /\ answers' = LimitFindResponses
  <2>1. SourceFacts' /\ NothingYet' /\ SourcesLeft'
    BY <1>1, <1>2, <1>4 DEF SourceFacts, NothingYet, SourcesLeft
  <2>2. SymbolPaths' /\ SourcesDone'
    BY <1>1, <1>2, SymbolPathsSame, DoneSame
  <2>3. WalkFacts'
    BY <1>1, <1>2, <1>4 DEF WalkFacts
  <2>4. PathFacts'
    BY <1>1, <1>2, OnwardFacts, PathsElsewhere
  <2>5. PICK list : list = answers'
    OBVIOUS
  <2>6. /\ DOMAIN list \subseteq DOMAIN queries
        /\ opts.limit = 0 \/ opts.limit >= Len(queries) => DOMAIN list = DOMAIN queries
        /\ \A i \in DOMAIN list : \E give \in 0 .. Len(CandidatesOf(i)) : Given(list[i], i, give)
    BY <1>4, <2>5, SharedFacts
  <2>7. \A i : CandidatesOf(i)' = CandidatesOf(i) /\ MatchedAs(i)' = MatchedAs(i)
    BY <1>1 DEF CandidatesOf, MatchedAs, AsPath
  <2>8. \A i, give : Response(i, give)' = Response(i, give)
    BY <2>7 DEF Response
  <2>9. \A a, i, give : Given(a, i, give)' <=> Given(a, i, give)
    BY <1>1, <2>7, <2>8 DEF Given
  <2>10. ASSUME NEW i \in DOMAIN answers' PROVE \E give \in 0 .. Len(CandidatesOf(i)') : Given(answers[i], i, give)'
    <3>1. PICK a : a = list[i]
      OBVIOUS
    <3>2. PICK give \in 0 .. Len(CandidatesOf(i)) : Given(a, i, give)
      BY <2>5, <2>6, <3>1
    <3>3. Given(a, i, give)' /\ a = answers'[i]
      BY <2>5, <2>9, <3>1, <3>2
    <3> QED
      BY <2>7, <3>2, <3>3
  <2>11. SharedOut'
    BY <1>1, <2>5, <2>6, <2>10 DEF SharedOut
  <2> QED
    BY <2>1, <2>2, <2>3, <2>4, <2>11 DEF FindFacts, SymbolFacts, AnswerFacts
<1> QED
  BY <1>3, <1>4 DEF Finish, Goto

LEMMA NextFacts == FindTypes /\ FindTypes' /\ FindFacts /\ [FindNext]_findVars => FindFacts'
<1> SUFFICES ASSUME FindTypes, FindTypes', FindFacts, [FindNext]_findVars PROVE FindFacts'
  OBVIOUS
<1>1. CASE UNCHANGED findVars
  <2>1. Onward
    BY <1>1, OnwardFacts DEF FindTypes, findVars
  <2> QED
    BY <1>1, <2>1, Elsewhere DEF findVars
<1>2. CASE Change
  <2>1. Onward
    BY <1>2, OnwardFacts DEF FindTypes
  <2> QED
    BY <1>2, <2>1, Elsewhere DEF Change
<1>3. CASE Cancel
  <2>1. Onward
    BY <1>3, OnwardFacts DEF FindTypes, Cancel
  <2> QED
    BY <1>3, <2>1, Elsewhere DEF Cancel
<1>4. CASE Start \/ (\E f \in Files : Look(f)) \/ WalkEnd \/ ChangedFileSet \/ Fail
  <2>1. WalkFacts'
    BY <1>4, WalkStepFacts DEF FindFacts
  <2>2. SourceFacts' /\ SymbolFacts' /\ AnswerFacts'
    BY <1>4, WalkStepSymbols
  <2> QED
    BY <2>1, <2>2 DEF FindFacts
<1>5. CASE OpenSource \/ ReadSource \/ ScanQuery \/ SourcesEnd
  BY <1>5, OpenFacts, ReadFacts, ScanFacts, EndFacts
<1>6. CASE ChoosePathQueries \/ FindPathCandidates \/ Finish
  BY <1>6, ChooseFacts, PathStepFacts, FinishFacts
<1> QED
  BY <1>1, <1>2, <1>3, <1>4, <1>5, <1>6 DEF FindNext

LEMMA FactsAlways == FindSpec => [](FindTypes /\ FindFacts)
<1>1. FindInit => FindTypes /\ FindFacts
  BY InitTypes, InitFacts
<1>2. FindTypes /\ FindFacts /\ [FindNext]_findVars => (FindTypes /\ FindFacts)'
  BY NextTypes, NextFacts
<1> QED
  BY <1>1, <1>2, PTL DEF FindSpec

\* A response gives the candidates of its query, or the first of them.
LEMMA ResponseFacts ==
    ASSUME FindTypes, SharedOut, pc = "done", NEW i \in DOMAIN answers
    PROVE  /\ i \in DOMAIN queries /\ answers[i].as = MatchedAs(i)
           /\ \E give \in 0 .. Len(CandidatesOf(i)) :
                 /\ Given(answers[i], i, give) /\ answers[i].results = SubSeq(CandidatesOf(i), 1, give)
                 /\ answers[i].truncated <=> Len(CandidatesOf(i)) > give
           /\ ~answers[i].truncated => answers[i].results = CandidatesOf(i) /\ ~Full(CandidatesOf(i))
<1> HIDE DEF Hits
<1>1. PICK give \in 0 .. Len(CandidatesOf(i)) : Given(answers[i], i, give)
  BY DEF SharedOut
<1>2. i \in DOMAIN queries
  BY DEF SharedOut
<1>3. /\ answers[i].as = MatchedAs(i) /\ answers[i].results = SubSeq(CandidatesOf(i), 1, give)
      /\ answers[i].truncated <=> Len(CandidatesOf(i)) > give
      /\ opts.limit > 0 => give <= opts.limit
  <2>1. answers[i] = Response(i, give) /\ (opts.limit > 0 => give <= opts.limit)
    BY <1>1 DEF Given
  <2>2. PICK more : more = (Len(CandidatesOf(i)) > give)
    OBVIOUS
  <2>3. answers[i] = [as |-> MatchedAs(i), results |-> SubSeq(CandidatesOf(i), 1, give), truncated |-> more]
    BY <2>1, <2>2 DEF Response
  <2>4. /\ answers[i].as = MatchedAs(i) /\ answers[i].results = SubSeq(CandidatesOf(i), 1, give)
        /\ answers[i].truncated = more
    <3>1. PICK x : x = MatchedAs(i)
      OBVIOUS
    <3>2. PICK y : y = SubSeq(CandidatesOf(i), 1, give)
      OBVIOUS
    <3>3. PICK a : a = answers[i]
      OBVIOUS
    <3>4. a = [as |-> x, results |-> y, truncated |-> more]
      BY <2>3, <3>1, <3>2, <3>3, Zenon
    <3>5. a.as = x /\ a.results = y /\ a.truncated = more
      BY <3>4
    <3> QED
      BY <3>1, <3>2, <3>3, <3>5, Zenon
  <2> QED
    BY <2>1, <2>2, <2>4, Zenon
<1>4. PICK list : list = CandidatesOf(i)
  OBVIOUS
<1>5. list \in Seq(Hits) /\ Len(list) \in Nat
  BY <1>2, <1>4, CandidatesFacts
<1>6. ASSUME ~answers[i].truncated PROVE answers[i].results = list /\ ~Full(list)
  <2>1. give = Len(list)
    BY <1>1, <1>3, <1>4, <1>5, <1>6
  <2>2. answers[i].results = list
    BY <1>3, <1>4, <1>5, <2>1, Beginning
  <2> QED
    <3>1. opts.limit > 0 => Len(list) <= opts.limit
      BY <1>3, <2>1
    <3>2. opts.limit \in Nat
      BY RequestFacts DEF FindTypes
    <3> QED
      BY <1>5, <2>2, <3>1, <3>2 DEF Full
<1> QED
  BY <1>1, <1>2, <1>3, <1>4, <1>6

\* The beginning of a list says the beginning of what the list says.
LEMMA AboutBeginning ==
    ASSUME NEW list \in Seq(Hits), NEW m \in 0 .. Len(list), NEW f
    PROVE  IsPrefix(About(SubSeq(list, 1, m), f), About(list, f))
<1> HIDE DEF Hits
<1>1. PICK s : s = SubSeq(list, 1, m)
  OBVIOUS
<1>2. s \in Seq(Hits) /\ IsPrefix(s, list)
  BY <1>1, Beginning
<1>3. PICK u \in Seq(Hits) : list = s \o u
  BY <1>2, SetPrefix
<1>4. About(list, f) = About(s, f) \o About(u, f)
  BY <1>2, <1>3, AboutBoth
<1>5. About(s, f) \in Seq(Hits) /\ About(u, f) \in Seq(Hits)
  BY <1>2, <1>3, AboutAppend
<1>6. IsPrefix(About(s, f), About(list, f))
  BY <1>4, <1>5, PrefixFacts
<1> QED
  BY <1>1, <1>6

LEMMA SourcesAreFaithful ==
    ASSUME FindTypes, FindFacts, pc = "done"
    PROVE  SourcesFaithful
<1> HIDE DEF Hits
<1> SUFFICES ASSUME opts.match # "path", NEW f \in Sources
             PROVE  \E c \in Sayable(f) :
                       \A i \in DOMAIN answers :
                           /\ IsPrefix(SymbolsIn(i, f), Found(queries[i], f, c))
                           /\ ~answers[i].truncated => SymbolsIn(i, f) = Found(queries[i], f, c)
  BY DEF SourcesFaithful, Sayable
<1>1. SharedOut /\ todo = {} /\ Began /\ SourcesDone /\ f \in Files
  BY FindScanAssumption DEF FindFacts, AnswerFacts, SourceFacts, SymbolFacts, Began
<1>2. PICK c \in Sayable(f) : \A i \in DOMAIN queries : Fits(i, f, c)
  BY <1>1 DEF SourcesDone
<1>3. IsASeq(Lines(c))
  <2>1. \A g \in Files : held[g] \subseteq Contents[g] /\ content[g] \in Contents[g]
    BY RepositoryFacts DEF FindTypes, RepositoryTypes
  <2>2. c = Absent \/ c \in Contents[f]
    BY <1>1, <1>2, <2>1 DEF Sayable
  <2>3. IsASeq(<<>>)
    BY DEF IsASeq
  <2> QED
    BY <1>1, <2>2, <2>3, FindScanAssumption DEF Lines
<1>4. ASSUME NEW i \in DOMAIN answers
      PROVE  /\ IsPrefix(SymbolsIn(i, f), Found(queries[i], f, c))
             /\ ~answers[i].truncated => SymbolsIn(i, f) = Found(queries[i], f, c)
  <2>1. /\ i \in DOMAIN queries /\ answers[i].as = MatchedAs(i)
        /\ \E give \in 0 .. Len(CandidatesOf(i)) :
              answers[i].results = SubSeq(CandidatesOf(i), 1, give)
        /\ ~answers[i].truncated => answers[i].results = CandidatesOf(i) /\ ~Full(CandidatesOf(i))
    BY <1>1, ResponseFacts
  <2>2. PICK what : what = Found(queries[i], f, c)
    OBVIOUS
  <2>3. what \in Seq(Hits)
    <3>1. PICK hits : hits = FindHits(queries[i], f, Lines(c))
      OBVIOUS
    <3>2. hits \in Seq(Hits)
      BY <1>1, <1>3, <3>1, FindHitsFacts
    <3> QED
      BY <2>2, <3>1, <3>2, DistinctFacts DEF Found
  <2>4. /\ IsPrefix(About(symbols[i], f), what)
        /\ ~Full(symbols[i]) => About(symbols[i], f) = what
    BY <1>2, <2>1, <2>2 DEF Fits
  <2>5. symbols[i] \in Seq(Hits)
    BY <2>1 DEF FindTypes, CandidateTypes, Kept
  <2>6. CASE answers[i].as = "symbol"
    <3>1. CandidatesOf(i) = symbols[i]
      BY <2>1, <2>6 DEF MatchedAs, CandidatesOf
    <3>2. PICK give \in 0 .. Len(symbols[i]) : answers[i].results = SubSeq(symbols[i], 1, give)
      BY <2>1, <3>1
    <3>3. SymbolsIn(i, f) = About(SubSeq(symbols[i], 1, give), f)
      BY <2>6, <3>2 DEF SymbolsIn
    <3>4. IsPrefix(SymbolsIn(i, f), About(symbols[i], f))
      BY <2>5, <3>3, AboutBeginning
    <3>5. SubSeq(symbols[i], 1, give) \in Seq(Hits)
      BY <2>5, Beginning
    <3>6. SymbolsIn(i, f) \in Seq(Hits) /\ About(symbols[i], f) \in Seq(Hits)
      BY <2>5, <3>3, <3>5, AboutAppend
    <3>7. IsPrefix(SymbolsIn(i, f), what)
      BY <2>3, <2>4, <3>4, <3>6, PrefixFacts
    <3>8. ~answers[i].truncated => SymbolsIn(i, f) = what
      BY <2>1, <2>4, <2>6, <3>1 DEF SymbolsIn
    <3> QED
      BY <2>2, <3>7, <3>8
  <2>7. CASE answers[i].as # "symbol"
    <3>1. SymbolsIn(i, f) = <<>>
      BY <2>7 DEF SymbolsIn
    <3>2. symbols[i] = <<>>
      BY <2>1, <2>7 DEF MatchedAs, CandidatesOf, AsPath
    <3>3. About(symbols[i], f) = <<>> /\ ~Full(symbols[i])
      <4>1. PICK none : none = symbols[i]
        OBVIOUS
      <4>2. Len(none) = 0 /\ opts.limit \in Nat
        BY <3>2, <4>1, RequestFacts DEF FindTypes
      <4>3. ~Full(none)
        BY <4>2 DEF Full
      <4> QED
        BY <3>2, <4>1, <4>3, AboutAppend
    <3>4. what = <<>>
      BY <2>4, <3>3
    <3> QED
      BY <2>2, <2>3, <3>1, <3>4, PrefixFacts
  <2> QED
    BY <2>6, <2>7
<1> QED
  BY <1>2, <1>4

LEMMA PathsAreFaithful ==
    ASSUME FindTypes, FindFacts, pc = "done"
    PROVE  PathsFaithful
<1> HIDE DEF Hits
<1> SUFFICES ASSUME NEW i \in DOMAIN answers
             PROVE  /\ answers[i].as = "file" =>
                          answers[i].results = PathHits(queries[i], {h.path : h \in ToSet(answers[i].results)})
                    /\ \A h \in ToSet(answers[i].results) : held[h.path] # {Absent}
                    /\ answers[i].as \in {"file", "none"} /\ opts.match # "symbol" /\ ~answers[i].truncated =>
                          \A f \in {g \in Files : Untouched(g) /\ content[g] # Absent /\ InQuestion(g)} :
                              Rank(queries[i], f) # NoMatch => FileHit(f) \in ToSet(answers[i].results)
  BY DEF PathsFaithful
<1>1. SharedOut /\ PathFacts /\ SymbolPaths /\ WalkFacts
  BY DEF FindFacts, AnswerFacts, SymbolFacts
<1>2. /\ i \in DOMAIN queries /\ answers[i].as = MatchedAs(i)
      /\ \E give \in 0 .. Len(CandidatesOf(i)) : answers[i].results = SubSeq(CandidatesOf(i), 1, give)
      /\ ~answers[i].truncated => answers[i].results = CandidatesOf(i) /\ ~Full(CandidatesOf(i))
  BY <1>1, ResponseFacts
<1>3. PICK give \in 0 .. Len(CandidatesOf(i)) : answers[i].results = SubSeq(CandidatesOf(i), 1, give)
  BY <1>2
<1>4. CandidatesOf(i) \in Seq(Hits) /\ Len(CandidatesOf(i)) \in Nat
  BY <1>2, CandidatesFacts
<1>5. PICK results : results = answers[i].results
  OBVIOUS
<1>6. /\ results \in Seq(Hits) /\ Len(results) = give
      /\ \A k \in 1 .. give : results[k] = CandidatesOf(i)[k]
      /\ DOMAIN results = 1 .. give
  <2>1. /\ results \in Seq(Hits) /\ Len(results) = give
        /\ \A k \in 1 .. give : results[k] = CandidatesOf(i)[k]
    BY <1>3, <1>4, <1>5, Beginning
  <2> QED
    BY <2>1
<1> DEFINE files == {f \in listed : Wanted(f)}
<1>7. files \in SUBSET Files /\ opts.limit \in Nat /\ \A f \in Files : Rank(queries[i], f) \in Nat
  BY <1>2, RequestFacts DEF FindTypes, WalkTypes
<1>8. AsPath(i) => CandidatesOf(i) = paths[i] /\ paths[i] = Cut(PathHits(queries[i], files))
  BY <1>1, <1>2 DEF PathFacts, PathQueries, CandidatesOf
<1>9. PICK list : /\ Ranked(list, Matching(queries[i], files), RankOrder(queries[i]))
                  /\ PathHits(queries[i], files) = HitsAt(list)
  <2> HIDE DEF files
  <2> QED
    BY <1>7, PathHitsFacts
<1>10. Orders(RankOrder(queries[i]), Matching(queries[i], files))
  <2> HIDE DEF files
  <2> QED
    BY <1>7, RankOrders
<1>11. /\ list \in Seq(Matching(queries[i], files)) /\ Len(list) \in Nat
       /\ Matching(queries[i], files) \in SUBSET Files
       /\ \A f \in Matching(queries[i], files) : \E k \in 1 .. Len(list) : list[k] = f
  <2>1. Matching(queries[i], files) \in SUBSET Files
    BY <1>7 DEF Matching
  <2> HIDE DEF files
  <2>2. /\ list \in Seq(Matching(queries[i], files))
        /\ \A f \in Matching(queries[i], files) : \E k \in 1 .. Len(list) : list[k] = f
    BY <1>9, <1>10, RankedFacts
  <2> QED
    BY <2>1, <2>2
<1>12. /\ HitsAt(list) \in Seq(Hits) /\ Len(HitsAt(list)) = Len(list)
       /\ \A k \in 1 .. Len(list) : HitsAt(list)[k] = FileHit(list[k]) /\ HitsAt(list)[k].path = list[k]
  <2> HIDE DEF files
  <2> QED
    BY <1>11, HitsAtFacts
\* As a path, the results are the first of the hits of the files that were found.
<1>13. ASSUME AsPath(i) PROVE give <= Len(list) /\ \A k \in 1 .. give : results[k] = HitsAt(list)[k]
  <2>1. PICK all : all = HitsAt(list)
    OBVIOUS
  <2>2. PICK cut : cut = Cut(all)
    OBVIOUS
  <2>3. cut = CandidatesOf(i)
    BY <1>8, <1>9, <1>13, <2>1, <2>2
  <2>4. cut \in Seq(Hits) /\ IsPrefix(cut, all) /\ all \in Seq(Hits)
    BY <1>7, <1>12, <2>1, <2>2, CutFacts
  <2>5. PICK u \in Seq(Hits) : all = cut \o u
    BY <2>4, SetPrefix
  <2>6. Len(all) = Len(cut) + Len(u) /\ \A k \in 1 .. Len(cut) : all[k] = cut[k]
    BY <2>4, <2>5, Concatenated
  <2>7. Len(cut) \in Nat /\ Len(u) \in Nat /\ give \in 0 .. Len(cut)
    BY <2>3, <2>4, <2>5
  <2>8. give <= Len(list) /\ \A k \in 1 .. give : k \in 1 .. Len(cut)
    BY <1>12, <2>1, <2>6, <2>7
  <2> QED
    BY <1>6, <2>1, <2>3, <2>6, <2>8
<1>14. ASSUME answers[i].as = "file"
       PROVE  results = PathHits(queries[i], {h.path : h \in ToSet(results)})
  <2>1. AsPath(i)
    BY <1>2, <1>14 DEF MatchedAs
  <2>2. give \in 0 .. Len(list) /\ \A k \in 1 .. give : k \in 1 .. Len(list)
    BY <1>11, <1>13, <2>1
  <2>3. PICK part : part = SubSeq(list, 1, give)
    OBVIOUS
  <2> DEFINE some == {list[k] : k \in 1 .. give}
  <2>4. Ranked(part, some, RankOrder(queries[i]))
    <3> HIDE DEF files
    <3> QED
      BY <1>9, <1>10, <2>2, <2>3, RankedPart
  <2>5. some \subseteq Matching(queries[i], files)
    <3>1. PICK all : all = Matching(queries[i], files)
      OBVIOUS
    <3>2. list \in Seq(all)
      BY <1>11, <3>1
    <3>3. \A k \in 1 .. Len(list) : list[k] \in all
      BY <3>2
    <3> QED
      BY <2>2, <3>1, <3>3
  <2>6. some \in SUBSET Files /\ Matching(queries[i], some) = some
    <3>1. \A f \in some : f \in Files /\ Rank(queries[i], f) # NoMatch
      BY <1>11, <2>5 DEF Matching
    <3> HIDE DEF some
    <3> QED
      BY <3>1 DEF Matching
  <2>7. some = {h.path : h \in ToSet(results)}
    <3>1. ToSet(results) = {results[k] : k \in 1 .. give}
      BY <1>6 DEF ToSet
    <3>2. \A k \in 1 .. give : results[k].path = list[k]
      BY <1>12, <1>13, <2>1, <2>2
    <3> QED
      BY <3>1, <3>2
  <2> HIDE DEF some, files
  <2>8. PICK more : Ranked(more, Matching(queries[i], some), RankOrder(queries[i]))
                    /\ PathHits(queries[i], some) = HitsAt(more)
    BY <1>7, <2>6, PathHitsFacts
  <2>9. more = part
    <3>1. Orders(RankOrder(queries[i]), some)
      BY <1>7, <2>6, RankOrders
    <3>2. Ranked(more, some, RankOrder(queries[i]))
      BY <2>6, <2>8
    <3> QED
      BY <2>4, <3>1, <3>2, RankedFacts
  <2>10. /\ part \in Seq(Files) /\ Len(part) = give /\ \A k \in 1 .. give : part[k] = list[k]
    <3>1. list \in Seq(Files)
      <4> HIDE DEF files
      <4> QED
        BY <1>11
    <3> QED
      BY <2>2, <2>3, <3>1, Beginning
  <2>11. HitsAt(part) = results
    <3>1. /\ HitsAt(part) \in Seq(Hits) /\ Len(HitsAt(part)) = give
          /\ \A k \in 1 .. give : HitsAt(part)[k] = FileHit(part[k])
      BY <2>10, HitsAtFacts
    <3>2. \A k \in 1 .. give : HitsAt(part)[k] = results[k]
      BY <1>12, <1>13, <2>1, <2>2, <2>10, <3>1
    <3> QED
      BY <1>6, <3>1, <3>2, SameSeq
  <2> QED
    BY <2>7, <2>8, <2>9, <2>11
<1>15. ASSUME NEW h \in ToSet(results) PROVE held[h.path] # {Absent}
  <2>1. PICK k \in 1 .. give : h = results[k]
    BY <1>6 DEF ToSet
  <2>2. CASE AsPath(i)
    <3>1. k \in 1 .. Len(list) /\ h.path = list[k]
      BY <1>11, <1>12, <1>13, <2>1, <2>2, SMTT(30)
    <3>2. list[k] \in files
      BY <1>11, <3>1 DEF Matching
    <3> QED
      BY <1>1, <3>1, <3>2 DEF WalkFacts
  <2>3. CASE ~AsPath(i)
    <3>1. CandidatesOf(i) = symbols[i] /\ k \in 1 .. Len(symbols[i]) /\ h = symbols[i][k]
      BY <1>4, <1>6, <2>1, <2>3 DEF CandidatesOf
    <3>2. h.path \in Paths(symbols[i])
      BY <3>1 DEF Paths
    <3> QED
      BY <1>1, <1>2, <3>2 DEF SymbolPaths
  <2> QED
    BY <2>2, <2>3
<1>16. ASSUME answers[i].as \in {"file", "none"}, opts.match # "symbol", ~answers[i].truncated,
              NEW f \in Files, Untouched(f), content[f] # Absent, InQuestion(f), Rank(queries[i], f) # NoMatch
       PROVE  FileHit(f) \in ToSet(results)
  <2>1. AsPath(i)
    <3>1. opts.match \in {"symbol", "path", "auto"}
      BY RequestFacts DEF FindTypes
    <3> QED
      BY <1>2, <1>16, <3>1 DEF MatchedAs, CandidatesOf, AsPath
  <2>2. f \in files
    BY <1>1, <1>2, <1>16, <2>1 DEF PathFacts, PathQueries
  <2>3. PICK k \in 1 .. Len(list) : list[k] = f
    BY <1>11, <1>16, <2>2 DEF Matching
  <2>4. results = HitsAt(list)
    <3>1. PICK all : all = HitsAt(list)
      OBVIOUS
    <3>2. PICK cut : cut = Cut(all)
      OBVIOUS
    <3>3. results = cut /\ ~Full(cut)
      BY <1>2, <1>5, <1>8, <1>9, <1>16, <2>1, <3>1, <3>2
    <3>4. all \in Seq(Hits)
      BY <1>12, <3>1
    <3> QED
      BY <1>7, <3>1, <3>2, <3>3, <3>4, CutFacts
  <2>5. results[k] = FileHit(f) /\ k \in 1 .. give
    BY <1>6, <1>12, <2>3, <2>4
  <2> QED
    BY <1>6, <2>5 DEF ToSet
<1> QED
  BY <1>5, <1>14, <1>15, <1>16

\* However files change, appear and vanish while a request walks and reads them, its
\* answer says of each source what is true of one content that it had, the same for every
\* query, names no path that was never there, and is complete for what stayed as it was.
THEOREM AnswersFaithful == FindSpec => []FindFaithful
<1>1. FindTypes /\ FindFacts => FindFaithful
  BY SourcesAreFaithful, PathsAreFaithful DEF FindFaithful
<1> QED
  BY <1>1, FactsAlways, PTL

-----------------------------------------------------------------------------
(* In a repository that nobody changes.                                    *)

OrderOf(S) == InOrder(S, Sooner)

\* The sources in the order in which they are looked at.
LEMMA OrderFacts ==
    ASSUME NEW S \in SUBSET Files
    PROVE  Ranked(OrderOf(S), S, SourceOrder)
<1> DEFINE R == SourceOrder
           c == Cardinality(S)
           list == OrderOf(S)
<1>1. Orders(R, S)
  BY SourceOrders
<1>2. S \subseteq Files
  OBVIOUS
<1>3. list = [k \in 1 .. c |-> CHOOSE x \in S : Cardinality({y \in S : Sooner(y, x)}) = k - 1]
  BY DEF InOrder, OrderOf
<1> HIDE DEF list
<1>5. ASSUME NEW x \in S PROVE Place(S, R, x) = Cardinality({y \in S : Sooner(y, x)})
  <2>1. \A y \in S : <<y, x>> \in R <=> Sooner(y, x)
    BY <1>2 DEF SourceOrder
  <2>2. Earlier(S, R, x) = {y \in S : Sooner(y, x)}
    BY <2>1 DEF Earlier
  <2> QED
    BY <2>2 DEF Place
<1> HIDE DEF R
<1>6. c \in Nat
  BY <1>1, PlaceFacts
<1>7. ASSUME NEW k \in 1 .. c PROVE list[k] \in S /\ Place(S, R, list[k]) = k - 1
  <2>1. PICK x \in S : Place(S, R, x) = k - 1
    BY <1>1, EveryPlace
  <2>2. \E z \in S : Cardinality({y \in S : Sooner(y, z)}) = k - 1
    BY <1>5, <2>1
  <2>3. list[k] = CHOOSE z \in S : Cardinality({y \in S : Sooner(y, z)}) = k - 1
    BY <1>3
  <2>4. list[k] \in S /\ Cardinality({y \in S : Sooner(y, list[k])}) = k - 1
    BY <2>2, <2>3
  <2> QED
    BY <1>5, <2>4
<1>8. DOMAIN list = 1 .. c /\ list \in Seq(S) /\ Len(list) = c
  <2>1. DOMAIN list = 1 .. c
    BY <1>3
  <2>2. list \in [1 .. c -> S]
    <3> DEFINE e(k) == CHOOSE x \in S : Cardinality({y \in S : Sooner(y, x)}) = k - 1
    <3>0. list = [k \in 1 .. c |-> e(k)]
      BY <1>3
    <3> HIDE DEF e, c
    <3>1. list = [k \in 1 .. c |-> list[k]]
      BY <3>0
    <3> QED
      BY <1>7, <3>1
  <2> QED
    BY <1>6, <2>1, <2>2
<1>9. Ranked(list, S, R)
  BY <1>6, <1>7, <1>8 DEF Ranked
<1> QED
  BY <1>9 DEF R, list

\* One that comes after the others is the last.
LEMMA OrderMore ==
    ASSUME NEW S \in SUBSET Files, NEW f \in Files, f \notin S, \A g \in S : Sooner(g, f)
    PROVE  OrderOf(S \cup {f}) = Append(OrderOf(S), f)
<1>1. S \cup {f} \in SUBSET Files
  OBVIOUS
<1>2. Orders(SourceOrder, S \cup {f})
  BY <1>1, SourceOrders
<1>3. Ranked(OrderOf(S), S, SourceOrder) /\ Ranked(OrderOf(S \cup {f}), S \cup {f}, SourceOrder)
  BY <1>1, OrderFacts
<1>4. \A g \in S : <<g, f>> \in SourceOrder
  BY DEF SourceOrder
<1>5. PICK list : list = OrderOf(S)
  OBVIOUS
<1>6. PICK more : more = OrderOf(S \cup {f})
  OBVIOUS
<1> HIDE DEF OrderOf
<1>7. Ranked(Append(list, f), S \cup {f}, SourceOrder)
  BY <1>2, <1>3, <1>4, <1>5, RankedMore
<1>8. Append(list, f) = more
  <2>1. Ranked(more, S \cup {f}, SourceOrder)
    BY <1>3, <1>6
  <2> QED
    BY <1>2, <1>7, <2>1, RankedFacts
<1> QED
  BY <1>5, <1>6, <1>8

LEMMA OrderEmpty == OrderOf({}) = <<>>
<1>1. Ranked(OrderOf({}), {}, SourceOrder)
  BY OrderFacts
<1>2. PICK list : list = OrderOf({})
  OBVIOUS
<1>3. list \in Seq({}) /\ Len(list) = 0
  BY <1>1, <1>2, FS_EmptySet DEF Ranked
<1> QED
  BY <1>2, <1>3

\* What sources say, one after the other.
Said(i, list) == FlattenSeq([k \in DOMAIN list |-> Found(queries[i], list[k], content[list[k]])])
SaidOf(i, S) == Said(i, OrderOf(S))

LEMMA FoundFacts ==
    ASSUME NEW query, NEW f \in Files, NEW c, IsASeq(Lines(c))
    PROVE  Found(query, f, c) \in Seq(Hits)
<1> HIDE DEF Hits
<1>1. PICK hits : hits = FindHits(query, f, Lines(c))
  OBVIOUS
<1>2. hits \in Seq(Hits)
  BY <1>1, FindHitsFacts
<1> QED
  BY <1>1, <1>2, DistinctFacts DEF Found

LEMMA SaidAppend ==
    ASSUME RepositoryTypes, NEW i
    PROVE  /\ Said(i, <<>>) = <<>>
           /\ \A list \in Seq(Files) : Said(i, list) \in Seq(Hits)
           /\ \A list \in Seq(Files), f \in Files :
                 Said(i, Append(list, f)) = Said(i, list) \o Found(queries[i], f, content[f])
<1> HIDE DEF Hits
<1>1. \A f \in Files : Found(queries[i], f, content[f]) \in Seq(Hits)
  <2> SUFFICES ASSUME NEW f \in Files PROVE Found(queries[i], f, content[f]) \in Seq(Hits)
    OBVIOUS
  <2>1. PICK c : c = content[f]
    OBVIOUS
  <2>2. IsASeq(Lines(c))
    <3>1. IsASeq(<<>>)
      BY DEF IsASeq
    <3> QED
      BY <2>1, <3>1, RepositoryFacts DEF Lines
  <2>3. PICK q : q = queries[i]
    OBVIOUS
  <2>4. Found(q, f, c) \in Seq(Hits)
    BY <2>2, FoundFacts
  <2> QED
    BY <2>1, <2>3, <2>4
<1> DEFINE F(f) == Found(queries[i], f, content[f])
           Parts(list) == [k \in DOMAIN list |-> F(list[k])]
<1>2. \A list : Said(i, list) = FlattenSeq(Parts(list))
  BY DEF Said
<1>3. \A f \in Files : F(f) \in Seq(Hits)
  BY <1>1
<1> HIDE DEF F
<1>4. \A list \in Seq(Files) : Parts(list) \in Seq(Seq(Hits)) /\ Len(Parts(list)) = Len(list)
  <2> SUFFICES ASSUME NEW list \in Seq(Files)
               PROVE  Parts(list) \in Seq(Seq(Hits)) /\ Len(Parts(list)) = Len(list)
    OBVIOUS
  <2>1. Len(list) \in Nat /\ DOMAIN list = 1 .. Len(list) /\ \A k \in 1 .. Len(list) : list[k] \in Files
    OBVIOUS
  <2>2. \A k \in 1 .. Len(list) : F(list[k]) \in Seq(Hits)
    BY <1>3, <2>1
  <2>3. Parts(list) = [k \in 1 .. Len(list) |-> F(list[k])]
    BY <2>1
  <2>4. PICK E : E = Seq(Hits)
    OBVIOUS
  <2>5. PICK size \in Nat : size = Len(list)
    BY <2>1
  <2>6. \A k \in 1 .. size : F(list[k]) \in E
    BY <2>2, <2>4, <2>5
  <2>7. PICK p : p = Parts(list)
    OBVIOUS
  <2>8. p \in [1 .. size -> E]
    BY <2>3, <2>5, <2>6, <2>7
  <2>9. p \in Seq(E) /\ Len(p) = size
    BY <2>8
  <2> QED
    BY <2>4, <2>5, <2>7, <2>9
<1>5. ASSUME NEW list \in Seq(Files), NEW f \in Files
      PROVE  Parts(Append(list, f)) = Append(Parts(list), F(f))
  <2>1. PICK more : more = Append(list, f)
    OBVIOUS
  <2>2. /\ Len(list) \in Nat /\ Len(more) = Len(list) + 1 /\ more \in Seq(Files)
        /\ DOMAIN more = 1 .. Len(list) + 1 /\ DOMAIN list = 1 .. Len(list)
        /\ more[Len(list) + 1] = f /\ \A k \in 1 .. Len(list) : more[k] = list[k]
    BY <2>1
  <2>3. PICK E : E = Seq(Hits)
    OBVIOUS
  <2>4. PICK a : a = Parts(more)
    OBVIOUS
  <2>5. PICK b : b = Parts(list)
    OBVIOUS
  <2>6. a \in Seq(E) /\ b \in Seq(E) /\ Len(a) = Len(b) + 1 /\ Len(b) = Len(list)
    BY <1>4, <2>2, <2>3, <2>4, <2>5
  <2>7. \A k \in 1 .. Len(b) : a[k] = b[k]
    BY <2>2, <2>4, <2>5, <2>6
  <2>8. a[Len(b) + 1] = F(f)
    BY <2>2, <2>4, <2>6
  <2>9. a = Append(b, a[Len(b) + 1])
    BY <2>6, <2>7, Extended
  <2> QED
    BY <2>1, <2>4, <2>5, <2>8, <2>9
<1>6. Parts(<<>>) = <<>>
  OBVIOUS
<1> HIDE DEF Parts
<1>7. Said(i, <<>>) = <<>>
  BY <1>2, <1>6, FlatAppend
<1>8. \A list \in Seq(Files) : Said(i, list) \in Seq(Hits)
  BY <1>2, <1>4, FlatAppend
<1>9. ASSUME NEW list \in Seq(Files), NEW f \in Files
      PROVE  Said(i, Append(list, f)) = Said(i, list) \o Found(queries[i], f, content[f])
  <2>1. Said(i, Append(list, f)) = FlattenSeq(Append(Parts(list), F(f)))
    BY <1>2, <1>5
  <2>2. FlattenSeq(Append(Parts(list), F(f))) = FlattenSeq(Parts(list)) \o F(f)
    BY <1>3, <1>4, FlatAppend
  <2> QED
    BY <1>2, <2>1, <2>2 DEF F
<1> QED
  BY <1>7, <1>8, <1>9

\* What sources say in their order, when one more is looked at after the others.
LEMMA SaidMore ==
    ASSUME RepositoryTypes, NEW i, NEW S \in SUBSET Files
    PROVE  /\ SaidOf(i, S) \in Seq(Hits) /\ SaidOf(i, {}) = <<>>
           /\ \A f \in Files \ S : (\A g \in S : Sooner(g, f)) =>
                 SaidOf(i, S \cup {f}) = SaidOf(i, S) \o Found(queries[i], f, content[f])
<1> HIDE DEF Hits
<1>1. PICK list : list = OrderOf(S)
  OBVIOUS
<1>2. list \in Seq(Files)
  <2>1. list \in Seq(S)
    BY <1>1, OrderFacts DEF Ranked
  <2> QED
    BY <2>1
<1>3. SaidOf(i, S) = Said(i, list) /\ SaidOf(i, S) \in Seq(Hits)
  BY <1>1, <1>2, SaidAppend DEF SaidOf
<1>4. SaidOf(i, {}) = <<>>
  BY OrderEmpty, SaidAppend DEF SaidOf
<1>5. ASSUME NEW f \in Files \ S, \A g \in S : Sooner(g, f)
      PROVE  SaidOf(i, S \cup {f}) = SaidOf(i, S) \o Found(queries[i], f, content[f])
  <2>1. OrderOf(S \cup {f}) = Append(list, f)
    BY <1>1, <1>5, OrderMore
  <2>2. Said(i, Append(list, f)) = Said(i, list) \o Found(queries[i], f, content[f])
    BY <1>2, SaidAppend
  <2> HIDE DEF OrderOf
  <2> QED
    BY <1>3, <2>1, <2>2 DEF SaidOf
<1> QED
  BY <1>3, <1>4, <1>5

\* Nobody has changed anything, every file could be read and the request goes on.
Still == changes = 0 /\ unread = {} /\ ~cancelled
Present == {f \in Files : content[f] # Absent /\ InQuestion(f)}
Gone == (Present \cap Sources) \ todo
Looked(i) == Gone \cup IF pc = "scan" /\ i < turn THEN {NextSource} ELSE {}

RootFacts == changes = 0 => sameRoot /\ \A f \in Files : version[f] = 0 /\ held[f] = {content[f]}
\* Each query has, as far as they fit, the hits of the sources so far, in their order.
QuietSymbols ==
    /\ pc \in {"next", "read", "scan"} => \A f \in Gone : \A g \in todo : Sooner(f, g)
    /\ Began /\ opts.match # "path" =>
          \A i \in DOMAIN queries : symbols[i] = Cut(SaidOf(i, Looked(i)))
QuietPaths == pc \in {"share", "done"} /\ PathQueries # {} => {f \in listed : Wanted(f)} = Present
QuietFacts == RootFacts /\ (Still => pc # "error" /\ QuietSymbols /\ QuietPaths)

LEMMA SaidSame ==
    ASSUME UNCHANGED others, UNCHANGED inputs, NEW i, NEW S
    PROVE  SaidOf(i, S)' = SaidOf(i, S)
<1>1. UNCHANGED <<opts, queries, content>>
  BY DEF others, inputs
<1>2. \A f, g : Sooner(f, g)' <=> Sooner(f, g)
  BY <1>1 DEF Sooner
<1>3. OrderOf(S)' = OrderOf(S)
  BY <1>2, SMTT(30) DEF OrderOf, InOrder
<1>4. \A q, f, c : Found(q, f, c)' = Found(q, f, c)
  BY <1>1, FoundSame
<1>5. PICK list : list = OrderOf(S)
  OBVIOUS
<1>6. \A k \in DOMAIN list : Found(queries[i], list[k], content[list[k]])' = Found(queries[i], list[k], content[list[k]])
  <2> SUFFICES ASSUME NEW k \in DOMAIN list
               PROVE  Found(queries[i], list[k], content[list[k]])' = Found(queries[i], list[k], content[list[k]])
    OBVIOUS
  <2>1. PICK q : q = queries[i]
    OBVIOUS
  <2>2. PICK c : c = content[list[k]]
    OBVIOUS
  <2>3. Found(q, list[k], c)' = Found(q, list[k], c)
    BY <1>4
  <2> QED
    BY <1>1, <2>1, <2>2, <2>3
<1>7. Said(i, list)' = Said(i, list)
  BY <1>6 DEF Said
<1> HIDE DEF OrderOf
<1> QED
  BY <1>3, <1>5, <1>7 DEF SaidOf

LEMMA CutSame ==
    ASSUME UNCHANGED opts, NEW s
    PROVE  Cut(s)' = Cut(s)
BY DEF Cut

LEMMA PresentSame ==
    ASSUME UNCHANGED others, UNCHANGED inputs
    PROVE  Present' = Present
BY DEF Present, InQuestion, others, inputs

\* What a step of the request leaves alone.
LEMMA RequestSame ==
    ASSUME FindTypes, QuietFacts, Request, unread \subseteq unread'
    PROVE  /\ UNCHANGED others /\ UNCHANGED inputs /\ UNCHANGED <<opts, queries, cancelled>>
           /\ UNCHANGED <<content, version, dirty, sameRoot, changes, held>>
           /\ RootFacts' /\ Present' = Present
           /\ Still' => /\ Still /\ sameRoot /\ ~cancelled /\ QuietSymbols /\ QuietPaths
                        /\ \A f \in Files : version[f] = 0 /\ held[f] = {content[f]}
           /\ \A i, S : SaidOf(i, S)' = SaidOf(i, S)
           /\ \A s : Cut(s)' = Cut(s)
<1>1. /\ UNCHANGED others /\ UNCHANGED inputs /\ UNCHANGED <<opts, queries, cancelled>>
      /\ UNCHANGED <<content, version, dirty, sameRoot, changes, held>>
  BY DEF Request, others, inputs
<1>2. RootFacts'
  BY <1>1 DEF QuietFacts, RootFacts
<1>3. Still' => Still
  BY <1>1 DEF Still
<1>4. Still => /\ sameRoot /\ ~cancelled /\ QuietSymbols /\ QuietPaths
               /\ \A f \in Files : version[f] = 0 /\ held[f] = {content[f]}
  BY DEF QuietFacts, RootFacts, Still
<1>5. /\ Present' = Present /\ (\A i, S : SaidOf(i, S)' = SaidOf(i, S)) /\ (\A s : Cut(s)' = Cut(s))
  BY <1>1, PresentSame, SaidSame, CutSame
<1> QED
  BY <1>1, <1>2, <1>3, <1>4, <1>5

\* A step that adds nothing to what is said, and passes over no source that has to be
\* answered for.
LEMMA QuietSame ==
    ASSUME FindTypes, FindTypes', QuietFacts, Request, unread \subseteq unread', UNCHANGED symbols,
           Began, Gone' = Gone, todo' \subseteq todo,
           pc' \in {"next", "read", "scan"} => pc \in {"next", "read", "scan"},
           \A i \in DOMAIN queries : ~(pc = "scan" /\ i < turn) /\ ~(pc' = "scan" /\ i < turn')
    PROVE  Still' => QuietSymbols'
<1> SUFFICES ASSUME Still' PROVE QuietSymbols'
  OBVIOUS
<1>1. /\ UNCHANGED <<opts, queries>> /\ QuietSymbols
      /\ (\A i, S : SaidOf(i, S)' = SaidOf(i, S)) /\ (\A s : Cut(s)' = Cut(s))
  BY RequestSame
<1>2. PICK G : G = Gone
  OBVIOUS
<1>3. ASSUME pc' \in {"next", "read", "scan"} PROVE \A f \in Gone' : \A g \in todo' : Sooner(f, g)'
  BY <1>1, <1>3 DEF QuietSymbols, Sooner
<1>4. ASSUME opts'.match # "path", NEW i \in DOMAIN queries
      PROVE  symbols'[i] = Cut(SaidOf(i, Looked(i)))'
  <2>1. Looked(i) = G /\ Looked(i)' = G
    BY <1>1, <1>2 DEF Looked
  <2>2. symbols[i] = Cut(SaidOf(i, G))
    BY <1>1, <1>4, <2>1 DEF QuietSymbols
  <2>3. PICK s : s = SaidOf(i, G)
    OBVIOUS
  <2>4. SaidOf(i, G)' = s /\ Cut(s)' = Cut(s)
    BY <1>1, <2>3
  <2>5. Cut(SaidOf(i, Looked(i)))' = Cut(s)
    BY <2>1, <2>4
  <2> QED
    BY <2>2, <2>3, <2>5
<1> QED
  BY <1>1, <1>3, <1>4 DEF QuietSymbols

\* The sources are listed, and nothing is said yet.
LEMMA QuietFirst ==
    ASSUME FindTypes, QuietFacts, WalkFacts, Request, UNCHANGED <<symbols, unread>>,
           \A i \in DOMAIN queries : symbols[i] = <<>>, pc \in {"walk", "changed"},
           looking.for = "source", looking.left = {}, pc' = "next", todo' = listed
    PROVE  Still' => QuietSymbols'
<1> SUFFICES ASSUME Still' PROVE QuietSymbols'
  OBVIOUS
<1>1. /\ UNCHANGED <<opts, queries>> /\ Present' = Present /\ \A f \in Files : version[f] = 0
      /\ (\A i, S : SaidOf(i, S)' = SaidOf(i, S)) /\ (\A s : Cut(s)' = Cut(s))
  BY RequestSame
<1>2. Present \cap Sources \subseteq listed
  BY <1>1, FindScanAssumption DEF Present, WalkFacts
<1>3. Gone' = {}
  BY <1>1, <1>2 DEF Gone
<1>4. ASSUME NEW i \in DOMAIN queries PROVE symbols'[i] = Cut(SaidOf(i, Looked(i)))'
  <2>1. Looked(i)' = {}
    BY <1>3 DEF Looked
  <2>2. PICK none : none = SaidOf(i, {})
    OBVIOUS
  <2>3. none = <<>> /\ none \in Seq(Hits)
    <3> HIDE DEF Hits
    <3>1. {} \in SUBSET Files
      OBVIOUS
    <3> QED
      BY <2>2, <3>1, SaidMore DEF FindTypes
  <2>4. SaidOf(i, {})' = none /\ Cut(none)' = Cut(none)
    BY <1>1, <2>2
  <2>5. Cut(none) = none
    <3>1. Len(none) = 0 /\ opts.limit \in Nat
      BY <2>3, RequestFacts DEF FindTypes
    <3> QED
      BY <3>1 DEF Cut
  <2>6. Cut(SaidOf(i, Looked(i)))' = Cut(none)
    BY <2>1, <2>4
  <2> QED
    BY <2>3, <2>5, <2>6
<1> QED
  BY <1>1, <1>3, <1>4 DEF QuietSymbols

LEMMA QuietWalk ==
    ASSUME FindTypes, FindTypes', FindFacts, QuietFacts,
           Start \/ (\E f \in Files : Look(f)) \/ WalkEnd \/ ChangedFileSet \/ Fail
    PROVE  QuietFacts'
<1>1. /\ Request /\ UNCHANGED <<symbols, unread>>
  BY DEF Start, Look, WalkEnd, ChangedFileSet, Fail, Checked
<1>2. /\ RootFacts' /\ (Still' => sameRoot /\ ~cancelled) /\ UNCHANGED <<opts, queries>> /\ Present' = Present
  BY <1>1, RequestSame
<1>3. /\ WalkFacts /\ SourceFacts /\ NothingYet
      /\ looking \in [for : {"none", "source", "all"}, left : SUBSET Files]
  BY DEF FindTypes, FindFacts, SymbolFacts, WalkTypes
<1> SUFFICES ASSUME Still' PROVE pc' # "error" /\ QuietSymbols' /\ QuietPaths'
  BY <1>2 DEF QuietFacts
<1>4. CASE Start
  <2>1. /\ \/ opts.match = "path" /\ pc' = "choose"
           \/ pc' = "walk" /\ looking' = [for |-> "source", left |-> Files]
    BY <1>2, <1>4 DEF Start, Checked, Walk, Goto
  <2>2. Began' => opts'.match = "path"
    BY <1>2, <2>1 DEF Began
  <2> QED
    BY <2>1, <2>2 DEF QuietSymbols, QuietPaths
\* Both walks: the second adds nothing.
<1>5. ASSUME Began, pc \in {"walk", "changed"}, todo' = {}, todo = {}, pc' \in {"walk", "changed", "paths", "failed"}
      PROVE  pc' # "error" /\ QuietSymbols' /\ QuietPaths'
  <2>1. Gone' = Gone
    BY <1>2, <1>5 DEF Gone
  <2> QED
    BY <1>1, <1>5, <2>1, QuietSame DEF QuietPaths
<1>6. ASSUME NEW f \in Files, Look(f) PROVE pc' # "error" /\ QuietSymbols' /\ QuietPaths'
  <2>1. /\ pc = "walk" /\ pc' = "walk" /\ looking' = [looking EXCEPT !.left = @ \ {f}] /\ UNCHANGED todo
    BY <1>2, <1>6 DEF Look, Checked, Goto
  <2>2. looking'.for = looking.for /\ todo = {}
    BY <1>3, <2>1 DEF SourceFacts
  <2>3. CASE Began
    BY <1>5, <2>1, <2>2, <2>3
  <2>4. CASE ~Began
    <3>1. ~Began'
      BY <2>1, <2>2, <2>4 DEF Began
    <3> QED
      BY <2>1, <3>1 DEF QuietSymbols, QuietPaths
  <2> QED
    BY <2>3, <2>4
<1>7. CASE WalkEnd
  <2>1. /\ UNCHANGED looking /\ pc = "walk" /\ looking.left = {} /\ UNCHANGED listed
        /\ todo' = IF looking.for = "source" THEN listed ELSE todo
        /\ pc' = IF opts.changedOnly THEN "changed" ELSE IF looking.for = "source" THEN "next" ELSE "paths"
    BY <1>2, <1>7 DEF WalkEnd, Goto
  <2>2. looking.for \in {"source", "all"} /\ todo = {}
    BY <1>3, <2>1 DEF WalkFacts, SourceFacts
  <2>3. CASE looking.for = "all"
    <3>1. Began /\ todo' = {} /\ pc' \in {"changed", "paths"}
      BY <2>1, <2>2, <2>3 DEF Began
    <3> QED
      BY <1>5, <2>1, <2>2, <3>1
  <2>4. CASE looking.for = "source" /\ pc' = "changed"
    <3>1. ~Began'
      BY <2>1, <2>4 DEF Began
    <3> QED
      BY <2>4, <3>1 DEF QuietSymbols, QuietPaths
  <2>5. CASE looking.for = "source" /\ pc' = "next"
    <3>1. \A i \in DOMAIN queries : symbols[i] = <<>>
      BY <1>3, <2>1, <2>5 DEF NothingYet
    <3> QED
      BY <1>1, <1>3, <2>1, <2>5, <3>1, QuietFirst DEF QuietPaths
  <2> QED
    BY <2>1, <2>2, <2>3, <2>4, <2>5
<1>8. CASE ChangedFileSet
  <2>1. /\ UNCHANGED looking /\ pc = "changed" /\ UNCHANGED <<listed, todo>>
        /\ pc' = IF looking.for = "source" THEN "next" ELSE "paths"
    BY <1>2, <1>8 DEF ChangedFileSet, Checked, Goto
  <2>2. /\ looking.for \in {"source", "all"} /\ looking.left = {}
        /\ todo = IF looking.for = "source" THEN listed ELSE {}
    BY <1>3, <2>1 DEF WalkFacts, SourceFacts
  <2>3. CASE looking.for = "all"
    <3>1. Began /\ todo' = {} /\ todo = {} /\ pc' = "paths"
      BY <2>1, <2>2, <2>3 DEF Began
    <3> QED
      BY <1>5, <2>1, <3>1
  <2>4. CASE looking.for = "source"
    <3>1. \A i \in DOMAIN queries : symbols[i] = <<>>
      BY <1>3, <2>1, <2>4 DEF NothingYet
    <3> QED
      BY <1>1, <1>3, <2>1, <2>2, <2>4, <3>1, QuietFirst DEF QuietPaths
  <2> QED
    BY <2>2, <2>3, <2>4
<1>9. CASE Fail
  <2>1. pc' = "failed"
    BY <1>9 DEF Fail, Goto
  <2> QED
    BY <2>1 DEF QuietSymbols, QuietPaths, Began
<1> QED
  BY <1>4, <1>6, <1>7, <1>8, <1>9

LEMMA QuietOpen ==
    ASSUME FindTypes, FindTypes', FindFacts, QuietFacts, OpenSource
    PROVE  QuietFacts'
<1>1. /\ Request /\ UNCHANGED symbols /\ pc = "next" /\ todo # {} /\ unread \subseteq unread'
      /\ todo \in SUBSET Files /\ WalkFacts
  BY FindScanAssumption DEF OpenSource, Checked, FindTypes, SourceTypes, FindFacts
<1>2. /\ RootFacts' /\ UNCHANGED <<opts, queries>> /\ Present' = Present
      /\ Still' => sameRoot /\ ~cancelled /\ \A f \in Files : version[f] = 0
  BY <1>1, RequestSame
<1> SUFFICES ASSUME Still' PROVE pc' # "error" /\ QuietSymbols' /\ QuietPaths'
  BY <1>2 DEF QuietFacts
<1>3. PICK f \in Files : f = NextSource
  BY <1>1, NextSourceFacts
<1>4. f \in todo
  BY <1>1, <1>3, NextSourceFacts
<1> HIDE DEF NextSource
<1>5. \/ pc' = "next" /\ todo' = todo \ {f} /\ ~Wanted(f)
      \/ pc' = "next" /\ todo' = todo \ {f} /\ content[f] = Absent
      \/ pc' = "read" /\ todo' = todo
      \/ f \in unread'
  BY <1>2, <1>3 DEF OpenSource, Checked, Goto, Skip
<1>6. f \notin unread'
  BY DEF Still
<1>7. ~Wanted(f) => ~InQuestion(f)
  BY <1>1, <1>2, <1>3 DEF Wanted, InQuestion, WalkFacts
<1>8. Gone' = Gone /\ todo' \subseteq todo /\ pc' \in {"next", "read"}
  BY <1>2, <1>5, <1>6, <1>7 DEF Gone, Present
<1>9. Began
  BY <1>1 DEF Began
<1> QED
  BY <1>1, <1>8, <1>9, QuietSame DEF QuietPaths

LEMMA QuietRead ==
    ASSUME FindTypes, FindTypes', FindFacts, QuietFacts, ReadSource
    PROVE  QuietFacts'
<1>1. /\ Request /\ UNCHANGED <<symbols, opened>> /\ pc = "read" /\ unread \subseteq unread' /\ SourceFacts
      /\ todo \in SUBSET Files /\ todo # {} /\ opened \in Nat
      /\ DOMAIN queries = 1 .. Len(queries) /\ Len(queries) \in Nat
  BY FindScanAssumption, RequestFacts DEF ReadSource, FindTypes, SourceTypes, FindFacts
<1>2. /\ RootFacts' /\ UNCHANGED <<opts, queries>> /\ Present' = Present
      /\ Still' => sameRoot /\ ~cancelled /\ \A f \in Files : version[f] = 0
  BY <1>1, RequestSame
<1> SUFFICES ASSUME Still' PROVE pc' # "error" /\ QuietSymbols' /\ QuietPaths'
  BY <1>2 DEF QuietFacts
<1>3. PICK f \in Files : f = NextSource
  BY <1>1, NextSourceFacts
<1> HIDE DEF NextSource
<1>4. \/ version[f] # opened
      \/ pc' = "scan" /\ turn' = 1 /\ UNCHANGED todo
      \/ f \in unread'
  BY <1>2, <1>3 DEF ReadSource, Goto, Skip, StillThere
<1>5. version[f] = opened
  BY <1>1, <1>2, <1>3 DEF SourceFacts
<1>6. pc' = "scan" /\ turn' = 1 /\ UNCHANGED todo
  BY <1>4, <1>5 DEF Still
<1>7. Gone' = Gone /\ Began
  BY <1>1, <1>2, <1>6 DEF Gone, Began
<1>8. \A i \in DOMAIN queries : ~(i < 1)
  BY <1>1
<1> QED
  BY <1>1, <1>6, <1>7, <1>8, QuietSame DEF QuietPaths

LEMMA QuietEnd ==
    ASSUME FindTypes, FindTypes', FindFacts, QuietFacts, SourcesEnd
    PROVE  QuietFacts'
<1>1. Request /\ UNCHANGED <<symbols, unread, todo>> /\ pc = "next" /\ pc' = "choose"
  BY DEF SourcesEnd, Goto
<1>2. RootFacts' /\ Present' = Present
  BY <1>1, RequestSame
<1>3. Gone' = Gone /\ Began
  BY <1>1, <1>2 DEF Gone, Began
<1> QED
  BY <1>1, <1>2, <1>3, QuietSame DEF QuietFacts, QuietPaths

LEMMA QuietChoose ==
    ASSUME FindTypes, FindTypes', FindFacts, QuietFacts, ChoosePathQueries
    PROVE  QuietFacts'
<1>1. /\ Request /\ UNCHANGED <<symbols, unread, todo>> /\ pc = "choose"
      /\ pc' = "walk" \/ (pc' = "share" /\ PathQueries = {})
  BY DEF ChoosePathQueries, Goto, Walk
<1>2. RootFacts' /\ Present' = Present /\ UNCHANGED <<opts, queries>>
  BY <1>1, RequestSame
<1>3. Gone' = Gone /\ Began
  BY <1>1, <1>2 DEF Gone, Began
<1>4. PathQueries' = PathQueries
  <2>1. \A i : AsPath(i)' <=> AsPath(i)
    BY <1>1, <1>2 DEF AsPath
  <2> QED
    BY <1>2, <2>1 DEF PathQueries
<1>5. QuietPaths'
  BY <1>1, <1>4 DEF QuietPaths
<1> QED
  BY <1>1, <1>2, <1>3, <1>5, QuietSame DEF QuietFacts

LEMMA QuietPathStep ==
    ASSUME FindTypes, FindTypes', FindFacts, QuietFacts, FindPathCandidates
    PROVE  QuietFacts'
<1>1. /\ Request /\ UNCHANGED <<symbols, unread, todo, listed, changed>> /\ pc = "paths" /\ WalkFacts
      /\ listed \in SUBSET Files
  BY DEF FindPathCandidates, FindFacts, FindTypes, WalkTypes
<1>2. /\ RootFacts' /\ Present' = Present /\ UNCHANGED <<opts, queries>>
      /\ Still' => ~cancelled /\ \A f \in Files : version[f] = 0 /\ held[f] = {content[f]}
  BY <1>1, RequestSame
<1> SUFFICES ASSUME Still' PROVE pc' # "error" /\ QuietSymbols' /\ QuietPaths'
  BY <1>2 DEF QuietFacts
<1>3. pc' = "share"
  BY <1>2 DEF FindPathCandidates, Goto
<1>4. Gone' = Gone /\ Began
  BY <1>1, <1>2 DEF Gone, Began
<1>5. \A f \in Files : f \in listed <=> content[f] # Absent
  BY <1>1, <1>2 DEF WalkFacts
<1>6. \A f \in Files : Wanted(f) <=> InQuestion(f)
  BY <1>1, <1>2 DEF WalkFacts, Wanted, InQuestion
<1>7. {f \in listed : Wanted(f)} = Present
  BY <1>1, <1>5, <1>6 DEF Present
<1>8. {f \in listed : Wanted(f)}' = {f \in listed : Wanted(f)}
  BY <1>1, <1>2 DEF Wanted
<1> QED
  BY <1>1, <1>2, <1>3, <1>4, <1>7, <1>8, QuietSame DEF QuietPaths

LEMMA QuietFinish ==
    ASSUME FindTypes, FindTypes', FindFacts, QuietFacts, Finish
    PROVE  QuietFacts'
<1>1. Request /\ UNCHANGED <<symbols, unread, todo, listed, changed>> /\ pc = "share"
  BY DEF Finish
<1>2. /\ RootFacts' /\ Present' = Present /\ UNCHANGED <<opts, queries>>
      /\ Still' => sameRoot /\ ~cancelled /\ QuietPaths
  BY <1>1, RequestSame
<1> SUFFICES ASSUME Still' PROVE pc' # "error" /\ QuietSymbols' /\ QuietPaths'
  BY <1>2 DEF QuietFacts
<1>3. pc' = "done"
  BY <1>2 DEF Finish, Goto
<1>4. Gone' = Gone /\ Began
  BY <1>1, <1>2 DEF Gone, Began
<1>5. PathQueries' = PathQueries
  <2>1. \A i : AsPath(i)' <=> AsPath(i)
    BY <1>1, <1>2 DEF AsPath
  <2> QED
    BY <1>2, <2>1 DEF PathQueries
<1>6. {f \in listed : Wanted(f)}' = {f \in listed : Wanted(f)}
  BY <1>1, <1>2 DEF Wanted
<1>7. QuietPaths'
  BY <1>1, <1>2, <1>3, <1>5, <1>6 DEF QuietPaths
<1> QED
  BY <1>1, <1>2, <1>3, <1>4, <1>7, QuietSame

\* A query in the next source: its hits follow those of the sources before.
LEMMA QuietScan ==
    ASSUME FindTypes, FindTypes', FindFacts, QuietFacts, ScanQuery
    PROVE  QuietFacts'
<1> HIDE DEF Hits
<1>1. /\ Request /\ UNCHANGED <<unread, opened, source>> /\ pc = "scan" /\ WalkFacts /\ SourceFacts /\ SourcesLeft
      /\ todo \in SUBSET Sources /\ todo # {} /\ Sources \subseteq Files /\ opened \in Nat
      /\ turn \in DOMAIN queries /\ DOMAIN queries = 1 .. Len(queries) /\ Len(queries) \in Nat
      /\ opts.limit \in Nat /\ IsASeq(source) /\ RepositoryTypes
  BY FindScanAssumption, RequestFacts DEF ScanQuery, Checked, FindTypes, SourceTypes, FindFacts, SymbolFacts
<1>2. /\ RootFacts' /\ UNCHANGED <<opts, queries>> /\ Present' = Present /\ UNCHANGED inputs
      /\ Still' => Still /\ ~cancelled /\ QuietSymbols /\ \A f \in Files : version[f] = 0
      /\ (\A i, S : SaidOf(i, S)' = SaidOf(i, S)) /\ (\A s : Cut(s)' = Cut(s))
  BY <1>1, RequestSame
<1> SUFFICES ASSUME Still' PROVE pc' # "error" /\ QuietSymbols' /\ QuietPaths'
  BY <1>2 DEF QuietFacts
<1>3. PICK f \in Files : f = NextSource
  BY <1>1, NextSourceFacts
<1>4. f \in todo /\ \A g \in todo \ {f} : Sooner(f, g)
  <2>1. todo \in SUBSET Files
    BY <1>1
  <2> QED
    BY <1>1, <1>3, <2>1, NextSourceFacts
<1>5. UNCHANGED todo => NextSource' = f
  BY <1>2, <1>3, NextSourceSame
<1> HIDE DEF NextSource
<1>6. PICK t \in DOMAIN queries : t = turn
  BY <1>1
<1>7. PICK new : new = AddCandidates(symbols[t], FindHits(queries[t], f, source))
  OBVIOUS
<1>8. /\ symbols' = [symbols EXCEPT ![t] = new]
      /\ \/ t < Len(queries) /\ turn' = t + 1 /\ UNCHANGED <<todo, pc>>
         \/ t >= Len(queries) /\ turn' = 1 /\ todo' = todo \ {f} /\ pc' = "next"
  <2>1. /\ symbols' = [symbols EXCEPT ![t] = new]
        /\ IF t < Len(queries) THEN turn' = t + 1 /\ UNCHANGED <<todo, pc>>
           ELSE turn' = 1 /\ todo' = todo \ {f} /\ pc' = "next"
    BY <1>2, <1>3, <1>6, <1>7 DEF ScanQuery, Checked, Goto, Skip, ScannedLines
  <2> QED
    BY <1>1, <2>1
<1>9. PICK G : G = Gone
  OBVIOUS
<1>10. G \in SUBSET Files /\ f \notin G /\ G \cup {f} \in SUBSET Files /\ \A g \in G : Sooner(g, f)
  BY <1>1, <1>2, <1>4, <1>9 DEF Gone, QuietSymbols
<1>11. source = content[f] /\ source # Absent /\ f \in Present
  <2>1. /\ Wanted(f) /\ source # Absent /\ opened <= version[f]
        /\ (opened = version[f] => source = content[f])
    BY <1>1, <1>3 DEF SourceFacts
  <2>2. version[f] = 0 /\ opened = version[f]
    BY <1>1, <1>2, <2>1
  <2>3. InQuestion(f)
    BY <1>1, <2>1, <2>2 DEF WalkFacts, Wanted, InQuestion
  <2> QED
    BY <2>1, <2>2, <2>3 DEF Present
<1>12. Gone' = IF UNCHANGED todo THEN G ELSE G \cup {f}
  <2>1. CASE UNCHANGED todo
    BY <1>2, <1>9, <2>1 DEF Gone
  <2>2. CASE todo' = todo \ {f}
    BY <1>1, <1>2, <1>4, <1>9, <1>11, <2>2 DEF Gone
  <2> QED
    BY <1>8, <2>1, <2>2
<1>13. symbols[t] \in Seq(Hits) /\ Fitting(symbols[t]) /\ symbols = [i \in DOMAIN queries |-> symbols[i]]
  BY DEF FindTypes, CandidateTypes, Kept
<1>14. symbols'[t] = new /\ \A i \in DOMAIN queries : i # t => symbols'[i] = symbols[i]
  BY <1>8, <1>13
<1>15. ASSUME opts.match # "path"
       PROVE  \A i \in DOMAIN queries : symbols'[i] = Cut(SaidOf(i, IF i <= t THEN G \cup {f} ELSE G))
  <2>1. \A i \in DOMAIN queries : symbols[i] = Cut(SaidOf(i, IF i < t THEN G \cup {f} ELSE G))
    <3>1. Began
      BY <1>1 DEF Began
    <3>2. \A i \in DOMAIN queries : Looked(i) = IF i < t THEN G \cup {f} ELSE G
      BY <1>1, <1>3, <1>6, <1>9 DEF Looked
    <3> QED
      BY <1>2, <1>15, <3>1, <3>2 DEF QuietSymbols
  <2>2. new = Cut(SaidOf(t, G \cup {f}))
    <3>1. PICK what : what = Found(queries[t], f, content[f])
      OBVIOUS
    <3>2. PICK before : before = SaidOf(t, G)
      OBVIOUS
    <3>3. before \in Seq(Hits) /\ SaidOf(t, G \cup {f}) = before \o what
      BY <1>1, <1>10, <3>1, <3>2, SaidMore
    <3>4. symbols[t] = Cut(before)
      <4>1. ~(t < t)
        BY <1>1
      <4> QED
        BY <2>1, <3>2, <4>1
    <3>5. what = Distinct(FindHits(queries[t], f, source))
      <4>1. Lines(source) = content[f]
        BY <1>11 DEF Lines
      <4>2. Lines(content[f]) = source
        BY <1>11 DEF Lines
      <4> QED
        BY <3>1, <4>2 DEF Found
    <3>6. About(symbols[t], f) = <<>>
      <4>1. ~(t < turn)
        BY <1>1, <1>6
      <4> QED
        BY <1>1, <1>3, <1>4, <4>1 DEF SourcesLeft
    <3>7. new = Cut(symbols[t] \o what)
      BY <1>1, <1>7, <1>13, <3>5, <3>6, ScanAdds
    <3>8. what \in Seq(Hits)
      <4>1. PICK hits : hits = FindHits(queries[t], f, source)
        OBVIOUS
      <4>2. hits \in Seq(Hits)
        BY <1>1, <4>1, FindHitsFacts
      <4> QED
        BY <3>5, <4>1, <4>2, DistinctFacts
    <3>9. Cut(Cut(before) \o what) = Cut(before \o what)
      BY <1>1, <3>3, <3>8, CutMore
    <3> QED
      BY <3>3, <3>4, <3>7, <3>9
  <2>3. ASSUME NEW i \in DOMAIN queries
        PROVE  symbols'[i] = Cut(SaidOf(i, IF i <= t THEN G \cup {f} ELSE G))
    <3>1. CASE i = t
      <4>1. i <= t
        BY <1>1, <3>1
      <4> QED
        BY <1>14, <2>2, <3>1, <4>1
    <3>2. CASE i # t
      <4>1. i <= t <=> i < t
        BY <1>1, <3>2
      <4> QED
        BY <1>14, <2>1, <3>2, <4>1
    <3> QED
      BY <3>1, <3>2
  <2> QED
    BY <2>3
<1>16. ASSUME opts.match # "path", NEW i \in DOMAIN queries
       PROVE  symbols'[i] = Cut(SaidOf(i, Looked(i)))'
  <2>1. PICK S : S = IF i <= t THEN G \cup {f} ELSE G
    OBVIOUS
  <2>2. Looked(i)' = S
    <3>1. CASE t < Len(queries) /\ turn' = t + 1 /\ UNCHANGED <<todo, pc>>
      <4>1. i < t + 1 <=> i <= t
        BY <1>1
      <4> QED
        BY <1>1, <1>5, <1>12, <2>1, <3>1, <4>1 DEF Looked
    <3>2. CASE t >= Len(queries) /\ todo' = todo \ {f} /\ pc' = "next"
      <4>1. i <= t
        BY <1>1, <3>2
      <4> QED
        BY <1>4, <1>12, <2>1, <3>2, <4>1 DEF Looked
    <3> QED
      BY <1>8, <3>1, <3>2
  <2>3. PICK s : s = SaidOf(i, S)
    OBVIOUS
  <2>4. SaidOf(i, S)' = s /\ Cut(s)' = Cut(s)
    BY <1>2, <2>3
  <2>5. Cut(SaidOf(i, Looked(i)))' = Cut(s)
    BY <2>2, <2>4
  <2> QED
    BY <1>15, <1>16, <2>1, <2>3, <2>5
<1>17. \A x \in Gone' : \A y \in todo' : Sooner(x, y)'
  <2>1. \A x, y : Sooner(x, y)' <=> Sooner(x, y)
    BY <1>2 DEF Sooner
  <2>2. \A x \in G : \A y \in todo : Sooner(x, y)
    BY <1>1, <1>2, <1>9 DEF QuietSymbols
  <2> QED
    BY <1>4, <1>8, <1>12, <2>1, <2>2
<1>18. QuietSymbols'
  BY <1>2, <1>16, <1>17 DEF QuietSymbols
<1> QED
  BY <1>1, <1>8, <1>18 DEF QuietPaths

\* While nothing happens.
LEMMA QuietStutter ==
    ASSUME FindTypes, QuietFacts, UNCHANGED findVars
    PROVE  QuietFacts'
<1>1. /\ UNCHANGED others /\ UNCHANGED inputs /\ UNCHANGED <<opts, queries, cancelled>>
      /\ UNCHANGED <<content, version, dirty, sameRoot, changes, held>>
      /\ UNCHANGED <<looking, listed, changed, todo, turn, symbols, pc, unread>>
  BY DEF findVars, others, inputs
<1>2. RootFacts' /\ (Still' => Still)
  BY <1>1 DEF QuietFacts, RootFacts, Still
<1> SUFFICES ASSUME Still' PROVE pc' # "error" /\ QuietSymbols' /\ QuietPaths'
  BY <1>2 DEF QuietFacts
<1>3. pc # "error" /\ QuietSymbols /\ QuietPaths
  BY <1>2 DEF QuietFacts
<1>4. /\ Present' = Present /\ (\A i, S : SaidOf(i, S)' = SaidOf(i, S)) /\ (\A s : Cut(s)' = Cut(s))
  BY <1>1, PresentSame, SaidSame, CutSame
<1>5. Gone' = Gone
  BY <1>1, <1>4 DEF Gone
<1>6. PICK f : f = NextSource
  OBVIOUS
<1>7. NextSource' = f
  BY <1>1, <1>6, NextSourceSame
<1> HIDE DEF NextSource
<1>8. ASSUME NEW i \in DOMAIN queries, Began, opts.match # "path"
      PROVE  symbols'[i] = Cut(SaidOf(i, Looked(i)))'
  <2>1. PICK S : S = Looked(i)
    OBVIOUS
  <2>2. Looked(i)' = S
    BY <1>1, <1>5, <1>6, <1>7, <2>1 DEF Looked
  <2>3. PICK s : s = SaidOf(i, S)
    OBVIOUS
  <2>4. SaidOf(i, S)' = s /\ Cut(s)' = Cut(s)
    BY <1>4, <2>3
  <2>5. Cut(SaidOf(i, Looked(i)))' = Cut(s)
    BY <2>2, <2>4
  <2>6. symbols[i] = Cut(s)
    BY <1>3, <1>8, <2>1, <2>3 DEF QuietSymbols
  <2> QED
    BY <1>1, <2>5, <2>6
<1>9. Began' <=> Began
  BY <1>1 DEF Began
<1>10. QuietSymbols'
  <2>1. pc' \in {"next", "read", "scan"} => \A x \in Gone' : \A y \in todo' : Sooner(x, y)'
    BY <1>1, <1>3, <1>5 DEF QuietSymbols, Sooner
  <2> QED
    BY <1>1, <1>8, <1>9, <2>1 DEF QuietSymbols
<1>11. QuietPaths'
  <2>1. \A i : AsPath(i)' <=> AsPath(i)
    BY <1>1 DEF AsPath
  <2>2. PathQueries' = PathQueries
    BY <1>1, <2>1 DEF PathQueries
  <2>3. {g \in listed : Wanted(g)}' = {g \in listed : Wanted(g)}
    BY <1>1 DEF Wanted
  <2> QED
    BY <1>1, <1>3, <1>4, <2>2, <2>3 DEF QuietPaths
<1> QED
  BY <1>1, <1>3, <1>10, <1>11

LEMMA InitQuiet == ASSUME FindInit PROVE QuietFacts
<1>1. pc = "start" /\ version = [f \in Files |-> 0] /\ held = [f \in Files |-> {content[f]}] /\ sameRoot
  BY DEF FindInit
<1>2. ~Began
  BY <1>1 DEF Began
<1> QED
  BY <1>1, <1>2 DEF QuietFacts, RootFacts, QuietSymbols, QuietPaths

LEMMA NextQuiet == FindTypes /\ FindTypes' /\ FindFacts /\ QuietFacts /\ [FindNext]_findVars => QuietFacts'
<1> SUFFICES ASSUME FindTypes, FindTypes', FindFacts, QuietFacts, [FindNext]_findVars PROVE QuietFacts'
  OBVIOUS
<1>1. CASE UNCHANGED findVars
  BY <1>1, QuietStutter
<1>2. CASE Change
  <2>1. changes' = changes + 1 /\ changes \in Nat
    BY <1>2, FindScanAssumption DEF Change, FindTypes, RepositoryTypes
  <2>2. changes' # 0
    BY <2>1
  <2> QED
    BY <2>2 DEF QuietFacts, RootFacts, Still
<1>3. CASE Cancel
  <2>1. cancelled' /\ UNCHANGED <<content, version, sameRoot, changes, held>>
    BY <1>3 DEF Cancel, others
  <2> QED
    BY <2>1 DEF QuietFacts, RootFacts, Still
<1>4. CASE Start \/ (\E f \in Files : Look(f)) \/ WalkEnd \/ ChangedFileSet \/ Fail
  BY <1>4, QuietWalk
<1>5. CASE OpenSource \/ ReadSource \/ ScanQuery \/ SourcesEnd
  BY <1>5, QuietOpen, QuietRead, QuietScan, QuietEnd
<1>6. CASE ChoosePathQueries \/ FindPathCandidates \/ Finish
  BY <1>6, QuietChoose, QuietPathStep, QuietFinish
<1> QED
  BY <1>1, <1>2, <1>3, <1>4, <1>5, <1>6 DEF FindNext

LEMMA QuietAlways == FindSpec => [](FindTypes /\ FindFacts /\ QuietFacts)
<1>1. FindInit => FindTypes /\ FindFacts /\ QuietFacts
  BY InitTypes, InitFacts, InitQuiet
<1>2. FindTypes /\ FindFacts /\ QuietFacts /\ [FindNext]_findVars => (FindTypes /\ FindFacts /\ QuietFacts)'
  BY NextTypes, NextFacts, NextQuiet
<1> QED
  BY <1>1, <1>2, PTL DEF FindSpec

\* The candidates of a query are the reference, as far as it fits.
LEMMA QuietCandidates ==
    ASSUME FindTypes, FindFacts, QuietFacts, Still, pc = "done", NEW i \in DOMAIN queries
    PROVE  /\ Whole(i).list \in Seq(Hits) /\ CandidatesOf(i) = Cut(Whole(i).list)
           /\ MatchedAs(i) = Whole(i).as
<1> HIDE DEF Hits
<1>1. /\ QuietSymbols /\ QuietPaths /\ todo = {} /\ Began /\ PathFacts /\ RepositoryTypes
      /\ opts.limit \in Nat /\ opts.match \in {"symbol", "path", "auto"}
      /\ \A f \in Files : Rank(queries[i], f) \in Nat
  BY RequestFacts DEF QuietFacts, FindFacts, FindTypes, AnswerFacts, SourceFacts, Began
<1>2. PICK P : P = Present
  OBVIOUS
<1>3. P \in SUBSET Files /\ P \cap Sources \in SUBSET Files
  BY <1>2 DEF Present
<1>4. Looked(i) = P \cap Sources
  BY <1>1, <1>2 DEF Looked, Gone
<1>5. PICK symbol : symbol = IF opts.match = "path" THEN <<>> ELSE SaidOf(i, P \cap Sources)
  OBVIOUS
<1>6. PICK path : path = PathHits(queries[i], P)
  OBVIOUS
<1>7. symbol \in Seq(Hits) /\ path \in Seq(Hits)
  <2>1. SaidOf(i, P \cap Sources) \in Seq(Hits)
    BY <1>1, <1>3, SaidMore
  <2>2. path \in Seq(Hits)
    BY <1>1, <1>3, <1>6, PathHitsTypes
  <2>3. <<>> \in Seq(Hits)
    OBVIOUS
  <2> QED
    BY <1>5, <2>1, <2>2, <2>3
<1>8. Whole(i) = IF symbol # <<>> \/ opts.match = "symbol"
                 THEN [as |-> IF symbol = <<>> THEN "none" ELSE "symbol", list |-> symbol]
                 ELSE [as |-> IF path = <<>> THEN "none" ELSE "file", list |-> path]
  BY <1>2, <1>5, <1>6 DEF Whole, SaidOf, Said, OrderOf, Present
<1>9. \A s \in Seq(Hits) : Cut(s) = <<>> <=> s = <<>>
  <2> SUFFICES ASSUME NEW s \in Seq(Hits) PROVE Cut(s) = <<>> <=> s = <<>>
    OBVIOUS
  <2>1. PICK cut : cut = Cut(s)
    OBVIOUS
  <2>2. /\ cut \in Seq(Hits)
        /\ Len(cut) = IF opts.limit > 0 /\ Len(s) > opts.limit + 1 THEN opts.limit + 1 ELSE Len(s)
    BY <1>1, <2>1, CutFacts
  <2>3. Len(cut) = 0 <=> Len(s) = 0
    BY <1>1, <2>2
  <2> QED
    BY <2>1, <2>2, <2>3
<1>10. opts.match # "path" => symbols[i] = Cut(symbol)
  BY <1>1, <1>4, <1>5 DEF QuietSymbols
<1>11. AsPath(i) => paths[i] = Cut(path)
  <2> SUFFICES ASSUME AsPath(i) PROVE paths[i] = Cut(path)
    OBVIOUS
  <2>1. i \in PathQueries
    BY DEF PathQueries
  <2>2. {f \in listed : Wanted(f)} = P
    BY <1>1, <1>2, <2>1 DEF QuietPaths
  <2> QED
    BY <1>1, <1>6, <2>1, <2>2 DEF PathFacts
<1>12. AsPath(i) <=> symbol = <<>> /\ opts.match # "symbol"
  <2>1. opts.match = "path" => symbol = <<>>
    BY <1>5
  <2>2. opts.match # "path" => (symbols[i] = <<>> <=> symbol = <<>>)
    BY <1>7, <1>9, <1>10
  <2> QED
    BY <1>1, <2>1, <2>2 DEF AsPath
<1>13. CASE AsPath(i)
  <2>1. Whole(i) = [as |-> IF path = <<>> THEN "none" ELSE "file", list |-> path]
    BY <1>8, <1>12, <1>13
  <2>2. Whole(i).list = path /\ Whole(i).as = IF path = <<>> THEN "none" ELSE "file"
    BY <2>1
  <2>3. CandidatesOf(i) = Cut(path)
    BY <1>11, <1>13 DEF CandidatesOf
  <2>4. MatchedAs(i) = IF path = <<>> THEN "none" ELSE "file"
    BY <1>7, <1>9, <1>13, <2>3 DEF MatchedAs
  <2> QED
    BY <1>7, <2>2, <2>3, <2>4
<1>14. CASE ~AsPath(i)
  <2>1. opts.match # "path"
    BY <1>14 DEF AsPath
  <2>2. Whole(i) = [as |-> IF symbol = <<>> THEN "none" ELSE "symbol", list |-> symbol]
    BY <1>8, <1>12, <1>14
  <2>3. Whole(i).list = symbol /\ Whole(i).as = IF symbol = <<>> THEN "none" ELSE "symbol"
    BY <2>2
  <2>4. CandidatesOf(i) = Cut(symbol)
    BY <1>10, <1>14, <2>1 DEF CandidatesOf
  <2>5. MatchedAs(i) = IF symbol = <<>> THEN "none" ELSE "symbol"
    BY <1>7, <1>9, <1>14, <2>4 DEF MatchedAs
  <2> QED
    BY <1>7, <2>3, <2>4, <2>5
<1> QED
  BY <1>13, <1>14

LEMMA QuietAnswer ==
    ASSUME FindTypes, FindFacts, QuietFacts, Still, pc = "done"
    PROVE  AnsweredWhole
<1> HIDE DEF Hits
<1>1. SharedOut
  BY DEF FindFacts, AnswerFacts
<1>2. ASSUME NEW i \in DOMAIN answers
      PROVE  /\ answers[i].as = Whole(i).as /\ IsPrefix(answers[i].results, Whole(i).list)
             /\ answers[i].truncated <=> Len(answers[i].results) < Len(Whole(i).list)
             /\ Len(answers[i].results) < Len(Whole(i).list) =>
                   opts.limit > 0 /\ Len(answers[i].results) >= opts.limit \div Len(queries)
  <2>1. i \in DOMAIN queries /\ answers[i].as = MatchedAs(i)
    BY <1>1, ResponseFacts
  <2>2. PICK give \in 0 .. Len(CandidatesOf(i)) :
           /\ Given(answers[i], i, give) /\ answers[i].results = SubSeq(CandidatesOf(i), 1, give)
           /\ answers[i].truncated <=> Len(CandidatesOf(i)) > give
    BY <1>1, ResponseFacts
  <2>3. PICK list : list = Whole(i).list
    OBVIOUS
  <2>4. PICK cut : cut = CandidatesOf(i)
    OBVIOUS
  <2>5. list \in Seq(Hits) /\ cut = Cut(list) /\ MatchedAs(i) = Whole(i).as
    BY <2>1, <2>3, <2>4, QuietCandidates
  <2>6. opts.limit \in Nat
    BY RequestFacts DEF FindTypes
  <2>7. /\ cut \in Seq(Hits) /\ IsPrefix(cut, list)
        /\ Len(cut) = IF opts.limit > 0 /\ Len(list) > opts.limit + 1 THEN opts.limit + 1 ELSE Len(list)
    BY <2>5, <2>6, CutFacts
  <2>8. PICK results : results = answers[i].results
    OBVIOUS
  <2>9. results \in Seq(Hits) /\ IsPrefix(results, cut) /\ Len(results) = give
    BY <2>2, <2>4, <2>7, <2>8, Beginning
  <2>10. IsPrefix(results, list)
    BY <2>5, <2>7, <2>9, PrefixFacts
  <2>11. /\ opts.limit > 0 => give <= opts.limit
         /\ give < Len(cut) => opts.limit > 0 /\ give >= opts.limit \div Len(queries)
    BY <2>2, <2>4 DEF Given
  <2>12. give < Len(list) <=> give < Len(cut)
    <3>1. give \in Nat /\ Len(list) \in Nat
      BY <2>2, <2>5
    <3> QED
      BY <2>6, <2>7, <2>11, <3>1
  <2>13. answers[i].truncated <=> give < Len(cut)
    <3>1. give \in Nat /\ Len(cut) \in Nat
      BY <2>2, <2>7
    <3>2. Len(cut) > give <=> give < Len(cut)
      BY <3>1
    <3> QED
      BY <2>2, <2>4, <3>2
  <2> QED
    BY <2>1, <2>3, <2>5, <2>8, <2>9, <2>10, <2>11, <2>12, <2>13
<1>3. opts.limit = 0 \/ opts.limit >= Len(queries) => DOMAIN answers = DOMAIN queries
  BY <1>1 DEF SharedOut
<1> QED
  BY <1>2, <1>3 DEF AnsweredWhole

\* While nobody changes the repository, every file can be read and nobody cancels, a
\* request is refused only if its walk is, and its answer is the reference: every
\* candidate of every query in the order of the sources or of the ranks, cut off only at
\* the shared limit and marked exactly where it is cut.
THEOREM QuietAnswers == FindSpec => []QuietFind
<1>1. FindTypes /\ FindFacts /\ QuietFacts => QuietFind
  BY QuietAnswer DEF QuietFind, QuietFacts, Still
<1> QED
  BY <1>1, QuietAlways, PTL
=============================================================================
