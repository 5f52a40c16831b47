---------------------------- MODULE ResultBudget ----------------------------
(***************************************************************************)
(* How one command shares --limit over the selectors it was given.         *)
(*                                                                         *)
(*   inspect, outline   one call of the library per selector, inside the   *)
(*                      loop of the command line: a failed selector of a   *)
(*                      batch is recorded and the loop goes on             *)
(*   find, library      one call of FindMany for all queries (behind the   *)
(*                      command line's guard, or directly by a caller of   *)
(*                      the package): everything is searched first, the    *)
(*                      limit is shared over what was found                *)
(*                                                                         *)
(* Only the number of results matters here, never what they say.  0 means  *)
(* "no limit", so a share that reached 0 would lift the limit instead of   *)
(* exhausting it.  Go's int is MaxInt wide and wraps around.               *)
(***************************************************************************)
EXTENDS Integers, Sequences

CONSTANTS
    MaxInt,        \* the largest value of Go's int
    Limits,        \* values of --limit
    MaxSelectors,  \* bound: selectors in one command
    MaxResults     \* bound: results one selector or one lookup has

ASSUME BudgetAssumption ==
    /\ MaxInt \in Nat \ {0}
    /\ MaxSelectors \in 1 .. MaxInt
    /\ MaxResults \in Nat
    /\ Limits \subseteq (-MaxInt - 1) .. MaxInt

\* No share of any limit is computed with an int that wraps.
NoOverflow == \A l \in Limits : l + MaxSelectors <= MaxInt

Commands == {"find", "library", "inspect", "outline"}
Modes    == {"auto", "symbol", "path"}

VARIABLES
    cmd, limit, n, mode,   \* the request: command, --limit, selectors, --match
    phase,      \* start, serve | symbols, paths, share | done
    remaining,  \* the loop variable of the same name
    found,      \* FindMany: per query, [as, avail] once searched
    responses,  \* what will be printed, in argument order
    returned,   \* results in responses
    exit        \* exit status once done, 9 before

request == <<cmd, limit, n, mode>>
vars == <<request, phase, remaining, found, responses, returned, exit>>

-----------------------------------------------------------------------------
AtMost(a, b) == IF a < b THEN a ELSE b

\* One Go addition or subtraction of two ints.
Wrap(x) == IF x > MaxInt THEN x - 2 * (MaxInt + 1)
           ELSE IF x < -MaxInt - 1 THEN x + 2 * (MaxInt + 1) ELSE x

\* Go's division truncates toward zero.
GoDiv(x, d) == IF x >= 0 THEN x \div d ELSE -((-x) \div d)

\* The command line's rounding up: an addition that may wrap, then a division.
CommandShare(left, selectors) ==
    GoDiv(Wrap(Wrap(left + selectors) - 1), selectors)

\* Mutant: the share is rounded up once too often.
LibraryShareTooLarge(left, selectors) == (left \div selectors) + 1

\* The library's rounding up: a division, then one more for a remainder.
LibraryShare(left, selectors) ==
    (left \div selectors) + (IF left % selectors # 0 THEN 1 ELSE 0)

\* Mutant: the lookup stops at the limit itself.
CandidatesWithoutExtra(avail, l) == IF l > 0 THEN AtMost(avail, l) ELSE avail

\* A lookup keeps one result more than the limit, to see a truncation.
Candidates(avail, l) == IF l > 0 THEN AtMost(avail, l + 1) ELSE avail

\* Find with a single query: what is returned of avail results.
FindOne(avail, l) ==
    [count     |-> IF l > 0 THEN AtMost(Candidates(avail, l), l) ELSE avail,
     truncated |-> l > 0 /\ Candidates(avail, l) > l]

\* Mutant: the result the probe found is not cut off again.
InspectAnswerWithProbe(initial, related, l) ==
    LET probe == IF l = initial THEN 1 ELSE l - initial
        rest  == FindOne(related, IF l > 0 THEN probe ELSE l)
    IN  IF l > 0 /\ l < initial
        THEN [count |-> l, truncated |-> TRUE]
        ELSE [count |-> initial + rest.count, truncated |-> rest.truncated]

\* Inspect: the initial results (the scope, perhaps the imports), then related
\* ones found with what the initial ones leave of the limit.
InspectAnswer(initial, related, l) ==
    LET probe == IF l = initial THEN 1 ELSE l - initial
        rest  == FindOne(related, IF l > 0 THEN probe ELSE l)
        all   == initial + rest.count
    IN  IF l > 0 /\ l < initial
        THEN [count |-> l, truncated |-> TRUE]
        ELSE IF l > 0 /\ all > l
        THEN [count |-> l, truncated |-> TRUE]
        ELSE [count |-> all, truncated |-> rest.truncated]

\* Outline: definitions in source order until the limit is met.
OutlineAnswer(definitions, l) ==
    IF l > 0 /\ definitions > l THEN [count |-> l, truncated |-> TRUE]
    ELSE [count |-> definitions, truncated |-> FALSE]

Answered(answer, avail, as) ==
    [error |-> "none", count |-> answer.count, truncated |-> answer.truncated,
     avail |-> avail, as |-> as]
Failed(why) ==
    [error |-> why, count |-> 0, truncated |-> FALSE, avail |-> 0, as |-> "error"]

-----------------------------------------------------------------------------
Init ==
    /\ cmd \in Commands
    /\ limit \in Limits
    /\ n \in 1 .. MaxSelectors
    /\ mode \in (IF cmd \in {"find", "library"} THEN Modes ELSE {"symbol"})
    /\ phase = "start"
    /\ remaining = 0
    /\ found = [i \in 1 .. n |-> [as |-> "none", avail |-> 0]]
    /\ responses = <<>>
    /\ returned = 0
    /\ exit = 9

Stop(status) == phase' = "done" /\ exit' = status

\* The command line refuses a limit smaller than the number of selectors.
Reject ==
    /\ phase = "start"
    /\ cmd # "library"
    /\ limit > 0 /\ limit < n
    /\ Stop(2)
    /\ UNCHANGED <<request, remaining, found, responses, returned>>

\* validateOptions: FindMany refuses a negative limit as a whole.
RejectFind ==
    /\ phase = "start"
    /\ cmd \in {"find", "library"}
    /\ limit < 0
    /\ Stop(1)
    /\ UNCHANGED <<request, remaining, found, responses, returned>>

StartFind ==
    /\ phase = "start"
    /\ cmd \in {"find", "library"}
    /\ limit >= 0
    /\ cmd = "find" /\ limit > 0 => limit >= n
    /\ phase' = IF mode = "path" THEN "paths" ELSE "symbols"
    /\ remaining' = limit
    /\ UNCHANGED <<request, found, responses, returned, exit>>

StartBatch ==
    /\ phase = "start"
    /\ cmd \in {"inspect", "outline"}
    /\ limit > 0 => limit >= n
    /\ phase' = "serve"
    /\ remaining' = limit
    /\ UNCHANGED <<request, found, responses, returned, exit>>

-----------------------------------------------------------------------------
(* The loops of runInspect and runOutline.                                 *)

\* Mutant: one selector too many.
leftPlusOne == n - Len(responses) + 1

left == n - Len(responses)
share == IF limit > 0 THEN CommandShare(remaining, left) ELSE limit

\* Library answers to the selector whose turn it is, given its share.
Answers ==
    IF cmd = "outline"
    THEN {Answered(OutlineAnswer(d, share), d, "symbol") : d \in 0 .. MaxResults}
    ELSE {Answered(InspectAnswer(i, r, share), i + r, "symbol") :
             i \in {1, 2}, r \in 0 .. MaxResults}

ServeSelector ==
    /\ phase = "serve" /\ left > 0
    /\ share >= 0
    /\ \E answer \in Answers :
          /\ responses' = Append(responses, answer)
          /\ returned' = returned + answer.count
          /\ remaining' = IF remaining > 0 THEN remaining - answer.count
                          ELSE remaining
    /\ UNCHANGED <<request, phase, found, exit>>

\* The library fails: the selector is bad, or its share of the limit is.
ServeFailure ==
    /\ phase = "serve" /\ left > 0
    /\ \E why \in (IF share < 0 THEN {"limit", "selector"} ELSE {"selector"}) :
          IF n = 1
          THEN Stop(1) /\ UNCHANGED responses
          ELSE responses' = Append(responses, Failed(why)) /\ UNCHANGED <<phase, exit>>
    /\ UNCHANGED <<request, remaining, found, returned>>

FinishBatch ==
    /\ phase = "serve" /\ left = 0
    /\ Stop(IF \E i \in DOMAIN responses : responses[i].error = "none" THEN 0 ELSE 1)
    /\ UNCHANGED <<request, remaining, found, responses, returned>>

-----------------------------------------------------------------------------
(* FindMany.                                                               *)

SymbolPass ==
    /\ phase = "symbols"
    /\ \E avail \in [1 .. n -> 0 .. MaxResults] :
          found' = [i \in 1 .. n |-> [as |-> IF avail[i] = 0 THEN "none" ELSE "symbol",
                                      avail |-> avail[i]]]
    /\ phase' = IF mode = "symbol" THEN "share" ELSE "paths"
    /\ UNCHANGED <<request, remaining, responses, returned, exit>>

\* Only the queries without a symbol result are looked up as paths.
PathPass ==
    /\ phase = "paths"
    /\ \E avail \in [{i \in 1 .. n : found[i].avail = 0} -> 0 .. MaxResults] :
          found' = [i \in 1 .. n |->
                      IF i \notin DOMAIN avail THEN found[i]
                      ELSE [as |-> IF avail[i] = 0 THEN "none" ELSE "file",
                            avail |-> avail[i]]]
    /\ phase' = "share"
    /\ UNCHANGED <<request, remaining, responses, returned, exit>>

\* A pass fails (a changed repository root, a cancelled context, Git): the call
\* returns no response at all.
FindFailure ==
    /\ phase \in {"symbols", "paths", "share"}
    /\ responses' = <<>> /\ returned' = 0
    /\ Stop(1)
    /\ UNCHANGED <<request, remaining, found>>

\* limitFindResponses: one iteration of its loop.  Reaching zero breaks it, so
\* a library caller that asks for fewer results than queries gets a shorter list.
ShareResponse ==
    /\ phase = "share" /\ left > 0
    /\ LET query == found[Len(responses) + 1]
           kept  == Candidates(query.avail, limit)
           give  == IF limit > 0 THEN AtMost(LibraryShare(remaining, left), kept)
                    ELSE kept
       IN  /\ responses' = Append(responses,
                 Answered([count |-> give, truncated |-> kept > give],
                          query.avail, query.as))
           /\ returned' = returned + give
           /\ remaining' = IF remaining > 0 THEN remaining - give ELSE remaining
           /\ IF remaining > 0 /\ remaining - give <= 0
              THEN Stop(0) ELSE UNCHANGED <<phase, exit>>
    /\ UNCHANGED <<request, found>>

FinishFind ==
    /\ phase = "share" /\ left = 0
    /\ Stop(0)
    /\ UNCHANGED <<request, remaining, found, responses, returned>>

-----------------------------------------------------------------------------
Next ==
    \/ Reject \/ RejectFind \/ StartFind \/ StartBatch
    \/ ServeSelector \/ ServeFailure \/ FinishBatch
    \/ SymbolPass \/ PathPass \/ FindFailure \/ ShareResponse \/ FinishFind

Spec == Init /\ [][Next]_vars

-----------------------------------------------------------------------------
(* Properties.                                                             *)

\* Requests keep their shape, the budget stays a machine integer, and every
\* response belongs to a selector.
TypeOK ==
    /\ cmd \in Commands /\ limit \in Limits /\ n \in 1 .. MaxSelectors
    /\ mode \in Modes
    /\ phase \in {"start", "serve", "symbols", "paths", "share", "done"}
    /\ remaining \in (-MaxInt - 1) .. MaxInt
    /\ found \in [1 .. n -> [as : {"none", "symbol", "file"}, avail : 0 .. MaxResults]]
    /\ Len(responses) <= n
    /\ returned \in Nat
    /\ exit \in {0, 1, 2, 9}

\* What has been returned and what remains make up the limit, so a command never
\* prints more results than --limit, however the shares were rounded up.
TotalWithinLimit ==
    /\ limit > 0 => returned <= limit
    /\ limit > 0 /\ phase \in {"serve", "share"} => remaining + returned = limit

\* While selectors are left behind the command line's guard, each of them still
\* has at least one result of the budget: a share never reaches 0, which the
\* library would read as "no limit".
ShareNeverUnlimited ==
    (phase \in {"serve", "share"} /\ limit > 0 /\ limit >= n) => remaining >= left

\* Sharing is fair: whatever the selectors before it consumed, a selector that
\* was served gets all it has or at least the even share of the limit.
EvenShareServed ==
    limit > 0 =>
        \A i \in DOMAIN responses :
            responses[i].error = "none" =>
                responses[i].count >= AtMost(responses[i].avail, limit \div n)

\* results_truncated is set exactly when a result was omitted, through the
\* lookup's own extra candidate, Inspect's probe and the sharing.
TruncatedIffOmitted ==
    \A i \in DOMAIN responses :
        responses[i].truncated <=> responses[i].count < responses[i].avail

\* A find response says "none" exactly when it has no results: no response has
\* its results taken away by the sharing.
NoneIffEmpty ==
    cmd \in {"find", "library"} =>
        \A i \in DOMAIN responses :
            responses[i].as = "none" <=> responses[i].count = 0

\* What a response says of itself is true: whether results were omitted from it, and
\* whether there are none.
ResponsesTruthful == TruncatedIffOmitted /\ NoneIffEmpty

\* A command that ends without an error of its own answers every selector, in
\* argument order, with a record of its own (a failed one with its error).
EverySelectorReported ==
    (phase = "done" /\ cmd # "library" /\ exit # 2 /\ Len(responses) > 0)
        => Len(responses) = n

\* No selector fails because of the share of the limit it was given.
NoShareRefused ==
    limit >= 0 => \A i \in DOMAIN responses : responses[i].error # "limit"

\* The limit is shared so that every selector is served: the command reports on each of
\* them in argument order, none of them lacks its even share because of what those
\* before it consumed or because one of them failed, and none is refused for a share
\* that is no valid limit (README.md:119-123, "shares --limit fairly across them").
SelectorsServed == EvenShareServed /\ EverySelectorReported /\ NoShareRefused
=============================================================================
