----------------------------- MODULE LimiterOps -----------------------------
(***************************************************************************)
(* The limiter of internal/ratelimit as operators on its state.  A limiter *)
(* is a record                                                             *)
(*    [max, window, failures, lastSweep]                                   *)
(* where failures maps the keys present to the times of their failures,    *)
(* oldest first.  Every exported method holds the mutex throughout, so     *)
(* each is one operator: it returns the limiter it leaves behind.          *)
(***************************************************************************)
EXTENDS Integers, Sequences, FiniteSets

CONSTANT SweepThreshold     \* how many keys make a sweep worth its cost

ASSUME SweepThresholdAssumption == SweepThreshold \in Nat

\* The zero time.Time is further back than any window.
NewLimiter(max, window) ==
    [max |-> max, window |-> window, failures |-> [k \in {} |-> << >>],
     lastSweep |-> -window]

Keys(l) == DOMAIN l.failures

\* The times of a key; nil for a key that is absent.
Times(l, k) == IF k \in Keys(l) THEN l.failures[k] ELSE << >>

\* Mutant of Prune: an entry exactly one window old still counts.
PruneAtCutoff(times, cutoff) ==
    LET live == {i \in DOMAIN times : times[i] >= cutoff}
    IN  IF live = {} THEN << >>
        ELSE SubSeq(times, CHOOSE i \in live : \A j \in live : i <= j, Len(times))

\* The times strictly after cutoff: the suffix from the first of them.
Prune(times, cutoff) ==
    LET live == {i \in DOMAIN times : times[i] > cutoff}
    IN  IF live = {} THEN << >>
        ELSE SubSeq(times, CHOOSE i \in live : \A j \in live : i <= j, Len(times))

\* failures with the keys of S pruned, and dropped when nothing survives.
PruneKeys(failures, S, cutoff) ==
    [k \in {k \in DOMAIN failures :
                k \in S => Prune(failures[k], cutoff) # << >>} |->
        IF k \in S THEN Prune(failures[k], cutoff) ELSE failures[k]]

PruneKey(l, k, now) ==
    [l EXCEPT !.failures = PruneKeys(l.failures, {k}, now - l.window)]

\* Mutant of RetryAfter: the wait runs from the newest failure.
RetryAfterNewest(l, k, now) == l.window - (now - Times(l, k)[Len(Times(l, k))])

\* How long until the oldest failure leaves the window.
RetryAfter(l, k, now) == l.window - (now - Times(l, k)[1])

Check(l, k, now) ==
    LET pruned == PruneKey(l, k, now)
        ok == Len(Times(pruned, k)) < l.max
    IN  [ok |-> ok,
         retryAfter |-> IF ok THEN 0 ELSE RetryAfter(pruned, k, now),
         limiter |-> pruned]

\* Mutant of MaybeSweep: lastSweep is set before the early return.
MaybeSweepAlwaysStamps(l, now) ==
    [l EXCEPT !.lastSweep = now,
              !.failures =
                  IF Cardinality(Keys(l)) < SweepThreshold
                     \/ now - l.lastSweep < l.window
                  THEN @
                  ELSE PruneKeys(@, DOMAIN @, now - l.window)]

MaybeSweep(l, now) ==
    IF Cardinality(Keys(l)) < SweepThreshold \/ now - l.lastSweep < l.window
    THEN l
    ELSE [l EXCEPT !.lastSweep = now,
                   !.failures = PruneKeys(@, DOMAIN @, now - l.window)]

Append1(failures, k, times) ==
    [j \in DOMAIN failures \cup {k} |-> IF j = k THEN times ELSE failures[j]]

\* Mutant of Record: a key at the limit goes on growing.
RecordUnbounded(l, k, now) ==
    LET pruned == PruneKey(MaybeSweep(l, now), k, now)
    IN  [pruned EXCEPT !.failures = Append1(@, k, Append(Times(pruned, k), now))]

\* A key already at the limit is left alone, but for the pruning.
Record(l, k, now) ==
    LET pruned == PruneKey(MaybeSweep(l, now), k, now)
    IN  IF Len(Times(pruned, k)) >= l.max THEN pruned
        ELSE [pruned EXCEPT
                !.failures = Append1(@, k, Append(Times(pruned, k), now))]

Reset(l, k) ==
    [l EXCEPT !.failures = [j \in Keys(l) \ {k} |-> l.failures[j]]]

=============================================================================
