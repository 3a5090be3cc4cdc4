--------------------------- MODULE SlidingWindow ---------------------------
(***************************************************************************)
(* What the limiter of internal/ratelimit promises: for each key the       *)
(* failures of the last window, at most Max of them, and answers computed  *)
(* from nothing else.  A failure is forgotten at the very instant it is    *)
(* one window old; there is no map to grow and nothing to sweep.           *)
(***************************************************************************)
EXTENDS Integers, Sequences

CONSTANTS Key, Max, Window, MaxTime

VARIABLES
    now,     \* the clock
    live,    \* the failures of each key within the window, oldest first
    answer   \* what the last Check was answered

vars == <<now, live, answer>>

NoAnswer == [key |-> "none"]

\* How many of the oldest failures are one window old.
Expired(times, t) ==
    CHOOSE n \in 0 .. Len(times) :
        \A i \in 1 .. Len(times) : i <= n <=> t - times[i] >= Window

InWindow(times, t) == SubSeq(times, Expired(times, t) + 1, Len(times))

Init ==
    /\ now = 0
    /\ live = [k \in Key |-> << >>]
    /\ answer = NoAnswer

Allowed(k) == Len(live[k]) < Max

Ask(k) ==
    /\ answer' = [key |-> k, ok |-> Allowed(k),
                  retryAfter |-> IF Allowed(k) THEN 0
                                 ELSE live[k][1] + Window - now]
    /\ UNCHANGED <<now, live>>

\* Past the limit a failure is not counted.
Fail(k) ==
    /\ live' = IF Allowed(k) THEN [live EXCEPT ![k] = Append(@, now)] ELSE live
    /\ UNCHANGED <<now, answer>>

Forgive(k) ==
    /\ live' = [live EXCEPT ![k] = << >>]
    /\ UNCHANGED <<now, answer>>

Tick ==
    /\ now < MaxTime
    /\ now' = now + 1
    /\ live' = [k \in Key |-> InWindow(live[k], now + 1)]
    /\ UNCHANGED answer

Next == Tick \/ \E k \in Key : Ask(k) \/ Fail(k) \/ Forgive(k)

Spec == Init /\ [][Next]_vars
=============================================================================
