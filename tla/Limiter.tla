------------------------------ MODULE Limiter ------------------------------
(***************************************************************************)
(* One limiter of internal/ratelimit shared by any number of goroutines.   *)
(* Check, Record and Reset each run under the mutex and read the clock     *)
(* there, so each is one step.  Expired failures are dropped lazily, when  *)
(* their key is touched or when Record sweeps a map that has grown.        *)
(***************************************************************************)
EXTENDS LimiterOps, Clock

CONSTANTS
    Key,       \* whatever callers limit by: addresses, emails
    Max,       \* failures allowed per key within the window
    Window     \* length of the window

ASSUME LimiterAssumption ==
    Max \in Nat \ {0} /\ Window \in Nat \ {0}

VARIABLES
    limiter,   \* the limiter
    answer     \* what the last Check answered

vars == <<now, limiter, answer>>

NoAnswer == [key |-> "none"]

Init ==
    /\ now = 0
    /\ limiter = NewLimiter(Max, Window)
    /\ answer = NoAnswer

DoCheck(k) ==
    LET c == Check(limiter, k, now) IN
    /\ limiter' = c.limiter
    /\ answer' = [key |-> k, ok |-> c.ok, retryAfter |-> c.retryAfter]
    /\ UNCHANGED now

DoRecord(k) ==
    /\ limiter' = Record(limiter, k, now)
    /\ UNCHANGED <<now, answer>>

DoReset(k) ==
    /\ limiter' = Reset(limiter, k)
    /\ UNCHANGED <<now, answer>>

Tick ==
    /\ Advance
    /\ UNCHANGED <<limiter, answer>>

Next == Tick \/ \E k \in Key : DoCheck(k) \/ DoRecord(k) \/ DoReset(k)

Spec == Init /\ [][Next]_vars

-----------------------------------------------------------------------------
(* Properties.                                                             *)

Sorted(times) == \A i, j \in DOMAIN times : i <= j => times[i] <= times[j]

\* The map holds keys with one to Max failures each, in time order and not in
\* the future: what pruning a suffix and bounding the slice rely on.
TypeOK ==
    /\ now \in Time
    /\ limiter.max = Max /\ limiter.window = Window
    /\ limiter.lastSweep \in -Window .. now
    /\ Keys(limiter) \subseteq Key
    /\ \A k \in Keys(limiter) :
          LET times == limiter.failures[k] IN
          /\ times \in Seq(0 .. now)
          /\ Len(times) \in 1 .. Max
          /\ Sorted(times)

Live(k) == Prune(Times(limiter, k), now - Window)
Blocked(k) == Len(Live(k)) >= Max

\* Pruning lazily and sweeping is not observable: the limiter answers as if
\* each failure were forgotten the instant it is one window old.
Promise == INSTANCE SlidingWindow WITH live <- [k \in Key |-> Live(k)]
KeepsPromise == Promise!Spec

\* A block ends one window after the failure that is the oldest of those that
\* caused it, however many attempts are made while it lasts: no step moves
\* the end of a block that is still on (Record leaves a key at the limit be).
BlockNotExtended ==
    [][\A k \in Key : Blocked(k) /\ Blocked(k)' => Live(k)'[1] = Live(k)[1]]_vars

\* The wait a refused caller is told is exact: it is refused at every instant
\* before and allowed then, if nobody adds a failure meanwhile.
RetryAfterIsExact ==
    \A k \in Key :
        LET c == Check(limiter, k, now) IN
        ~c.ok => /\ c.retryAfter \in 1 .. Window
                 /\ Check(limiter, k, now + c.retryAfter).ok
                 /\ \A d \in 0 .. c.retryAfter - 1 : ~Check(limiter, k, now + d).ok

\* Keys come from whoever calls, so the map must not grow for ever: when
\* Record finds it at the threshold, every key it leaves behind had a failure
\* within the last two windows, whenever the last sweep was.
MapIsSwept ==
    [][\A k \in Key :
         DoRecord(k) /\ Cardinality(Keys(limiter)) >= SweepThreshold =>
             \A j \in Keys(limiter') :
                 LET times == limiter'.failures[j]
                 IN  times[Len(times)] > now - 2 * Window]_vars

=============================================================================
