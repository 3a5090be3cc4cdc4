----------------------------- MODULE IgdbClient -----------------------------
(***************************************************************************)
(* Client.do of internal/igdb: the throttle, the cached token behind a     *)
(* mutex that is held across a fetch, and the single retry after a 401.    *)
(* Any number of goroutines share the client.                              *)
(*                                                                         *)
(* The code compares instants with the clock only, so the model keeps how  *)
(* far each lies ahead of it.  One tick is the throttle's interval.  What  *)
(* a search sends is in IgdbQuery.                                         *)
(***************************************************************************)
EXTENDS IgdbQuery

CONSTANTS
    Proc,          \* callers
    Cancellable,   \* those whose context can be done: never a gin handler's
    Token,         \* access tokens
    NoToken,       \* the empty string
    Free,          \* the mutex is free
    PerSecond,     \* requests per second: ticks in a second
    Margin,        \* refreshMargin
    Lifetime,      \* the values expires_in may have
    HttpTimeout,   \* how long one HTTP exchange may last, a late timer included
    MaxAhead       \* bound on the slots claimed in advance

ASSUME IgdbAssumption ==
    /\ Cancellable \subseteq Proc
    /\ NoToken \notin Token
    /\ Free \notin Proc
    /\ {PerSecond, Margin, HttpTimeout, MaxAhead} \subseteq Nat \ {0}
    /\ Lifetime \subseteq Nat
    /\ HttpTimeout <= Margin

VARIABLES
    ahead,     \* throttle.next - now
    pc,        \* where each call of do is
    delay,     \* how long until its slot, -1 when that has passed
    stale,     \* the argument of its getToken: NoToken but for the retry
    shown,     \* the token it presents
    waited,    \* how long its HTTP exchange has lasted
    holder,    \* who holds c.mu across a fetch
    token,     \* c.token
    ttl,       \* c.expiresAt - now
    \* Histories, for the properties alone:
    rejected,  \* the tokens IGDB answered 401 to and that were not handed out
               \* again since, and those somebody is about to retry
    renewed,   \* the callers whose refused token was handed out again
    found,     \* the callers that found the token they present in the cache
    left,      \* what is left of the life of the token presented
    idleFor,   \* ticks since a caller was let through on time
    recent     \* posts in each tick of the last second

cache == <<token, ttl>>
tokens == <<rejected, renewed>>
passes == <<idleFor, recent>>
vars == <<ahead, pc, delay, stale, shown, waited, holder, cache, tokens, found,
          left, passes>>

Phase == {"idle", "sleep", "token", "fetch", "answer"}

\* do returns, with a result or an error.
Return(p) ==
    /\ pc' = [pc EXCEPT ![p] = "idle"]
    /\ stale' = [stale EXCEPT ![p] = NoToken]
    /\ shown' = [shown EXCEPT ![p] = NoToken]
    /\ left' = [left EXCEPT ![p] = 0]
    /\ waited' = [waited EXCEPT ![p] = 0]
    /\ renewed' = renewed \ {p}
    /\ found' = found \ {p}

KeepLocals == UNCHANGED <<stale, shown, found, left, waited>>

-----------------------------------------------------------------------------
(* throttle.wait.                                                          *)

Positive(n) == IF n > 0 THEN n ELSE 0

\* Mutant of Claimed: `if slot.Before(now)` is dropped: idle time is credit.
ClaimedCredit(next) == next + 1

\* next = max(next, now) + interval.
Claimed(next) == Positive(next) + 1

\* The slot is claimed under the throttle's mutex, whoever goes on to use it.
Wait(p) ==
    /\ pc[p] = "idle" /\ ahead < MaxAhead
    /\ ahead' = Claimed(ahead)
    /\ delay' = [delay EXCEPT ![p] = Positive(ahead)]
    /\ \/ /\ delay'[p] > 0
          /\ pc' = [pc EXCEPT ![p] = "sleep"]
          /\ UNCHANGED idleFor
       \/ /\ delay'[p] = 0
          /\ pc' = [pc EXCEPT ![p] = "token"]
          /\ idleFor' = 0
       \* A free slot is not a free pass.
       \/ /\ delay'[p] = 0 /\ p \in Cancellable
          /\ UNCHANGED <<pc, idleFor>>
    /\ KeepLocals
    /\ UNCHANGED <<holder, cache, tokens, recent>>

\* The timer fires when the slot has come or later.
Wake(p) ==
    /\ pc[p] = "sleep" /\ delay[p] <= 0
    /\ pc' = [pc EXCEPT ![p] = "token"]
    /\ idleFor' = IF delay[p] = 0 THEN 0 ELSE idleFor
    /\ delay' = [delay EXCEPT ![p] = 0]
    /\ KeepLocals
    /\ UNCHANGED <<ahead, holder, cache, tokens, recent>>

GiveUp(p) ==
    /\ pc[p] = "sleep" /\ p \in Cancellable
    /\ delay' = [delay EXCEPT ![p] = 0]
    /\ Return(p)
    /\ UNCHANGED <<ahead, holder, cache, rejected, passes>>

-----------------------------------------------------------------------------
(* getToken, and the post that follows its return at once.                 *)

CountPost ==
    recent' = [recent EXCEPT ![0] = IF @ > PerSecond THEN @ ELSE @ + 1]

Post(p, t, life) ==
    /\ pc' = [pc EXCEPT ![p] = "answer"]
    /\ shown' = [shown EXCEPT ![p] = t]
    /\ left' = [left EXCEPT ![p] = life]
    /\ waited' = [waited EXCEPT ![p] = 0]
    /\ CountPost

\* Mutant of Usable: the margin is forgotten.
UsableNoMargin(p) == IF stale[p] # NoToken THEN token # stale[p]
                     ELSE token # NoToken /\ ttl > 0

\* Mutant of Usable: a caller that was rejected fetches whatever happened since.
UsableNeverAfter401(p) == stale[p] = NoToken /\ token # NoToken /\ ttl > Margin

\* Mutant of Usable: the retry asks as if nothing had been rejected.
UsableIgnoresStale(p) == token # NoToken /\ ttl > Margin

Usable(p) == IF stale[p] # NoToken THEN token # stale[p]
             ELSE token # NoToken /\ ttl > Margin

UseToken(p) ==
    /\ pc[p] = "token" /\ holder = Free /\ Usable(p)
    /\ Post(p, token, ttl)
    /\ found' = found \cup {p}
    /\ UNCHANGED <<ahead, delay, stale, holder, cache, tokens, idleFor>>

\* Whoever waits for the mutex waits for this fetch.
Fetch(p) ==
    /\ pc[p] = "token" /\ holder = Free /\ ~Usable(p)
    /\ holder' = p
    /\ pc' = [pc EXCEPT ![p] = "fetch"]
    /\ waited' = [waited EXCEPT ![p] = 0]
    /\ UNCHANGED <<ahead, delay, stale, shown, cache, tokens, found, left, passes>>

Retrying(t) == {q \in Proc : stale[q] = t}

\* Any token is stored, also the one that was just refused, and any life, also
\* one that is over before the request is answered.
FetchOk(p) ==
    /\ pc[p] = "fetch"
    /\ \E t \in Token, life \in Lifetime :
          /\ token' = t
          /\ ttl' = life
          /\ rejected' = IF Retrying(t) = {} THEN rejected \ {t} ELSE rejected
          /\ renewed' = renewed \cup Retrying(t)
          /\ Post(p, t, life)
    /\ found' = found \ {p}
    /\ holder' = Free
    /\ UNCHANGED <<ahead, delay, stale, idleFor>>

\* Mutant of FetchFails: the early return does not unlock.
FetchFailsLocked(p) ==
    /\ pc[p] = "fetch"
    /\ Return(p)
    /\ UNCHANGED <<ahead, delay, holder, cache, rejected, passes>>

FetchFails(p) ==
    /\ pc[p] = "fetch"
    /\ holder' = Free
    /\ Return(p)
    /\ UNCHANGED <<ahead, delay, cache, rejected, passes>>

-----------------------------------------------------------------------------
(* The answer to a post.                                                   *)

\* 200 or any other status but 401, or no answer in time.
Answered(p) ==
    /\ pc[p] = "answer"
    /\ Return(p)
    /\ UNCHANGED <<ahead, delay, holder, cache, rejected, passes>>

\* External: IGDB may refuse any token, one that has expired or was revoked
\* long before, or every one.  The first 401: back to getToken, past the
\* throttle.
Unauthorized(p) ==
    /\ pc[p] = "answer"
    /\ rejected' = rejected \cup {shown[p]}
    /\ IF stale[p] = NoToken
       THEN /\ pc' = [pc EXCEPT ![p] = "token"]
            /\ stale' = [stale EXCEPT ![p] = shown[p]]
            /\ shown' = [shown EXCEPT ![p] = NoToken]
            /\ UNCHANGED <<renewed, found, left, waited>>
       ELSE Return(p)
    /\ UNCHANGED <<ahead, delay, holder, cache, passes>>

InExchange(p) == pc[p] \in {"fetch", "answer"}

\* An exchange ends within HttpTimeout; a timer may be late.
Tick ==
    /\ \A p \in Proc : InExchange(p) => waited[p] < HttpTimeout
    /\ ahead' = IF ahead > -PerSecond THEN ahead - 1 ELSE ahead
    /\ delay' = [p \in Proc |-> IF pc[p] = "sleep" /\ delay[p] >= 0
                                THEN delay[p] - 1 ELSE delay[p]]
    /\ waited' = [p \in Proc |-> IF InExchange(p) THEN waited[p] + 1 ELSE 0]
    /\ ttl' = Positive(ttl - 1)
    /\ left' = [p \in Proc |-> Positive(left[p] - 1)]
    /\ idleFor' = IF idleFor < 1 THEN idleFor + 1 ELSE idleFor
    /\ recent' = [i \in 0 .. PerSecond - 1 |-> IF i = 0 THEN 0 ELSE recent[i - 1]]
    /\ UNCHANGED <<pc, stale, shown, holder, token, tokens, found>>

Init ==
    /\ ahead = -PerSecond
    /\ pc = [p \in Proc |-> "idle"]
    /\ delay = [p \in Proc |-> 0]
    /\ stale = [p \in Proc |-> NoToken]
    /\ shown = [p \in Proc |-> NoToken]
    /\ waited = [p \in Proc |-> 0]
    /\ holder = Free
    /\ token = NoToken
    /\ ttl = 0
    /\ rejected = {}
    /\ renewed = {}
    /\ found = {}
    /\ left = [p \in Proc |-> 0]
    /\ idleFor = 1
    /\ recent = [i \in 0 .. PerSecond - 1 |-> 0]

GetToken(p) == UseToken(p) \/ Fetch(p)
EndExchange(p) == FetchOk(p) \/ FetchFails(p) \/ Answered(p) \/ Unauthorized(p)

Next ==
    \/ \E p \in Proc : Wait(p) \/ Wake(p) \/ GiveUp(p) \/ GetToken(p) \/ EndExchange(p)
    \/ Tick

\* Time passes, timers fire, exchanges end, and a goroutine that waits for the
\* mutex gets it in the end (Go's mutex hands it over to a starving waiter).
\* Nobody has to make a call or to give up.
Fairness ==
    /\ WF_vars(Tick)
    /\ \A p \in Proc : /\ WF_vars(Wake(p))
                       /\ SF_vars(GetToken(p))
                       /\ WF_vars(EndExchange(p))

Spec == Init /\ [][Next]_vars /\ Fairness

-----------------------------------------------------------------------------
(* Properties.                                                             *)

\* The types; the mutex is held exactly by the caller that is fetching.
TypeOK ==
    /\ ahead \in -PerSecond .. MaxAhead
    /\ pc \in [Proc -> Phase]
    /\ delay \in [Proc -> -1 .. MaxAhead]
    /\ \A p \in Proc : pc[p] # "sleep" => delay[p] = 0
    /\ stale \in [Proc -> Token \cup {NoToken}]
    /\ shown \in [Proc -> Token \cup {NoToken}]
    /\ waited \in [Proc -> 0 .. HttpTimeout]
    /\ \A p \in Proc : pc[p] = "fetch" <=> holder = p
    /\ holder \in Proc \cup {Free}
    /\ token \in Token \cup {NoToken}
    /\ \A p \in Proc : pc[p] = "answer" <=> shown[p] # NoToken
    /\ ttl \in Nat
    /\ rejected \subseteq Token
    /\ renewed \subseteq Proc /\ found \subseteq Proc

\* The throttle never lets two callers through in one interval, however they
\* arrive, give up or bunch after an idle spell, unless the timer of one of
\* them fired after its slot had passed.
OneCallerPerInterval ==
    [][\A p \in Proc :
          pc[p] \in {"idle", "sleep"} /\ pc'[p] = "token" /\ delay[p] = 0 =>
              idleFor >= 1]_vars

\* Single flight: a cached token is replaced for a reason only.  When several
\* callers are rejected with one token the first replaces it, and none of the
\* others replaces the new one.
TokenReplacedForCause ==
    [][token' # token =>
          token = NoToken \/ ttl <= Margin \/ token \in rejected]_vars

\* The retry never repeats the token that was refused, unless Twitch has handed
\* out that very token again since: to this caller, or to another one while
\* this one waited for the mutex.
RefusedTokenNotRepeated ==
    \A p \in Proc :
        pc[p] = "answer" /\ stale[p] # NoToken /\ shown[p] = stale[p] =>
            p \in renewed

\* A token found in the cache does not lapse while a first request is under way
\* with it: that is what refreshing a margin ahead of expiry is for.  (One
\* fetched for the request lives as long as Twitch grants; a retry takes what
\* is cached without a look at its expiry.)
TokenOutlivesRequest ==
    \A p \in found : pc[p] = "answer" /\ stale[p] = NoToken => left[p] > 0

\* Every call returns: no caller is left waiting for a slot or for the mutex,
\* however fetches and posts fail.
EveryCallReturns == \A p \in Proc : pc[p] # "idle" ~> pc[p] = "idle"

Sends == \E p \in Proc : pc[p] # "answer" /\ pc'[p] = "answer"

\* Whatever a client types, its term ends where the server ends it, in every
\* request that is sent: titles with quotes and backslashes are found, and
\* nothing that was typed is read as syntax (escapeSearchTerm, SearchGames).
TermStaysInItsLiteral == [][Sends => EveryTermIsQuoted]_vars

-----------------------------------------------------------------------------
(* What a comment of the repository says, and the code does not keep.      *)

PostsInLastSecond ==
    LET sum[i \in 0 .. PerSecond] ==
            IF i = 0 THEN 0 ELSE sum[i - 1] + recent[i - 1]
    IN  sum[PerSecond]

\* IGDB allows 4 requests per second; the throttle guards every caller.
WithinRateLimit == PostsInLastSecond <= PerSecond
=============================================================================
