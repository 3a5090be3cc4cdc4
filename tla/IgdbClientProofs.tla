-------------------------- MODULE IgdbClientProofs --------------------------
(***************************************************************************)
(* For any number of callers, tokens and rates: the throttle, the token    *)
(* cache and the retry, whatever fails and whatever tokens Twitch returns. *)
(*                                                                         *)
(* The throttle: SlotInv says that the slots claimed and still to come are *)
(* distinct, that all lie before the next one, and that none is due in a   *)
(* tick in which somebody went through on time.  The cache: a fetch acts   *)
(* on what was seen when the mutex was taken, and FetchInv says that it is *)
(* still so; StaleInv that what a retry was refused with counts as         *)
(* rejected, also if it is handed out again meanwhile.                     *)
(*                                                                         *)
(* And, for terms of any length: what is typed into a search stays in its  *)
(* literal, since each character leaves the text Safe.                     *)
(***************************************************************************)
EXTENDS IgdbClient, TLAPS, WellFoundedInduction, SequenceTheorems

\* p sleeps and its slot has not passed.
Queued(p) == pc[p] = "sleep" /\ delay[p] >= 0

SlotInv ==
    /\ idleFor \in {0, 1}
    /\ \A p \in Proc : Queued(p) => delay[p] < ahead
    /\ \A p, q \in Proc : p # q /\ Queued(p) /\ Queued(q) => delay[p] # delay[q]
    /\ idleFor = 0 => /\ ahead >= 1
                      /\ \A p \in Proc : Queued(p) => delay[p] >= 1

\* A token that was presented was cached, and one that is retried was rejected.
StaleInv ==
    \A p \in Proc :
        /\ stale[p] # NoToken => stale[p] \in rejected /\ token # NoToken
        /\ shown[p] # NoToken => token # NoToken

\* Why the caller that holds the mutex is fetching.
FetchInv ==
    \A p \in Proc :
        pc[p] = "fetch" => token = NoToken \/ ttl <= Margin \/ token \in rejected

\* A token found in the cache outlives what is left of the request.
LifeInv ==
    /\ left \in [Proc -> Nat]
    /\ \A p \in found :
          pc[p] = "answer" /\ stale[p] = NoToken => left[p] + waited[p] > HttpTimeout

IInv ==
    TypeOK /\ SlotInv /\ StaleInv /\ FetchInv /\ LifeInv /\ RefusedTokenNotRepeated

Parameters ==
    /\ PerSecond \in Nat \ {0} /\ Margin \in Nat \ {0}
    /\ HttpTimeout \in Nat \ {0} /\ MaxAhead \in Nat \ {0}
    /\ HttpTimeout <= Margin
    /\ Lifetime \subseteq Nat
    /\ NoToken \notin Token /\ Free \notin Proc

LEMMA ParameterTypes == Parameters
BY IgdbAssumption DEF Parameters

-----------------------------------------------------------------------------
(* TypeOK, one action at a time.                                           *)

LEMMA PositiveType ==
    ASSUME NEW n \in Int
    PROVE  /\ Positive(n) \in Nat /\ Positive(n) >= n
           /\ n > 0 => Positive(n) = n
           /\ n <= 0 => Positive(n) = 0
BY DEF Positive

LEMMA WaitType == ASSUME TypeOK, NEW p \in Proc, Wait(p) PROVE TypeOK'
<1>1. ahead \in Int /\ ahead < MaxAhead /\ Positive(ahead) \in 0 .. MaxAhead - 1
  BY ParameterTypes, PositiveType DEF Parameters, TypeOK, Wait
<1>2. ahead' = Positive(ahead) + 1 /\ delay' = [delay EXCEPT ![p] = Positive(ahead)]
  BY DEF Wait, Claimed
<1>3. UNCHANGED <<stale, shown, found, left, waited, holder, token, ttl,
                  rejected, renewed>>
  BY DEF Wait, KeepLocals, cache, tokens
<1>4. /\ pc[p] = "idle"
      /\ \/ Positive(ahead) > 0 /\ pc' = [pc EXCEPT ![p] = "sleep"]
         \/ Positive(ahead) = 0 /\ pc' = [pc EXCEPT ![p] = "token"]
         \/ Positive(ahead) = 0 /\ UNCHANGED pc
  BY <1>2 DEF Wait, TypeOK
<1>5. ahead' \in -PerSecond .. MaxAhead
  BY <1>1, <1>2, ParameterTypes DEF Parameters
<1>6. delay' \in [Proc -> -1 .. MaxAhead] /\ \A q \in Proc : pc'[q] # "sleep" => delay'[q] = 0
  BY <1>1, <1>2, <1>4, ParameterTypes DEF Parameters, TypeOK
<1>7. QED
  BY <1>3, <1>4, <1>5, <1>6 DEF TypeOK, Phase

LEMMA WakeType == ASSUME TypeOK, NEW p \in Proc, Wake(p) PROVE TypeOK'
BY ParameterTypes DEF Parameters, TypeOK, Wake, KeepLocals, cache, tokens, Phase

LEMMA GiveUpType == ASSUME TypeOK, NEW p \in Proc, GiveUp(p) PROVE TypeOK'
BY ParameterTypes DEF Parameters, TypeOK, GiveUp, Return, cache, Phase

LEMMA UseTokenType ==
    ASSUME TypeOK, StaleInv, NEW p \in Proc, UseToken(p) PROVE TypeOK'
<1>1. token # NoToken
  BY DEF UseToken, Usable, StaleInv
<1>2. QED
  BY <1>1, ParameterTypes DEF Parameters, TypeOK, UseToken, Post, cache, tokens, Phase

LEMMA FetchType == ASSUME TypeOK, NEW p \in Proc, Fetch(p) PROVE TypeOK'
BY ParameterTypes DEF Parameters, TypeOK, Fetch, cache, tokens, Phase

LEMMA FetchOkType == ASSUME TypeOK, NEW p \in Proc, FetchOk(p) PROVE TypeOK'
<1>1. PICK t \in Token, life \in Lifetime :
         token' = t /\ ttl' = life /\ Post(p, t, life)
  BY DEF FetchOk
<1>2. /\ pc[p] = "fetch" /\ holder' = Free /\ UNCHANGED <<ahead, delay, stale>>
      /\ rejected' \subseteq rejected /\ renewed' \subseteq renewed \cup Proc
      /\ found' = found \ {p}
  BY DEF FetchOk, Retrying
<1>3. life \in Nat /\ t # NoToken
  BY ParameterTypes DEF Parameters
<1>4. \A q \in Proc : pc'[q] # "fetch" /\ holder' # q
  BY <1>1, <1>2, ParameterTypes DEF Parameters, Post, TypeOK
<1>5. QED
  BY <1>1, <1>2, <1>3, <1>4, ParameterTypes DEF Parameters, TypeOK, Post, Phase

LEMMA FetchFailsType == ASSUME TypeOK, NEW p \in Proc, FetchFails(p) PROVE TypeOK'
BY ParameterTypes DEF Parameters, TypeOK, FetchFails, Return, cache, Phase

LEMMA AnsweredType == ASSUME TypeOK, NEW p \in Proc, Answered(p) PROVE TypeOK'
BY ParameterTypes DEF Parameters, TypeOK, Answered, Return, cache, Phase

LEMMA UnauthorizedType == ASSUME TypeOK, NEW p \in Proc, Unauthorized(p) PROVE TypeOK'
<1>1. pc[p] = "answer" /\ shown[p] \in Token
  BY DEF Unauthorized, TypeOK
<1>2. CASE stale[p] = NoToken
  BY <1>1, <1>2, ParameterTypes DEF Parameters, TypeOK, Unauthorized, cache, Phase
<1>3. CASE stale[p] # NoToken
  BY <1>1, <1>3, ParameterTypes DEF Parameters, TypeOK, Unauthorized, Return, cache, Phase
<1>4. QED
  BY <1>2, <1>3

LEMMA TickType == ASSUME TypeOK, Tick PROVE TypeOK'
<1>1. ahead' \in -PerSecond .. MaxAhead
  BY ParameterTypes DEF Parameters, TypeOK, Tick
<1>2. \A p \in Proc : delay[p] \in -1 .. MaxAhead
  BY DEF TypeOK
<1>3. \A p \in Proc : delay[p] >= 0 => delay[p] - 1 \in -1 .. MaxAhead
  BY <1>2, ParameterTypes DEF Parameters
<1>4. delay' \in [Proc -> -1 .. MaxAhead] /\ \A p \in Proc : pc'[p] # "sleep" => delay'[p] = 0
  BY <1>2, <1>3 DEF TypeOK, Tick
<1>5. waited' \in [Proc -> 0 .. HttpTimeout]
  BY ParameterTypes DEF Parameters, TypeOK, Tick
<1>6. ttl' \in Nat
  BY PositiveType DEF TypeOK, Tick
<1>7. UNCHANGED <<pc, stale, shown, holder, token, rejected, renewed, found>>
  BY DEF Tick, tokens
<1>8. QED
  BY <1>1, <1>4, <1>5, <1>6, <1>7 DEF TypeOK

-----------------------------------------------------------------------------
(* The throttle.                                                           *)

\* Whoever leaves the queue leaves its slot unused.
LEMMA NobodyQueues ==
    ASSUME SlotInv, UNCHANGED <<ahead, idleFor>>,
           \A q \in Proc : pc'[q] = "sleep" => pc[q] = "sleep" /\ delay'[q] = delay[q]
    PROVE  SlotInv'
BY DEF SlotInv, Queued

LEMMA WaitSlots == ASSUME TypeOK, SlotInv, NEW p \in Proc, Wait(p) PROVE SlotInv'
<1>1. ahead \in Int /\ pc \in [Proc -> Phase] /\ delay \in [Proc -> -1 .. MaxAhead]
  BY ParameterTypes DEF Parameters, TypeOK
<1>2. /\ pc[p] = "idle" /\ ahead' = Positive(ahead) + 1
      /\ delay' = [delay EXCEPT ![p] = Positive(ahead)]
      /\ \/ Positive(ahead) > 0 /\ pc' = [pc EXCEPT ![p] = "sleep"] /\ UNCHANGED idleFor
         \/ Positive(ahead) = 0 /\ pc' = [pc EXCEPT ![p] = "token"] /\ idleFor' = 0
         \/ Positive(ahead) = 0 /\ UNCHANGED <<pc, idleFor>>
  BY <1>1 DEF Wait, Claimed
<1>3. /\ Positive(ahead) \in Nat
      /\ Positive(ahead) > 0 => Positive(ahead) = ahead
      /\ Positive(ahead) = 0 => ahead <= 0
  BY <1>1, PositiveType
<1>4. CASE Positive(ahead) = 0
  <2>1. \A q \in Proc : ~Queued(q) /\ delay[q] \in Int
    BY <1>1, <1>3, <1>4, ParameterTypes DEF SlotInv, Queued, Parameters
  <2>2. \A q \in Proc : ~Queued(q)'
    BY <1>1, <1>2, <1>4, <2>1 DEF Queued
  <2>3. QED
    BY <1>2, <1>4, <2>2 DEF SlotInv
<1>5. CASE Positive(ahead) > 0
  <2>1. ahead > 0 /\ ahead' = ahead + 1 /\ UNCHANGED idleFor
        /\ pc' = [pc EXCEPT ![p] = "sleep"] /\ delay' = [delay EXCEPT ![p] = ahead]
    BY <1>2, <1>3, <1>5
  <2>2. \A q \in Proc \ {p} : pc'[q] = pc[q] /\ delay'[q] = delay[q]
    BY <2>1, <1>1
  <2>3. pc'[p] = "sleep" /\ delay'[p] = ahead
    BY <2>1, <1>1
  <2>4. \A q \in Proc : delay[q] \in Int
    BY <1>1, ParameterTypes DEF Parameters
  <2>5. \A q \in Proc : Queued(q)' => delay'[q] < ahead'
    BY <1>1, <2>1, <2>2, <2>3, <2>4 DEF SlotInv, Queued
  <2>6. \A q, r \in Proc :
           q # r /\ Queued(q)' /\ Queued(r)' => delay'[q] # delay'[r]
    BY <1>1, <2>2, <2>3, <2>4 DEF SlotInv, Queued
  <2>7. idleFor' = 0 =>
           ahead' >= 1 /\ \A q \in Proc : Queued(q)' => delay'[q] >= 1
    BY <1>1, <2>1, <2>2, <2>3, <2>4 DEF SlotInv, Queued
  <2>8. QED
    BY <2>1, <2>5, <2>6, <2>7 DEF SlotInv
<1>6. QED
  BY <1>3, <1>4, <1>5

LEMMA WakeSlots == ASSUME TypeOK, SlotInv, NEW p \in Proc, Wake(p) PROVE SlotInv'
<1>1. /\ ahead \in Int /\ \A q \in Proc : delay[q] \in Int
      /\ pc \in [Proc -> Phase] /\ delay \in [Proc -> -1 .. MaxAhead]
  BY ParameterTypes DEF Parameters, TypeOK
<1>2. /\ pc[p] = "sleep" /\ delay[p] <= 0 /\ pc' = [pc EXCEPT ![p] = "token"]
      /\ idleFor' = IF delay[p] = 0 THEN 0 ELSE idleFor
      /\ delay' = [delay EXCEPT ![p] = 0] /\ UNCHANGED ahead
  BY DEF Wake
<1>3. \A q \in Proc : pc'[q] = "sleep" => q # p /\ pc[q] = "sleep" /\ delay'[q] = delay[q]
  BY <1>1, <1>2
<1>4. CASE delay[p] = 0
  <2>1. Queued(p) /\ ahead >= 1 /\ idleFor' = 0
    BY <1>1, <1>2, <1>4 DEF SlotInv, Queued
  <2>2. QED
    BY <1>1, <1>2, <1>3, <1>4, <2>1 DEF SlotInv, Queued
<1>5. CASE delay[p] # 0
  BY <1>2, <1>3, <1>5, NobodyQueues
<1>6. QED
  BY <1>4, <1>5

LEMMA TickSlots == ASSUME TypeOK, SlotInv, Tick PROVE SlotInv'
<1>1. /\ ahead \in Int /\ \A q \in Proc : delay[q] \in Int
      /\ PerSecond \in Nat
  BY ParameterTypes DEF Parameters, TypeOK
<1>2. /\ ahead' = IF ahead > -PerSecond THEN ahead - 1 ELSE ahead
      /\ \A q \in Proc : delay'[q] = IF pc[q] = "sleep" /\ delay[q] >= 0
                                    THEN delay[q] - 1 ELSE delay[q]
      /\ idleFor' = IF idleFor < 1 THEN idleFor + 1 ELSE idleFor
      /\ UNCHANGED pc
  BY DEF Tick
<1>3. idleFor' = 1
  BY <1>2 DEF SlotInv
<1>4. ASSUME NEW q \in Proc, Queued(q)'
      PROVE  Queued(q) /\ delay'[q] = delay[q] - 1 /\ ahead' = ahead - 1
  <2>1. Queued(q) /\ delay'[q] = delay[q] - 1
    BY <1>1, <1>2, <1>4 DEF Queued
  <2>2. ahead > delay[q] /\ delay[q] >= 0
    BY <2>1 DEF SlotInv, Queued
  <2>3. QED
    BY <1>1, <1>2, <2>1, <2>2
<1>5. \A q \in Proc : Queued(q)' => delay'[q] < ahead'
  BY <1>1, <1>4 DEF SlotInv
<1>6. \A q, r \in Proc : q # r /\ Queued(q)' /\ Queued(r)' => delay'[q] # delay'[r]
  BY <1>1, <1>4 DEF SlotInv
<1>7. QED
  BY <1>3, <1>5, <1>6 DEF SlotInv

\* A caller goes through on time only a tick or more after the one before it.
LEMMA WhenDue ==
    ASSUME TypeOK, SlotInv, NEW p \in Proc, delay[p] = 0,
           (Wait(p) /\ pc'[p] = "token") \/ Wake(p)
    PROVE  idleFor >= 1
<1>1. ahead \in Int /\ pc \in [Proc -> Phase] /\ delay \in [Proc -> -1 .. MaxAhead]
  BY ParameterTypes DEF Parameters, TypeOK
<1>2. CASE Wait(p) /\ pc'[p] = "token"
  <2>1. Positive(ahead) = 0
    BY <1>1, <1>2, ParameterTypes DEF Wait, Parameters, Positive
  <2>2. QED
    BY <1>1, <2>1, PositiveType DEF SlotInv
<1>3. CASE Wake(p)
  BY <1>1, <1>3 DEF Wake, SlotInv, Queued
<1>4. QED
  BY <1>2, <1>3

-----------------------------------------------------------------------------
(* The token.                                                              *)

TokenInv == StaleInv /\ FetchInv /\ LifeInv /\ RefusedTokenNotRepeated

\* A step that neither presents a token nor takes the mutex, and rejects at most
\* one more token.
LEMMA NobodyPresents ==
    ASSUME TypeOK, TokenInv, NEW p \in Proc, UNCHANGED <<token, ttl>>,
           rejected \subseteq rejected',
           renewed \subseteq renewed' \cup {p}, found' \subseteq found \cup {p},
           \A q \in Proc \ {p} :
              /\ pc'[q] = pc[q] /\ stale'[q] = stale[q] /\ shown'[q] = shown[q]
              /\ left'[q] = left[q] /\ waited'[q] = waited[q],
           left' \in [Proc -> Nat],
           pc'[p] \notin {"answer", "fetch"},
           stale'[p] # NoToken => stale'[p] \in rejected' /\ token # NoToken,
           shown'[p] # NoToken => token # NoToken
    PROVE  TokenInv'
<1>1. StaleInv'
  BY DEF TokenInv, StaleInv
<1>2. FetchInv'
  BY DEF TokenInv, FetchInv
<1>3. LifeInv'
  BY DEF TokenInv, LifeInv, TypeOK
<1>4. RefusedTokenNotRepeated'
  BY DEF TokenInv, RefusedTokenNotRepeated
<1>5. QED
  BY <1>1, <1>2, <1>3, <1>4 DEF TokenInv

LEMMA WaitToken == ASSUME TypeOK, TokenInv, NEW p \in Proc, Wait(p) PROVE TokenInv'
<1>1. /\ UNCHANGED <<token, ttl, rejected, renewed, found, stale, shown, left,
                     waited>>
      /\ \A q \in Proc \ {p} : pc'[q] = pc[q]
      /\ pc'[p] \in {"idle", "sleep", "token"}
  BY DEF Wait, KeepLocals, cache, tokens, TypeOK
<1>2. QED
  BY <1>1, NobodyPresents DEF TokenInv, StaleInv, LifeInv

LEMMA WakeToken == ASSUME TypeOK, TokenInv, NEW p \in Proc, Wake(p) PROVE TokenInv'
<1>1. /\ UNCHANGED <<token, ttl, rejected, renewed, found, stale, shown, left,
                     waited>>
      /\ \A q \in Proc \ {p} : pc'[q] = pc[q]
      /\ pc'[p] = "token"
  BY DEF Wake, KeepLocals, cache, tokens, TypeOK
<1>2. QED
  BY <1>1, NobodyPresents DEF TokenInv, StaleInv, LifeInv

LEMMA ReturnToken ==
    ASSUME TypeOK, TokenInv, NEW p \in Proc, Return(p), UNCHANGED <<token, ttl>>,
           rejected \subseteq rejected'
    PROVE  TokenInv'
<1>1. /\ \A q \in Proc \ {p} :
            /\ pc'[q] = pc[q] /\ stale'[q] = stale[q] /\ shown'[q] = shown[q]
            /\ left'[q] = left[q] /\ waited'[q] = waited[q]
      /\ pc'[p] = "idle" /\ stale'[p] = NoToken /\ shown'[p] = NoToken
      /\ left' \in [Proc -> Nat]
      /\ renewed' = renewed \ {p} /\ found' = found \ {p}
  BY DEF Return, TypeOK, TokenInv, LifeInv
<1>2. QED
  BY <1>1, NobodyPresents

LEMMA UseTokenToken == ASSUME TypeOK, TokenInv, NEW p \in Proc, UseToken(p) PROVE TokenInv'
<1>1. /\ Usable(p) /\ UNCHANGED <<token, ttl, rejected, renewed, stale>>
      /\ found' = found \cup {p}
      /\ \A q \in Proc \ {p} :
            /\ pc'[q] = pc[q] /\ shown'[q] = shown[q]
            /\ left'[q] = left[q] /\ waited'[q] = waited[q]
      /\ pc'[p] = "answer" /\ shown'[p] = token /\ left'[p] = ttl /\ waited'[p] = 0
      /\ left' \in [Proc -> Nat]
  BY DEF UseToken, Post, cache, tokens, TypeOK, TokenInv, LifeInv
<1>2. token # NoToken
  BY <1>1 DEF Usable, TokenInv, StaleInv
<1>3. StaleInv' /\ FetchInv' /\ RefusedTokenNotRepeated'
  BY <1>1, <1>2 DEF Usable, TokenInv, StaleInv, FetchInv, RefusedTokenNotRepeated
<1>4. stale[p] = NoToken => ttl > HttpTimeout
  BY <1>1, ParameterTypes DEF Usable, Parameters, TypeOK
<1>5. LifeInv'
  BY <1>1, <1>4, ParameterTypes DEF TokenInv, LifeInv, Parameters, TypeOK
<1>6. QED
  BY <1>3, <1>5 DEF TokenInv

LEMMA FetchToken == ASSUME TypeOK, TokenInv, NEW p \in Proc, Fetch(p) PROVE TokenInv'
<1>1. /\ ~Usable(p)
      /\ UNCHANGED <<token, ttl, rejected, renewed, found, stale, shown, left>>
      /\ \A q \in Proc \ {p} : pc'[q] = pc[q] /\ waited'[q] = waited[q]
      /\ pc'[p] = "fetch"
  BY DEF Fetch, cache, tokens, TypeOK
<1>2. token = NoToken \/ ttl <= Margin \/ token \in rejected
  BY <1>1, ParameterTypes DEF Usable, TokenInv, StaleInv, TypeOK, Parameters
<1>3. StaleInv' /\ FetchInv' /\ RefusedTokenNotRepeated' /\ LifeInv'
  BY <1>1, <1>2 DEF TokenInv, StaleInv, FetchInv, RefusedTokenNotRepeated, LifeInv,
     TypeOK
<1>4. QED
  BY <1>3 DEF TokenInv

LEMMA FetchOkToken == ASSUME TypeOK, TokenInv, NEW p \in Proc, FetchOk(p) PROVE TokenInv'
<1>1. PICK t \in Token, life \in Lifetime :
         /\ token' = t /\ ttl' = life /\ Post(p, t, life)
         /\ rejected' = IF Retrying(t) = {} THEN rejected \ {t} ELSE rejected
         /\ renewed' = renewed \cup Retrying(t)
  BY DEF FetchOk
<1>2. /\ pc[p] = "fetch" /\ UNCHANGED stale /\ found' = found \ {p}
      /\ \A q \in Proc \ {p} :
            /\ pc'[q] = pc[q] /\ shown'[q] = shown[q]
            /\ left'[q] = left[q] /\ waited'[q] = waited[q]
      /\ pc'[p] = "answer" /\ shown'[p] = t /\ left'[p] = life /\ waited'[p] = 0
  BY <1>1 DEF FetchOk, Post, TypeOK, TokenInv, LifeInv
<1>3. life \in Nat /\ t # NoToken
  BY ParameterTypes DEF Parameters
<1>4. left' \in [Proc -> Nat]
  BY <1>1, <1>3 DEF Post, TokenInv, LifeInv
<1>5. \A q \in Proc : pc'[q] # "fetch"
  BY <1>2 DEF TypeOK
<1>6. StaleInv'
  <2>1. \A q \in Proc : stale[q] # NoToken => stale[q] \in rejected
    BY DEF TokenInv, StaleInv
  <2>2. \A q \in Proc : stale[q] # NoToken => stale[q] \in rejected'
    BY <1>1, <2>1 DEF Retrying
  <2>3. QED
    BY <1>1, <1>2, <1>3, <2>2 DEF StaleInv
<1>7. RefusedTokenNotRepeated'
  <2>1. p \in Proc /\ shown'[p] = stale'[p] => p \in renewed'
    BY <1>1, <1>2 DEF Retrying
  <2>2. \A q \in Proc \ {p} :
           pc'[q] = "answer" /\ stale'[q] # NoToken /\ shown'[q] = stale'[q] =>
               q \in renewed'
    BY <1>1, <1>2 DEF TokenInv, RefusedTokenNotRepeated
  <2>3. QED
    BY <2>1, <2>2 DEF RefusedTokenNotRepeated
<1>8. FetchInv'
  BY <1>5 DEF FetchInv
<1>9. LifeInv'
  BY <1>2, <1>4 DEF TokenInv, LifeInv, TypeOK
<1>10. QED
  BY <1>6, <1>7, <1>8, <1>9 DEF TokenInv

LEMMA UnauthorizedToken ==
    ASSUME TypeOK, TokenInv, NEW p \in Proc, Unauthorized(p) PROVE TokenInv'
<1>1. /\ shown[p] # NoToken /\ UNCHANGED <<token, ttl>>
      /\ rejected' = rejected \cup {shown[p]}
  BY DEF Unauthorized, cache, TypeOK
<1>2. token # NoToken
  BY <1>1 DEF TokenInv, StaleInv
<1>3. CASE stale[p] # NoToken
  BY <1>1, <1>3, ReturnToken DEF Unauthorized
<1>4. CASE stale[p] = NoToken
  <2>1. /\ \A q \in Proc \ {p} :
              pc'[q] = pc[q] /\ stale'[q] = stale[q] /\ shown'[q] = shown[q]
        /\ UNCHANGED <<renewed, found, left, waited>>
        /\ pc'[p] = "token" /\ stale'[p] = shown[p] /\ shown'[p] = NoToken
    BY <1>4 DEF Unauthorized, TypeOK
  <2>2. left' \in [Proc -> Nat]
    BY <2>1 DEF TokenInv, LifeInv
  <2>3. QED
    BY <1>1, <1>2, <2>1, <2>2, NobodyPresents
<1>5. QED
  BY <1>3, <1>4

LEMMA TickToken == ASSUME TypeOK, TokenInv, Tick PROVE TokenInv'
<1>1. UNCHANGED <<pc, stale, shown, token, rejected, renewed, found>>
  BY DEF Tick, tokens
<1>2. ttl' = Positive(ttl - 1) /\ ttl \in Nat
  BY DEF Tick, TypeOK
<1>3. StaleInv' /\ RefusedTokenNotRepeated'
  BY <1>1 DEF TokenInv, StaleInv, RefusedTokenNotRepeated
<1>4. FetchInv'
  BY <1>1, <1>2, ParameterTypes DEF Parameters, TokenInv, FetchInv, Positive
<1>5. left' \in [Proc -> Nat]
  BY DEF Tick, TokenInv, LifeInv, Positive
<1>6. ASSUME NEW p \in found', pc'[p] = "answer", stale'[p] = NoToken
      PROVE  left'[p] + waited'[p] > HttpTimeout
  <2>0. p \in found /\ p \in Proc
    BY <1>1, <1>6 DEF TypeOK
  <2>1. left[p] + waited[p] > HttpTimeout /\ left[p] \in Nat
    BY <1>1, <1>6, <2>0 DEF TokenInv, LifeInv
  <2>2. waited[p] \in 0 .. HttpTimeout /\ waited[p] < HttpTimeout
    BY <1>1, <1>6, <2>0 DEF Tick, InExchange, TypeOK
  <2>3. waited'[p] = waited[p] + 1 /\ left'[p] = Positive(left[p] - 1)
    BY <1>1, <1>6, <2>0 DEF Tick, InExchange, TokenInv, LifeInv
  <2>4. QED
    BY <2>1, <2>2, <2>3, ParameterTypes DEF Parameters, Positive
<1>7. LifeInv'
  BY <1>5, <1>6 DEF LifeInv
<1>8. QED
  BY <1>3, <1>4, <1>7 DEF TokenInv

-----------------------------------------------------------------------------
\* IInv is inductive.
LEMMA InvInit == Init => IInv
<1> SUFFICES ASSUME Init PROVE IInv
  OBVIOUS
<1>1. TypeOK
  BY ParameterTypes DEF Parameters, Init, TypeOK, Phase
<1>2. /\ \A p \in Proc : pc[p] = "idle" /\ stale[p] = NoToken /\ shown[p] = NoToken
      /\ idleFor = 1 /\ found = {} /\ left = [p \in Proc |-> 0]
  BY DEF Init
<1>3. SlotInv
  BY <1>2 DEF SlotInv, Queued
<1>4. StaleInv /\ FetchInv /\ RefusedTokenNotRepeated
  BY <1>2 DEF StaleInv, FetchInv, RefusedTokenNotRepeated
<1>5. LifeInv
  BY <1>2 DEF LifeInv
<1>6. QED
  BY <1>1, <1>3, <1>4, <1>5 DEF IInv

LEMMA InvSplit == IInv <=> TypeOK /\ SlotInv /\ TokenInv
BY DEF IInv, TokenInv

LEMMA InvStep == IInv /\ [Next]_vars => (TypeOK /\ SlotInv /\ TokenInv)'
<1> SUFFICES ASSUME IInv, [Next]_vars PROVE TypeOK' /\ SlotInv' /\ TokenInv'
  OBVIOUS
<1>0. TypeOK /\ SlotInv /\ TokenInv /\ StaleInv
  BY InvSplit DEF TokenInv
<1>1. ASSUME NEW p \in Proc, Wait(p) PROVE TypeOK' /\ SlotInv' /\ TokenInv'
  BY <1>0, <1>1, WaitType, WaitSlots, WaitToken
<1>2. ASSUME NEW p \in Proc, Wake(p) PROVE TypeOK' /\ SlotInv' /\ TokenInv'
  BY <1>0, <1>2, WakeType, WakeSlots, WakeToken
<1>3. ASSUME NEW p \in Proc, GiveUp(p) PROVE TypeOK' /\ SlotInv' /\ TokenInv'
  <2>1. TypeOK'
    BY <1>0, <1>3, GiveUpType
  <2>2. SlotInv'
    BY <1>0, <1>3, NobodyQueues DEF GiveUp, Return, passes, TypeOK
  <2>3. TokenInv'
    BY <1>0, <1>3, ReturnToken DEF GiveUp, cache
  <2>4. QED
    BY <2>1, <2>2, <2>3
<1>4. ASSUME NEW p \in Proc, UseToken(p) PROVE TypeOK' /\ SlotInv' /\ TokenInv'
  <2>1. SlotInv'
    BY <1>0, <1>4, NobodyQueues DEF UseToken, Post, TypeOK
  <2>2. QED
    BY <1>0, <1>4, <2>1, UseTokenType, UseTokenToken
<1>5. ASSUME NEW p \in Proc, Fetch(p) PROVE TypeOK' /\ SlotInv' /\ TokenInv'
  <2>1. SlotInv'
    BY <1>0, <1>5, NobodyQueues DEF Fetch, passes, TypeOK
  <2>2. QED
    BY <1>0, <1>5, <2>1, FetchType, FetchToken
<1>6. ASSUME NEW p \in Proc, FetchOk(p) PROVE TypeOK' /\ SlotInv' /\ TokenInv'
  <2>1. SlotInv'
    BY <1>0, <1>6, NobodyQueues DEF FetchOk, Post, TypeOK
  <2>2. QED
    BY <1>0, <1>6, <2>1, FetchOkType, FetchOkToken
<1>7. ASSUME NEW p \in Proc, FetchFails(p) PROVE TypeOK' /\ SlotInv' /\ TokenInv'
  <2>1. SlotInv'
    BY <1>0, <1>7, NobodyQueues DEF FetchFails, Return, passes, TypeOK
  <2>2. TokenInv'
    BY <1>0, <1>7, ReturnToken DEF FetchFails, cache
  <2>3. QED
    BY <1>0, <1>7, <2>1, <2>2, FetchFailsType
<1>8. ASSUME NEW p \in Proc, Answered(p) PROVE TypeOK' /\ SlotInv' /\ TokenInv'
  <2>1. SlotInv'
    BY <1>0, <1>8, NobodyQueues DEF Answered, Return, passes, TypeOK
  <2>2. TokenInv'
    BY <1>0, <1>8, ReturnToken DEF Answered, cache
  <2>3. QED
    BY <1>0, <1>8, <2>1, <2>2, AnsweredType
<1>9. ASSUME NEW p \in Proc, Unauthorized(p) PROVE TypeOK' /\ SlotInv' /\ TokenInv'
  <2>1. \A q \in Proc : pc'[q] = "sleep" => pc[q] = "sleep"
    BY <1>0, <1>9 DEF Unauthorized, Return, TypeOK
  <2>2. SlotInv'
    BY <1>0, <1>9, <2>1, NobodyQueues DEF Unauthorized, passes
  <2>3. QED
    BY <1>0, <1>9, <2>2, UnauthorizedType, UnauthorizedToken
<1>10. CASE Tick
  BY <1>0, <1>10, TickType, TickSlots, TickToken
<1>11. CASE UNCHANGED vars
  BY <1>0, <1>11
  DEF vars, cache, tokens, passes, TypeOK, SlotInv, Queued, TokenInv, StaleInv, FetchInv, LifeInv,
      RefusedTokenNotRepeated
<1>12. QED
  BY <1>1, <1>2, <1>3, <1>4, <1>5, <1>6, <1>7, <1>8, <1>9, <1>10, <1>11
  DEF Next, GetToken, EndExchange

LEMMA InvHolds == Spec => []IInv
<1>1. IInv /\ [Next]_vars => IInv'
  BY InvStep DEF IInv, TokenInv
<1>2. QED
  BY InvInit, <1>1, PTL DEF Spec

-----------------------------------------------------------------------------
\* The types; and the mutex is held by the caller that fetches, and by nobody
\* else (getToken).
THEOREM TypeCorrect == Spec => []TypeOK
<1>1. IInv => TypeOK
  BY DEF IInv
<1>2. QED
  BY <1>1, InvHolds, PTL

\* Whatever is refused meanwhile and whatever tokens Twitch hands out, the retry
\* presents the token that was refused only if that very token was handed out
\* again since (do, getToken).
THEOREM RetryIsWorthIt == Spec => []RefusedTokenNotRepeated
<1>1. IInv => RefusedTokenNotRepeated
  BY DEF IInv
<1>2. QED
  BY <1>1, InvHolds, PTL

\* For any lifetimes, a token found in the cache does not lapse while a first
\* request is under way with it (refreshMargin).
THEOREM TokenOutlives == Spec => []TokenOutlivesRequest
<1>1. IInv => TokenOutlivesRequest
  BY ParameterTypes DEF Parameters, IInv, LifeInv, TypeOK, TokenOutlivesRequest
<1>2. QED
  BY <1>1, InvHolds, PTL

\* Single flight: for any number of callers rejected with one token, only the
\* first replaces it (getToken).
THEOREM ReplacedForCause == Spec => TokenReplacedForCause
<1> DEFINE Cause == token' # token =>
                       token = NoToken \/ ttl <= Margin \/ token \in rejected
<1>1. IInv /\ [Next]_vars => [Cause]_vars
  <2>1. ASSUME IInv, NEW p \in Proc, FetchOk(p) PROVE Cause
    BY <2>1 DEF FetchOk, IInv, FetchInv
  <2>2. ASSUME Next, token' # token PROVE \E p \in Proc : FetchOk(p)
    BY <2>2
    DEF Next, GetToken, EndExchange, Wait, Wake, GiveUp, UseToken, Fetch, FetchFails,
        Answered, Unauthorized, Tick, cache
  <2>3. QED
    BY <2>1, <2>2
<1>2. QED
  BY <1>1, InvHolds, PTL DEF Spec, TokenReplacedForCause

\* For any number of callers the throttle lets one through per interval, however
\* they arrive, give up or bunch after an idle spell, as long as timers fire on
\* time (throttle.wait).
THEOREM OnePerInterval == Spec => OneCallerPerInterval
<1> DEFINE Due == \A p \in Proc :
                     pc[p] \in {"idle", "sleep"} /\ pc'[p] = "token" /\ delay[p] = 0 =>
                         idleFor >= 1
<1>1. IInv /\ [Next]_vars => [Due]_vars
  <2>1. ASSUME NEW p \in Proc, IInv, Next, pc[p] \in {"idle", "sleep"}, pc'[p] = "token"
        PROVE  Wait(p) \/ Wake(p)
    <3>1. pc \in [Proc -> Phase] /\ pc'[p] # pc[p]
      BY <2>1 DEF IInv, TypeOK
    <3>2. ASSUME NEW q \in Proc, q # p,
                 Wait(q) \/ Wake(q) \/ GiveUp(q) \/ GetToken(q) \/ EndExchange(q)
          PROVE  pc'[p] = pc[p]
      BY <3>1, <3>2
      DEF GetToken, EndExchange, Wait, Wake, GiveUp, UseToken, Post, Fetch, FetchOk,
          FetchFails, Answered, Unauthorized, Return
    <3>3. ~Tick
      BY <3>1 DEF Tick
    <3>4. ~GiveUp(p) /\ ~GetToken(p) /\ ~EndExchange(p)
      BY <2>1, <3>1
      DEF GetToken, EndExchange, GiveUp, UseToken, Post, Fetch, FetchOk, FetchFails,
          Answered, Unauthorized, Return
    <3>5. QED
      BY <2>1, <3>1, <3>2, <3>3, <3>4 DEF Next
  <2>2. ASSUME IInv, Next PROVE Due
    BY <2>1, <2>2, WhenDue DEF IInv
  <2>3. QED
    BY <2>2
<1>2. QED
  BY <1>1, InvHolds, PTL DEF Spec, OneCallerPerInterval

-----------------------------------------------------------------------------
(* The term of a search.  A recursive function is shown to exist, and what *)
(* it computes, by the least length for which it fails.                    *)

LEMMA Least ==
    ASSUME NEW S \in SUBSET Nat, S # {}
    PROVE  \E x \in S : \A y \in S : x <= y
<1>1. PICK x \in S : \A y \in S : ~(<<y, x>> \in OpToRel(<, Nat))
      BY NatLessThanWellFounded, WFMin
<1>2. ASSUME NEW y \in S PROVE ~(y < x)
  <2>1. <<y, x>> \notin OpToRel(<, Nat)
        BY <1>1
  <2>2. <<y, x>> \notin {ss \in Nat \X Nat : ss[1] < ss[2]}
        BY <2>1 DEF OpToRel
  <2> QED
        BY <2>2
<1> QED
      BY <1>2

\* f is FlattenSeq's list of what the first n of seqs come to.
Flattens(seqs, n, f) ==
    f = [i \in 1 .. n |-> IF i = 1 THEN seqs[i] ELSE f[i - 1] \o seqs[i]]

LEMMA FlattensExists ==
    ASSUME NEW seqs, NEW n \in Nat
    PROVE  \E f : Flattens(seqs, n, f)
<1> DEFINE Bad == {m \in Nat : ~ \E f : Flattens(seqs, m, f)}
<1>1. SUFFICES ASSUME Bad # {} PROVE FALSE
      OBVIOUS
<1>2. PICK m \in Bad : \A k \in Bad : m <= k
      BY <1>1, Least
<1>3. CASE m = 0
  <2>1. [i \in 1 .. 0 |-> seqs[i]] = [i \in 1 .. 0 |-> IF i = 1 THEN seqs[i] ELSE [j \in 1 .. 0 |-> seqs[j]][i - 1] \o seqs[i]]
        OBVIOUS
  <2> QED
        BY <1>2, <1>3, <2>1 DEF Flattens
<1>4. CASE m # 0
  <2>1. m - 1 \in Nat /\ m - 1 \notin Bad
        BY <1>2, <1>4
  <2>2. PICK f : Flattens(seqs, m - 1, f)
        BY <2>1
  <2> DEFINE g == [i \in 1 .. m |-> IF i < m THEN f[i]
                                    ELSE IF i = 1 THEN seqs[i] ELSE f[i - 1] \o seqs[i]]
  <2>3. ASSUME NEW i \in 1 .. m
        PROVE  g[i] = IF i = 1 THEN seqs[i] ELSE g[i - 1] \o seqs[i]
    <3>1. CASE i < m
      <4>1. i \in 1 .. m - 1 /\ g[i] = f[i] /\ (i # 1 => i - 1 \in 1 .. m /\ g[i - 1] = f[i - 1])
            BY <1>2, <3>1
      <4>2. f[i] = IF i = 1 THEN seqs[i] ELSE f[i - 1] \o seqs[i]
            BY <2>2, <4>1 DEF Flattens
      <4> QED
            BY <4>1, <4>2
    <3>2. CASE i = m
      <4>1. i # 1 => i - 1 \in 1 .. m /\ g[i - 1] = f[i - 1]
            BY <1>2, <3>2
      <4> QED
            BY <3>2, <4>1
    <3> QED
        BY <1>2, <3>1, <3>2
  <2>4. Flattens(seqs, m, g)
        BY <2>3 DEF Flattens
  <2> QED
        BY <1>2, <2>4
<1> QED
      BY <1>3, <1>4

LEMMA FlattenedBy ==
    ASSUME NEW S, NEW seqs \in Seq(S), seqs # <<>>
    PROVE  \E f : Flattens(seqs, Len(seqs), f) /\ FlattenSeq(seqs) = f[Len(seqs)]
<1>1. Len(seqs) \in Nat /\ Len(seqs) # 0
      BY EmptySeq
<1> DEFINE f == CHOOSE f : Flattens(seqs, Len(seqs), f)
<1>2. Flattens(seqs, Len(seqs), f)
      BY <1>1, FlattensExists
<1>3. FlattenSeq(seqs) = f[Len(seqs)]
      BY <1>1 DEF FlattenSeq, Flattens
<1> QED
      BY <1>2, <1>3

Agree(s, t, n) == \A i \in 1 .. n : s[i] = t[i]

\* The list does not depend on what follows.
LEMMA FlattensAgree ==
    ASSUME NEW seqs, NEW more, NEW n \in Nat, Agree(seqs, more, n),
           NEW f, NEW g, Flattens(seqs, n, f), Flattens(more, n + 1, g)
    PROVE  Agree(f, g, n)
<1> DEFINE Bad == {i \in Nat : i \in 1 .. n /\ f[i] # g[i]}
<1>1. SUFFICES ASSUME Bad # {} PROVE FALSE
      BY DEF Agree
<1>2. PICK i \in Bad : \A k \in Bad : i <= k
      BY <1>1, Least
<1>3. i \in 1 .. n /\ i \in 1 .. n + 1 /\ f[i] # g[i]
      BY <1>2
<1>4. /\ f[i] = IF i = 1 THEN seqs[i] ELSE f[i - 1] \o seqs[i]
      /\ g[i] = IF i = 1 THEN more[i] ELSE g[i - 1] \o more[i]
      BY <1>3 DEF Flattens
<1>5. i # 1 => i - 1 \in 1 .. n /\ i - 1 \notin Bad
      BY <1>2, <1>3
<1>6. seqs[i] = more[i]
      BY <1>3 DEF Agree
<1> QED
      BY <1>3, <1>4, <1>5, <1>6

LEMMA FlattenEmpty == FlattenSeq(<<>>) = <<>>
BY EmptySeq DEF FlattenSeq

LEMMA FlattenType ==
    ASSUME NEW S, NEW seqs \in Seq(Seq(S))
    PROVE  FlattenSeq(seqs) \in Seq(S)
<1>1. CASE seqs = <<>>
      BY <1>1, FlattenEmpty, EmptySeq
<1>2. CASE seqs # <<>>
  <2>1. Len(seqs) \in Nat /\ Len(seqs) # 0 /\ \A i \in 1 .. Len(seqs) : seqs[i] \in Seq(S)
        BY <1>2, EmptySeq
  <2>2. PICK f : Flattens(seqs, Len(seqs), f) /\ FlattenSeq(seqs) = f[Len(seqs)]
        BY <1>2, FlattenedBy
  <2> DEFINE Bad == {i \in Nat : i \in 1 .. Len(seqs) /\ f[i] \notin Seq(S)}
  <2>3. Bad = {}
    <3>1. SUFFICES ASSUME Bad # {} PROVE FALSE
          OBVIOUS
    <3>2. PICK i \in Bad : \A k \in Bad : i <= k
          BY <3>1, Least
    <3>3. i \in 1 .. Len(seqs)
          BY <3>2
    <3>4. f[i] = IF i = 1 THEN seqs[i] ELSE f[i - 1] \o seqs[i]
          BY <2>2, <3>3 DEF Flattens
    <3>5. i # 1 => i - 1 \in 1 .. Len(seqs) /\ i - 1 \notin Bad
          BY <2>1, <3>2, <3>3
    <3>6. i # 1 => f[i - 1] \in Seq(S)
          BY <3>3, <3>5
    <3>7. f[i] \in Seq(S)
          BY <2>1, <3>3, <3>4, <3>6, ConcatProperties
    <3> QED
          BY <3>2, <3>7
  <2> QED
        BY <2>1, <2>2, <2>3
<1> QED
      BY <1>1, <1>2

LEMMA FlattenAppend ==
    ASSUME NEW S, NEW seqs \in Seq(Seq(S)), NEW s \in Seq(S)
    PROVE  FlattenSeq(Append(seqs, s)) = FlattenSeq(seqs) \o s
<1> DEFINE more == Append(seqs, s)
           n == Len(seqs)
<1>1. /\ n \in Nat /\ more \in Seq(Seq(S)) /\ Len(more) = n + 1 /\ more # <<>>
      /\ more[n + 1] = s /\ \A i \in 1 .. n : seqs[i] = more[i]
      /\ n = Len(seqs)
      BY AppendProperties
<1> HIDE DEF more, n
<1>2. PICK g : Flattens(more, n + 1, g) /\ FlattenSeq(more) = g[n + 1]
  <2>1. \E g : Flattens(more, Len(more), g) /\ FlattenSeq(more) = g[Len(more)]
        BY <1>1, FlattenedBy
  <2> QED
        BY <1>1, <2>1
<1>3. g[n + 1] = IF n + 1 = 1 THEN s ELSE g[n] \o s
  <2>1. n + 1 \in 1 .. n + 1 /\ n + 1 - 1 = n
        BY <1>1
  <2>2. \A i \in 1 .. n + 1 : g[i] = IF i = 1 THEN more[i] ELSE g[i - 1] \o more[i]
        BY <1>2 DEF Flattens
  <2> QED
        BY <1>1, <2>1, <2>2
<1>4. CASE seqs = <<>>
  <2>1. n = 0
        BY <1>1, <1>4, EmptySeq
  <2> QED
        BY <1>1, <1>2, <1>3, <1>4, <2>1, FlattenEmpty, ConcatEmptySeq DEF more
<1>5. CASE seqs # <<>>
  <2>1. n # 0
        BY <1>1, <1>5, EmptySeq
  <2>2. PICK f : Flattens(seqs, n, f) /\ FlattenSeq(seqs) = f[n]
        BY <1>1, <1>5, FlattenedBy
  <2>3. Agree(seqs, more, n)
        BY <1>1 DEF Agree
  <2>4. f[n] = g[n]
    <3>1. Agree(f, g, n)
          BY <1>1, <1>2, <2>2, <2>3, FlattensAgree
    <3> QED
          BY <1>1, <2>1, <3>1 DEF Agree
  <2> QED
        BY <1>1, <1>2, <1>3, <2>1, <2>2, <2>4 DEF more
<1> QED
      BY <1>4, <1>5

-----------------------------------------------------------------------------
\* e says of each character of x whether it takes the next one with it.
Escaping(x, n, e) ==
    /\ e \in [0 .. n -> BOOLEAN]
    /\ e[0] = FALSE
    /\ \A i \in 1 .. n : e[i] = (x[i] = "backslash" /\ ~e[i - 1])

EscapesBy(x, n, e) ==
    e = [i \in 0 .. n |-> IF i = 0 THEN FALSE ELSE x[i] = "backslash" /\ ~e[i - 1]]

LEMMA EscapingExists ==
    ASSUME NEW x, NEW n \in Nat
    PROVE  \E e : Escaping(x, n, e)
<1> DEFINE Bad == {m \in Nat : ~ \E e : Escaping(x, m, e)}
<1>1. SUFFICES ASSUME Bad # {} PROVE FALSE
      OBVIOUS
<1>2. PICK m \in Bad : \A k \in Bad : m <= k
      BY <1>1, Least
<1>3. CASE m = 0
  <2>1. Escaping(x, 0, [i \in 0 .. 0 |-> FALSE])
        BY DEF Escaping
  <2> QED
        BY <1>2, <1>3, <2>1
<1>4. CASE m # 0
  <2>1. m - 1 \in Nat /\ m - 1 \notin Bad
        BY <1>2, <1>4
  <2>2. PICK e : Escaping(x, m - 1, e)
        BY <2>1
  <2> DEFINE d == [i \in 0 .. m |-> IF i < m THEN e[i] ELSE x[i] = "backslash" /\ ~e[i - 1]]
  <2>3. d \in [0 .. m -> BOOLEAN] /\ d[0] = FALSE
    <3>1. e[0] = FALSE /\ \A i \in 0 .. m - 1 : e[i] \in BOOLEAN
          BY <2>1, <2>2 DEF Escaping
    <3>2. ASSUME NEW i \in 0 .. m
          PROVE  (IF i < m THEN e[i] ELSE x[i] = "backslash" /\ ~e[i - 1]) \in BOOLEAN
      <4>1. i < m => i \in 0 .. m - 1
            BY <1>2
      <4> QED
            BY <3>1, <4>1
    <3>3. d \in [0 .. m -> BOOLEAN]
          BY <3>2
    <3>4. 0 \in 0 .. m /\ 0 < m
          BY <1>2, <1>4
    <3> QED
          BY <3>1, <3>3, <3>4
  <2>4. ASSUME NEW i \in 1 .. m PROVE d[i] = (x[i] = "backslash" /\ ~d[i - 1])
    <3>1. i - 1 \in 0 .. m /\ d[i - 1] = e[i - 1]
          BY <1>2
    <3>2. CASE i < m
          BY <1>2, <2>2, <3>1, <3>2 DEF Escaping
    <3>3. CASE i = m
          BY <3>1, <3>3
    <3> QED
          BY <1>2, <3>2, <3>3
  <2> HIDE DEF d
  <2>5. Escaping(x, m, d)
        BY <2>3, <2>4 DEF Escaping
  <2> QED
        BY <1>2, <2>5
<1> QED
      BY <1>3, <1>4

LEMMA EscapingIsBy ==
    ASSUME NEW x, NEW n \in Nat, NEW e
    PROVE  Escaping(x, n, e) <=> EscapesBy(x, n, e)
<1> DEFINE new(i) == IF i = 0 THEN FALSE ELSE x[i] = "backslash" /\ ~e[i - 1]
<1>0. \A i \in 0 .. n : i = 0 \/ i \in 1 .. n
      OBVIOUS
<1>1. ASSUME Escaping(x, n, e) PROVE EscapesBy(x, n, e)
  <2>1. \A i \in 0 .. n : e[i] = new(i)
        BY <1>0, <1>1 DEF Escaping
  <2>2. e = [i \in 0 .. n |-> e[i]]
        BY <1>1 DEF Escaping
  <2> HIDE DEF new
  <2>3. e = [i \in 0 .. n |-> new(i)]
        BY <2>1, <2>2
  <2> QED
        BY <2>3 DEF EscapesBy, new
<1>2. ASSUME EscapesBy(x, n, e) PROVE Escaping(x, n, e)
  <2>1. e = [i \in 0 .. n |-> new(i)]
        BY <1>2 DEF EscapesBy
  <2>2. \A i \in 0 .. n : new(i) \in BOOLEAN
        OBVIOUS
  <2>3. new(0) = FALSE /\ 0 \in 0 .. n
        OBVIOUS
  <2>4. ASSUME NEW i \in 1 .. n
        PROVE  i \in 0 .. n /\ new(i) = (x[i] = "backslash" /\ ~e[i - 1])
    <3>1. i \in 0 .. n /\ i # 0
          OBVIOUS
    <3>2. new(i) = (x[i] = "backslash" /\ ~e[i - 1])
          BY <3>1, Zenon
    <3> QED
          BY <3>1, <3>2
  <2> HIDE DEF new
  <2>5. e \in [0 .. n -> BOOLEAN] /\ \A i \in 0 .. n : e[i] = new(i)
        BY <2>1, <2>2
  <2> QED
        BY <2>3, <2>4, <2>5 DEF Escaping
<1> QED
      BY <1>1, <1>2

LEMMA EscapesEscaping ==
    ASSUME NEW S, NEW x \in Seq(S)
    PROVE  Escaping(x, Len(x), Escapes(x))
<1>0. Len(x) \in Nat
      OBVIOUS
<1>1. \E e : EscapesBy(x, Len(x), e)
  <2>1. PICK e : Escaping(x, Len(x), e)
        BY <1>0, EscapingExists
  <2> QED
        BY <1>0, <2>1, EscapingIsBy
<1>2. Escapes(x) = CHOOSE e : EscapesBy(x, Len(x), e)
      BY DEF Escapes, EscapesBy
<1>3. EscapesBy(x, Len(x), Escapes(x))
      BY <1>1, <1>2
<1> QED
      BY <1>0, <1>3, EscapingIsBy

\* The positions of the characters that take the next one with them.
Takes(x, n, E) ==
    /\ E \in SUBSET (1 .. n)
    /\ \A i \in 1 .. n : i \in E <=> x[i] = "backslash" /\ i - 1 \notin E

LEMMA EscapesTakes ==
    ASSUME NEW S, NEW x \in Seq(S)
    PROVE  \E E : /\ Takes(x, Len(x), E)
                  /\ \A i \in 0 .. Len(x) : Escapes(x)[i] <=> i \in E
<1> DEFINE n == Len(x)
           e == Escapes(x)
           E == {i \in 1 .. n : e[i]}
<1>1. Escaping(x, n, e) /\ n \in Nat
      BY EscapesEscaping
<1> HIDE DEF e, n
<1>2. \A i \in 0 .. n : e[i] <=> i \in E
  <2>1. SUFFICES ASSUME NEW i \in 0 .. n PROVE e[i] <=> i \in E
        OBVIOUS
  <2>2. CASE i = 0
        BY <1>1, <2>2 DEF Escaping
  <2>3. CASE i # 0
    <3>1. i \in 1 .. n
          BY <1>1, <2>3
    <3> QED
          BY <3>1
  <2> QED
        BY <2>2, <2>3
<1>3. ASSUME NEW i \in 1 .. n
      PROVE  i \in E <=> x[i] = "backslash" /\ i - 1 \notin E
  <2>1. e[i] = (x[i] = "backslash" /\ ~e[i - 1])
        BY <1>1 DEF Escaping
  <2>2. i \in 0 .. n /\ i - 1 \in 0 .. n
        BY <1>1
  <2>3. (e[i] <=> i \in E) /\ (e[i - 1] <=> i - 1 \in E)
        BY <1>2, <2>2
  <2> HIDE DEF E
  <2> QED
        BY <2>1, <2>3
<1>4. Takes(x, n, E)
  <2>1. E \in SUBSET (1 .. n)
        OBVIOUS
  <2> HIDE DEF E
  <2> QED
        BY <1>3, <2>1 DEF Takes
<1> HIDE DEF E
<1> QED
      BY <1>2, <1>4 DEF e, n

LEMMA TakesAgree ==
    ASSUME NEW x, NEW y, NEW n \in Nat, Agree(x, y, n),
           NEW E, NEW F, Takes(x, n, E), Takes(y, n + 1, F)
    PROVE  \A i \in 0 .. n : i \in E <=> i \in F
<1> DEFINE Bad == {i \in Nat : i \in 0 .. n /\ ~(i \in E <=> i \in F)}
<1>1. SUFFICES ASSUME Bad # {} PROVE FALSE
      OBVIOUS
<1>2. PICK i \in Bad : \A k \in Bad : i <= k
      BY <1>1, Least
<1>3. i \in 0 .. n /\ ~(i \in E <=> i \in F)
      BY <1>2
<1>4. i # 0
      BY <1>3 DEF Takes
<1>5. i \in 1 .. n /\ i \in 1 .. n + 1 /\ i - 1 \in Nat /\ i - 1 \in 0 .. n /\ ~(i <= i - 1)
      BY <1>3, <1>4
<1>6. i - 1 \in E <=> i - 1 \in F
      BY <1>2, <1>5
<1>7. x[i] = y[i]
      BY <1>5 DEF Agree
<1> QED
      BY <1>3, <1>5, <1>6, <1>7 DEF Takes

-----------------------------------------------------------------------------
\* What the characters of x say when those in E are not taken literally.
Says(x, E) == [k \in 1 .. Len(x) |-> IF k \in E THEN <<>> ELSE <<x[k]>>]

LEMMA AsAppend ==
    ASSUME NEW T, NEW n \in Nat, NEW s, NEW r, s \in [1 .. n + 1 -> T], r \in [1 .. n -> T],
           Agree(r, s, n)
    PROVE  r \in Seq(T) /\ s[n + 1] \in T /\ s = Append(r, s[n + 1])
<1>1. r \in Seq(T) /\ Len(r) = n
      BY SeqDef
<1>2. s \in Seq(T) /\ Len(s) = n + 1
  <2>1. n + 1 \in Nat
        OBVIOUS
  <2> QED
        BY <2>1, SeqDef
<1>3. n + 1 \in 1 .. n + 1 /\ s[n + 1] \in T
      OBVIOUS
<1> DEFINE a == Append(r, s[n + 1])
<1>4. a \in Seq(T) /\ Len(a) = n + 1 /\ a[n + 1] = s[n + 1] /\ \A i \in 1 .. n : a[i] = r[i]
      BY <1>1, <1>3, AppendProperties
<1> HIDE DEF a
<1>5. \A i \in 1 .. n + 1 : i \in 1 .. n \/ i = n + 1
      OBVIOUS
<1>6. \A i \in 1 .. n + 1 : s[i] = a[i]
      BY <1>4, <1>5 DEF Agree
<1>7. s = a
      BY <1>2, <1>4, <1>6, SeqEqual
<1> QED
      BY <1>1, <1>3, <1>7 DEF a

LEMMA SaysType ==
    ASSUME NEW x \in Seq(Char), NEW E
    PROVE  /\ Says(x, E) \in [1 .. Len(x) -> Seq(Char)]
           /\ Says(x, E) \in Seq(Seq(Char))
<1>1. Len(x) \in Nat /\ \A k \in 1 .. Len(x) : <<x[k]>> \in Seq(Char)
      OBVIOUS
<1>2. <<>> \in Seq(Char)
      BY EmptySeq
<1>3. Says(x, E) \in [1 .. Len(x) -> Seq(Char)]
      BY <1>1, <1>2 DEF Says
<1> QED
      BY <1>1, <1>3, SeqDef

LEMMA SaysMore ==
    ASSUME NEW x \in Seq(Char), NEW c \in Char, NEW E, NEW F,
           \A i \in 1 .. Len(x) : i \in E <=> i \in F
    PROVE  FlattenSeq(Says(Append(x, c), F))
             = IF Len(x) + 1 \in F THEN FlattenSeq(Says(x, E))
               ELSE Append(FlattenSeq(Says(x, E)), c)
<1> DEFINE y == Append(x, c)
           n == Len(x)
<1>1. /\ n \in Nat /\ n = Len(x) /\ y \in Seq(Char) /\ Len(y) = n + 1
      /\ y[n + 1] = c /\ \A i \in 1 .. n : y[i] = x[i]
      BY AppendProperties
<1> HIDE DEF y, n
<1>2. Says(y, F) \in [1 .. n + 1 -> Seq(Char)] /\ Says(x, E) \in [1 .. n -> Seq(Char)]
      BY <1>1, SaysType
<1>3. Agree(Says(x, E), Says(y, F), n)
      BY <1>1 DEF Agree, Says
<1>4. Says(y, F)[n + 1] = IF n + 1 \in F THEN <<>> ELSE <<c>>
      BY <1>1 DEF Says
<1>5. /\ Says(x, E) \in Seq(Seq(Char)) /\ Says(y, F)[n + 1] \in Seq(Char)
      /\ Says(y, F) = Append(Says(x, E), Says(y, F)[n + 1])
  <2> DEFINE s == Says(y, F)
             r == Says(x, E)
             T == Seq(Char)
  <2>1. n \in Nat /\ s \in [1 .. n + 1 -> T] /\ r \in [1 .. n -> T] /\ Agree(r, s, n)
        BY <1>1, <1>2, <1>3
  <2> HIDE DEF s, r, T
  <2>2. r \in Seq(T) /\ s[n + 1] \in T /\ s = Append(r, s[n + 1])
        BY <2>1, AsAppend
  <2> QED
        BY <2>2 DEF s, r, T
<1>6. FlattenSeq(Says(y, F)) = FlattenSeq(Says(x, E)) \o Says(y, F)[n + 1]
      BY <1>5, FlattenAppend
<1>7. FlattenSeq(Says(x, E)) \in Seq(Char)
      BY <1>5, FlattenType
<1>8. CASE n + 1 \in F
      BY <1>1, <1>4, <1>6, <1>7, <1>8, ConcatEmptySeq DEF y
<1>9. CASE n + 1 \notin F
      BY <1>1, <1>4, <1>6, <1>7, <1>9, AppendIsConcat DEF y
<1> QED
      BY <1>8, <1>9

\* x can be written after an opening quote: it ends no literal, leaves nothing
\* open, and says v.
Safe(x, v) ==
    /\ x \in Seq(Char)
    /\ \E E : /\ Takes(x, Len(x), E) /\ Len(x) \notin E
              /\ \A i \in 1 .. Len(x) : x[i] = "quote" => i - 1 \in E
              /\ FlattenSeq(Says(x, E)) = v

LEMMA NothingIsSafe == Safe(<<>>, <<>>)
<1>1. <<>> \in Seq(Char) /\ Len(<<>>) = 0
      BY EmptySeq
<1>2. Takes(<<>>, 0, {}) /\ 0 \notin {}
      BY DEF Takes
<1>3. Says(<<>>, {}) = <<>>
      BY <1>1 DEF Says
<1>4. FlattenSeq(Says(<<>>, {})) = <<>>
      BY <1>3, FlattenEmpty
<1> QED
      BY <1>1, <1>2, <1>4 DEF Safe

LEMMA PlainIsSafe ==
    ASSUME NEW x, NEW v, Safe(x, v), NEW c \in Char \ {"quote", "backslash"}
    PROVE  Safe(Append(x, c), Append(v, c))
<1> DEFINE y == Append(x, c)
           n == Len(x)
<1>1. /\ x \in Seq(Char) /\ n \in Nat /\ n = Len(x) /\ y \in Seq(Char) /\ Len(y) = n + 1
      /\ y[n + 1] = c /\ \A i \in 1 .. n : y[i] = x[i]
      BY AppendProperties DEF Safe
<1> HIDE DEF y, n
<1>2. PICK E : /\ Takes(x, n, E) /\ n \notin E
               /\ \A i \in 1 .. n : x[i] = "quote" => i - 1 \in E
               /\ FlattenSeq(Says(x, E)) = v
      BY <1>1 DEF Safe
<1>3. E \in SUBSET (1 .. n) /\ n + 1 \notin E
      BY <1>1, <1>2 DEF Takes
<1>4. \A i \in 1 .. n + 1 : i \in 1 .. n \/ i = n + 1
      BY <1>1
<1>5. Takes(y, n + 1, E)
  <2>1. E \in SUBSET (1 .. n + 1)
        BY <1>1, <1>3
  <2>2. \A i \in 1 .. n + 1 : i \in E <=> y[i] = "backslash" /\ i - 1 \notin E
        BY <1>1, <1>2, <1>3, <1>4 DEF Takes
  <2> QED
        BY <2>1, <2>2 DEF Takes
<1>6. \A i \in 1 .. n + 1 : y[i] = "quote" => i - 1 \in E
      BY <1>1, <1>2, <1>4
<1>7. FlattenSeq(Says(y, E)) = Append(v, c)
  <2>1. FlattenSeq(Says(y, E)) = IF n + 1 \in E THEN FlattenSeq(Says(x, E))
                                 ELSE Append(FlattenSeq(Says(x, E)), c)
        BY <1>1, SaysMore DEF y
  <2> QED
        BY <1>2, <1>3, <2>1
<1>8. Safe(y, Append(v, c))
      BY <1>1, <1>3, <1>5, <1>6, <1>7 DEF Safe
<1> QED
      BY <1>8 DEF y

LEMMA EscapedIsSafe ==
    ASSUME NEW x, NEW v, Safe(x, v), NEW c \in {"quote", "backslash"}
    PROVE  Safe(Append(Append(x, "backslash"), c), Append(v, c))
<1> DEFINE y == Append(x, "backslash")
           z == Append(y, c)
           n == Len(x)
<1>0. c \in Char /\ "backslash" \in Char
      BY DEF Char
<1>1. /\ x \in Seq(Char) /\ n \in Nat /\ n = Len(x) /\ y \in Seq(Char) /\ Len(y) = n + 1
      /\ y[n + 1] = "backslash" /\ \A i \in 1 .. n : y[i] = x[i]
      BY <1>0, AppendProperties DEF Safe
<1> HIDE DEF y
<1>2. /\ z \in Seq(Char) /\ Len(z) = n + 2 /\ z[n + 2] = c
      /\ \A i \in 1 .. n + 1 : z[i] = y[i]
  <2>1. Len(y) + 1 = n + 2
        BY <1>1
  <2> QED
        BY <1>0, <1>1, <2>1, AppendProperties
<1> HIDE DEF z, n
<1>3. PICK E : /\ Takes(x, n, E) /\ n \notin E
               /\ \A i \in 1 .. n : x[i] = "quote" => i - 1 \in E
               /\ FlattenSeq(Says(x, E)) = v
      BY <1>1 DEF Safe
<1> DEFINE F == E \cup {n + 1}
<1>4. E \in SUBSET (1 .. n) /\ n + 1 \notin E /\ n + 2 \notin E
      BY <1>1, <1>3 DEF Takes
<1>5. \A i \in 1 .. n + 2 : i \in 1 .. n \/ i = n + 1 \/ i = n + 2
      BY <1>1
<1>6. \A i \in 1 .. n : i - 1 # n + 1 /\ i # n + 1 /\ i \in 1 .. n + 1 /\ z[i] = x[i]
      BY <1>1, <1>2
<1>7. z[n + 1] = "backslash" /\ n + 1 - 1 = n /\ n + 2 - 1 = n + 1
      BY <1>1, <1>2
<1>8. Takes(z, n + 2, F)
  <2>1. F \in SUBSET (1 .. n + 2)
    <3>1. n + 1 \in 1 .. n + 2 /\ \A i \in 1 .. n : i \in 1 .. n + 2
          BY <1>1
    <3> QED
          BY <1>4, <3>1
  <2>2. ASSUME NEW i \in 1 .. n + 2 PROVE i \in F <=> z[i] = "backslash" /\ i - 1 \notin F
    <3>1. CASE i \in 1 .. n
          BY <1>3, <1>6, <3>1 DEF Takes
    <3>2. CASE i = n + 1
          BY <1>1, <1>3, <1>4, <1>7, <3>2
    <3>3. CASE i = n + 2
          BY <1>1, <1>4, <1>7, <3>3
    <3> QED
          BY <1>5, <3>1, <3>2, <3>3
  <2> QED
        BY <2>1, <2>2 DEF Takes
<1>9. ASSUME NEW i \in 1 .. n + 2, z[i] = "quote" PROVE i - 1 \in F
  <2>1. CASE i \in 1 .. n
        BY <1>3, <1>6, <1>9, <2>1
  <2>2. CASE i = n + 1
        BY <1>7, <1>9, <2>2
  <2>3. CASE i = n + 2
    <3>1. i - 1 = n + 1
          BY <1>1, <2>3
    <3> QED
          BY <3>1
  <2> QED
        BY <1>5, <2>1, <2>2, <2>3
<1>10. FlattenSeq(Says(y, F)) = v
  <2>1. \A i \in 1 .. Len(x) : i \in E <=> i \in F
        BY <1>1, <1>6
  <2> HIDE DEF F
  <2>2. FlattenSeq(Says(y, F)) = IF n + 1 \in F THEN FlattenSeq(Says(x, E))
                                 ELSE Append(FlattenSeq(Says(x, E)), "backslash")
        BY <1>0, <1>1, <2>1, SaysMore DEF y
  <2>3. n + 1 \in F
        BY DEF F
  <2> QED
        BY <1>3, <2>2, <2>3
<1>11. FlattenSeq(Says(z, F)) = Append(v, c)
  <2>1. n + 2 \notin F /\ Len(y) + 1 = n + 2
        BY <1>1, <1>4
  <2> HIDE DEF F
  <2>2. FlattenSeq(Says(z, F)) = IF Len(y) + 1 \in F THEN FlattenSeq(Says(y, F))
                                 ELSE Append(FlattenSeq(Says(y, F)), c)
        BY <1>0, <1>1, SaysMore DEF z
  <2> QED
        BY <1>10, <2>1, <2>2
<1>12. n + 2 \notin F
      BY <1>1, <1>4
<1> HIDE DEF F
<1>13. Safe(z, Append(v, c))
      BY <1>2, <1>8, <1>9, <1>11, <1>12 DEF Safe
<1> QED
      BY <1>13 DEF y, z

-----------------------------------------------------------------------------
\* What a term comes to, one character at a time.
LEMMA CharTypes ==
    ASSUME NEW c \in Char
    PROVE  EscapeChar(c) \in Seq(Char) /\ Meant(c) \in Seq(Char)
<1>1. \A a, b \in Char : <<a>> \in Seq(Char) /\ <<a, b>> \in Seq(Char)
      OBVIOUS
<1>2. <<>> \in Seq(Char)
      BY EmptySeq
<1>3. "space" \in Char /\ "backslash" \in Char
      BY DEF Char
<1>4. Meant(c) \in Seq(Char)
  <2>1. CASE c = "newline"
        BY <1>1, <1>3, <2>1 DEF Meant
  <2>2. CASE c = "control"
        BY <1>2, <2>2 DEF Meant
  <2>3. CASE c \notin {"newline", "control"}
        BY <1>1, <2>3 DEF Meant
  <2> QED
        BY <2>1, <2>2, <2>3
<1> QED
      BY <1>1, <1>3, <1>4 DEF EscapeChar

LEMMA TermTypes ==
    ASSUME NEW t \in Seq(Char)
    PROVE  /\ [i \in DOMAIN t |-> EscapeChar(t[i])] \in Seq(Seq(Char))
           /\ [i \in DOMAIN t |-> Meant(t[i])] \in Seq(Seq(Char))
           /\ [i \in DOMAIN t |-> EscapeChar(t[i])] \in [1 .. Len(t) -> Seq(Char)]
           /\ [i \in DOMAIN t |-> Meant(t[i])] \in [1 .. Len(t) -> Seq(Char)]
<1>1. Len(t) \in Nat /\ DOMAIN t = 1 .. Len(t) /\ \A i \in DOMAIN t : t[i] \in Char
      OBVIOUS
<1>2. /\ [i \in DOMAIN t |-> EscapeChar(t[i])] \in [1 .. Len(t) -> Seq(Char)]
      /\ [i \in DOMAIN t |-> Meant(t[i])] \in [1 .. Len(t) -> Seq(Char)]
      BY <1>1, CharTypes
<1> QED
      BY <1>1, <1>2, SeqDef

LEMMA TermMore ==
    ASSUME NEW t \in Seq(Char), NEW c \in Char
    PROVE  /\ EscapeSearchTerm(Append(t, c)) = EscapeSearchTerm(t) \o EscapeChar(c)
           /\ EachChar(Meant, Append(t, c)) = EachChar(Meant, t) \o Meant(c)
<1> DEFINE u == Append(t, c)
           n == Len(t)
           T == Seq(Char)
<1>1. /\ n \in Nat /\ n = Len(t) /\ u \in Seq(Char) /\ Len(u) = n + 1
      /\ DOMAIN t = 1 .. n /\ DOMAIN u = 1 .. n + 1
      /\ u[n + 1] = c /\ \A i \in 1 .. n : u[i] = t[i]
      BY AppendProperties
<1> HIDE DEF u, n
<1>2. \A i \in 1 .. n : i \in 1 .. n + 1
      BY <1>1
<1>3. n + 1 \in 1 .. n + 1
      BY <1>1
<1>4. EscapeSearchTerm(u) = EscapeSearchTerm(t) \o EscapeChar(c)
  <2> DEFINE s == [i \in DOMAIN u |-> EscapeChar(u[i])]
             r == [i \in DOMAIN t |-> EscapeChar(t[i])]
  <2>1. Agree(r, s, n) /\ s[n + 1] = EscapeChar(c)
        BY <1>1, <1>2, <1>3 DEF Agree
  <2>2. s \in [1 .. n + 1 -> T] /\ r \in [1 .. n -> T]
        BY <1>1, TermTypes
  <2>3. EscapeSearchTerm(u) = FlattenSeq(s) /\ EscapeSearchTerm(t) = FlattenSeq(r)
        BY DEF EscapeSearchTerm, EachChar
  <2> HIDE DEF s, r, T
  <2>4. r \in Seq(T) /\ s[n + 1] \in T /\ s = Append(r, s[n + 1])
    <3>1. n \in Nat /\ Agree(r, s, n)
          BY <1>1, <2>1
    <3> QED
          BY <2>2, <3>1, AsAppend
  <2> QED
        BY <2>1, <2>3, <2>4, FlattenAppend DEF T
<1>5. EachChar(Meant, u) = EachChar(Meant, t) \o Meant(c)
  <2> DEFINE s == [i \in DOMAIN u |-> Meant(u[i])]
             r == [i \in DOMAIN t |-> Meant(t[i])]
  <2>1. Agree(r, s, n) /\ s[n + 1] = Meant(c)
        BY <1>1, <1>2, <1>3 DEF Agree
  <2>2. s \in [1 .. n + 1 -> T] /\ r \in [1 .. n -> T]
        BY <1>1, TermTypes
  <2>3. EachChar(Meant, u) = FlattenSeq(s) /\ EachChar(Meant, t) = FlattenSeq(r)
        BY DEF EachChar
  <2> HIDE DEF s, r, T
  <2>4. r \in Seq(T) /\ s[n + 1] \in T /\ s = Append(r, s[n + 1])
    <3>1. n \in Nat /\ Agree(r, s, n)
          BY <1>1, <2>1
    <3> QED
          BY <2>2, <3>1, AsAppend
  <2> QED
        BY <2>1, <2>3, <2>4, FlattenAppend DEF T
<1> QED
      BY <1>4, <1>5 DEF u

\* One more character of a term keeps what is written safe.
LEMMA CharIsSafe ==
    ASSUME NEW x, NEW v \in Seq(Char), Safe(x, v), NEW c \in Char
    PROVE  Safe(x \o EscapeChar(c), v \o Meant(c))
<1>0. x \in Seq(Char) /\ "space" \in Char \ {"quote", "backslash"} /\ "backslash" \in Char
      BY DEF Safe, Char
<1>1. CASE c \in {"quote", "backslash"}
  <2>1. EscapeChar(c) = <<"backslash", c>> /\ Meant(c) = <<c>>
        BY <1>1 DEF EscapeChar, Meant
  <2>2. v \o <<c>> = Append(v, c)
        BY AppendIsConcat
  <2>3. x \o <<"backslash", c>> = Append(Append(x, "backslash"), c)
    <3>1. <<"backslash", c>> \in Seq(Char) /\ Len(<<"backslash", c>>) = 2
            /\ <<"backslash", c>>[1] = "backslash" /\ <<"backslash", c>>[2] = c
          BY <1>0
    <3>2. <<"backslash">> \in Seq(Char) /\ <<c>> \in Seq(Char)
          BY <1>0
    <3>3. <<"backslash", c>> = <<"backslash">> \o <<c>>
          OBVIOUS
    <3>4. x \o <<"backslash", c>> = (x \o <<"backslash">>) \o <<c>>
          BY <1>0, <3>2, <3>3, ConcatAssociative
    <3>5. x \o <<"backslash">> = Append(x, "backslash") /\ Append(x, "backslash") \in Seq(Char)
          BY <1>0, AppendIsConcat, AppendProperties
    <3>6. Append(x, "backslash") \o <<c>> = Append(Append(x, "backslash"), c)
          BY <3>5, AppendIsConcat
    <3> QED
          BY <3>4, <3>5, <3>6
  <2> QED
        BY <1>1, <2>1, <2>2, <2>3, EscapedIsSafe
<1>2. CASE c = "newline"
  <2>1. EscapeChar(c) = <<"space">> /\ Meant(c) = <<"space">>
        BY <1>2 DEF EscapeChar, Meant
  <2>2. x \o <<"space">> = Append(x, "space") /\ v \o <<"space">> = Append(v, "space")
        BY <1>0, AppendIsConcat
  <2> QED
        BY <1>0, <2>1, <2>2, PlainIsSafe
<1>3. CASE c = "control"
  <2>1. EscapeChar(c) = <<>> /\ Meant(c) = <<>>
        BY <1>3 DEF EscapeChar, Meant
  <2>2. x \o <<>> = x /\ v \o <<>> = v
        BY <1>0, ConcatEmptySeq
  <2> QED
        BY <2>1, <2>2
<1>4. CASE c \notin {"quote", "backslash", "newline", "control"}
  <2>1. EscapeChar(c) = <<c>> /\ Meant(c) = <<c>>
        BY <1>4 DEF EscapeChar, Meant
  <2>2. x \o <<c>> = Append(x, c) /\ v \o <<c>> = Append(v, c)
        BY <1>0, AppendIsConcat
  <2> QED
        BY <1>4, <2>1, <2>2, PlainIsSafe
<1> QED
      BY <1>1, <1>2, <1>3, <1>4

LEMMA TermIsSafe ==
    ASSUME NEW t \in Seq(Char)
    PROVE  Safe(EscapeSearchTerm(t), EachChar(Meant, t))
<1> DEFINE Fine(s) == Safe(EscapeSearchTerm(s), EachChar(Meant, s))
           Bad == {n \in Nat : \E s \in Seq(Char) : Len(s) = n /\ ~Fine(s)}
<1>1. SUFFICES ASSUME Bad # {} PROVE FALSE
  <2>1. Len(t) \in Nat
        OBVIOUS
  <2> QED
        BY <2>1
<1>2. PICK n \in Bad : \A k \in Bad : n <= k
      BY <1>1, Least
<1>3. PICK s \in Seq(Char) : Len(s) = n /\ ~Fine(s)
      BY <1>2
<1>4. CASE s = <<>>
  <2>1. EscapeSearchTerm(<<>>) = <<>> /\ EachChar(Meant, <<>>) = <<>>
    <3>1. [i \in DOMAIN <<>> |-> EscapeChar(<<>>[i])] = <<>>
            /\ [i \in DOMAIN <<>> |-> Meant(<<>>[i])] = <<>>
          BY EmptySeq
    <3> QED
          BY <3>1, FlattenEmpty DEF EscapeSearchTerm, EachChar
  <2> QED
        BY <1>3, <1>4, <2>1, NothingIsSafe
<1>5. CASE s # <<>>
  <2>1. PICK r \in Seq(Char), c \in Char : s = Append(r, c)
        BY <1>5, SequenceEmptyOrAppend
  <2>2. Len(s) = Len(r) + 1 /\ Len(r) \in Nat
        BY <2>1, AppendProperties
  <2>3. Fine(r)
    <3>1. Len(r) \notin Bad
          BY <1>2, <1>3, <2>2
    <3> QED
          BY <2>2, <3>1
  <2>4. EachChar(Meant, r) \in Seq(Char)
        BY TermTypes, FlattenType DEF EachChar
  <2>5. Safe(EscapeSearchTerm(r) \o EscapeChar(c), EachChar(Meant, r) \o Meant(c))
        BY <2>3, <2>4, CharIsSafe
  <2>6. Fine(s)
        BY <2>1, <2>5, TermMore
  <2> QED
        BY <1>3, <2>6
<1> QED
      BY <1>4, <1>5

-----------------------------------------------------------------------------
\* The literal that is closed after a safe text ends there and says what it
\* should.
LEMMA SafeIsClosed ==
    ASSUME NEW x, NEW v, Safe(x, v)
    PROVE  LET text == x \o <<"quote">> IN
           /\ Closing(text) = {Len(text)}
           /\ Value(text, Len(text)) = v
<1> DEFINE text == x \o <<"quote">>
           n == Len(x)
<1>0. "quote" \in Char
      BY DEF Char
<1>1. /\ x \in Seq(Char) /\ n \in Nat /\ n = Len(x) /\ text \in Seq(Char)
      /\ Len(text) = n + 1 /\ DOMAIN text = 1 .. n + 1
      /\ text[n + 1] = "quote" /\ \A i \in 1 .. n : text[i] = x[i]
  <2>1. x \in Seq(Char) /\ text = Append(x, "quote")
        BY <1>0, AppendIsConcat DEF Safe
  <2> HIDE DEF text
  <2> QED
        BY <1>0, <2>1, AppendProperties
<1> HIDE DEF text, n
<1>2. PICK E : /\ Takes(x, n, E) /\ n \notin E
               /\ \A i \in 1 .. n : x[i] = "quote" => i - 1 \in E
               /\ FlattenSeq(Says(x, E)) = v
      BY <1>1 DEF Safe
<1>3. PICK F : /\ Takes(text, n + 1, F)
               /\ \A i \in 0 .. n + 1 : Escapes(text)[i] <=> i \in F
      BY <1>1, EscapesTakes
<1>4. \A i \in 0 .. n : i \in E <=> i \in F
  <2>1. Agree(x, text, n)
        BY <1>1 DEF Agree
  <2> QED
        BY <1>1, <1>2, <1>3, <2>1, TakesAgree
<1>5. \A i \in 1 .. n + 1 : /\ i - 1 \in 0 .. n /\ i - 1 \in 0 .. n + 1
                            /\ (i \in 1 .. n \/ i = n + 1)
      BY <1>1
<1>6. n \in 0 .. n /\ n + 1 - 1 = n /\ n + 1 \in 1 .. n + 1 /\ \A i \in 1 .. n : i \in 0 .. n
      BY <1>1
<1>7. Closing(text) = {n + 1}
  <2>1. ASSUME NEW i \in 1 .. n, text[i] = "quote" PROVE Escapes(text)[i - 1]
    <3>1. i \in 1 .. n + 1
          BY <1>1
    <3>2. i - 1 \in E
          BY <1>1, <1>2, <2>1
    <3> QED
          BY <1>3, <1>4, <1>5, <3>1, <3>2
  <2>2. ~Escapes(text)[n + 1 - 1]
        BY <1>2, <1>3, <1>4, <1>5, <1>6
  <2> QED
        BY <1>1, <1>5, <1>6, <2>1, <2>2 DEF Closing
<1>8. Value(text, n + 1) = FlattenSeq(Says(x, F))
  <2> DEFINE ks == [k \in 1 .. n |-> k]
             said(k) == IF Escapes(text)[k] THEN <<>> ELSE <<text[k]>>
  <2>1. Value(text, n + 1) = FlattenSeq([i \in DOMAIN ks |-> said(ks[i])])
        BY <1>6 DEF Value, EachChar
  <2>2. [i \in DOMAIN ks |-> said(ks[i])] = [i \in 1 .. n |-> said(i)]
    <3> HIDE DEF said
    <3> QED
        OBVIOUS
  <2>3. ASSUME NEW i \in 1 .. n
        PROVE  said(i) = IF i \in F THEN <<>> ELSE <<x[i]>>
    <3>1. i \in 0 .. n + 1 /\ text[i] = x[i]
          BY <1>1
    <3>2. Escapes(text)[i] <=> i \in F
          BY <1>3, <3>1
    <3> QED
          BY <3>1, <3>2
  <2> HIDE DEF said, ks
  <2>4. [i \in 1 .. n |-> said(i)] = Says(x, F)
        BY <1>1, <2>3 DEF Says
  <2> QED
        BY <2>1, <2>2, <2>4
<1>9. Says(x, F) = Says(x, E)
      BY <1>1, <1>4, <1>6 DEF Says
<1> QED
      BY <1>1, <1>2, <1>7, <1>8, <1>9 DEF text

LEMMA TrimType ==
    ASSUME NEW q \in Seq(Char)
    PROVE  TrimSpace(q) \in Seq(Char)
<1> DEFINE kept == {i \in DOMAIN q : ~IsSpace(q[i])}
           first == CHOOSE i \in kept : \A j \in kept : i <= j
           last == CHOOSE i \in kept : \A j \in kept : j <= i
<1>1. Len(q) \in Nat /\ DOMAIN q = 1 .. Len(q) /\ \A i \in DOMAIN q : q[i] \in Char
      OBVIOUS
<1>2. CASE kept = {}
  <2>1. TrimSpace(q) = <<>>
        BY <1>2 DEF TrimSpace
  <2> QED
        BY <2>1, EmptySeq
<1>3. CASE kept # {}
  <2>1. kept \in SUBSET Nat
        BY <1>1
  <2>2. \E i \in kept : \A j \in kept : i <= j
    <3> HIDE DEF kept
    <3> QED
        BY <1>3, <2>1, Least
  <2>3. \E i \in kept : \A j \in kept : j <= i
    <3> DEFINE back == {Len(q) - i : i \in kept}
    <3>1. back \in SUBSET Nat /\ back # {}
          BY <1>1, <1>3
    <3>2. PICK b \in back : \A c \in back : b <= c
      <4> HIDE DEF back
      <4> QED
          BY <3>1, Least
    <3>3. PICK i \in kept : b = Len(q) - i
          BY <3>2
    <3>4. \A j \in kept : Len(q) - i <= Len(q) - j
          BY <3>2, <3>3
    <3>5. \A j \in kept : j <= i
          BY <1>1, <2>1, <3>4
    <3> QED
          BY <3>5
  <2>4. first \in kept /\ last \in kept
    <3> HIDE DEF kept
    <3> QED
        BY <2>2, <2>3
  <2>5. first \in DOMAIN q /\ last \in DOMAIN q
        BY <2>4
  <2>6. TrimSpace(q) = SubSeq(q, first, last)
        BY <1>3 DEF TrimSpace
  <2> HIDE DEF first, last
  <2>7. first \in Int /\ last \in Int /\ \A i \in first .. last : q[i] \in Char
        BY <1>1, <2>5
  <2>8. SubSeq(q, first, last) \in Seq(Char)
        BY <2>7, SubSeqProperties
  <2> QED
        BY <2>6, <2>8
<1> QED
      BY <1>2, <1>3

LEMMA LimitIsBounded ==
    ASSUME NEW raw \in Limits, raw # NotANumber, ~(raw # NoLimit /\ raw < 1)
    PROVE  Limit(raw) \in 1 .. SearchMaxLimit
<1>1. SearchMaxLimit \in Nat /\ SearchDefaultLimit \in 1 .. SearchMaxLimit
      BY QueryAssumption
<1>2. CASE raw = NoLimit
      BY <1>1, <1>2 DEF Limit
<1>3. CASE raw # NoLimit
  <2>1. raw \in 0 .. SearchMaxLimit + 1 /\ ~(raw < 1)
        BY <1>3 DEF Limits
  <2>2. SearchMaxLimit \in 1 .. SearchMaxLimit
        BY <1>1
  <2> QED
        BY <1>1, <1>3, <2>1, <2>2 DEF Limit
<1> QED
      BY <1>2, <1>3

\* For terms of any length and any limit asked for: one closing quote, at the
\* end, and between the quotes what was typed (SearchGames, escapeSearchTerm).
THEOREM TermsAreQuoted == EveryTermIsQuoted
<1> SUFFICES ASSUME NEW q \in Terms, NEW raw \in Limits, SearchGames(q, raw) # BadRequest
             PROVE  LET query == SearchGames(q, raw) IN
                    /\ Closing(query.text) = {Len(query.text)}
                    /\ Value(query.text, Len(query.text)) = EachChar(Meant, TrimSpace(q))
                    /\ query.limit \in 1 .. SearchMaxLimit
    BY DEF EveryTermIsQuoted
<1> DEFINE t == TrimSpace(q)
           query == SearchGames(q, raw)
<1>1. q \in Seq(Char)
  <2>1. PICK n \in 0 .. MaxTerm : q \in [1 .. n -> Char]
        BY DEF Terms
  <2>2. n \in Nat
        BY QueryAssumption
  <2> QED
        BY <2>1, <2>2, SeqDef
<1>2. t \in Seq(Char)
      BY <1>1, TrimType
<1>3. /\ query.text = EscapeSearchTerm(t) \o <<"quote">> /\ query.limit = Limit(raw)
      /\ raw # NotANumber /\ ~(raw # NoLimit /\ raw < 1)
      BY DEF SearchGames, Search
<1> HIDE DEF t, query
<1>4. Safe(EscapeSearchTerm(t), EachChar(Meant, t))
      BY <1>2, TermIsSafe
<1>5. Closing(query.text) = {Len(query.text)}
        /\ Value(query.text, Len(query.text)) = EachChar(Meant, t)
      BY <1>3, <1>4, SafeIsClosed
<1>6. query.limit \in 1 .. SearchMaxLimit
      BY <1>3, LimitIsBounded
<1> QED
      BY <1>5, <1>6 DEF t, query

\* Whatever is typed, of any length, the term ends where the server ends it and
\* is read as it was typed (escapeSearchTerm, SearchGames, Search).
THEOREM TermsStay == Spec => TermStaysInItsLiteral
<1>1. Sends => EveryTermIsQuoted
      BY TermsAreQuoted
<1> QED
      BY <1>1, PTL DEF Spec, TermStaysInItsLiteral
=============================================================================
