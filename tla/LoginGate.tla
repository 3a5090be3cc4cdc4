----------------------------- MODULE LoginGate ------------------------------
(***************************************************************************)
(* What guards POST /authenticate: two limiters, one per address and one   *)
(* per account, asked before the password is looked at and told of the     *)
(* outcome after.  Each call to a limiter is atomic, the handler is not:   *)
(* between asking and telling it reads the database and runs bcrypt, and   *)
(* other requests do the same.                                             *)
(*                                                                         *)
(* The limiters live in memory: a restart forgets them.                    *)
(***************************************************************************)
EXTENDS LimiterOps, Clock

CONSTANTS
    Ip, Email,              \* keys: client addresses, normalized emails
    Proc,                   \* clients, each with one request at a time
    IpMax, IpWindow,        \* failures allowed per address
    EmailMax, EmailWindow,  \* failures allowed per account
    Second                  \* instants in the unit of Retry-After

ASSUME LoginGateAssumption ==
    {IpMax, IpWindow, EmailMax, EmailWindow, Second} \subseteq Nat \ {0}

VARIABLES
    ipLimiter,      \* app.loginIPLimiter
    emailLimiter,   \* app.loginEmailLimiter
    pc,             \* the next call of each client's request
    req,            \* its address and email
    ipCheck,        \* what the address limiter answered, and when
    reply,          \* what the client was answered last
    \* Histories, for the properties alone, pruned to the window:
    attempts,       \* when each client was let through per email,
    fresh,          \* those of them since the account's limiter was emptied,
    resets          \* and when it was, by a login or a restart

limiters == <<ipLimiter, emailLimiter>>
histories == <<attempts, fresh, resets>>
gateVars == <<now, limiters, pc, req, ipCheck, reply, histories>>

Phase == {"idle", "checkIp", "checkEmail", "verify", "countIp", "countEmail",
          "resetIp", "resetEmail"}

NoReq == [ip |-> "none", email |-> "none"]
NoCheck == [ok |-> TRUE, wait |-> 0, at |-> 0]
Say(what) == [kind |-> what, seconds |-> 0]
NoAttempts == [p \in Proc |-> [e \in Email |-> << >>]]

Within(times) == Prune(times, now - EmailWindow)
AndNow(times) == Append(Within(times), now)

At(p, phase) == pc[p] = phase /\ UNCHANGED now
Goto(p, phase) == pc' = [pc EXCEPT ![p] = phase] /\ UNCHANGED <<req, reply>>

Finish(p, outcome) ==
    /\ pc' = [pc EXCEPT ![p] = "idle"]
    /\ req' = [req EXCEPT ![p] = NoReq]
    /\ ipCheck' = [ipCheck EXCEPT ![p] = NoCheck]
    /\ reply' = [reply EXCEPT ![p] = outcome]

-----------------------------------------------------------------------------
\* A body that does not bind is answered 400 and counted nowhere.
RefuseBody(p) ==
    /\ pc[p] = "idle"
    /\ reply' = [reply EXCEPT ![p] = Say("badRequest")]
    /\ UNCHANGED <<now, limiters, pc, req, ipCheck, histories>>

Authenticate(p, ip, email) ==
    /\ At(p, "idle")
    /\ pc' = [pc EXCEPT ![p] = "checkIp"]
    /\ req' = [req EXCEPT ![p] = [ip |-> ip, email |-> email]]
    /\ reply' = [reply EXCEPT ![p] = Say("none")]
    /\ UNCHANGED <<limiters, ipCheck, histories>>

CheckIp(p) ==
    LET c == Check(ipLimiter, req[p].ip, now) IN
    /\ At(p, "checkIp")
    /\ ipLimiter' = c.limiter
    /\ ipCheck' = [ipCheck EXCEPT
                      ![p] = [ok |-> c.ok, wait |-> c.retryAfter, at |-> now]]
    /\ Goto(p, "checkEmail")
    /\ UNCHANGED <<emailLimiter, histories>>

Longer(d, e) == IF d >= e THEN d ELSE e

\* Mutant of Wait: the shorter of the two.
WaitShorter(ipWait, emailWait) == IF ipWait >= emailWait THEN emailWait ELSE ipWait

\* What loginBlocked returns when either limiter refuses.
Wait(ipWait, emailWait) == Longer(ipWait, emailWait)

\* Rounded up, and never 0.
RetryAfterSeconds(wait) == Longer((wait + Second - 1) \div Second, 1)

\* Both limiters are asked, also when the first refuses.
CheckEmail(p) ==
    LET c == Check(emailLimiter, req[p].email, now) IN
    /\ At(p, "checkEmail")
    /\ emailLimiter' = c.limiter
    /\ UNCHANGED ipLimiter
    /\ IF ipCheck[p].ok /\ c.ok
       THEN /\ attempts' = [attempts EXCEPT ![p][req[p].email] = AndNow(@)]
            /\ fresh' = [fresh EXCEPT ![p][req[p].email] = AndNow(@)]
            /\ Goto(p, "verify")
            /\ UNCHANGED <<ipCheck, resets>>
       ELSE /\ Finish(p, [kind |-> "tooMany",
                          seconds |-> RetryAfterSeconds(
                                          Wait(ipCheck[p].wait, c.retryAfter))])
            /\ UNCHANGED histories

\* Mutant of Verify: an error of the database is answered without counting.
VerifyErrorUncounted(p) ==
    /\ At(p, "verify")
    /\ \/ (Goto(p, "countIp") \/ Goto(p, "resetIp")) /\ UNCHANGED ipCheck
       \/ Finish(p, Say("invalid"))
    /\ UNCHANGED <<limiters, histories>>

\* GetUserByEmail and PasswordMatches: an error of either counts as a failure.
Verify(p) ==
    /\ At(p, "verify")
    /\ Goto(p, "countIp") \/ Goto(p, "resetIp")
    /\ UNCHANGED <<limiters, ipCheck, histories>>

CountIp(p) ==
    /\ At(p, "countIp")
    /\ ipLimiter' = Record(ipLimiter, req[p].ip, now)
    /\ Goto(p, "countEmail")
    /\ UNCHANGED <<emailLimiter, ipCheck, histories>>

CountEmail(p) ==
    /\ At(p, "countEmail")
    /\ emailLimiter' = Record(emailLimiter, req[p].email, now)
    /\ Finish(p, Say("invalid"))
    /\ UNCHANGED <<ipLimiter, histories>>

ResetIp(p) ==
    /\ At(p, "resetIp")
    /\ ipLimiter' = Reset(ipLimiter, req[p].ip)
    /\ Goto(p, "resetEmail")
    /\ UNCHANGED <<emailLimiter, ipCheck, histories>>

\* The session that follows is Sessions!StartLogin; it may fail.
ResetEmail(p) ==
    /\ At(p, "resetEmail")
    /\ emailLimiter' = Reset(emailLimiter, req[p].email)
    /\ fresh' = [q \in Proc |-> [fresh[q] EXCEPT ![req[p].email] = << >>]]
    /\ resets' = [resets EXCEPT ![req[p].email] = AndNow(@)]
    /\ \E what \in {"session", "failed"} : Finish(p, Say(what))
    /\ UNCHANGED <<ipLimiter, attempts>>

Restart ==
    /\ ipLimiter' = NewLimiter(IpMax, IpWindow)
    /\ emailLimiter' = NewLimiter(EmailMax, EmailWindow)
    /\ pc' = [p \in Proc |-> "idle"]
    /\ req' = [p \in Proc |-> NoReq]
    /\ ipCheck' = [p \in Proc |-> NoCheck]
    /\ reply' = [p \in Proc |-> Say("none")]
    /\ fresh' = NoAttempts
    /\ resets' = [e \in Email |-> AndNow(resets[e])]
    /\ UNCHANGED <<now, attempts>>

GateTick ==
    /\ Advance
    /\ UNCHANGED <<limiters, pc, req, ipCheck, reply, histories>>

GateInit ==
    /\ now = 0
    /\ ipLimiter = NewLimiter(IpMax, IpWindow)
    /\ emailLimiter = NewLimiter(EmailMax, EmailWindow)
    /\ pc = [p \in Proc |-> "idle"]
    /\ req = [p \in Proc |-> NoReq]
    /\ ipCheck = [p \in Proc |-> NoCheck]
    /\ reply = [p \in Proc |-> Say("none")]
    /\ attempts = NoAttempts
    /\ fresh = NoAttempts
    /\ resets = [e \in Email |-> << >>]

Step(p) ==
    \/ RefuseBody(p)
    \/ \E ip \in Ip, email \in Email : Authenticate(p, ip, email)
    \/ CheckIp(p) \/ CheckEmail(p) \/ Verify(p)
    \/ CountIp(p) \/ CountEmail(p) \/ ResetIp(p) \/ ResetEmail(p)

GateNext == (\E p \in Proc : Step(p)) \/ Restart \/ GateTick

GateSpec == GateInit /\ [][GateNext]_gateVars

-----------------------------------------------------------------------------
(* Properties.                                                             *)

Bounded(l, keys) ==
    /\ Keys(l) \subseteq keys
    /\ \A k \in Keys(l) : Len(l.failures[k]) \in 1 .. l.max

\* The clients' locals, and limiters that stay bounded although what Record
\* appends was allowed by a Check made long before.
GateTypeOK ==
    /\ now \in 0 .. MaxTime
    /\ Bounded(ipLimiter, Ip)
    /\ Bounded(emailLimiter, Email)
    /\ pc \in [Proc -> Phase]
    /\ \A p \in Proc : IF pc[p] = "idle" THEN req[p] = NoReq
                       ELSE req[p].ip \in Ip /\ req[p].email \in Email
    /\ ipCheck \in [Proc -> [ok : BOOLEAN, wait : 0 .. IpWindow, at : 0 .. now]]
    /\ \A p \in Proc : reply[p].seconds \in 0 .. MaxTime + IpWindow + EmailWindow
    /\ attempts \in [Proc -> [Email -> Seq(0 .. now)]]
    /\ fresh \in [Proc -> [Email -> Seq(0 .. now)]]
    /\ resets \in [Email -> Seq(0 .. now)]

\* A client that sends its guesses one after the other gets at most EmailMax
\* of them judged per window and account as long as nobody logs in to the
\* account and the server runs on, although a failure is counted only after the
\* password was judged and is not counted at all once the account is at its
\* limit, and whatever other clients guess meanwhile.  A login to the account,
\* a client's own or another's, and a restart each start it afresh
\* (loginEmailLimiter.Reset): in a window with n of those it gets at most
\* EmailMax * (1 + n).
EachClientIsHeld ==
    \A p \in Proc, e \in Email :
        /\ Len(Within(fresh[p][e])) <= EmailMax
        /\ Len(Within(attempts[p][e])) <=
              EmailMax * (1 + Len(Within(resets[e])))

\* The block the address limiter told of is still on: its oldest failure is
\* there (it goes when the block lapses, or another client's login resets it).
BlockStands(p) ==
    LET times == Times(ipLimiter, req[p].ip) IN
    ~ipCheck[p].ok /\ times # << >>
        /\ times[1] + IpWindow = ipCheck[p].at + ipCheck[p].wait

\* A client that waits as long as it was told is not refused the moment it
\* retries: neither limiter that refused it does so then, whatever happened
\* between asking the first and the second (loginBlocked, and the rounding).
WaitIsEnough ==
    [][\A p \in Proc :
         LET retry == now + reply'[p].seconds * Second IN
         pc[p] = "checkEmail" /\ reply'[p].kind = "tooMany" =>
             /\ Check(emailLimiter', req[p].email, retry).ok
             /\ BlockStands(p) => Check(ipLimiter', req[p].ip, retry).ok]_gateVars
=============================================================================
