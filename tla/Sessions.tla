------------------------------ MODULE Sessions ------------------------------
(***************************************************************************)
(* The login sessions of cmd/api: the refresh_tokens table, and the        *)
(* handlers that read and write it.  Each handler is a sequence of         *)
(* separate database statements with no transaction around them, so each   *)
(* statement is a step of its own and any number of requests interleave.   *)
(* A statement may fail, and the server may stop between any two.          *)
(*                                                                         *)
(* A family is the chain of tokens that descend from one login.  Which     *)
(* user it belongs to plays no part in any decision and is left out.       *)
(***************************************************************************)
EXTENDS RefreshDecide

CONSTANTS
    Jti,                \* token identifiers
    Family,             \* family identifiers
    Proc,               \* requests the server may have in flight
    NoJti, NoRow,       \* a request that holds no token, no row
    RefreshTokenExpiry, \* how long a refresh token lives
    RefreshGrace,       \* how long a consumed token is still accepted
    Second,             \* instants in one unit of a JWT's NumericDate
    MaxTime             \* bound on the clock

ASSUME DurationAssumption ==
    /\ RefreshTokenExpiry \in Nat \ {0}
    /\ RefreshGrace \in Nat
    /\ Second \in Nat \ {0}
    /\ MaxTime \in Nat

Time == 0 .. MaxTime
Expiry == 0 .. (MaxTime + RefreshTokenExpiry)
Row == [family : Family, expiresAt : Expiry,
        revokedAt : Time \cup {NotRevoked}]

ASSUME NullAssumption == NoJti \notin Jti /\ NoRow \notin Row

VARIABLES
    now,          \* the clock
    rows,         \* refresh_tokens: jti -> row
    issued,       \* history: every row ever written, as it was written
    claims,       \* the signed refresh JWTs: jti -> exp claim
    ended,        \* history: families that RevokeRefreshFamily was run on
    broken,       \* history: families with a rotation cut short half-way
    pc,           \* the next statement of each request
    tok,          \* the jti the request presented
    row,          \* the row the request read: a snapshot
    familyActive, \* what FamilyHasActiveToken answered
    minted,       \* the jti of the row the request wrote
    since,        \* history: when the refresh started
    reply         \* what the last request of this slot was answered

table == <<rows, issued, claims, ended, broken>>
locals == <<tok, row, familyActive, minted, since>>
vars == <<now, table, pc, locals, reply>>

Phase == {"idle", "get", "family", "decide", "endFamily", "revoke", "create",
          "cleanup", "open", "sign", "logoutGet", "logoutRevoke"}
Reply == {"none", "pair", "unauthorized", "sessionEnded", "failed", "loggedOut"}

-----------------------------------------------------------------------------
(* The statements of dbrepo/refresh_tokens.go and session.go.              *)

Write(t, j, r) == [k \in DOMAIN t \cup {j} |-> IF k = j THEN r ELSE t[k]]

\* Mutant of Revoke: the guard `revoked_at IS NULL` is dropped.
RevokeUnguarded(S) ==
    rows' = [k \in DOMAIN rows |->
                IF k \in S THEN [rows[k] EXCEPT !.revokedAt = now] ELSE rows[k]]

\* UPDATE ... WHERE <the row is in S> AND revoked_at IS NULL.
Revoke(S) ==
    rows' = [k \in DOMAIN rows |->
                IF k \in S /\ rows[k].revokedAt = NotRevoked
                THEN [rows[k] EXCEPT !.revokedAt = now]
                ELSE rows[k]]

RevokeRefreshToken(j) == Revoke({j})

InFamily(f) == {k \in DOMAIN rows : rows[k].family = f}

RevokeRefreshFamily(f) ==
    /\ Revoke(InFamily(f))
    /\ ended' = ended \cup {f}

\* Mutant of FamilyHasActiveToken: WHERE revoked_at IS NULL is dropped.
FamilyHasToken(f) == \E k \in InFamily(f) : rows[k].expiresAt > now

FamilyHasActiveToken(f) ==
    \E k \in InFamily(f) : /\ rows[k].revokedAt = NotRevoked
                           /\ rows[k].expiresAt > now

\* Mutant of DeleteExpiredRefreshTokens: revoked rows are dropped as well.
DeleteExpiredOrRevoked ==
    rows' = [k \in {k \in DOMAIN rows : /\ ~(rows[k].expiresAt < now)
                                       /\ rows[k].revokedAt = NotRevoked} |->
                rows[k]]

DeleteExpiredRefreshTokens ==
    rows' = [k \in {k \in DOMAIN rows : ~(rows[k].expiresAt < now)} |-> rows[k]]

\* Mutant of NewRow: a wrong unit, seconds for minutes.
NewRowWrongUnit(f) == [family |-> f, expiresAt |-> now + 60 * RefreshTokenExpiry,
                       revokedAt |-> NotRevoked]

NewRow(f) == [family |-> f, expiresAt |-> now + RefreshTokenExpiry,
              revokedAt |-> NotRevoked]

\* A random 128-bit identifier that no row has had.
NewTokenID == Jti \ DOMAIN issued
NewFamilyID == {f \in Family : \A k \in DOMAIN issued : issued[k].family # f}

\* issueSession up to the signature: the row is written first.
CreateRefreshToken(p, f) ==
    \E j \in NewTokenID :
        /\ rows' = Write(rows, j, NewRow(f))
        /\ issued' = Write(issued, j, NewRow(f))
        /\ minted' = [minted EXCEPT ![p] = j]

\* NewNumericDate drops the fraction of a second.
NumericDate(t) == t - (t % Second)

-----------------------------------------------------------------------------
(* How a request starts, moves and ends.                                   *)

Begin(p, phase, j, t) ==
    /\ pc[p] = "idle"
    /\ pc' = [pc EXCEPT ![p] = phase]
    /\ tok' = [tok EXCEPT ![p] = j]
    /\ since' = [since EXCEPT ![p] = t]
    /\ reply' = [reply EXCEPT ![p] = "none"]
    /\ UNCHANGED <<now, table, row, familyActive, minted>>

At(p, phase) == pc[p] = phase /\ UNCHANGED now

Goto(p, phase) ==
    /\ pc' = [pc EXCEPT ![p] = phase]
    /\ UNCHANGED <<tok, since, reply>>

Finish(p, answer) ==
    /\ pc' = [pc EXCEPT ![p] = "idle"]
    /\ tok' = [tok EXCEPT ![p] = NoJti]
    /\ row' = [row EXCEPT ![p] = NoRow]
    /\ familyActive' = [familyActive EXCEPT ![p] = FALSE]
    /\ minted' = [minted EXCEPT ![p] = NoJti]
    /\ since' = [since EXCEPT ![p] = 0]
    /\ reply' = [reply EXCEPT ![p] = answer]

\* Families whose rotation P is between consuming a token and its successor.
HalfRotated(P) == {row[p].family : p \in {p \in P : pc[p] = "create"}}

-----------------------------------------------------------------------------
(* GET /refresh-token.                                                     *)

\* The JWT is one this server signed and its exp claim is in the future.
Parses(j) == j \in DOMAIN claims /\ now < claims[j]

StartRefresh(p, j) == Parses(j) /\ Begin(p, "get", j, now)

\* No cookie; or a cookie that does not parse, has expired or has no jti.
RefuseCookie(p) ==
    /\ pc[p] = "idle"
    /\ \E answer \in {"unauthorized", "sessionEnded"} :
          reply' = [reply EXCEPT ![p] = answer]
    /\ UNCHANGED <<now, table, pc, locals>>

\* A row that is not there is no error: Decide is asked all the same.
GetRefreshToken(p) ==
    /\ At(p, "get")
    /\ row' = [row EXCEPT ![p] =
                  IF tok[p] \in DOMAIN rows THEN rows[tok[p]] ELSE NoRow]
    /\ Goto(p, IF tok[p] \in DOMAIN rows /\ rows[tok[p]].revokedAt # NotRevoked
               THEN "family" ELSE "decide")
    /\ UNCHANGED <<table, familyActive, minted>>

AskFamily(p) ==
    /\ At(p, "family")
    /\ familyActive' = [familyActive EXCEPT ![p] =
                           FamilyHasActiveToken(row[p].family)]
    /\ Goto(p, "decide")
    /\ UNCHANGED <<table, row, minted>>

State(p) ==
    IF row[p] = NoRow THEN StateOf(FALSE, 0, NotRevoked, FALSE)
    ELSE StateOf(TRUE, row[p].expiresAt, row[p].revokedAt, familyActive[p])

Verdict(p) == Decide(State(p), now, RefreshGrace)

\* Mutant of AcceptToken: the token is consumed before GetUserByID is asked.
AcceptConsumesFirst(p) ==
    /\ At(p, "decide") /\ Verdict(p) = "Accept"
    /\ RevokeRefreshToken(tok[p])
    /\ UNCHANGED <<issued, claims, ended, broken>>
    /\ \/ Goto(p, "create") /\ UNCHANGED <<row, familyActive, minted>>
       \/ Finish(p, "sessionEnded")

\* GetUserByID follows at once: it reads nothing that a step here changes,
\* and its error ends the session.
AcceptToken(p) ==
    /\ At(p, "decide") /\ Verdict(p) = "Accept"
    /\ UNCHANGED table
    /\ \/ Goto(p, "revoke") /\ UNCHANGED <<row, familyActive, minted>>
       \/ Finish(p, "sessionEnded")

DetectReuse(p) ==
    /\ At(p, "decide") /\ Verdict(p) = "ReuseDetected"
    /\ Goto(p, "endFamily")
    /\ UNCHANGED <<table, row, familyActive, minted>>

RejectToken(p) ==
    /\ At(p, "decide")
    /\ Verdict(p) \in {"RejectUnknown", "RejectExpired", "RejectRevoked"}
    /\ Finish(p, "sessionEnded")
    /\ UNCHANGED table

\* The error of the UPDATE is ignored.
EndReusedFamily(p) ==
    /\ At(p, "endFamily")
    /\ \/ RevokeRefreshFamily(row[p].family)
       \/ UNCHANGED <<rows, ended>>
    /\ Finish(p, "sessionEnded")
    /\ UNCHANGED <<issued, claims, broken>>

ConsumeToken(p) ==
    /\ At(p, "revoke")
    /\ RevokeRefreshToken(tok[p])
    /\ Goto(p, "create")
    /\ UNCHANGED <<issued, claims, ended, broken, row, familyActive, minted>>

CreateSuccessor(p) ==
    /\ At(p, "create")
    /\ CreateRefreshToken(p, row[p].family)
    /\ Goto(p, "sign")
    /\ UNCHANGED <<claims, ended, broken, row, familyActive>>

\* GenerateTokenPair, for a refresh and for a login.
SignPair(p) ==
    /\ At(p, "sign")
    /\ claims' = Write(claims, minted[p], NumericDate(now + RefreshTokenExpiry))
    /\ Finish(p, "pair")
    /\ UNCHANGED <<rows, issued, ended, broken>>

-----------------------------------------------------------------------------
(* POST /authenticate once the password matched, and POST /register once   *)
(* the account is there.                                                   *)

StartLogin(p) == Begin(p, "cleanup", NoJti, 0)
StartRegister(p) == Begin(p, "open", NoJti, 0)

\* Housekeeping on login; its error is ignored.
CleanUp(p) ==
    /\ At(p, "cleanup")
    /\ \/ DeleteExpiredRefreshTokens
       \/ UNCHANGED rows
    /\ Goto(p, "open")
    /\ UNCHANGED <<issued, claims, ended, broken, row, familyActive, minted>>

OpenFamily(p) ==
    /\ At(p, "open")
    /\ \E f \in NewFamilyID : CreateRefreshToken(p, f)
    /\ Goto(p, "sign")
    /\ UNCHANGED <<claims, ended, broken, row, familyActive>>

-----------------------------------------------------------------------------
(* GET /logout: always answered 200.                                       *)

StartLogout(p, j) == Parses(j) /\ Begin(p, "logoutGet", j, 0)

\* No usable cookie.
LogoutNothing(p) ==
    /\ pc[p] = "idle"
    /\ reply' = [reply EXCEPT ![p] = "loggedOut"]
    /\ UNCHANGED <<now, table, pc, locals>>

LogoutGet(p) ==
    /\ At(p, "logoutGet")
    /\ UNCHANGED table
    /\ \/ /\ tok[p] \in DOMAIN rows
          /\ row' = [row EXCEPT ![p] = rows[tok[p]]]
          /\ Goto(p, "logoutRevoke")
          /\ UNCHANGED <<familyActive, minted>>
       \* The row is not there, or the SELECT failed.
       \/ Finish(p, "loggedOut")

LogoutRevoke(p) ==
    /\ At(p, "logoutRevoke")
    /\ \/ RevokeRefreshFamily(row[p].family)
       \/ UNCHANGED <<rows, ended>>
    /\ Finish(p, "loggedOut")
    /\ UNCHANGED <<issued, claims, broken>>

-----------------------------------------------------------------------------
\* A statement whose error is answered 500.
StatementFails(p) ==
    /\ pc[p] \in {"get", "family", "revoke", "create", "open", "sign"}
    /\ broken' = broken \cup HalfRotated({p})
    /\ Finish(p, "failed")
    /\ UNCHANGED <<now, rows, issued, claims, ended>>

\* The server stops: requests are lost without an answer, the table is not.
Restart ==
    /\ \E p \in Proc : pc[p] # "idle"
    /\ pc' = [p \in Proc |-> "idle"]
    /\ tok' = [p \in Proc |-> NoJti]
    /\ row' = [p \in Proc |-> NoRow]
    /\ familyActive' = [p \in Proc |-> FALSE]
    /\ minted' = [p \in Proc |-> NoJti]
    /\ since' = [p \in Proc |-> 0]
    /\ reply' = [p \in Proc |-> "none"]
    /\ broken' = broken \cup HalfRotated(Proc)
    /\ UNCHANGED <<now, rows, issued, claims, ended>>

Tick ==
    /\ now < MaxTime
    /\ now' = now + 1
    /\ UNCHANGED <<table, pc, locals, reply>>

Refresh(p) ==
    \/ \E j \in Jti : StartRefresh(p, j)
    \/ RefuseCookie(p)
    \/ GetRefreshToken(p) \/ AskFamily(p)
    \/ AcceptToken(p) \/ DetectReuse(p) \/ RejectToken(p)
    \/ EndReusedFamily(p)
    \/ ConsumeToken(p) \/ CreateSuccessor(p) \/ SignPair(p)

Login(p) == StartLogin(p) \/ StartRegister(p) \/ CleanUp(p) \/ OpenFamily(p)

Logout(p) ==
    \/ \E j \in Jti : StartLogout(p, j)
    \/ LogoutNothing(p) \/ LogoutGet(p) \/ LogoutRevoke(p)

Init ==
    /\ now = 0
    /\ rows = [j \in {} |-> NoRow]
    /\ issued = [j \in {} |-> NoRow]
    /\ claims = [j \in {} |-> 0]
    /\ ended = {}
    /\ broken = {}
    /\ pc = [p \in Proc |-> "idle"]
    /\ tok = [p \in Proc |-> NoJti]
    /\ row = [p \in Proc |-> NoRow]
    /\ familyActive = [p \in Proc |-> FALSE]
    /\ minted = [p \in Proc |-> NoJti]
    /\ since = [p \in Proc |-> 0]
    /\ reply = [p \in Proc |-> "none"]

Next ==
    \/ \E p \in Proc : Refresh(p) \/ Login(p) \/ Logout(p) \/ StatementFails(p)
    \/ Restart
    \/ Tick

Spec == Init /\ [][Next]_vars

-----------------------------------------------------------------------------
(* Properties.                                                             *)

Maybe(S, null) == S \cup {null}

\* The types of the table, of the requests' locals and of the histories.
TypeOK ==
    /\ now \in Time
    /\ DOMAIN rows \subseteq DOMAIN issued
    /\ DOMAIN claims \subseteq DOMAIN issued
    /\ DOMAIN issued \subseteq Jti
    /\ rows \in [DOMAIN rows -> Row]
    /\ issued \in [DOMAIN issued -> Row]
    /\ claims \in [DOMAIN claims -> Int]
    /\ ended \subseteq Family
    /\ broken \subseteq Family
    /\ pc \in [Proc -> Phase]
    /\ tok \in [Proc -> Maybe(DOMAIN issued, NoJti)]
    /\ row \in [Proc -> Maybe(Row, NoRow)]
    /\ familyActive \in [Proc -> BOOLEAN]
    /\ minted \in [Proc -> Maybe(DOMAIN issued, NoJti)]
    /\ since \in [Proc -> Time]
    /\ reply \in [Proc -> Reply]

\* The phases of a refresh whose token was accepted.
Accepted == {"revoke", "create"}

\* Once a token is consumed its revoked_at never moves and is never cleared,
\* however many refreshes, logouts and reuse alarms race over it: the grace
\* window cannot be extended by replaying (RevokeRefreshToken's guard).
RevocationIsFinal ==
    [][\A j \in DOMAIN rows \cap DOMAIN rows' :
          rows[j].revokedAt # NotRevoked =>
              rows'[j].revokedAt = rows[j].revokedAt]_vars

\* No request that started more than the grace window after its token was
\* consumed is accepted, whatever ran between its reading the row and its
\* asking Decide, and however often the token was replayed before.
LateReplayRefused ==
    \A p \in Proc :
        /\ pc[p] \in Accepted
        /\ tok[p] \in DOMAIN rows
        /\ rows[tok[p]].revokedAt # NotRevoked
        => since[p] <= rows[tok[p]].revokedAt + RefreshGrace

\* A token is consumed only by a request that presented a token of the same
\* family: ending one session, by logout or by a reuse alarm, leaves the
\* sessions of the user's other devices as they were (RevokeRefreshFamily).
OtherSessionsUntouched ==
    [][\A j \in DOMAIN rows \cap DOMAIN rows' :
          rows'[j].revokedAt # rows[j].revokedAt =>
              \E p \in Proc : /\ tok[p] # NoJti
                              /\ issued[tok[p]].family = issued[j].family]_vars

\* A request of family f that may yet end in a new token.
MayIssue(p, f) ==
    /\ row[p] # NoRow
    /\ row[p].family = f
    /\ \/ pc[p] \in Accepted
       \/ /\ pc[p] = "decide"
          /\ ~Expired(row[p].expiresAt, now)
          /\ row[p].revokedAt = NotRevoked \/ familyActive[p]

Issued(f) == \E j \in DOMAIN issued : issued[j].family = f

\* A session with no live token and no request under way that has already
\* found one.
Over(f) ==
    /\ Issued(f)
    /\ ~FamilyHasActiveToken(f)
    /\ \A p \in Proc : ~MayIssue(p, f)

\* A session that is over stays over: no replay of any of its tokens, within
\* the grace window or not, brings it back (Decide's FamilyActive).
OverStaysOver == [][\A f \in Family : Over(f) => Over(f)']_vars

Live(j) == rows[j].revokedAt = NotRevoked /\ rows[j].expiresAt > now

Life == INSTANCE SessionLife
    WITH Session <- Family, Request <- Proc, Token <- Jti,
         opened <- {f \in Family : Issued(f)},
         born <- DOMAIN issued,
         live <- [f \in Family |-> {j \in InFamily(f) : Live(j)}],
         licence <- [f \in Family |-> {p \in Proc : MayIssue(p, f)}]

\* The statements implement SessionLife: a request is licensed while a token of
\* its session is live, and issues one token for it; one that finds the session
\* without a live token never does, whatever ran between its statements
\* (RefreshToken, Decide).
KeepsSessionLife == Life!Spec

\* A refresh token a client was given has its row as long as it has not
\* expired, consumed or not: the row is written before the token is signed,
\* and housekeeping never makes a replay look like a token never issued.
TokenInHandHasRow ==
    \A j \in DOMAIN claims :
        now < issued[j].expiresAt =>
            /\ j \in DOMAIN rows
            /\ rows[j].family = issued[j].family
            /\ rows[j].expiresAt = issued[j].expiresAt

Rotating(f) == \E p \in Proc : pc[p] = "create" /\ row[p].family = f

\* A consumed token that has not expired has a live successor in its family,
\* unless the session was ended, a rotation is half-way, or one failed
\* half-way: what FamilyHasActiveToken relies on to tell rotation from logout.
RotationLeavesSuccessor ==
    \A j \in DOMAIN rows :
        LET f == rows[j].family IN
        /\ rows[j].revokedAt # NotRevoked
        /\ ~Expired(rows[j].expiresAt, now)
        /\ f \notin ended \cup broken
        => FamilyHasActiveToken(f) \/ Rotating(f)

-----------------------------------------------------------------------------
(* What comments of the repository say, and the code does not keep.        *)

\* Logout and reuse detection end the whole session chain: no live token is
\* left, and none appears afterwards (refresh_tokens.go, RevokeRefreshFamily).
EndedFamilyIsDead == \A f \in ended : ~FamilyHasActiveToken(f)
=============================================================================
