--------------------------- MODULE SessionsProofs ---------------------------
(***************************************************************************)
(* Proofs about Sessions, for every number of requests, tokens and         *)
(* families, every expiry and every grace window; last, that Sessions      *)
(* implements SessionLife.                                                 *)
(***************************************************************************)
EXTENDS Sessions, TLAPS

-----------------------------------------------------------------------------
(* The inductive invariant.                                                *)

\* What a request holds in each phase.
Holds(p) ==
    /\ pc[p] \in Phase \ {"idle", "cleanup", "open", "sign"} => tok[p] # NoJti
    /\ pc[p] \in {"family", "endFamily", "revoke", "create", "logoutRevoke"} =>
          row[p] # NoRow
    /\ pc[p] = "family" => row[p].revokedAt # NotRevoked
    /\ pc[p] = "sign" => minted[p] # NoJti
    /\ row[p] # NoRow => /\ tok[p] # NoJti
                         /\ row[p].family = issued[tok[p]].family
    /\ pc[p] \in {"idle", "get", "cleanup", "open", "logoutGet"} =>
          row[p] = NoRow

PhaseInv == \A p \in Proc : Holds(p)

\* A row is what was written, up to revoked_at, and is kept until it expires.
RowsInv ==
    /\ \A j \in DOMAIN rows :
          /\ rows[j].family = issued[j].family
          /\ rows[j].expiresAt = issued[j].expiresAt
    /\ \A j \in DOMAIN issued :
          ~(issued[j].expiresAt < now) => j \in DOMAIN rows

\* How the row a refresh read relates to the row as it is now.
Snapshot(p) ==
    /\ since[p] <= now
    /\ row[p] # NoRow /\ tok[p] \in DOMAIN rows /\ pc[p] # "logoutRevoke" =>
          IF row[p].revokedAt # NotRevoked
          THEN rows[tok[p]].revokedAt = row[p].revokedAt
          ELSE \/ rows[tok[p]].revokedAt = NotRevoked
               \/ since[p] <= rows[tok[p]].revokedAt
    /\ pc[p] \in Accepted /\ row[p].revokedAt # NotRevoked =>
          since[p] <= row[p].revokedAt + RefreshGrace

SnapshotInv == \A p \in Proc : Snapshot(p)

IInv == TypeOK /\ PhaseInv /\ RowsInv /\ SnapshotInv

-----------------------------------------------------------------------------
(* What the statements do to the table.                                    *)

\* The table and its history in one step: no row changes but to be consumed
\* now, a new row has an identifier never used before, and only expired rows
\* go away.
TableStep ==
    /\ DOMAIN rows' \subseteq DOMAIN issued'
    /\ DOMAIN issued \subseteq DOMAIN issued'
    /\ DOMAIN issued' \subseteq Jti
    /\ rows' \in [DOMAIN rows' -> Row]
    /\ issued' \in [DOMAIN issued' -> Row]
    /\ \A j \in DOMAIN issued : issued'[j] = issued[j]
    /\ \A j \in DOMAIN rows \cap DOMAIN rows' :
          \/ rows'[j] = rows[j]
          \/ /\ rows[j].revokedAt = NotRevoked
             /\ rows'[j] = [rows[j] EXCEPT !.revokedAt = now]
    /\ \A j \in DOMAIN rows' \ DOMAIN rows :
          j \notin DOMAIN issued /\ rows'[j] = issued'[j]
    /\ \A j \in DOMAIN issued' \ DOMAIN issued : j \in DOMAIN rows'
    /\ \A j \in DOMAIN rows \ DOMAIN rows' : rows[j].expiresAt < now

LEMMA RevokeStep ==
    ASSUME TypeOK, NEW S, Revoke(S), UNCHANGED issued
    PROVE  TableStep /\ DOMAIN rows' = DOMAIN rows
<1>1. DOMAIN rows' = DOMAIN rows
      BY DEF Revoke
<1>2. ASSUME NEW k \in DOMAIN rows
      PROVE  /\ rows'[k] \in Row
             /\ \/ rows'[k] = rows[k]
                \/ /\ rows[k].revokedAt = NotRevoked
                   /\ rows'[k] = [rows[k] EXCEPT !.revokedAt = now]
  <2>1. rows[k] \in Row /\ now \in Time
        BY DEF TypeOK
  <2>2. [rows[k] EXCEPT !.revokedAt = now] \in Row
        BY <2>1 DEF Row
  <2> QED
        BY <2>1, <2>2 DEF Revoke
<1>3. rows' \in [DOMAIN rows' -> Row]
  <2>1. rows' = [k \in DOMAIN rows |-> rows'[k]]
        BY DEF Revoke
  <2> QED
        BY <1>1, <1>2, <2>1
<1> QED
      BY <1>1, <1>2, <1>3 DEF TypeOK, TableStep

LEMMA DeleteStep ==
    ASSUME TypeOK, DeleteExpiredRefreshTokens, UNCHANGED issued
    PROVE  TableStep
BY DEF TypeOK, DeleteExpiredRefreshTokens, TableStep

LEMMA UnchangedStep ==
    ASSUME TypeOK, UNCHANGED <<rows, issued>>
    PROVE  TableStep
BY DEF TypeOK, TableStep

LEMMA NewRowType ==
    ASSUME TypeOK, NEW f \in Family
    PROVE  NewRow(f) \in Row
BY DurationAssumption DEF TypeOK, NewRow, Row, Time, Expiry, NotRevoked

LEMMA CreateStep ==
    ASSUME TypeOK, NEW p \in Proc, NEW f \in Family, CreateRefreshToken(p, f)
    PROVE  /\ TableStep
           /\ \E j \in DOMAIN issued' \ DOMAIN issued :
                 /\ DOMAIN issued' = DOMAIN issued \cup {j}
                 /\ DOMAIN rows' = DOMAIN rows \cup {j}
                 /\ issued'[j] = NewRow(f)
                 /\ minted' = [minted EXCEPT ![p] = j]
<1>1. PICK j \in Jti \ DOMAIN issued :
          /\ rows' = Write(rows, j, NewRow(f))
          /\ issued' = Write(issued, j, NewRow(f))
          /\ minted' = [minted EXCEPT ![p] = j]
      BY DEF CreateRefreshToken, NewTokenID
<1>2. NewRow(f) \in Row
      BY NewRowType
<1>3. /\ DOMAIN rows' = DOMAIN rows \cup {j}
      /\ DOMAIN issued' = DOMAIN issued \cup {j}
      /\ rows'[j] = NewRow(f) /\ issued'[j] = NewRow(f)
      /\ \A k \in DOMAIN rows : rows'[k] = rows[k]
      /\ \A k \in DOMAIN issued : issued'[k] = issued[k]
      BY <1>1 DEF Write, TypeOK
<1>4. /\ rows' \in [DOMAIN rows' -> Row]
      /\ issued' \in [DOMAIN issued' -> Row]
      BY <1>1, <1>2 DEF Write, TypeOK
<1>5. TableStep
      BY <1>1, <1>3, <1>4 DEF TableStep, TypeOK
<1> QED
      BY <1>1, <1>3, <1>5

-----------------------------------------------------------------------------
(* Type correctness, and what requests hold.                               *)

LEMMA RowFamily ==
    ASSUME TypeOK, NEW p \in Proc, row[p] # NoRow
    PROVE  row[p] \in Row /\ row[p].family \in Family
BY DEF TypeOK, Maybe, Row

\* Every step leaves the clock alone and is a TableStep, or is a tick.
LEMMA NextTable ==
    ASSUME TypeOK, PhaseInv, Next
    PROVE  TableStep /\ (now' = now \/ (now' = now + 1 /\ now' \in Time))
<1> USE DEF At
<1>1. ASSUME NEW p \in Proc, Refresh(p)
      PROVE  TableStep /\ now' = now
  <2>1. CASE \E j \in Jti : StartRefresh(p, j)
        BY <2>1, UnchangedStep DEF StartRefresh, Begin, table
  <2>2. CASE RefuseCookie(p)
        BY <2>2, UnchangedStep DEF RefuseCookie, table
  <2>3. CASE GetRefreshToken(p) \/ AskFamily(p) \/ AcceptToken(p)
             \/ DetectReuse(p) \/ RejectToken(p)
        BY <2>3, UnchangedStep DEF GetRefreshToken, AskFamily, AcceptToken,
           DetectReuse, RejectToken, table
  <2>4. CASE EndReusedFamily(p)
        BY <2>4, RevokeStep, UnchangedStep DEF EndReusedFamily, RevokeRefreshFamily
  <2>5. CASE ConsumeToken(p)
        BY <2>5, RevokeStep DEF ConsumeToken, RevokeRefreshToken
  <2>6. CASE CreateSuccessor(p)
    <3>1. row[p].family \in Family
          BY <2>6, RowFamily DEF CreateSuccessor, PhaseInv, Holds
    <3> QED
          BY <2>6, <3>1, CreateStep DEF CreateSuccessor
  <2>7. CASE SignPair(p)
        BY <2>7, UnchangedStep DEF SignPair
  <2> QED
        BY <1>1, <2>1, <2>2, <2>3, <2>4, <2>5, <2>6, <2>7 DEF Refresh
<1>2. ASSUME NEW p \in Proc, Login(p)
      PROVE  TableStep /\ now' = now
  <2>1. CASE StartLogin(p) \/ StartRegister(p)
        BY <2>1, UnchangedStep DEF StartLogin, StartRegister, Begin, table
  <2>2. CASE CleanUp(p)
        BY <2>2, DeleteStep, UnchangedStep DEF CleanUp
  <2>3. CASE OpenFamily(p)
        BY <2>3, CreateStep DEF OpenFamily, NewFamilyID
  <2> QED
        BY <1>2, <2>1, <2>2, <2>3 DEF Login
<1>3. ASSUME NEW p \in Proc, Logout(p)
      PROVE  TableStep /\ now' = now
  <2>1. CASE \E j \in Jti : StartLogout(p, j)
        BY <2>1, UnchangedStep DEF StartLogout, Begin, table
  <2>2. CASE LogoutNothing(p) \/ LogoutGet(p)
        BY <2>2, UnchangedStep DEF LogoutNothing, LogoutGet, table
  <2>3. CASE LogoutRevoke(p)
        BY <2>3, RevokeStep, UnchangedStep DEF LogoutRevoke, RevokeRefreshFamily
  <2> QED
        BY <1>3, <2>1, <2>2, <2>3 DEF Logout
<1>4. ASSUME NEW p \in Proc, StatementFails(p)
      PROVE  TableStep /\ now' = now
      BY <1>4, UnchangedStep DEF StatementFails
<1>5. CASE Restart
      BY <1>5, UnchangedStep DEF Restart
<1>6. CASE Tick
      BY <1>6, UnchangedStep, DurationAssumption DEF Tick, table, TypeOK, Time
<1> QED
      BY <1>1, <1>2, <1>3, <1>4, <1>5, <1>6 DEF Next

\* The conjuncts of TypeOK about the clock, the table and the history, and
\* those about the requests.
TableType ==
    /\ now \in Time
    /\ DOMAIN rows \subseteq DOMAIN issued
    /\ DOMAIN claims \subseteq DOMAIN issued
    /\ DOMAIN issued \subseteq Jti
    /\ rows \in [DOMAIN rows -> Row]
    /\ issued \in [DOMAIN issued -> Row]
    /\ claims \in [DOMAIN claims -> Int]
    /\ ended \subseteq Family
    /\ broken \subseteq Family

RequestType ==
    /\ pc \in [Proc -> Phase]
    /\ tok \in [Proc -> Maybe(DOMAIN issued, NoJti)]
    /\ row \in [Proc -> Maybe(Row, NoRow)]
    /\ familyActive \in [Proc -> BOOLEAN]
    /\ minted \in [Proc -> Maybe(DOMAIN issued, NoJti)]
    /\ since \in [Proc -> Time]
    /\ reply \in [Proc -> Reply]

LEMMA TypeParts == TypeOK <=> TableType /\ RequestType
BY DEF TypeOK, TableType, RequestType

\* What the requests hold keeps its type while the history of rows grows.
LEMMA RequestsKept ==
    ASSUME TypeOK, PhaseInv, TableStep, UNCHANGED <<pc, locals, reply>>
    PROVE  RequestType' /\ PhaseInv'
<1>1. \A p \in Proc : tok[p] # NoJti => tok[p] \in DOMAIN issued
      BY DEF TypeOK, Maybe
<1>2. RequestType'
      BY DEF TypeOK, RequestType, TableStep, locals, Maybe
<1>3. PhaseInv'
      BY <1>1 DEF PhaseInv, Holds, TableStep, locals
<1> QED
      BY <1>2, <1>3

LEMMA FinishStep ==
    ASSUME TypeOK, PhaseInv, TableStep,
           NEW p \in Proc, NEW a \in Reply, Finish(p, a)
    PROVE  RequestType' /\ PhaseInv'
<1>1. \A q \in Proc : tok[q] # NoJti => tok[q] \in DOMAIN issued
      BY DEF TypeOK, Maybe
<1>2. RequestType'
  <2>1. 0 \in Time /\ "idle" \in Phase
        BY DurationAssumption DEF Time, Phase
  <2> QED
        BY <2>1 DEF TypeOK, RequestType, TableStep, Finish, Maybe
<1>3. ASSUME NEW q \in Proc PROVE Holds(q)'
  <2>1. CASE q = p
        BY <2>1 DEF Holds, Finish, TypeOK, Phase
  <2>2. CASE q # p
        BY <2>2, <1>1 DEF Holds, Finish, TypeOK, TableStep, PhaseInv
  <2> QED
        BY <2>1, <2>2
<1> QED
      BY <1>2, <1>3 DEF PhaseInv

LEMMA BeginStep ==
    ASSUME TypeOK, PhaseInv, TableStep,
           NEW p \in Proc, NEW phase \in {"get", "cleanup", "open", "logoutGet"},
           NEW j, NEW t \in Time, Begin(p, phase, j, t),
           IF phase \in {"get", "logoutGet"} THEN j \in DOMAIN issued
           ELSE j = NoJti
    PROVE  RequestType' /\ PhaseInv'
<1>1. \A q \in Proc : tok[q] # NoJti => tok[q] \in DOMAIN issued
      BY DEF TypeOK, Maybe
<1>2. j \in Maybe(DOMAIN issued, NoJti) /\ phase \in Phase
      BY DEF Maybe, Phase
<1>3. RequestType'
      BY <1>2 DEF TypeOK, RequestType, TableStep, Begin, Maybe, Reply
<1>4. NoJti \notin DOMAIN issued
      BY NullAssumption DEF TypeOK
<1>5. ASSUME NEW q \in Proc PROVE Holds(q)'
  <2>1. CASE q = p
        BY <2>1, <1>4 DEF Holds, Begin, TypeOK, Phase, PhaseInv
  <2>2. CASE q # p
        BY <2>2, <1>1 DEF Holds, Begin, TypeOK, TableStep, PhaseInv
  <2> QED
        BY <2>1, <2>2
<1> QED
      BY <1>3, <1>5 DEF PhaseInv

\* A request moves on, having at most read or written a row.
LEMMA GotoStep ==
    ASSUME TypeOK, PhaseInv, TableStep,
           NEW p \in Proc, NEW phase \in Phase, Goto(p, phase),
           NEW r \in Maybe(Row, NoRow), row' = [row EXCEPT ![p] = r],
           NEW b \in BOOLEAN, familyActive' = [familyActive EXCEPT ![p] = b],
           NEW m \in Maybe(DOMAIN issued', NoJti),
           minted' = [minted EXCEPT ![p] = m],
           Holds(p)'
    PROVE  RequestType' /\ PhaseInv'
<1>1. \A q \in Proc : tok[q] # NoJti => tok[q] \in DOMAIN issued
      BY DEF TypeOK, Maybe
<1>2. RequestType'
      BY DEF TypeOK, RequestType, TableStep, Goto, Maybe
<1>3. ASSUME NEW q \in Proc, q # p PROVE Holds(q)'
      BY <1>1, <1>3 DEF Holds, Goto, TypeOK, TableStep, PhaseInv
<1> QED
      BY <1>2, <1>3 DEF PhaseInv

\* The same, for a request that moves on with what it had.
LEMMA GotoSame ==
    ASSUME TypeOK, PhaseInv, TableStep,
           NEW p \in Proc, NEW phase \in Phase, Goto(p, phase),
           UNCHANGED <<row, familyActive, minted>>,
           phase \in {"family", "endFamily", "revoke", "create"} =>
               row[p] # NoRow /\ tok[p] # NoJti,
           phase = "open" => row[p] = NoRow,
           phase \notin {"idle", "get", "family", "cleanup", "sign",
                         "logoutGet", "logoutRevoke", "decide"}
    PROVE  RequestType' /\ PhaseInv'
<1>1. /\ row[p] \in Maybe(Row, NoRow) /\ row' = [row EXCEPT ![p] = row[p]]
      /\ familyActive[p] \in BOOLEAN
      /\ familyActive' = [familyActive EXCEPT ![p] = familyActive[p]]
      /\ minted[p] \in Maybe(DOMAIN issued', NoJti)
      /\ minted' = [minted EXCEPT ![p] = minted[p]]
      BY DEF TypeOK, Maybe, TableStep
<1>2. tok[p] # NoJti => tok[p] \in DOMAIN issued
      BY DEF TypeOK, Maybe
<1>3. Holds(p)'
      BY <1>2 DEF Holds, Goto, TypeOK, TableStep, PhaseInv, Phase
<1> QED
      BY <1>1, <1>3, GotoStep

\* How an action that leaves a local alone looks to GotoStep.
LEMMA LocalsKept ==
    ASSUME TypeOK, TableStep, NEW p \in Proc
    PROVE  /\ row[p] \in Maybe(Row, NoRow)
           /\ familyActive[p] \in BOOLEAN
           /\ minted[p] \in Maybe(DOMAIN issued', NoJti)
           /\ tok[p] # NoJti => tok[p] \in DOMAIN issued
           /\ UNCHANGED row => row' = [row EXCEPT ![p] = row[p]]
           /\ UNCHANGED familyActive =>
                  familyActive' = [familyActive EXCEPT ![p] = familyActive[p]]
           /\ UNCHANGED minted => minted' = [minted EXCEPT ![p] = minted[p]]
BY DEF TypeOK, Maybe, TableStep

LEMMA RefreshRequests ==
    ASSUME TypeOK, PhaseInv, RowsInv, TableStep, NEW p \in Proc, Refresh(p)
    PROVE  RequestType' /\ PhaseInv'
<1> USE DEF At
<1>1. CASE \E j \in Jti : StartRefresh(p, j)
  <2>1. PICK j \in Jti : Parses(j) /\ Begin(p, "get", j, now)
        BY <1>1 DEF StartRefresh
  <2>2. j \in DOMAIN issued /\ now \in Time
        BY <2>1 DEF Parses, TypeOK
  <2> QED
        BY <2>1, <2>2, BeginStep
<1>2. CASE RefuseCookie(p)
  <2>1. \A q \in Proc : tok[q] # NoJti => tok[q] \in DOMAIN issued
        BY DEF TypeOK, Maybe
  <2>2. PhaseInv'
        BY <1>2, <2>1 DEF RefuseCookie, table, PhaseInv, Holds, locals
  <2> QED
        BY <1>2, <2>2 DEF RefuseCookie, RequestType, TypeOK, table, locals, Reply
<1>3. CASE GetRefreshToken(p)
  <2> DEFINE r == IF tok[p] \in DOMAIN rows THEN rows[tok[p]] ELSE NoRow
             phase == IF tok[p] \in DOMAIN rows
                         /\ rows[tok[p]].revokedAt # NotRevoked
                      THEN "family" ELSE "decide"
  <2>1. r \in Maybe(Row, NoRow) /\ phase \in Phase
        BY DEF TypeOK, Maybe, Phase
  <2>2. row' = [row EXCEPT ![p] = r] /\ Goto(p, phase)
        BY <1>3 DEF GetRefreshToken
  <2>3. tok[p] # NoJti
        BY <1>3 DEF GetRefreshToken, PhaseInv, Holds, Phase
  <2>4. tok[p] \in DOMAIN rows =>
            rows[tok[p]] # NoRow /\ rows[tok[p]].family = issued'[tok[p]].family
        BY <1>3, NullAssumption
        DEF GetRefreshToken, TypeOK, TableStep, RowsInv, table
  <2>5. Holds(p)'
        BY <2>2, <2>3, <2>4 DEF Holds, Goto, TypeOK, Phase
  <2> HIDE DEF r, phase
  <2> QED
        BY <1>3, <2>1, <2>2, <2>5, LocalsKept, GotoStep DEF GetRefreshToken
<1>4. CASE AskFamily(p)
  <2>1. Holds(p)'
        BY <1>4, LocalsKept
        DEF AskFamily, Holds, PhaseInv, Goto, TypeOK, Phase, table
  <2> QED
        BY <1>4, <2>1, LocalsKept, GotoStep
        DEF AskFamily, Phase, FamilyHasActiveToken
<1>5. CASE AcceptToken(p)
  <2>1. row[p] # NoRow /\ tok[p] # NoJti
        BY <1>5 DEF AcceptToken, Verdict, Decide, State, StateOf, PhaseInv, Holds, Phase
  <2> QED
        BY <1>5, <2>1, GotoSame, FinishStep DEF AcceptToken, Phase, Reply
<1>6. CASE DetectReuse(p)
  <2>1. row[p] # NoRow /\ tok[p] # NoJti
        BY <1>6 DEF DetectReuse, Verdict, Decide, State, StateOf, PhaseInv, Holds, Phase
  <2> QED
        BY <1>6, <2>1, GotoSame DEF DetectReuse, Phase
<1>7. CASE RejectToken(p) \/ EndReusedFamily(p) \/ SignPair(p)
      BY <1>7, FinishStep DEF RejectToken, EndReusedFamily, SignPair, Reply
<1>8. CASE ConsumeToken(p)
  <2>1. row[p] # NoRow /\ tok[p] # NoJti
        BY <1>8 DEF ConsumeToken, PhaseInv, Holds, Phase
  <2> QED
        BY <1>8, <2>1, GotoSame DEF ConsumeToken, Phase
<1>9. CASE CreateSuccessor(p)
  <2>1. PICK j \in Jti \ DOMAIN issued :
            issued' = Write(issued, j, NewRow(row[p].family))
            /\ minted' = [minted EXCEPT ![p] = j]
        BY <1>9 DEF CreateSuccessor, CreateRefreshToken, NewTokenID
  <2>2. j \in DOMAIN issued' /\ j # NoJti
        BY <2>1, NullAssumption DEF Write
  <2>3. Holds(p)'
        BY <1>9, <2>1, <2>2, LocalsKept
        DEF CreateSuccessor, Holds, PhaseInv, Goto, TypeOK, Phase, TableStep
  <2> QED
        BY <1>9, <2>1, <2>2, <2>3, LocalsKept, GotoStep
        DEF CreateSuccessor, Phase, Maybe
<1> QED
      BY <1>1, <1>2, <1>3, <1>4, <1>5, <1>6, <1>7, <1>8, <1>9 DEF Refresh

LEMMA LoginRequests ==
    ASSUME TypeOK, PhaseInv, TableStep, NEW p \in Proc, Login(p)
    PROVE  RequestType' /\ PhaseInv'
<1> USE DEF At
<1>1. CASE StartLogin(p) \/ StartRegister(p)
      BY <1>1, BeginStep, DurationAssumption DEF StartLogin, StartRegister, Time
<1>2. CASE CleanUp(p)
  <2>1. row[p] = NoRow
        BY <1>2 DEF CleanUp, PhaseInv, Holds
  <2> QED
        BY <1>2, <2>1, GotoSame DEF CleanUp, Phase
<1>3. CASE OpenFamily(p)
  <2>1. PICK f \in NewFamilyID, j \in Jti \ DOMAIN issued :
            issued' = Write(issued, j, NewRow(f))
            /\ minted' = [minted EXCEPT ![p] = j]
        BY <1>3 DEF OpenFamily, CreateRefreshToken, NewTokenID
  <2>2. j \in DOMAIN issued' /\ j # NoJti
        BY <2>1, NullAssumption DEF Write
  <2>3. Holds(p)'
        BY <1>3, <2>1, <2>2, LocalsKept
        DEF OpenFamily, Holds, PhaseInv, Goto, TypeOK, Phase, TableStep
  <2> QED
        BY <1>3, <2>1, <2>2, <2>3, LocalsKept, GotoStep
        DEF OpenFamily, Phase, Maybe
<1> QED
      BY <1>1, <1>2, <1>3 DEF Login

LEMMA LogoutRequests ==
    ASSUME TypeOK, PhaseInv, RowsInv, TableStep, NEW p \in Proc, Logout(p)
    PROVE  RequestType' /\ PhaseInv'
<1> USE DEF At
<1>1. CASE \E j \in Jti : StartLogout(p, j)
  <2>1. PICK j \in Jti : Parses(j) /\ Begin(p, "logoutGet", j, 0)
        BY <1>1 DEF StartLogout
  <2>2. j \in DOMAIN issued /\ 0 \in Time
        BY <2>1, DurationAssumption DEF Parses, TypeOK, Time
  <2> QED
        BY <2>1, <2>2, BeginStep
<1>2. CASE LogoutNothing(p)
  <2>1. \A q \in Proc : tok[q] # NoJti => tok[q] \in DOMAIN issued
        BY DEF TypeOK, Maybe
  <2>2. PhaseInv'
        BY <1>2, <2>1 DEF LogoutNothing, table, PhaseInv, Holds, locals
  <2> QED
        BY <1>2, <2>2 DEF LogoutNothing, RequestType, TypeOK, table, locals, Reply
<1>3. CASE LogoutGet(p)
  <2>1. CASE Finish(p, "loggedOut")
        BY <2>1, FinishStep DEF Reply
  <2>2. CASE /\ tok[p] \in DOMAIN rows
             /\ row' = [row EXCEPT ![p] = rows[tok[p]]]
             /\ Goto(p, "logoutRevoke")
             /\ UNCHANGED <<familyActive, minted>>
    <3>1. rows[tok[p]] \in Maybe(Row, NoRow) /\ rows[tok[p]] # NoRow
          BY <2>2, NullAssumption DEF TypeOK, Maybe
    <3>2. tok[p] # NoJti /\ rows[tok[p]].family = issued'[tok[p]].family
          BY <1>3, <2>2, NullAssumption DEF LogoutGet, TypeOK, RowsInv, table
    <3>3. Holds(p)'
          BY <2>2, <3>1, <3>2 DEF Holds, Goto, TypeOK, Phase
    <3>4. "logoutRevoke" \in Phase
          BY DEF Phase
    <3> QED
          BY <2>2, <3>1, <3>3, <3>4, LocalsKept, GotoStep
  <2> QED
        BY <1>3, <2>1, <2>2 DEF LogoutGet
<1>4. CASE LogoutRevoke(p)
      BY <1>4, FinishStep DEF LogoutRevoke, Reply
<1> QED
      BY <1>1, <1>2, <1>3, <1>4 DEF Logout

LEMMA RequestsStep ==
    ASSUME TypeOK, PhaseInv, RowsInv, Next
    PROVE  RequestType' /\ PhaseInv'
<1>1. TableStep
      BY NextTable
<1>2. ASSUME NEW p \in Proc, StatementFails(p)
      PROVE  RequestType' /\ PhaseInv'
      BY <1>1, <1>2, FinishStep DEF StatementFails, Reply
<1>3. CASE Restart
  <2>1. 0 \in Time
        BY DurationAssumption DEF Time
  <2> QED
        BY <1>3, <2>1 DEF Restart, RequestType, PhaseInv, Holds, Phase, Maybe, Reply
<1>4. CASE Tick
      BY <1>1, <1>4, RequestsKept DEF Tick
<1> QED
      BY <1>1, <1>2, <1>3, <1>4, RefreshRequests, LoginRequests, LogoutRequests
      DEF Next

LEMMA TableTypeStep ==
    ASSUME TypeOK, PhaseInv, Next
    PROVE  TableType'
<1>1. TableStep /\ now' \in Time
      BY NextTable DEF TypeOK
<1>2. \A p \in Proc : row[p] # NoRow => row[p].family \in Family
      BY RowFamily
<1>3. DOMAIN claims' \subseteq DOMAIN issued' /\ claims' \in [DOMAIN claims' -> Int]
  <2>1. CASE UNCHANGED claims
        BY <1>1, <2>1 DEF TypeOK, TableStep
  <2>2. ASSUME NEW p \in Proc, SignPair(p)
        PROVE  /\ DOMAIN claims' \subseteq DOMAIN issued'
               /\ claims' \in [DOMAIN claims' -> Int]
    <3>1. minted[p] \in DOMAIN issued
          BY <2>2 DEF SignPair, At, PhaseInv, Holds, TypeOK, Maybe
    <3>2. NumericDate(now + RefreshTokenExpiry) \in Int
          BY DurationAssumption DEF NumericDate, TypeOK, Time
    <3> QED
          BY <2>2, <3>1, <3>2 DEF SignPair, Write, TypeOK
  <2> QED
        BY <2>1, <2>2 DEF Next, Refresh, Login, Logout, Restart, Tick,
           StartRefresh, RefuseCookie, GetRefreshToken, AskFamily, AcceptToken,
           DetectReuse, RejectToken, EndReusedFamily, ConsumeToken,
           CreateSuccessor, StartLogin, StartRegister, CleanUp, OpenFamily,
           StartLogout, LogoutNothing, LogoutGet, LogoutRevoke, StatementFails,
           Begin, table
<1>4. ended' \subseteq Family
  <2>1. CASE UNCHANGED ended
        BY <2>1 DEF TypeOK
  <2>2. ASSUME NEW p \in Proc, EndReusedFamily(p) \/ LogoutRevoke(p)
        PROVE  ended' \subseteq Family
    <3>1. row[p].family \in Family
          BY <1>2, <2>2 DEF EndReusedFamily, LogoutRevoke, At, PhaseInv, Holds
    <3> QED
          BY <2>2, <3>1 DEF EndReusedFamily, LogoutRevoke, RevokeRefreshFamily,
             TypeOK
  <2> QED
        BY <2>1, <2>2 DEF Next, Refresh, Login, Logout, Restart, Tick,
           StartRefresh, RefuseCookie, GetRefreshToken, AskFamily, AcceptToken,
           DetectReuse, RejectToken, SignPair, ConsumeToken,
           CreateSuccessor, StartLogin, StartRegister, CleanUp, OpenFamily,
           StartLogout, LogoutNothing, LogoutGet, StatementFails, Begin, table
<1>5. broken' \subseteq Family
  <2>1. CASE UNCHANGED broken
        BY <2>1 DEF TypeOK
  <2>2. \A P \in SUBSET Proc : HalfRotated(P) \subseteq Family
        BY <1>2 DEF HalfRotated, PhaseInv, Holds
  <2>3. CASE Restart \/ \E p \in Proc : StatementFails(p)
        BY <2>2, <2>3 DEF Restart, StatementFails, TypeOK
  <2> QED
        BY <2>1, <2>3 DEF Next, Refresh, Login, Logout, Tick,
           StartRefresh, RefuseCookie, GetRefreshToken, AskFamily, AcceptToken,
           DetectReuse, RejectToken, EndReusedFamily, SignPair, ConsumeToken,
           CreateSuccessor, StartLogin, StartRegister, CleanUp, OpenFamily,
           StartLogout, LogoutNothing, LogoutGet, LogoutRevoke, Begin, table
<1> QED
      BY <1>1, <1>3, <1>4, <1>5 DEF TableType, TableStep

-----------------------------------------------------------------------------
(* The rows and the snapshots.                                             *)

LEMMA RowsStep ==
    ASSUME TypeOK, RowsInv, TableStep, now' = now \/ now' = now + 1
    PROVE  RowsInv'
BY DEF TypeOK, RowsInv, TableStep, Row, Time, Expiry

\* A request that keeps the row it read keeps what it knows of it.
LEMMA SnapshotKept ==
    ASSUME IInv, TableStep, now' = now \/ now' = now + 1, NEW q \in Proc,
           tok'[q] = tok[q], row'[q] = row[q], since'[q] = since[q],
           pc[q] = "logoutRevoke" => pc'[q] = "logoutRevoke",
           pc'[q] \in Accepted /\ row[q].revokedAt # NotRevoked =>
               since[q] <= row[q].revokedAt + RefreshGrace
    PROVE  Snapshot(q)'
<1>1. since'[q] <= now'
      BY DEF IInv, SnapshotInv, Snapshot, TypeOK, Time
<1>2. ASSUME row[q] # NoRow, tok[q] \in DOMAIN rows', pc[q] # "logoutRevoke"
      PROVE  IF row[q].revokedAt # NotRevoked
             THEN rows'[tok[q]].revokedAt = row[q].revokedAt
             ELSE \/ rows'[tok[q]].revokedAt = NotRevoked
                  \/ since[q] <= rows'[tok[q]].revokedAt
  <2>1. tok[q] \in DOMAIN issued
        BY <1>2 DEF IInv, PhaseInv, Holds, TypeOK, Maybe
  <2>2. tok[q] \in DOMAIN rows
        BY <1>2, <2>1 DEF TableStep
  <2>3. IF row[q].revokedAt # NotRevoked
        THEN rows[tok[q]].revokedAt = row[q].revokedAt
        ELSE \/ rows[tok[q]].revokedAt = NotRevoked
             \/ since[q] <= rows[tok[q]].revokedAt
        BY <1>2, <2>2 DEF IInv, SnapshotInv, Snapshot
  <2>4. \/ rows'[tok[q]] = rows[tok[q]]
        \/ rows[tok[q]].revokedAt = NotRevoked /\ rows'[tok[q]].revokedAt = now
        BY <1>2, <2>2 DEF TableStep, IInv, TypeOK, Row
  <2>5. since[q] <= now
        BY DEF IInv, SnapshotInv, Snapshot
  <2> QED
        BY <2>3, <2>4, <2>5
<1> QED
      BY <1>1, <1>2 DEF Snapshot

LEMMA SnapshotStep ==
    ASSUME IInv, Next
    PROVE  SnapshotInv'
<1> USE DEF At
<1>0. TableStep /\ (now' = now \/ now' = now + 1) /\ TypeOK
      BY NextTable DEF IInv
<1> SUFFICES ASSUME NEW q \in Proc PROVE Snapshot(q)'
      BY DEF SnapshotInv
<1>1. CASE UNCHANGED <<pc, locals>>
      BY <1>0, <1>1, SnapshotKept DEF locals, IInv, SnapshotInv, Snapshot
<1>2. ASSUME NEW p \in Proc, NEW a \in Reply, Finish(p, a)
      PROVE  Snapshot(q)'
  <2>1. CASE q = p
        BY <1>0, <1>2, <2>1 DEF Finish, Snapshot, Accepted, TypeOK, Time
  <2>2. CASE q # p
    <3>1. UNCHANGED <<pc[q], tok[q], row[q], since[q]>>
          BY <1>0, <1>2, <2>2 DEF Finish, TypeOK
    <3> QED
          BY <1>0, <3>1, SnapshotKept DEF IInv, SnapshotInv, Snapshot
  <2> QED
        BY <2>1, <2>2
<1>3. ASSUME NEW p \in Proc, NEW j, NEW t \in {0, now},
             NEW phase \in {"get", "cleanup", "open", "logoutGet"},
             Begin(p, phase, j, t)
      PROVE  Snapshot(q)'
  <2>1. CASE q = p
        BY <1>0, <1>3, <2>1
        DEF Begin, Snapshot, Accepted, TypeOK, Time, IInv, PhaseInv, Holds
  <2>2. CASE q # p
    <3>1. UNCHANGED <<pc[q], tok[q], row[q], since[q]>>
          BY <1>0, <1>3, <2>2 DEF Begin, TypeOK
    <3> QED
          BY <1>0, <3>1, SnapshotKept DEF IInv, SnapshotInv, Snapshot
  <2> QED
        BY <2>1, <2>2
<1>4. ASSUME NEW p \in Proc, NEW phase \in Phase, Goto(p, phase), UNCHANGED row,
             pc[p] # "logoutRevoke",
             phase \in Accepted /\ row[p].revokedAt # NotRevoked =>
                 since[p] <= row[p].revokedAt + RefreshGrace
      PROVE  Snapshot(q)'
  <2>1. UNCHANGED <<tok[q], row[q], since[q]>>
        BY <1>4 DEF Goto
  <2>2. CASE q = p
        BY <1>0, <1>4, <2>1, <2>2, SnapshotKept DEF Goto, TypeOK
  <2>3. CASE q # p
    <3>1. UNCHANGED pc[q]
          BY <1>0, <1>4, <2>3 DEF Goto, TypeOK
    <3> QED
          BY <1>0, <2>1, <3>1, SnapshotKept DEF IInv, SnapshotInv, Snapshot
  <2> QED
        BY <2>2, <2>3
<1>5. ASSUME NEW p \in Proc, GetRefreshToken(p)
      PROVE  Snapshot(q)'
  <2>1. CASE q = p
    <3>1. since'[p] <= now' /\ pc'[p] \notin Accepted
          BY <1>0, <1>5 DEF GetRefreshToken, Goto, Accepted, IInv, SnapshotInv,
             Snapshot, TypeOK
    <3>2. tok' = tok /\ rows' = rows
          BY <1>5 DEF GetRefreshToken, Goto, table
    <3>3. row'[p] # NoRow => row'[p] = rows[tok[p]]
          BY <1>0, <1>5 DEF GetRefreshToken, TypeOK
    <3> QED
          BY <2>1, <3>1, <3>2, <3>3 DEF Snapshot
  <2>2. CASE q # p
    <3>1. UNCHANGED <<pc[q], tok[q], row[q], since[q]>>
          BY <1>0, <1>5, <2>2 DEF GetRefreshToken, Goto, TypeOK
    <3> QED
          BY <1>0, <3>1, SnapshotKept DEF IInv, SnapshotInv, Snapshot
  <2> QED
        BY <2>1, <2>2
<1>6. ASSUME NEW p \in Proc, LogoutGet(p)
      PROVE  Snapshot(q)'
  <2>1. CASE q = p /\ Goto(p, "logoutRevoke")
        BY <1>0, <1>6, <2>1 DEF LogoutGet, Goto, Snapshot, Accepted, IInv,
           SnapshotInv, TypeOK
  <2>2. CASE q # p /\ Goto(p, "logoutRevoke")
             /\ row' = [row EXCEPT ![p] = rows[tok[p]]]
    <3>1. UNCHANGED <<pc[q], tok[q], row[q], since[q]>>
          BY <1>0, <2>2 DEF Goto, TypeOK
    <3> QED
          BY <1>0, <3>1, SnapshotKept DEF IInv, SnapshotInv, Snapshot
  <2>3. CASE Finish(p, "loggedOut")
        BY <1>2, <2>3 DEF Reply
  <2> QED
        BY <1>6, <2>1, <2>2, <2>3 DEF LogoutGet
<1>7. ASSUME NEW p \in Proc, AcceptToken(p)
      PROVE  Snapshot(q)'
  <2>1. row[p].revokedAt # NotRevoked => since[p] <= row[p].revokedAt + RefreshGrace
    <3>1. ASSUME row[p].revokedAt # NotRevoked
          PROVE  now - row[p].revokedAt <= RefreshGrace
          BY <1>7, <3>1 DEF AcceptToken, Verdict, Decide, State, StateOf
    <3>2. ASSUME row[p].revokedAt # NotRevoked
          PROVE  row[p] # NoRow /\ row[p].revokedAt \in Time
          BY <1>0, <1>7, <3>2 DEF AcceptToken, Verdict, Decide, State, StateOf,
             TypeOK, Maybe, Row
    <3>3. since[p] <= now /\ since[p] \in Nat /\ now \in Nat
          BY <1>0 DEF IInv, SnapshotInv, Snapshot, TypeOK, Time
    <3> QED
          BY <3>1, <3>2, <3>3, DurationAssumption DEF Time
  <2> QED
        BY <1>2, <1>4, <1>7, <2>1 DEF AcceptToken, Phase, Reply
<1>8. ASSUME NEW p \in Proc, ConsumeToken(p)
      PROVE  Snapshot(q)'
      BY <1>4, <1>8 DEF ConsumeToken, Phase, IInv, SnapshotInv, Snapshot, Accepted
<1>9. ASSUME NEW p \in Proc,
             AskFamily(p) \/ DetectReuse(p) \/ CreateSuccessor(p)
             \/ CleanUp(p) \/ OpenFamily(p)
      PROVE  Snapshot(q)'
      BY <1>4, <1>9 DEF AskFamily, DetectReuse, CreateSuccessor, CleanUp,
         OpenFamily, Phase, Accepted
<1>10. ASSUME NEW p \in Proc, Refresh(p) PROVE Snapshot(q)'
      BY <1>1, <1>2, <1>3, <1>5, <1>7, <1>8, <1>9, <1>10 DEF Refresh,
         StartRefresh, RefuseCookie, RejectToken, EndReusedFamily, SignPair, Reply
<1>11. ASSUME NEW p \in Proc, Login(p) PROVE Snapshot(q)'
      BY <1>3, <1>9, <1>11 DEF Login, StartLogin, StartRegister
<1>12. ASSUME NEW p \in Proc, Logout(p) PROVE Snapshot(q)'
      BY <1>1, <1>2, <1>3, <1>6, <1>12 DEF Logout, StartLogout, LogoutNothing,
         LogoutRevoke, Reply
<1>13. ASSUME NEW p \in Proc, StatementFails(p) PROVE Snapshot(q)'
      BY <1>2, <1>13 DEF StatementFails, Reply
<1>14. CASE Restart
      BY <1>0, <1>14 DEF Restart, Snapshot, Accepted, TypeOK, Time
<1>15. CASE Tick
      BY <1>1, <1>15 DEF Tick
<1> QED
      BY <1>10, <1>11, <1>12, <1>13, <1>14, <1>15 DEF Next

LEMMA InitIInv == Init => IInv
<1> SUFFICES ASSUME Init PROVE IInv
    OBVIOUS
<1>1. TypeOK
      BY DurationAssumption DEF Init, TypeOK, Time, Phase, Maybe, Reply
<1> QED
      BY <1>1 DEF Init, IInv, PhaseInv, Holds, RowsInv, SnapshotInv, Snapshot,
         Accepted, Phase

LEMMA NextIInv == IInv /\ [Next]_vars => IInv'
<1> SUFFICES ASSUME IInv, [Next]_vars PROVE IInv'
    OBVIOUS
<1>1. CASE Next
  <2>1. TypeOK'
        BY <1>1, TableTypeStep, RequestsStep
        DEF IInv, TypeOK, TableType, RequestType
  <2>2. PhaseInv'
        BY <1>1, RequestsStep DEF IInv
  <2>3. RowsInv'
        BY <1>1, NextTable, RowsStep DEF IInv
  <2> QED
        BY <1>1, <2>1, <2>2, <2>3, SnapshotStep DEF IInv
<1>2. CASE UNCHANGED vars
      BY <1>2 DEF vars, table, locals, IInv, TypeOK, PhaseInv, Holds, RowsInv,
         SnapshotInv, Snapshot
<1> QED
      BY <1>1, <1>2

\* IInv holds in every reachable state: it is what the theorems rest on.
THEOREM Invariance == Spec => []IInv
BY InitIInv, NextIInv, PTL DEF Spec

-----------------------------------------------------------------------------
(* The theorems.                                                           *)

\* The table, the requests and the histories keep their types.
THEOREM TypeCorrect == Spec => []TypeOK
<1>1. IInv => TypeOK
      BY DEF IInv
<1> QED
      BY <1>1, Invariance, PTL

\* A refresh token cannot be exchanged by a request that started later than
\* the grace window after the token was first consumed, however the request
\* interleaves with others (Decide on a row read earlier).
THEOREM LateReplay == Spec => []LateReplayRefused
<1>1. IInv => LateReplayRefused
  <2> SUFFICES ASSUME IInv, NEW p \in Proc,
                      pc[p] \in Accepted, tok[p] \in DOMAIN rows,
                      rows[tok[p]].revokedAt # NotRevoked
               PROVE  since[p] <= rows[tok[p]].revokedAt + RefreshGrace
      BY DEF LateReplayRefused
  <2>1. row[p] # NoRow
        BY DEF IInv, PhaseInv, Holds, Accepted
  <2>2. /\ since[p] \in Nat
        /\ rows[tok[p]].revokedAt \in Nat
        BY DEF IInv, TypeOK, Row, Time
  <2>3. CASE row[p].revokedAt # NotRevoked
        BY <2>1, <2>3 DEF IInv, SnapshotInv, Snapshot, Accepted
  <2>4. CASE row[p].revokedAt = NotRevoked
    <3>1. since[p] <= rows[tok[p]].revokedAt
          BY <2>1, <2>4 DEF IInv, SnapshotInv, Snapshot, Accepted
    <3> QED
          BY <3>1, <2>2, DurationAssumption
  <2> QED
        BY <2>3, <2>4
<1> QED
      BY <1>1, Invariance, PTL

\* A token a client holds keeps its row until it expires, so a replay is
\* always judged on what happened to the token.
THEOREM RowOfTokenInHand == Spec => []TokenInHandHasRow
<1>1. IInv => TokenInHandHasRow
      BY DEF IInv, RowsInv, TokenInHandHasRow, TypeOK, Row, Expiry, Time
<1> QED
      BY <1>1, Invariance, PTL

\* revoked_at is written at most once.
THEOREM RevocationFinal == Spec => RevocationIsFinal
<1>1. IInv /\ [Next]_vars =>
          [\A j \in DOMAIN rows \cap DOMAIN rows' :
              rows[j].revokedAt # NotRevoked =>
                  rows'[j].revokedAt = rows[j].revokedAt]_vars
      BY NextTable DEF IInv, TableStep
<1> QED
      BY <1>1, Invariance, PTL DEF Spec, RevocationIsFinal

\* A request consumes tokens of the family of the token it presented, and of
\* no other.
THEOREM OtherSessions == Spec => OtherSessionsUntouched
<1>1. ASSUME IInv, Next, NEW j \in DOMAIN rows \cap DOMAIN rows',
             rows'[j].revokedAt # rows[j].revokedAt
      PROVE  \E p \in Proc : /\ tok[p] # NoJti
                             /\ issued[tok[p]].family = issued[j].family
  <2>1. rows[j].family = issued[j].family
        BY <1>1 DEF IInv, RowsInv
  <2>2. \A p \in Proc : row[p] # NoRow =>
            tok[p] # NoJti /\ row[p].family = issued[tok[p]].family
        BY <1>1 DEF IInv, PhaseInv, Holds
  <2>3. ASSUME NEW p \in Proc, EndReusedFamily(p) \/ LogoutRevoke(p)
        PROVE  tok[p] # NoJti /\ issued[tok[p]].family = issued[j].family
    <3>1. row[p] # NoRow
          BY <1>1, <2>3 DEF EndReusedFamily, LogoutRevoke, At, IInv, PhaseInv, Holds
    <3>2. Revoke(InFamily(row[p].family))
          BY <1>1, <2>3 DEF EndReusedFamily, LogoutRevoke, RevokeRefreshFamily
    <3>3. j \in InFamily(row[p].family)
          BY <1>1, <3>2 DEF Revoke
    <3> QED
          BY <2>1, <2>2, <3>1, <3>3 DEF InFamily
  <2>4. ASSUME NEW p \in Proc, ConsumeToken(p)
        PROVE  tok[p] # NoJti /\ issued[tok[p]].family = issued[j].family
    <3>1. row[p] # NoRow
          BY <1>1, <2>4 DEF ConsumeToken, At, IInv, PhaseInv, Holds
    <3>2. j = tok[p]
          BY <1>1, <2>4 DEF ConsumeToken, RevokeRefreshToken, Revoke
    <3> QED
          BY <2>2, <3>1, <3>2
  <2>5. ASSUME NEW p \in Proc, CreateSuccessor(p) \/ OpenFamily(p)
        PROVE  FALSE
    <3>1. PICK k \in Jti \ DOMAIN issued :
              \E f : rows' = Write(rows, k, NewRow(f))
          BY <2>5 DEF CreateSuccessor, OpenFamily, CreateRefreshToken, NewTokenID
    <3> QED
          BY <1>1, <3>1 DEF Write, IInv, TypeOK
  <2>6. ASSUME NEW p \in Proc, CleanUp(p)
        PROVE  FALSE
        BY <1>1, <2>6 DEF CleanUp, DeleteExpiredRefreshTokens
  <2>7. rows' # rows
        BY <1>1
  <2> QED
        BY <1>1, <2>3, <2>4, <2>5, <2>6, <2>7
        DEF Next, Refresh, Login, Logout, Restart, Tick,
           StartRefresh, RefuseCookie, GetRefreshToken, AskFamily, AcceptToken,
           DetectReuse, RejectToken, SignPair, StartLogin, StartRegister,
           StartLogout, LogoutNothing, LogoutGet, StatementFails, Begin, table
<1>2. IInv /\ [Next]_vars =>
          [\A j \in DOMAIN rows \cap DOMAIN rows' :
              rows'[j].revokedAt # rows[j].revokedAt =>
                  \E p \in Proc :
                      /\ tok[p] # NoJti
                      /\ issued[tok[p]].family = issued[j].family]_vars
      BY <1>1
<1> QED
      BY <1>2, Invariance, PTL DEF Spec, OtherSessionsUntouched

\* A new row goes into a family that a request accepted in that family is
\* rotating, or into a family never seen before.
LEMMA NewRowFamily ==
    ASSUME TypeOK, Next, NEW k \in DOMAIN issued', k \notin DOMAIN issued
    PROVE  \/ ~Issued(issued'[k].family)
           \/ \E p \in Proc : pc[p] = "create" /\ row[p].family = issued'[k].family
<1>1. ASSUME NEW p \in Proc, CreateSuccessor(p)
      PROVE  pc[p] = "create" /\ row[p].family = issued'[k].family
      BY <1>1 DEF CreateSuccessor, CreateRefreshToken, NewTokenID, Write, NewRow,
         At, TypeOK
<1>2. ASSUME NEW p \in Proc, OpenFamily(p)
      PROVE  ~Issued(issued'[k].family)
  <2>1. PICK f \in NewFamilyID, j \in NewTokenID :
            issued' = Write(issued, j, NewRow(f))
        BY <1>2 DEF OpenFamily, CreateRefreshToken
  <2>2. issued'[k].family = f
        BY <2>1 DEF Write, NewRow, TypeOK
  <2> QED
        BY <2>1, <2>2 DEF NewFamilyID, Issued
<1>3. issued' # issued
      OBVIOUS
<1> QED
      BY <1>1, <1>2, <1>3
      DEF Next, Refresh, Login, Logout, Restart, Tick,
         StartRefresh, RefuseCookie, GetRefreshToken, AskFamily, AcceptToken,
         DetectReuse, RejectToken, EndReusedFamily, ConsumeToken, SignPair,
         StartLogin, StartRegister, CleanUp,
         StartLogout, LogoutNothing, LogoutGet, LogoutRevoke, StatementFails,
         Begin, table

\* No live token appears in a family that is over.
LEMMA OverNoToken ==
    ASSUME IInv, Next, NEW f \in Family, Over(f)
    PROVE  ~FamilyHasActiveToken(f)'
<1>0. TypeOK /\ TableStep /\ (now' = now \/ now' = now + 1)
      BY NextTable DEF IInv
<1> SUFFICES ASSUME NEW k \in DOMAIN rows', rows'[k].family = f,
                    rows'[k].revokedAt = NotRevoked, rows'[k].expiresAt > now'
             PROVE  FALSE
    BY DEF FamilyHasActiveToken, InFamily
<1>1. CASE k \in DOMAIN rows
  <2>1. rows'[k] = rows[k]
        BY <1>0, <1>1 DEF TableStep, TypeOK, Row, Time, NotRevoked
  <2>2. rows[k].expiresAt > now
        BY <1>0, <1>1, <2>1 DEF TypeOK, Row, Time, Expiry
  <2> QED
        BY <1>1, <2>1, <2>2 DEF Over, FamilyHasActiveToken, InFamily
<1>2. CASE k \notin DOMAIN rows
  <2>1. k \in DOMAIN issued' \ DOMAIN issued /\ issued'[k].family = f
        BY <1>0, <1>2 DEF TableStep
  <2>2. ~Issued(f) \/ \E p \in Proc : pc[p] = "create" /\ row[p].family = f
        BY <1>0, <2>1, NewRowFamily
  <2>3. \A p \in Proc : pc[p] = "create" => row[p] # NoRow
        BY DEF IInv, PhaseInv, Holds
  <2> QED
        BY <2>2, <2>3 DEF Over, MayIssue, Accepted
<1> QED
      BY <1>1, <1>2

\* A request that a step leaves alone may lose the token it found live to the
\* clock, and finds none.
LEMMA OthersLicence ==
    ASSUME TypeOK, now' = now \/ now' = now + 1, NEW q \in Proc, NEW f,
           UNCHANGED <<pc[q], row[q], familyActive[q]>>, MayIssue(q, f)'
    PROVE  MayIssue(q, f)
<1>1. row[q] # NoRow => row[q] \in Row
      BY RowFamily
<1> QED
      BY <1>1 DEF MayIssue, Expired, TypeOK, Time, Row, Expiry

\* Every step but the two that look for a live token licenses nobody.
LEMMA LicenceShrinks ==
    ASSUME IInv, Next, NEW f \in Family, NEW q \in Proc, MayIssue(q, f)',
           \A p \in Proc : ~GetRefreshToken(p) /\ ~AskFamily(p)
    PROVE  MayIssue(q, f)
<1> USE DEF At
<1>0. TypeOK /\ (now' = now \/ now' = now + 1)
      BY NextTable DEF IInv
<1>1. CASE UNCHANGED <<pc[q], row[q], familyActive[q]>>
      BY <1>0, <1>1, OthersLicence
<1>2. ASSUME pc'[q] \notin Accepted \cup {"decide"} PROVE FALSE
      BY <1>2 DEF MayIssue
<1>3. ASSUME NEW p \in Proc, NEW a, Finish(p, a) PROVE MayIssue(q, f)
      BY <1>0, <1>1, <1>3 DEF Finish, MayIssue, TypeOK
<1>4. ASSUME NEW p \in Proc, NEW j, NEW t, Begin(p, "get", j, t)
                 \/ Begin(p, "cleanup", j, t) \/ Begin(p, "open", j, t)
                 \/ Begin(p, "logoutGet", j, t)
      PROVE  MayIssue(q, f)
      BY <1>0, <1>1, <1>2, <1>4 DEF Begin, TypeOK, Accepted
<1>5. ASSUME NEW p \in Proc, AcceptToken(p) PROVE MayIssue(q, f)
  <2>1. CASE q = p /\ Goto(p, "revoke") /\ row' = row
    <3>1. /\ row[p] # NoRow /\ ~Expired(row[p].expiresAt, now)
          /\ row[p].revokedAt = NotRevoked \/ familyActive[p]
          BY <1>5 DEF AcceptToken, Verdict, Decide, State, StateOf
    <3> QED
          BY <1>5, <2>1, <3>1 DEF AcceptToken, MayIssue
  <2>2. CASE q # p
        BY <1>0, <1>1, <1>3, <1>5, <2>2 DEF AcceptToken, Goto, TypeOK
  <2> QED
        BY <1>3, <1>5, <2>1, <2>2 DEF AcceptToken
<1>6. ASSUME NEW p \in Proc, ConsumeToken(p) PROVE MayIssue(q, f)
  <2>1. CASE q = p
        BY <1>0, <1>6, <2>1 DEF ConsumeToken, Goto, MayIssue, Accepted
  <2>2. CASE q # p
        BY <1>0, <1>1, <1>6, <2>2 DEF ConsumeToken, Goto, TypeOK
  <2> QED
        BY <2>1, <2>2
<1>7. ASSUME NEW p \in Proc, DetectReuse(p) \/ CreateSuccessor(p) \/ CleanUp(p)
             \/ OpenFamily(p)
      PROVE  MayIssue(q, f)
  <2>1. CASE q = p
        BY <1>0, <1>2, <1>7, <2>1 DEF DetectReuse, CreateSuccessor, CleanUp,
           OpenFamily, Goto, TypeOK, Accepted
  <2>2. CASE q # p
        BY <1>0, <1>1, <1>7, <2>2 DEF DetectReuse, CreateSuccessor, CleanUp,
           OpenFamily, Goto, TypeOK
  <2> QED
        BY <2>1, <2>2
<1>8. ASSUME NEW p \in Proc, LogoutGet(p) PROVE MayIssue(q, f)
  <2>1. CASE Goto(p, "logoutRevoke") /\ row' = [row EXCEPT ![p] = rows[tok[p]]]
             /\ UNCHANGED familyActive
        BY <1>0, <1>1, <1>2, <2>1 DEF Goto, TypeOK, Accepted
  <2> QED
        BY <1>3, <1>8, <2>1 DEF LogoutGet
<1>9. CASE Restart
      BY <1>9 DEF Restart, MayIssue
<1>10. CASE Tick
       BY <1>1, <1>10 DEF Tick, locals
<1>11. ASSUME NEW p \in Proc, Refresh(p) PROVE MayIssue(q, f)
       BY <1>1, <1>3, <1>4, <1>5, <1>6, <1>7, <1>11 DEF Refresh,
          StartRefresh, RefuseCookie, RejectToken, EndReusedFamily, SignPair, locals
<1>12. ASSUME NEW p \in Proc, Login(p) PROVE MayIssue(q, f)
       BY <1>4, <1>7, <1>12 DEF Login, StartLogin, StartRegister
<1>13. ASSUME NEW p \in Proc, Logout(p) PROVE MayIssue(q, f)
       BY <1>1, <1>3, <1>4, <1>8, <1>13 DEF Logout, StartLogout, LogoutNothing,
          LogoutRevoke, locals
<1> QED
      BY <1>3, <1>9, <1>10, <1>11, <1>12, <1>13 DEF Next, StatementFails

\* No request finds a live token in a family that is over, or is accepted.
LEMMA OverNoRequest ==
    ASSUME IInv, Next, NEW f \in Family, Over(f), NEW q \in Proc
    PROVE  ~MayIssue(q, f)'
<1> USE DEF At
<1>0. TypeOK /\ (now' = now \/ now' = now + 1) /\ ~MayIssue(q, f)
      BY NextTable DEF IInv, Over
<1>1. CASE UNCHANGED <<pc[q], row[q], familyActive[q]>>
      BY <1>0, <1>1, OthersLicence
<1>2. CASE pc'[q] \notin Accepted \cup {"decide"}
      BY <1>2 DEF MayIssue
<1>3. ASSUME NEW p \in Proc, GetRefreshToken(p) PROVE ~MayIssue(q, f)'
  <2>1. CASE q = p
    <3>1. CASE pc'[q] = "decide" /\ tok[q] \in DOMAIN rows
      <4>1. row'[q] = rows[tok[q]] /\ rows[tok[q]].revokedAt = NotRevoked
            BY <1>0, <1>3, <2>1, <3>1 DEF GetRefreshToken, Goto, TypeOK
      <4>2. now' = now /\ now \in Nat /\ rows[tok[q]].expiresAt \in Nat
            BY <1>0, <1>3, <3>1 DEF GetRefreshToken, TypeOK, Time, Row, Expiry
      <4>3. rows[tok[q]].family = f => ~(rows[tok[q]].expiresAt > now)
            BY <3>1, <4>1 DEF Over, FamilyHasActiveToken, InFamily
      <4> QED
            BY <3>1, <4>1, <4>2, <4>3 DEF MayIssue, Expired, Accepted
    <3>2. CASE pc'[q] = "decide" /\ tok[q] \notin DOMAIN rows
          BY <1>0, <1>3, <2>1, <3>2 DEF GetRefreshToken, TypeOK, MayIssue
    <3> QED
          BY <1>0, <1>2, <1>3, <2>1, <3>1, <3>2
          DEF GetRefreshToken, Goto, TypeOK, Accepted
  <2>2. CASE q # p
        BY <1>0, <1>1, <1>3, <2>2 DEF GetRefreshToken, Goto, TypeOK
  <2> QED
        BY <2>1, <2>2
<1>4. ASSUME NEW p \in Proc, AskFamily(p) PROVE ~MayIssue(q, f)'
  <2>1. CASE q = p
    <3>1. row[q].revokedAt # NotRevoked
          BY <1>4, <2>1 DEF AskFamily, IInv, PhaseInv, Holds
    <3>2. familyActive'[q] = FamilyHasActiveToken(row[q].family) /\ row' = row
          /\ pc'[q] = "decide"
          BY <1>0, <1>4, <2>1 DEF AskFamily, Goto, TypeOK
    <3> QED
          BY <3>1, <3>2 DEF MayIssue, Over, Accepted
  <2>2. CASE q # p
        BY <1>0, <1>1, <1>4, <2>2 DEF AskFamily, Goto, TypeOK
  <2> QED
        BY <2>1, <2>2
<1> QED
      BY <1>0, <1>3, <1>4, LicenceShrinks

\* A session that is over - logged out, ended by a reuse alarm or expired,
\* with no request under way that had found it live - never comes back.
THEOREM OverForever == Spec => OverStaysOver
<1>1. ASSUME IInv, Next, NEW f \in Family, Over(f) PROVE Over(f)'
  <2>1. TableStep
        BY <1>1, NextTable DEF IInv
  <2>2. Issued(f)'
        BY <1>1, <2>1 DEF Over, Issued, TableStep
  <2> QED
        BY <1>1, <2>2, OverNoToken, OverNoRequest DEF Over
<1>2. IInv /\ [Next]_vars => [\A f \in Family : Over(f) => Over(f)']_vars
      BY <1>1
<1> QED
      BY <1>2, Invariance, PTL DEF Spec, OverStaysOver

-----------------------------------------------------------------------------
(* The successor.  RotationLeavesSuccessor is not inductive: the token that *)
(* replaced a consumed one might lapse first.  It never does, since expiry  *)
(* dates only grow with time.                                               *)

\* No token was promised a longer life than one issued now.
IssuedInv == \A j \in DOMAIN issued : issued[j].expiresAt <= now + RefreshTokenExpiry

Succeeded(j) ==
    \E k \in DOMAIN rows : /\ rows[k].family = rows[j].family
                           /\ rows[k].revokedAt = NotRevoked
                           /\ rows[k].expiresAt >= rows[j].expiresAt

\* A rotation of j's family is under way, or a token took over from j.
Covered(j) == Rotating(rows[j].family) \/ Succeeded(j)

\* Consumed by a rotation, so far as anyone can tell.
Consumed(j) ==
    /\ j \in DOMAIN rows
    /\ rows[j].revokedAt # NotRevoked
    /\ rows[j].family \notin ended \cup broken

SuccessorInv == \A j \in DOMAIN rows : Consumed(j) => Covered(j)

\* What a step may do to the rotations under way: they go on, or are recorded.
RotationsKept ==
    \A p \in Proc : pc[p] = "create" =>
        (pc'[p] = "create" /\ row'[p] = row[p]) \/ row[p].family \in broken'

\* Rows stay as they are, and what was ended or broken off is remembered.
LEMMA QuietSuccessor ==
    ASSUME SuccessorInv, RotationsKept, UNCHANGED rows,
           ended \subseteq ended', broken \subseteq broken'
    PROVE  SuccessorInv'
<1> SUFFICES ASSUME NEW j, Consumed(j)'
             PROVE  Covered(j)'
    BY DEF SuccessorInv
<1> USE DEF Consumed, Covered
<1>1. Rotating(rows[j].family) \/ Succeeded(j)
      BY DEF SuccessorInv
<1>2. CASE Rotating(rows[j].family)
      BY <1>2 DEF RotationsKept, Rotating
<1>3. CASE Succeeded(j)
      BY <1>3 DEF Succeeded
<1> QED
      BY <1>1, <1>2, <1>3

\* A family is ended: its rows no longer count, and no others changed.
LEMMA EndedSuccessor ==
    ASSUME TypeOK, SuccessorInv, RotationsKept, NEW f, RevokeRefreshFamily(f),
           broken \subseteq broken'
    PROVE  SuccessorInv'
<1>1. /\ ended' = ended \cup {f} /\ DOMAIN rows' = DOMAIN rows
      /\ \A j \in DOMAIN rows :
            /\ rows'[j].family = rows[j].family
            /\ rows'[j].expiresAt = rows[j].expiresAt
            /\ rows[j].family # f => rows'[j] = rows[j]
      BY DEF RevokeRefreshFamily, Revoke, InFamily, TypeOK, Row
<1> SUFFICES ASSUME NEW j, Consumed(j)'
             PROVE  Covered(j)'
    BY DEF SuccessorInv
<1> USE DEF Consumed, Covered
<1>2. rows'[j] = rows[j] /\ rows[j].family # f /\ rows[j].family \notin ended \cup broken
      BY <1>1
<1>3. CASE Rotating(rows[j].family)
      BY <1>2, <1>3 DEF RotationsKept, Rotating
<1>4. CASE Succeeded(j)
      BY <1>1, <1>2, <1>4 DEF Succeeded
<1> QED
      BY <1>1, <1>2, <1>3, <1>4 DEF SuccessorInv

\* A token is consumed by a rotation, which is then under way.
LEMMA ConsumedSuccessor ==
    ASSUME IInv, SuccessorInv, NEW p \in Proc, ConsumeToken(p)
    PROVE  SuccessorInv'
<1> USE DEF At
<1>1. /\ pc'[p] = "create" /\ row' = row /\ UNCHANGED <<ended, broken>>
      /\ \A q \in Proc \ {p} : pc'[q] = pc[q]
      /\ Revoke({tok[p]})
      BY DEF ConsumeToken, RevokeRefreshToken, Goto, IInv, TypeOK
<1>2. /\ DOMAIN rows' = DOMAIN rows
      /\ \A j \in DOMAIN rows :
            /\ rows'[j].family = rows[j].family
            /\ rows'[j].expiresAt = rows[j].expiresAt
            /\ j # tok[p] => rows'[j] = rows[j]
            /\ rows[j].revokedAt # NotRevoked => rows'[j] = rows[j]
      BY <1>1 DEF Revoke, IInv, TypeOK, Row
<1>3. row[p] # NoRow /\ row[p].family = issued[tok[p]].family
      BY DEF ConsumeToken, IInv, PhaseInv, Holds
<1>4. tok[p] \in DOMAIN rows => rows[tok[p]].family = row[p].family
      BY <1>3 DEF IInv, RowsInv
<1>5. \A f : Rotating(f) => Rotating(f)'
      BY <1>1 DEF Rotating
<1> SUFFICES ASSUME NEW j, Consumed(j)'
             PROVE  Covered(j)'
    BY DEF SuccessorInv
<1> USE DEF Consumed, Covered
<1>6. CASE rows[j].family = row[p].family
      BY <1>1, <1>2, <1>6 DEF Rotating
<1>7. CASE rows[j].family # row[p].family
  <2>1. j # tok[p] /\ rows'[j] = rows[j]
        BY <1>2, <1>4, <1>7
  <2>2. Rotating(rows[j].family) \/ Succeeded(j)
        BY <1>1, <1>2, <2>1 DEF SuccessorInv
  <2>3. CASE Succeeded(j)
    <3>1. PICK k \in DOMAIN rows : /\ rows[k].family = rows[j].family
                                   /\ rows[k].revokedAt = NotRevoked
                                   /\ rows[k].expiresAt >= rows[j].expiresAt
          BY <2>3 DEF Succeeded
    <3>2. k # tok[p]
          BY <1>4, <1>7, <3>1
    <3> QED
          BY <1>2, <2>1, <3>1, <3>2 DEF Succeeded
  <2> QED
        BY <1>5, <2>1, <2>2, <2>3
<1> QED
      BY <1>6, <1>7

\* A token is issued: it outlives all before it.
LEMMA IssuedSuccessor ==
    ASSUME IInv, IssuedInv, SuccessorInv, NEW p \in Proc, NEW f \in Family,
           CreateRefreshToken(p, f), UNCHANGED <<now, row, ended, broken>>,
           \A q \in Proc \ {p} : pc'[q] = pc[q],
           pc[p] = "create" => row[p].family = f
    PROVE  SuccessorInv'
<1>1. PICK t \in Jti \ DOMAIN issued : rows' = Write(rows, t, NewRow(f))
      BY DEF CreateRefreshToken, NewTokenID
<1>2. /\ DOMAIN rows' = DOMAIN rows \cup {t} /\ t \notin DOMAIN rows
      /\ rows'[t] = NewRow(f) /\ \A j \in DOMAIN rows : rows'[j] = rows[j]
      BY <1>1 DEF Write, IInv, TypeOK
<1>3. \A j \in DOMAIN rows : /\ rows[j].expiresAt <= now + RefreshTokenExpiry
      BY DEF IssuedInv, IInv, RowsInv, TypeOK
<1> SUFFICES ASSUME NEW j, Consumed(j)'
             PROVE  Covered(j)'
    BY DEF SuccessorInv
<1> USE DEF Consumed, Covered
<1>4. j \in DOMAIN rows /\ rows'[j] = rows[j]
      BY <1>2 DEF NewRow
<1>5. CASE rows[j].family = f
  <2>1. rows'[t].family = f /\ rows'[t].revokedAt = NotRevoked
        /\ rows'[t].expiresAt >= rows'[j].expiresAt
        BY <1>2, <1>3, <1>4 DEF NewRow
  <2> QED
        BY <1>2, <1>4, <1>5, <2>1 DEF Succeeded
<1>6. CASE rows[j].family # f /\ Rotating(rows[j].family)
      BY <1>4, <1>6 DEF Rotating
<1>7. CASE Succeeded(j)
      BY <1>2, <1>4, <1>7 DEF Succeeded
<1> QED
      BY <1>4, <1>5, <1>6, <1>7 DEF SuccessorInv

\* Housekeeping: a row that goes was outlived by no row that stays.
LEMMA DeletedSuccessor ==
    ASSUME TypeOK, SuccessorInv, DeleteExpiredRefreshTokens,
           RotationsKept, UNCHANGED <<ended, broken>>
    PROVE  SuccessorInv'
<1>1. /\ DOMAIN rows' = {k \in DOMAIN rows : ~(rows[k].expiresAt < now)}
      /\ \A j \in DOMAIN rows' : rows'[j] = rows[j]
      BY DEF DeleteExpiredRefreshTokens
<1>2. \A j \in DOMAIN rows : rows[j].expiresAt \in Nat /\ now \in Nat
      BY DEF TypeOK, Row, Expiry, Time
<1> SUFFICES ASSUME NEW j, Consumed(j)'
             PROVE  Covered(j)'
    BY DEF SuccessorInv
<1> USE DEF Consumed, Covered
<1>3. CASE Rotating(rows[j].family)
      BY <1>1, <1>3 DEF RotationsKept, Rotating
<1>4. CASE Succeeded(j)
      BY <1>1, <1>2, <1>4 DEF Succeeded
<1> QED
      BY <1>1, <1>3, <1>4 DEF SuccessorInv

LEMMA NextSuccessor ==
    ASSUME IInv, IssuedInv, SuccessorInv, Next
    PROVE  SuccessorInv'
<1> USE DEF At
<1>0. TypeOK
      BY DEF IInv
<1>1. ASSUME NEW p \in Proc, pc[p] # "create",
             \A q \in Proc \ {p} : UNCHANGED <<pc[q], row[q]>>
      PROVE  RotationsKept
      BY <1>1 DEF RotationsKept
<1>2. ASSUME NEW p \in Proc,
             \/ \E j \in Jti : StartRefresh(p, j) \/ StartLogout(p, j)
             \/ StartLogin(p) \/ StartRegister(p)
             \/ RefuseCookie(p) \/ LogoutNothing(p)
             \/ GetRefreshToken(p) \/ AskFamily(p) \/ AcceptToken(p)
             \/ DetectReuse(p) \/ RejectToken(p) \/ SignPair(p) \/ LogoutGet(p)
      PROVE  SuccessorInv'
  <2>1. UNCHANGED <<rows, ended, broken>>
        BY <1>2 DEF StartRefresh, StartLogout, StartLogin, StartRegister, Begin,
           RefuseCookie, LogoutNothing, GetRefreshToken, AskFamily, AcceptToken,
           DetectReuse, RejectToken, SignPair, LogoutGet, table
  <2>2. /\ pc[p] # "create"
        /\ \A q \in Proc \ {p} : UNCHANGED <<pc[q], row[q]>>
        BY <1>0, <1>2 DEF StartRefresh, StartLogout, StartLogin, StartRegister,
           Begin, RefuseCookie, LogoutNothing, GetRefreshToken, AskFamily,
           AcceptToken, DetectReuse, RejectToken, SignPair, LogoutGet, locals,
           Goto, Finish, TypeOK
  <2> QED
        BY <1>1, <2>1, <2>2, QuietSuccessor
<1>3. ASSUME NEW p \in Proc, EndReusedFamily(p) \/ LogoutRevoke(p)
      PROVE  SuccessorInv'
  <2>1. /\ pc[p] # "create" /\ UNCHANGED broken
        /\ \A q \in Proc \ {p} : UNCHANGED <<pc[q], row[q]>>
        /\ RevokeRefreshFamily(row[p].family) \/ UNCHANGED <<rows, ended>>
        BY <1>0, <1>3 DEF EndReusedFamily, LogoutRevoke, Finish, TypeOK
  <2>2. PICK f : f = row[p].family
        OBVIOUS
  <2>3. RevokeRefreshFamily(f) \/ UNCHANGED <<rows, ended>>
        BY <2>1, <2>2 DEF RevokeRefreshFamily, Revoke, InFamily
  <2> QED
        BY <1>0, <1>1, <2>1, <2>3, QuietSuccessor, EndedSuccessor
<1>4. ASSUME NEW p \in Proc, ConsumeToken(p) PROVE SuccessorInv'
      BY <1>4, ConsumedSuccessor
<1>5. ASSUME NEW p \in Proc, CreateSuccessor(p) \/ OpenFamily(p)
      PROVE  SuccessorInv'
  <2>1. PICK f \in Family :
            CreateRefreshToken(p, f) /\ (pc[p] = "create" => row[p].family = f)
    <3>1. CASE CreateSuccessor(p)
          BY <1>0, <3>1, RowFamily DEF CreateSuccessor, CreateRefreshToken, IInv,
             PhaseInv, Holds
    <3>2. CASE OpenFamily(p)
          BY <3>2 DEF OpenFamily, NewFamilyID
    <3> QED
          BY <1>5, <3>1, <3>2
  <2>2. /\ UNCHANGED <<now, row, ended, broken>>
        /\ \A q \in Proc \ {p} : pc'[q] = pc[q]
        BY <1>0, <1>5 DEF CreateSuccessor, OpenFamily, Goto, TypeOK
  <2> QED
        BY <2>1, <2>2, IssuedSuccessor
<1>6. ASSUME NEW p \in Proc, CleanUp(p) PROVE SuccessorInv'
  <2>1. /\ pc[p] # "create" /\ UNCHANGED <<ended, broken>>
        /\ \A q \in Proc \ {p} : UNCHANGED <<pc[q], row[q]>>
        BY <1>0, <1>6 DEF CleanUp, Goto, TypeOK
  <2>2. DeleteExpiredRefreshTokens \/ UNCHANGED rows
        BY <1>6 DEF CleanUp
  <2> QED
        BY <1>0, <1>1, <2>1, <2>2, QuietSuccessor, DeletedSuccessor
<1>7. ASSUME NEW p \in Proc, StatementFails(p) PROVE SuccessorInv'
  <2>1. /\ broken' = broken \cup HalfRotated({p}) /\ UNCHANGED <<rows, ended>>
        /\ \A q \in Proc \ {p} : UNCHANGED <<pc[q], row[q]>>
        BY <1>0, <1>7 DEF StatementFails, Finish, TypeOK
  <2>2. RotationsKept
        BY <2>1 DEF RotationsKept, HalfRotated
  <2> QED
        BY <2>1, <2>2, QuietSuccessor
<1>8. CASE Restart
  <2>1. broken' = broken \cup HalfRotated(Proc) /\ UNCHANGED <<rows, ended>>
        BY <1>8 DEF Restart
  <2>2. RotationsKept
        BY <2>1 DEF RotationsKept, HalfRotated
  <2> QED
        BY <2>1, <2>2, QuietSuccessor
<1>9. CASE Tick
  <2>1. UNCHANGED <<rows, ended, broken, pc, row>>
        BY <1>9 DEF Tick, table, locals
  <2>2. RotationsKept
        BY <2>1 DEF RotationsKept
  <2> QED
        BY <2>1, <2>2, QuietSuccessor
<1> QED
      BY <1>2, <1>3, <1>4, <1>5, <1>6, <1>7, <1>8, <1>9
      DEF Next, Refresh, Login, Logout

\* A row is issued with the longest life there is at the time.
LEMMA NextIssued ==
    ASSUME IInv, IssuedInv, Next
    PROVE  IssuedInv'
<1>1. TypeOK /\ TableStep /\ (now' = now \/ now' = now + 1)
      BY NextTable DEF IInv
<1>2. ASSUME NEW p \in Proc, NEW f, CreateRefreshToken(p, f), UNCHANGED now
      PROVE  IssuedInv'
  <2>1. PICK t \in Jti \ DOMAIN issued : issued' = Write(issued, t, NewRow(f))
        BY <1>2 DEF CreateRefreshToken, NewTokenID
  <2> QED
        BY <1>1, <1>2, <2>1, DurationAssumption
        DEF IssuedInv, Write, NewRow, TypeOK, Row, Time, Expiry
<1>3. CASE UNCHANGED issued
      BY <1>1, <1>3, DurationAssumption DEF IssuedInv, TypeOK, Row, Time, Expiry
<1>4. ASSUME NEW p \in Proc, CreateSuccessor(p) \/ OpenFamily(p)
      PROVE  \E f : CreateRefreshToken(p, f) /\ UNCHANGED now
      BY <1>4 DEF CreateSuccessor, OpenFamily, At, CreateRefreshToken
<1> QED
      BY <1>2, <1>3, <1>4
      DEF Next, Refresh, Login, Logout, Restart, Tick,
         StartRefresh, RefuseCookie, GetRefreshToken, AskFamily, AcceptToken,
         DetectReuse, RejectToken, EndReusedFamily, ConsumeToken, SignPair,
         StartLogin, StartRegister, CleanUp,
         StartLogout, LogoutNothing, LogoutGet, LogoutRevoke, StatementFails,
         Begin, table

\* A consumed token that has not expired has a live successor, unless its
\* session was ended or its rotation is under way or was cut short
\* (RefreshToken's order: consume, then create).
THEOREM SuccessorIsLive == Spec => []RotationLeavesSuccessor
<1>1. Init => IssuedInv /\ SuccessorInv
      BY DEF Init, IssuedInv, SuccessorInv
<1>2. IInv /\ IssuedInv /\ SuccessorInv /\ [Next]_vars => (IssuedInv /\ SuccessorInv)'
  <2> SUFFICES ASSUME IInv, IssuedInv, SuccessorInv, [Next]_vars
               PROVE  (IssuedInv /\ SuccessorInv)'
      OBVIOUS
  <2>1. CASE UNCHANGED vars
        BY <2>1 DEF vars, table, locals, IssuedInv, SuccessorInv, Consumed,
           Covered, Rotating, Succeeded
  <2> QED
        BY <2>1, NextIssued, NextSuccessor
<1>3. IInv /\ SuccessorInv => RotationLeavesSuccessor
      BY DEF IInv, TypeOK, Row, Expiry, Time, SuccessorInv, Consumed, Covered,
         Succeeded, RotationLeavesSuccessor, FamilyHasActiveToken, InFamily, Expired
<1> QED
      BY <1>1, <1>2, <1>3, Invariance, PTL DEF Spec

-----------------------------------------------------------------------------
(* The refinement of SessionLife.                                          *)

\* What SessionLife calls live and licence, for one session.
LiveOf(f) == {j \in InFamily(f) : Live(j)}
LicenceOf(f) == {p \in Proc : MayIssue(p, f)}

LiveBar == [f \in Family |-> LiveOf(f)]
LicenceBar == [f \in Family |-> LicenceOf(f)]

\* A step that issues nothing revives no token.
LEMMA LiveShrinks ==
    ASSUME IInv, Next, UNCHANGED issued, NEW f
    PROVE  LiveOf(f)' \subseteq LiveOf(f)
<1>1. TypeOK /\ TableStep /\ (now' = now \/ now' = now + 1)
      BY NextTable DEF IInv
<1> SUFFICES ASSUME NEW j \in DOMAIN rows', rows'[j].family = f,
                    rows'[j].revokedAt = NotRevoked, rows'[j].expiresAt > now'
             PROVE  j \in LiveOf(f)
    BY DEF LiveOf, InFamily, Live
<1>2. j \in DOMAIN rows
      BY <1>1 DEF TableStep
<1>3. rows'[j] = rows[j]
      BY <1>1, <1>2 DEF TableStep, TypeOK, Row, Time, NotRevoked
<1> QED
      BY <1>1, <1>2, <1>3 DEF LiveOf, InFamily, Live, TypeOK, Row, Time, Expiry

LEMMA LapseStep ==
    ASSUME IInv, Next, UNCHANGED issued,
           \A f \in Family : LicenceOf(f)' \subseteq LicenceOf(f)
    PROVE  Life!Lapse
<1>1. \A f \in Family : LiveOf(f)' \subseteq LiveOf(f)
      BY LiveShrinks
<1>2. \A f \in Family : LiveOf(f) \subseteq Jti
      BY DEF LiveOf, InFamily, IInv, TypeOK
<1> QED
      BY <1>1, <1>2 DEF Life!Lapse, LiveOf, LicenceOf, Issued

\* A request looks for a live token: it is licensed only if there is one.
LEMMA GrantStep ==
    ASSUME IInv, Next, NEW p \in Proc, GetRefreshToken(p) \/ AskFamily(p)
    PROVE  Life!Next
<1> USE DEF At
<1>1. TypeOK /\ UNCHANGED <<now, rows, issued>>
      BY DEF GetRefreshToken, AskFamily, table, IInv
<1>2. ASSUME NEW q \in Proc, q # p, NEW f PROVE MayIssue(q, f)' <=> MayIssue(q, f)
  <2>1. UNCHANGED <<pc[q], row[q], familyActive[q]>>
        BY <1>1, <1>2 DEF GetRefreshToken, AskFamily, Goto, TypeOK
  <2> QED
        BY <1>1, <2>1 DEF MayIssue
<1>3. \A f : ~MayIssue(p, f)
      BY DEF MayIssue, Accepted, GetRefreshToken, AskFamily
<1>4. ASSUME NEW f \in Family, MayIssue(p, f)'
      PROVE  LiveOf(f) # {} /\ f = row'[p].family
  <2>1. f = row'[p].family
        BY <1>4 DEF MayIssue
  <2>2. CASE GetRefreshToken(p)
    <3>1. /\ tok[p] \in DOMAIN rows /\ row'[p] = rows[tok[p]]
          /\ rows[tok[p]].revokedAt = NotRevoked
          BY <1>1, <1>4, <2>2 DEF GetRefreshToken, Goto, MayIssue, Accepted, TypeOK
    <3>2. ~Expired(rows[tok[p]].expiresAt, now)
          BY <1>1, <1>4, <2>2, <3>1
          DEF GetRefreshToken, Goto, MayIssue, Accepted, TypeOK
    <3>3. tok[p] \in LiveOf(f)
          BY <1>1, <2>1, <3>1, <3>2
          DEF LiveOf, InFamily, Live, Expired, TypeOK, Row, Time, Expiry
    <3> QED
          BY <2>1, <3>3
  <2>3. CASE AskFamily(p)
    <3>1. row[p].revokedAt # NotRevoked /\ row' = row
          BY <2>3 DEF AskFamily, IInv, PhaseInv, Holds
    <3>2. FamilyHasActiveToken(row[p].family)
          BY <1>1, <1>4, <2>3, <3>1 DEF AskFamily, Goto, MayIssue, Accepted, TypeOK
    <3> QED
          BY <2>1, <3>1, <3>2 DEF FamilyHasActiveToken, LiveOf, InFamily, Live
  <2> QED
        BY <2>2, <2>3
<1>5. \A f : LiveOf(f)' = LiveOf(f)
      BY <1>1 DEF LiveOf, InFamily, Live
<1>6. CASE \E f \in Family : MayIssue(p, f)'
  <2>1. PICK f \in Family : MayIssue(p, f)'
        BY <1>6
  <2>2. \A g \in Family \ {f} : ~MayIssue(p, g)'
        BY <1>4, <2>1
  <2>3. /\ LicenceOf(f)' = LicenceOf(f) \cup {p}
        /\ \A g \in Family \ {f} : LicenceOf(g)' = LicenceOf(g)
        BY <1>2, <1>3, <2>1, <2>2 DEF LicenceOf
  <2>4. LicenceBar' = [LicenceBar EXCEPT ![f] = LicenceBar[f] \cup {p}]
        BY <2>3 DEF LicenceBar
  <2>5. LiveBar' = LiveBar /\ LiveBar[f] # {}
        BY <1>4, <1>5, <2>1 DEF LiveBar
  <2>6. Life!Grant(f, p)
        BY <1>1, <2>4, <2>5
        DEF Life!Grant, LiveBar, LicenceBar, LiveOf, LicenceOf, Issued
  <2> QED
        BY <2>6 DEF Life!Next
<1>7. CASE \A f \in Family : ~MayIssue(p, f)'
  <2>1. \A f \in Family : LicenceOf(f)' \subseteq LicenceOf(f)
        BY <1>2, <1>7 DEF LicenceOf
  <2> QED
        BY <1>1, <2>1, LapseStep DEF Life!Next
<1> QED
      BY <1>6, <1>7

\* A new row is one new live token, of its family.
LEMMA BornStep ==
    ASSUME IInv, NEW p \in Proc, NEW f \in Family, CreateRefreshToken(p, f),
           UNCHANGED now
    PROVE  \E t \in Jti \ DOMAIN issued :
              /\ DOMAIN issued' = DOMAIN issued \cup {t}
              /\ \A g : Issued(g)' <=> (Issued(g) \/ g = f)
              /\ LiveOf(f)' = LiveOf(f) \cup {t}
              /\ \A g : g # f => LiveOf(g)' = LiveOf(g)
<1>1. PICK t \in Jti \ DOMAIN issued :
          rows' = Write(rows, t, NewRow(f)) /\ issued' = Write(issued, t, NewRow(f))
      BY DEF CreateRefreshToken, NewTokenID
<1>2. /\ DOMAIN rows' = DOMAIN rows \cup {t} /\ t \notin DOMAIN rows
      /\ rows'[t] = NewRow(f) /\ \A j \in DOMAIN rows : rows'[j] = rows[j]
      /\ DOMAIN issued' = DOMAIN issued \cup {t}
      /\ issued'[t] = NewRow(f) /\ \A j \in DOMAIN issued : issued'[j] = issued[j]
      BY <1>1 DEF Write, IInv, TypeOK
<1>3. NewRow(f).family = f /\ NewRow(f).revokedAt = NotRevoked
      /\ NewRow(f).expiresAt > now
      BY DurationAssumption DEF NewRow, IInv, TypeOK, Time
<1>4. \A g : Issued(g)' <=> (Issued(g) \/ g = f)
      BY <1>2, <1>3 DEF Issued
<1>5. LiveOf(f)' = LiveOf(f) \cup {t}
      BY <1>2, <1>3 DEF LiveOf, InFamily, Live
<1>6. \A g : g # f => LiveOf(g)' = LiveOf(g)
      BY <1>2, <1>3 DEF LiveOf, InFamily, Live
<1> QED
      BY <1>2, <1>4, <1>5, <1>6

\* A rotation uses up its licence and leaves one new token.
LEMMA IssueStep ==
    ASSUME IInv, NEW p \in Proc, CreateSuccessor(p)
    PROVE  Life!Next
<1> USE DEF At
<1>1. PICK f \in Family : f = row[p].family
      BY RowFamily DEF CreateSuccessor, IInv, PhaseInv, Holds
<1>2. PICK t \in Jti \ DOMAIN issued :
              /\ DOMAIN issued' = DOMAIN issued \cup {t}
              /\ \A g : Issued(g)' <=> (Issued(g) \/ g = f)
              /\ LiveOf(f)' = LiveOf(f) \cup {t}
              /\ \A g : g # f => LiveOf(g)' = LiveOf(g)
  <2>1. CreateRefreshToken(p, f) /\ UNCHANGED now
        BY <1>1 DEF CreateSuccessor, CreateRefreshToken
  <2> QED
        BY <2>1, BornStep
<1>3. Issued(f)
      BY <1>1 DEF CreateSuccessor, IInv, PhaseInv, Holds, TypeOK, Maybe, Issued
<1>4. MayIssue(p, f) /\ \A g : g # f => ~MayIssue(p, g)
      BY <1>1 DEF CreateSuccessor, MayIssue, Accepted, IInv, PhaseInv, Holds
<1>5. \A g : ~MayIssue(p, g)'
      BY DEF CreateSuccessor, Goto, MayIssue, Accepted, IInv, TypeOK
<1>6. \A q \in Proc \ {p} : \A g : MayIssue(q, g)' <=> MayIssue(q, g)
      BY DEF CreateSuccessor, Goto, MayIssue, IInv, TypeOK
<1>7. /\ LicenceOf(f)' = LicenceOf(f) \ {p} /\ p \in LicenceOf(f)
      /\ \A g \in Family \ {f} : LicenceOf(g)' = LicenceOf(g)
      BY <1>4, <1>5, <1>6 DEF LicenceOf
<1>8. /\ LicenceBar' = [LicenceBar EXCEPT ![f] = LicenceBar[f] \ {p}]
      /\ p \in LicenceBar[f]
      BY <1>7 DEF LicenceBar
<1>9. LiveBar' = [LiveBar EXCEPT ![f] = LiveBar[f] \cup {t}]
      BY <1>2 DEF LiveBar
<1>10. UNCHANGED {g \in Family : Issued(g)}
       BY <1>2, <1>3
<1>11. Life!Issue(f, p, t)
       BY <1>2, <1>8, <1>9, <1>10
       DEF Life!Issue, Life!New, LiveBar, LicenceBar, LiveOf, LicenceOf
<1> QED
      BY <1>11 DEF Life!Next

\* A login or a registration opens a session nobody had.
LEMMA OpenStep ==
    ASSUME IInv, NEW p \in Proc, OpenFamily(p)
    PROVE  Life!Next
<1> USE DEF At
<1>1. PICK f \in NewFamilyID : CreateRefreshToken(p, f) /\ UNCHANGED now
      BY DEF OpenFamily
<1>2. f \in Family /\ ~Issued(f)
      BY DEF NewFamilyID, Issued
<1>3. PICK t \in Jti \ DOMAIN issued :
              /\ DOMAIN issued' = DOMAIN issued \cup {t}
              /\ \A g : Issued(g)' <=> (Issued(g) \/ g = f)
              /\ LiveOf(f)' = LiveOf(f) \cup {t}
              /\ \A g : g # f => LiveOf(g)' = LiveOf(g)
      BY <1>1, <1>2, BornStep
<1>4. \A q \in Proc : \A g : MayIssue(q, g)' <=> MayIssue(q, g)
  <2>1. \A g : ~MayIssue(p, g) /\ ~MayIssue(p, g)'
        BY DEF OpenFamily, Goto, MayIssue, Accepted, IInv, TypeOK
  <2>2. \A q \in Proc \ {p} : \A g : MayIssue(q, g)' <=> MayIssue(q, g)
        BY DEF OpenFamily, Goto, MayIssue, IInv, TypeOK
  <2> QED
        BY <2>1, <2>2
<1>5. LicenceBar' = LicenceBar
      BY <1>4 DEF LicenceBar, LicenceOf
<1>6. LiveBar' = [LiveBar EXCEPT ![f] = LiveBar[f] \cup {t}]
      BY <1>3 DEF LiveBar
<1>7. {g \in Family : Issued(g)}' = {g \in Family : Issued(g)} \cup {f}
      BY <1>2, <1>3
<1>8. Life!Open(f, t)
      BY <1>2, <1>3, <1>5, <1>6, <1>7
      DEF Life!Open, Life!New, LiveBar, LicenceBar, LiveOf, LicenceOf
<1> QED
      BY <1>2, <1>8 DEF Life!Next

\* Nothing but the two statements that create a row issues a token.
LEMMA IssuedUnchanged ==
    ASSUME Next, \A p \in Proc : ~CreateSuccessor(p) /\ ~OpenFamily(p)
    PROVE  UNCHANGED issued
BY DEF Next, Refresh, Login, Logout, Restart, Tick,
   StartRefresh, RefuseCookie, GetRefreshToken, AskFamily, AcceptToken,
   DetectReuse, RejectToken, EndReusedFamily, ConsumeToken, SignPair,
   StartLogin, StartRegister, CleanUp,
   StartLogout, LogoutNothing, LogoutGet, LogoutRevoke, StatementFails,
   Begin, table

\* The handlers implement SessionLife: every statement is a step of it or
\* changes nothing of it, so a session without a live token or a licence stays
\* without, and each licence is good for one token.
THEOREM ImplementsSessionLife == Spec => KeepsSessionLife
<1>1. Init => Life!Init
      BY DEF Init, Life!Init, Issued, InFamily, MayIssue
<1>2. IInv /\ [Next]_vars => [Life!Next]_(Life!vars)
  <2> SUFFICES ASSUME IInv, [Next]_vars PROVE [Life!Next]_(Life!vars)
      OBVIOUS
  <2>1. CASE UNCHANGED vars
        BY <2>1 DEF vars, table, locals, Life!vars, Issued, InFamily, Live, MayIssue
  <2>2. CASE Next /\ \E p \in Proc : GetRefreshToken(p) \/ AskFamily(p)
        BY <2>2, GrantStep
  <2>3. CASE \E p \in Proc : CreateSuccessor(p) \/ OpenFamily(p)
        BY <2>3, IssueStep, OpenStep
  <2>4. CASE /\ Next
             /\ \A p \in Proc : ~GetRefreshToken(p) /\ ~AskFamily(p)
             /\ \A p \in Proc : ~CreateSuccessor(p) /\ ~OpenFamily(p)
    <3>1. \A f \in Family : LicenceOf(f)' \subseteq LicenceOf(f)
          BY <2>4, LicenceShrinks DEF LicenceOf
    <3> QED
          BY <2>4, <3>1, IssuedUnchanged, LapseStep DEF Life!Next
  <2> QED
        BY <2>1, <2>2, <2>3, <2>4
<1> QED
      BY <1>1, <1>2, Invariance, PTL DEF Spec, KeepsSessionLife, Life!Spec
=============================================================================
