--------------------------- MODULE AccountsProofs ---------------------------
(***************************************************************************)
(* For any number of names, addresses and requests: an email and a name    *)
(* are one account's, a PATCH that nobody overlaps is exact, and Accounts  *)
(* implements UserTable.                                                   *)
(*                                                                         *)
(* PatchIsExact speaks of two statements of one request.  ReadInv is what  *)
(* joins them: as long as no other write is noted the account is still     *)
(* what was read, and afterwards what was asked for.                       *)
(***************************************************************************)
EXTENDS Accounts, TLAPS

\* The two unique indexes.
UniqueInv ==
    \A a, b \in DOMAIN users :
        a # b => /\ users[a].username # users[b].username
                 /\ Lower(users[a].email) # Lower(users[b].email)

\* What a request holds in each phase.
PhaseInv(p) ==
    /\ pc[p] = "insert" => new[p] \in User /\ new[p].visibility = "public"
    /\ pc[p] \in {"session", "load", "write", "respond"} => id[p] \in DOMAIN users
    /\ pc[p] = "write" => user[p] \in User
    /\ pc[p] # "idle" => reply[p].code = 0

\* What the account is while nobody else writes it.
ReadInv(p) ==
    ~disturbed[p] =>
        /\ pc[p] = "write" => user[p] = users[id[p]]
        /\ pc[p] = "respond" => Agrees(body[p], users[id[p]])

IInv ==
    /\ TypeOK /\ UniqueInv /\ DOMAIN reply = Proc
    /\ \A p \in Proc : PhaseInv(p) /\ ReadInv(p)

-----------------------------------------------------------------------------
(* The operators on accounts.                                              *)

LEMMA LowerEmail == ASSUME NEW e \in Email PROVE Lower(e) \in Email
BY DEF Email, Lower

\* What a patch makes of an account, column by column.
LEMMA PatchedRow ==
    ASSUME NEW u \in User, NEW b \in Patch
    PROVE  /\ Patched(u, b) \in User
           /\ Patched(u, b)
                = [username |-> IF b.username = Absent THEN u.username ELSE b.username,
                   email |-> u.email,
                   visibility |-> IF b.visibility = Absent THEN u.visibility
                                  ELSE b.visibility,
                   bio |-> IF b.bio = Absent THEN u.bio ELSE b.bio]
<1> DEFINE n == IF b.username = Absent THEN u.username ELSE b.username
           u1 == [u EXCEPT !.username = n]
           w == IF b.visibility = Absent THEN u1.visibility ELSE b.visibility
           u2 == [u1 EXCEPT !.visibility = w]
           t == IF b.bio = Absent THEN u2.bio ELSE b.bio
<1>1. Patched(u, b) = [u2 EXCEPT !.bio = t]
  BY Zenon DEF Patched
<1>2. n \in Name
  BY DEF User, Patch
<1> HIDE DEF n
<1>3. u1 \in User /\ u1 = [username |-> n, email |-> u.email, visibility |-> u.visibility, bio |-> u.bio]
  BY <1>2 DEF User
<1> HIDE DEF u1
<1>4. w \in Visibility /\ w = IF b.visibility = Absent THEN u.visibility ELSE b.visibility
  BY <1>3 DEF User, Patch
<1> HIDE DEF w
<1>5. u2 \in User /\ u2 = [username |-> n, email |-> u.email, visibility |-> w, bio |-> u.bio]
  BY <1>3, <1>4 DEF User
<1> HIDE DEF u2
<1>6. t \in Bio /\ t = IF b.bio = Absent THEN u.bio ELSE b.bio
  BY <1>5 DEF User, Patch
<1> HIDE DEF t
<1>7. [u2 EXCEPT !.bio = t] \in User
      /\ [u2 EXCEPT !.bio = t] = [username |-> n, email |-> u.email, visibility |-> w, bio |-> t]
  BY <1>5, <1>6 DEF User
<1>8. QED
  BY <1>1, <1>4, <1>6, <1>7 DEF n

\* What UpdateUser writes: the email is the table's, the rest the caller's.
LEMMA SelectedRow ==
    ASSUME NEW old \in User, NEW u \in User
    PROVE  Selected(old, u) = [username |-> u.username, email |-> old.email,
                               visibility |-> u.visibility, bio |-> u.bio]
<1> DEFINE o1 == [old EXCEPT !.username = u.username]
           o2 == [o1 EXCEPT !.visibility = u.visibility]
<1>1. Selected(old, u) = [o2 EXCEPT !.bio = u.bio]
  BY Zenon DEF Selected
<1>2. o1 = [username |-> u.username, email |-> old.email, visibility |-> old.visibility, bio |-> old.bio]
  BY DEF User
<1> HIDE DEF o1
<1>3. o2 = [username |-> u.username, email |-> old.email, visibility |-> u.visibility, bio |-> old.bio]
  BY <1>2
<1> HIDE DEF o2
<1>4. QED
  BY <1>1, <1>3

\* A patch of an account that is still what was read is written exactly, also
\* when the handler writes every column, and asks for nothing more afterwards.
LEMMA WrittenRow ==
    ASSUME NEW old \in User, NEW u \in User, NEW b \in Patch
    PROVE  /\ Selected(old, Patched(u, b)) \in User
           /\ Selected(old, Patched(u, b)).email = old.email
           /\ Agrees(b, Selected(old, Patched(u, b)))
           /\ u = old => Selected(old, Patched(u, b)) = Patched(old, b)
           /\ u = old /\ b.username = Absent =>
                 Selected(old, Patched(u, b)).username = old.username
<1> DEFINE m == Patched(u, b)
           s == Selected(old, m)
<1>1. /\ m \in User
      /\ m = [username |-> IF b.username = Absent THEN u.username ELSE b.username,
              email |-> u.email,
              visibility |-> IF b.visibility = Absent THEN u.visibility ELSE b.visibility,
              bio |-> IF b.bio = Absent THEN u.bio ELSE b.bio]
  BY PatchedRow
<1> HIDE DEF m
<1>2. s = [username |-> m.username, email |-> old.email, visibility |-> m.visibility, bio |-> m.bio]
  BY <1>1, SelectedRow
<1> HIDE DEF s
<1>3. s \in User /\ s.email = old.email
  BY <1>1, <1>2 DEF User
<1>4. Patched(s, b) = s
  <2>1. Patched(s, b)
          = [username |-> IF b.username = Absent THEN s.username ELSE b.username,
             email |-> s.email,
             visibility |-> IF b.visibility = Absent THEN s.visibility ELSE b.visibility,
             bio |-> IF b.bio = Absent THEN s.bio ELSE b.bio]
    BY <1>3, PatchedRow
  <2>2. QED
    BY <1>1, <1>2, <2>1
<1>5. u = old => s = m
  BY <1>1, <1>2
<1>6. u = old /\ b.username = Absent => s.username = old.username
  BY <1>1, <1>2
<1>7. QED
  BY <1>3, <1>4, <1>5, <1>6 DEF Agrees, s, m

-----------------------------------------------------------------------------
(* The steps.                                                              *)

\* A step of the request p.
Step(p) ==
    \/ Refuse(p)
    \/ \E name \in Name, email \in Email : Register(p, name, email)
    \/ \E a \in Id, b \in Patch : PatchMe(p, a, b)
    \/ \E email \in Email : Authenticate(p, email)
    \/ \E name \in Name : CheckUsername(p, name)
    \/ CreateUser(p) \/ IssueSession(p)
    \/ GetUserByID(p) \/ UpdateUser(p) \/ Respond(p)
    \/ StatementFails(p)

\* The INSERT and the UPDATE, when no unique index is violated.
Inserts(p, a) ==
    /\ pc[p] = "insert" /\ pc'[p] = "session" /\ id'[p] = a
    /\ ~Clashes(NoId, new[p])
    /\ a \in Id \ DOMAIN users
    /\ users' = [b \in DOMAIN users \cup {a} |-> IF b = a THEN new[p] ELSE users[b]]
    /\ UNCHANGED disturbed

Updates(p) ==
    LET written == Selected(users[id[p]], Patched(user[p], body[p])) IN
    /\ pc[p] = "write" /\ pc'[p] = "respond"
    /\ ~Clashes(id[p], written)
    /\ users' = [users EXCEPT ![id[p]] = written]
    /\ disturbed' = [q \in Proc |-> disturbed[q] \/ (q # p /\ id[q] = id[p]
                                                     /\ pc[q] \in {"write", "respond"})]
    /\ UNCHANGED <<id, body>>

\* UpdateUser is refused by an index or writes.
LEMMA UpdateOrClash ==
    ASSUME TypeOK, NEW p \in Proc, UpdateUser(p)
    PROVE  \/ Finish(p, 409) /\ UNCHANGED users
           \/ Updates(p) /\ Goto(p, "respond") /\ UNCHANGED user
<1> DEFINE written == Selected(users[id[p]], Patched(user[p], body[p]))
<1>1. CASE Clashes(id[p], written)
  BY <1>1 DEF UpdateUser
<1>2. CASE ~Clashes(id[p], written)
  <2>1. /\ pc[p] = "write" /\ Goto(p, "respond") /\ UNCHANGED <<id, user>>
        /\ users' = [users EXCEPT ![id[p]] = written]
        /\ disturbed' = [q \in Proc |->
                            disturbed[q] \/ (q # p /\ id[q] = id[p]
                                             /\ pc[q] \in {"write", "respond"})]
    BY <1>2 DEF UpdateUser, At
  <2>2. pc'[p] = "respond" /\ UNCHANGED body
    BY <2>1 DEF Goto, TypeOK
  <2> HIDE DEF written
  <2>3. QED
    BY <1>2, <2>1, <2>2 DEF Updates, written
<1>3. QED
  BY <1>1, <1>2

\* Every other step leaves the table alone and notes nothing about others.
LEMMA TableWrites ==
    ASSUME TypeOK, NEW p \in Proc, Step(p)
    PROVE  \/ \E a \in Id : Inserts(p, a)
           \/ Updates(p)
           \/ UNCHANGED users
<1>0. pc \in [Proc -> {"idle", "insert", "session", "load", "write", "respond"}]
      /\ id \in [Proc -> DOMAIN users \cup {NoId}]
  BY DEF TypeOK
<1>1. CASE CreateUser(p)
  <2>1. CASE Clashes(NoId, new[p])
    BY <1>1, <2>1 DEF CreateUser
  <2>2. CASE ~Clashes(NoId, new[p])
    BY <1>0, <1>1, <2>2 DEF CreateUser, At, Goto, Inserts
  <2>3. QED
    BY <2>1, <2>2
<1>2. CASE UpdateUser(p)
  BY <1>2, UpdateOrClash
<1>3. CASE UNCHANGED users
  BY <1>3
<1>4. QED
  BY <1>1, <1>2, <1>3
  DEF Step, Refuse, Register, PatchMe, Start, Authenticate, CheckUsername, IssueSession,
      GetUserByID, Respond, StatementFails

\* What is written is an account whose name and address nobody else has.
TableType ==
    /\ DOMAIN users \subseteq Id
    /\ users \in [DOMAIN users -> User]

LEMMA EmailsDiffer ==
    ASSUME NEW us, \A a, b \in DOMAIN us : a # b => Lower(us[a].email) # Lower(us[b].email)
    PROVE  \A a, b \in DOMAIN us : a # b => us[a].email # us[b].email
OBVIOUS

LEMMA InsertedTable ==
    ASSUME IInv, NEW p \in Proc, NEW a \in Id, Inserts(p, a)
    PROVE  /\ TableType' /\ UniqueInv'
           /\ DOMAIN users' = DOMAIN users \cup {a} /\ users'[a] = new[p]
           /\ \A b \in DOMAIN users : users'[b] = users[b]
<1>1. new[p] \in User
  BY DEF Inserts, IInv, PhaseInv
<1>2. NoId \notin DOMAIN users
  BY DEF IInv, TypeOK, Id, NoId
<1>3. \A b \in DOMAIN users : users[b].username # new[p].username
                              /\ Lower(users[b].email) # Lower(new[p].email)
  BY <1>2 DEF Inserts, Clashes
<1>4. /\ DOMAIN users' = DOMAIN users \cup {a} /\ users'[a] = new[p]
      /\ \A b \in DOMAIN users : users'[b] = users[b]
      /\ a \notin DOMAIN users
  BY DEF Inserts
<1>5. UniqueInv'
  BY <1>3, <1>4 DEF IInv, UniqueInv
<1>6. TableType'
  <2>1. users' = [b \in DOMAIN users' |-> users'[b]]
    BY DEF Inserts
  <2>2. DOMAIN users \subseteq Id /\ \A b \in DOMAIN users : users[b] \in User
    BY DEF IInv, TypeOK
  <2>3. QED
    BY <1>1, <1>4, <2>1, <2>2 DEF TableType
<1>7. QED
  BY <1>4, <1>5, <1>6

LEMMA UpdatedTable ==
    ASSUME IInv, NEW p \in Proc, Updates(p)
    PROVE  LET written == Selected(users[id[p]], Patched(user[p], body[p])) IN
           /\ TableType' /\ UniqueInv'
           /\ id[p] \in DOMAIN users /\ DOMAIN users' = DOMAIN users
           /\ users'[id[p]] = written
           /\ \A b \in DOMAIN users \ {id[p]} : users'[b] = users[b]
           /\ Agrees(body[p], written)
           /\ user[p] = users[id[p]] => written = Patched(users[id[p]], body[p])
<1> DEFINE old == users[id[p]]
           written == Selected(old, Patched(user[p], body[p]))
<1>1. id[p] \in DOMAIN users /\ user[p] \in User
  BY DEF Updates, IInv, PhaseInv
<1>2. old \in User /\ body[p] \in Patch
  BY <1>1 DEF IInv, TypeOK
<1>3. /\ written \in User /\ Agrees(body[p], written)
      /\ user[p] = old => written = Patched(old, body[p])
  BY <1>1, <1>2, WrittenRow
<1>4. users' = [users EXCEPT ![id[p]] = written] /\ ~Clashes(id[p], written)
  BY DEF Updates
<1> HIDE DEF written
<1>5. /\ DOMAIN users' = DOMAIN users /\ users'[id[p]] = written
      /\ \A b \in DOMAIN users \ {id[p]} : users'[b] = users[b]
  BY <1>1, <1>4
<1>6. \A b \in DOMAIN users \ {id[p]} : users[b].username # written.username
                                        /\ Lower(users[b].email) # Lower(written.email)
  BY <1>4 DEF Clashes
<1>7. UniqueInv'
  BY <1>5, <1>6 DEF IInv, UniqueInv
<1>8. TableType'
  <2>1. DOMAIN users \subseteq Id /\ users \in [DOMAIN users -> User]
    BY DEF IInv, TypeOK
  <2>2. QED
    BY <1>1, <1>3, <1>4, <2>1 DEF TableType
<1>9. QED
  BY <1>1, <1>3, <1>5, <1>7, <1>8 DEF written

-----------------------------------------------------------------------------
(* What requests hold.                                                     *)

\* The types of what requests hold, before a table with more accounts.
RequestType ==
    /\ pc \in [Proc -> {"idle", "insert", "session", "load", "write", "respond"}]
    /\ id \in [Proc -> DOMAIN users \cup {NoId}]
    /\ new \in [Proc -> User \cup {NoUser}]
    /\ body \in [Proc -> Patch]
    /\ user \in [Proc -> User \cup {NoUser}]
    /\ disturbed \in [Proc -> BOOLEAN]
    /\ DOMAIN reply = Proc

LEMMA TableGrows ==
    ASSUME IInv, NEW p \in Proc, Step(p)
    PROVE  DOMAIN users \subseteq DOMAIN users'
BY TableWrites, InsertedTable, UpdatedTable DEF IInv

LEMMA Registered ==
    ASSUME NEW name \in Name, NEW email \in Email
    PROVE  [username |-> name, email |-> Lower(email), visibility |-> "public",
            bio |-> NoBio] \in User
BY LowerEmail DEF User, Visibility, Bio

LEMMA NothingType == Nothing \in Patch
BY DEF Nothing, Patch

LEMMA FinishKeeps ==
    ASSUME RequestType, NEW p \in Proc, NEW status, Finish(p, status),
           DOMAIN users \subseteq DOMAIN users'
    PROVE  RequestType' /\ pc'[p] = "idle" /\ reply'[p].code = status
BY NothingType DEF RequestType, Finish, Status

LEMMA StartKeeps ==
    ASSUME RequestType, NEW p \in Proc, NEW phase \in {"insert", "load"},
           NEW a \in DOMAIN users \cup {NoId}, NEW u \in User \cup {NoUser}, NEW b \in Patch,
           Start(p, phase, a, u, b)
    PROVE  /\ RequestType' /\ pc'[p] = phase /\ id'[p] = a /\ new'[p] = u
           /\ reply'[p].code = 0 /\ UNCHANGED users
BY DEF RequestType, Start, Status

\* A step keeps the types of what requests hold, and PhaseInv and ReadInv of its
\* own request.
LEMMA OwnStep ==
    ASSUME IInv, NEW p \in Proc, Step(p)
    PROVE  RequestType' /\ PhaseInv(p)' /\ ReadInv(p)'
<1> DEFINE Kept == RequestType' /\ PhaseInv(p)' /\ ReadInv(p)'
<1>0. RequestType /\ PhaseInv(p) /\ ReadInv(p) /\ DOMAIN users \subseteq DOMAIN users'
  BY TableGrows DEF IInv, TypeOK, RequestType
<1>1. ASSUME NEW status, Finish(p, status) PROVE Kept
  BY <1>0, <1>1, FinishKeeps DEF PhaseInv, ReadInv
<1>2. CASE Refuse(p) \/ (\E email \in Email : Authenticate(p, email))
                     \/ (\E name \in Name : CheckUsername(p, name))
  BY <1>0, <1>2
  DEF Refuse, Authenticate, CheckUsername, RequestType, PhaseInv, ReadInv
<1>3. ASSUME NEW name \in Name, NEW email \in Email, Register(p, name, email) PROVE Kept
  <2> DEFINE u == [username |-> name, email |-> Lower(email), visibility |-> "public",
                   bio |-> NoBio]
  <2>1. u \in User /\ u.visibility = "public"
    BY Registered
  <2>2. Start(p, "insert", NoId, u, Nothing)
    BY <1>3 DEF Register
  <2> HIDE DEF u
  <2>3. RequestType' /\ pc'[p] = "insert" /\ new'[p] = u /\ reply'[p].code = 0
    BY <1>0, <2>1, <2>2, NothingType, StartKeeps
  <2>4. QED
    BY <2>1, <2>3 DEF PhaseInv, ReadInv
<1>4. ASSUME NEW a \in Id, NEW b \in Patch, PatchMe(p, a, b) PROVE Kept
  <2>1. RequestType' /\ pc'[p] = "load" /\ id'[p] = a /\ reply'[p].code = 0
        /\ UNCHANGED users /\ a \in DOMAIN users
    BY <1>0, <1>4, StartKeeps DEF PatchMe
  <2>2. QED
    BY <2>1 DEF PhaseInv, ReadInv
<1>5. CASE CreateUser(p)
  <2>1. CASE Finish(p, 409)
    BY <1>1, <2>1
  <2>2. ASSUME NEW a \in Id \ DOMAIN users,
               users' = [b \in DOMAIN users \cup {a} |-> IF b = a THEN new[p] ELSE users[b]],
               id' = [id EXCEPT ![p] = a], Goto(p, "session"), UNCHANGED <<user, disturbed>>
        PROVE  Kept
    <3>1. a \in DOMAIN users'
      BY <2>2
    <3>2. pc[p] = "insert"
      BY <1>5 DEF CreateUser, At
    <3>3. QED
      BY <1>0, <2>2, <3>1, <3>2 DEF Goto, RequestType, PhaseInv, ReadInv
  <2>3. QED
    BY <1>5, <2>1, <2>2 DEF CreateUser
<1>6. CASE GetUserByID(p)
  <2>1. /\ pc[p] = "load" /\ user' = [user EXCEPT ![p] = users[id[p]]]
        /\ Goto(p, "write") /\ UNCHANGED <<users, id, disturbed>>
    BY <1>6 DEF GetUserByID, At
  <2>2. id[p] \in DOMAIN users /\ users[id[p]] \in User /\ reply[p].code = 0
    BY <1>0, <2>1 DEF IInv, TypeOK, PhaseInv
  <2>3. QED
    BY <1>0, <2>1, <2>2 DEF Goto, RequestType, PhaseInv, ReadInv
<1>7. CASE UpdateUser(p)
  <2>1. CASE Finish(p, 409)
    BY <1>1, <2>1
  <2>2. CASE Updates(p) /\ Goto(p, "respond") /\ UNCHANGED user
    <3> DEFINE written == Selected(users[id[p]], Patched(user[p], body[p]))
    <3>1. id[p] \in DOMAIN users /\ DOMAIN users' = DOMAIN users
          /\ users'[id[p]] = written /\ Agrees(body[p], written)
      BY <2>2, UpdatedTable
    <3> HIDE DEF written
    <3>2. /\ pc[p] = "write" /\ pc'[p] = "respond" /\ UNCHANGED <<id, body, new, reply>>
          /\ pc' = [pc EXCEPT ![p] = "respond"]
          /\ disturbed' \in [Proc -> BOOLEAN]
      BY <1>0, <2>2 DEF Updates, Goto, RequestType
    <3>3. RequestType'
      BY <1>0, <2>2, <3>1, <3>2 DEF RequestType
    <3>4. QED
      BY <1>0, <3>1, <3>2, <3>3 DEF PhaseInv, ReadInv
  <2>3. QED
    BY <1>7, <2>1, <2>2, UpdateOrClash DEF IInv
<1>8. CASE IssueSession(p) \/ Respond(p) \/ StatementFails(p)
  BY <1>1, <1>8 DEF IssueSession, Respond, StatementFails
<1>9. QED
  BY <1>2, <1>3, <1>4, <1>5, <1>6, <1>7, <1>8 DEF Step

\* The other requests hold what they held, and are told of a write to their
\* account.
LEMMA OthersStay ==
    ASSUME IInv, NEW p \in Proc, Step(p), NEW q \in Proc, q # p
    PROVE  /\ pc'[q] = pc[q] /\ id'[q] = id[q] /\ new'[q] = new[q] /\ body'[q] = body[q]
           /\ user'[q] = user[q] /\ reply'[q] = reply[q]
           /\ disturbed[q] => disturbed'[q]
<1> DEFINE Same == /\ pc'[q] = pc[q] /\ id'[q] = id[q] /\ new'[q] = new[q]
                   /\ body'[q] = body[q] /\ user'[q] = user[q] /\ reply'[q] = reply[q]
                   /\ disturbed[q] => disturbed'[q]
<1>0. RequestType
  BY DEF IInv, TypeOK, RequestType
<1> USE DEF RequestType
<1>1. ASSUME NEW status, Finish(p, status) PROVE Same
  BY <1>0, <1>1 DEF Finish
<1>2. ASSUME NEW phase, NEW a, NEW u, NEW b, Start(p, phase, a, u, b) PROVE Same
  BY <1>0, <1>2 DEF Start
<1>3. CASE UpdateUser(p)
  <2>1. CASE Updates(p) /\ Goto(p, "respond") /\ UNCHANGED user
    BY <1>0, <2>1 DEF Updates, Goto
  <2>2. QED
    BY <1>1, <1>3, <2>1, UpdateOrClash DEF IInv
<1>4. CASE CreateUser(p)
  BY <1>0, <1>1, <1>4 DEF CreateUser, Goto
<1>5. CASE GetUserByID(p)
  BY <1>0, <1>5 DEF GetUserByID, Goto
<1>6. CASE Refuse(p) \/ (\E email \in Email : Authenticate(p, email))
                     \/ (\E name \in Name : CheckUsername(p, name))
  BY <1>0, <1>6 DEF Refuse, Authenticate, CheckUsername
<1>7. CASE IssueSession(p) \/ Respond(p) \/ StatementFails(p)
  BY <1>1, <1>7 DEF IssueSession, Respond, StatementFails
<1>8. QED
  BY <1>2, <1>3, <1>4, <1>5, <1>6, <1>7 DEF Step, Register, PatchMe

\* What PhaseInv and ReadInv say of the others stays true.
LEMMA OthersSound ==
    ASSUME IInv, NEW p \in Proc, Step(p), NEW q \in Proc, q # p
    PROVE  PhaseInv(q)' /\ ReadInv(q)'
<1>1. /\ pc'[q] = pc[q] /\ id'[q] = id[q] /\ new'[q] = new[q] /\ body'[q] = body[q]
      /\ user'[q] = user[q] /\ reply'[q] = reply[q]
      /\ disturbed[q] => disturbed'[q]
  BY OthersStay
<1>2. PhaseInv(q) /\ ReadInv(q)
  BY DEF IInv
<1>3. PhaseInv(q)'
  BY <1>1, <1>2, TableGrows DEF PhaseInv
<1>4. ASSUME pc[q] \in {"write", "respond"}, ~disturbed'[q]
      PROVE  users'[id[q]] = users[id[q]]
  <2>1. id[q] \in DOMAIN users
    BY <1>2, <1>4 DEF PhaseInv
  <2>2. CASE Updates(p)
    <3>1. id[q] # id[p]
      BY <1>4, <2>2 DEF Updates
    <3>2. QED
      BY <2>1, <2>2, <3>1, UpdatedTable
  <2>3. QED
    BY <2>1, <2>2, TableWrites, InsertedTable DEF IInv
<1>5. ReadInv(q)'
  BY <1>1, <1>2, <1>4 DEF ReadInv, Agrees
<1>6. QED
  BY <1>3, <1>5

-----------------------------------------------------------------------------
\* IInv is inductive.
LEMMA InvInit == Init => IInv
<1>1. Init => TypeOK
  BY NothingType DEF Init, TypeOK
<1>2. Init => UniqueInv /\ DOMAIN reply = Proc
  BY DEF Init, UniqueInv
<1>3. Init => \A p \in Proc : PhaseInv(p) /\ ReadInv(p)
  BY DEF Init, PhaseInv, ReadInv
<1>4. QED
  BY <1>1, <1>2, <1>3 DEF IInv

LEMMA InvStep == IInv /\ [Next]_vars => IInv'
<1> SUFFICES ASSUME IInv, [Next]_vars PROVE IInv'
  OBVIOUS
<1>1. ASSUME NEW p \in Proc, Step(p) PROVE IInv'
  <2>1. RequestType' /\ PhaseInv(p)' /\ ReadInv(p)'
    BY <1>1, OwnStep
  <2>2. TableType' /\ UniqueInv'
    <3>1. CASE UNCHANGED users
      BY <3>1 DEF IInv, TypeOK, TableType, UniqueInv
    <3>2. QED
      BY <1>1, <3>1, TableWrites, InsertedTable, UpdatedTable DEF IInv
  <2>3. TypeOK'
    BY <2>1, <2>2 DEF RequestType, TableType, UniqueInv, TypeOK
  <2>4. \A q \in Proc : PhaseInv(q)' /\ ReadInv(q)'
    BY <1>1, <2>1, OthersSound
  <2>5. QED
    BY <2>1, <2>2, <2>3, <2>4 DEF RequestType, IInv
<1>2. CASE UNCHANGED vars
  BY <1>2 DEF vars, locals, IInv, TypeOK, UniqueInv, PhaseInv, ReadInv, Agrees
<1>3. QED
  BY <1>1, <1>2 DEF Next, Step

LEMMA InvHolds == Spec => []IInv
BY InvInit, InvStep, PTL DEF Spec

-----------------------------------------------------------------------------
\* The types; and an email is one account's, however registrations race: the
\* unique indexes decide in the statement that inserts (CreateUser).
THEOREM TypeCorrect == Spec => []TypeOK
<1>1. IInv => TypeOK
  BY DEF IInv
<1>2. QED
  BY <1>1, InvHolds, PTL

\* Only its own UPDATE takes a PATCH further, and only a violated index answers
\* it 409.
LEMMA WriteStep ==
    ASSUME IInv, NEW p \in Proc, Step(p), NEW q \in Proc, pc[q] = "write"
    PROVE  /\ pc'[q] = "respond" => q = p /\ Updates(p)
           /\ reply'[q].code = 409 =>
                 /\ q = p
                 /\ Clashes(id[p], Selected(users[id[p]], Patched(user[p], body[p])))
<1> DEFINE written == Selected(users[id[p]], Patched(user[p], body[p]))
<1>0. RequestType /\ reply[q].code = 0
  BY DEF IInv, TypeOK, RequestType, PhaseInv
<1>1. CASE q # p
  BY <1>0, <1>1, OthersStay
<1>2. CASE q = p /\ UpdateUser(p)
  <2>1. CASE Clashes(id[p], written)
    <3>1. Finish(p, 409)
      BY <1>2, <2>1 DEF UpdateUser
    <3>2. QED
      BY <1>0, <1>2, <2>1, <3>1 DEF Finish, RequestType
  <2>2. CASE ~Clashes(id[p], written)
    <3>1. Goto(p, "respond")
      BY <1>2, <2>2 DEF UpdateUser
    <3>2. reply'[p].code # 409
      BY <1>0, <1>2, <3>1 DEF Goto
    <3>3. pc'[p] = "respond" /\ ~(\E status : Finish(p, status))
      BY <1>0, <3>1 DEF Goto, Finish, RequestType
    <3>4. Updates(p)
      BY <1>2, <3>3, UpdateOrClash DEF IInv
    <3>5. QED
      BY <1>2, <3>2, <3>4
  <2>3. QED
    BY <2>1, <2>2
<1>3. CASE q = p /\ StatementFails(p)
  <2>1. Finish(p, 500)
    BY <1>3 DEF StatementFails
  <2>2. pc'[p] = "idle" /\ reply'[p].code = 500
    BY <1>0, <2>1, TableGrows, FinishKeeps
  <2>3. QED
    BY <1>3, <2>2
<1>4. QED
  BY <1>1, <1>2, <1>3
  DEF Step, Refuse, Register, PatchMe, Start, Authenticate, CheckUsername, CreateUser,
      IssueSession, GetUserByID, Respond, At

\* A PATCH that no other write to the account overlaps changes what it named and
\* nothing else, shows it in its answer, and is told of a clash only if it asked
\* for a name (PatchMe, UpdateUser), for any number of requests.
THEOREM PatchesAreExact == Spec => PatchIsExact
<1> DEFINE Exact ==
        \A p \in Proc :
            ~disturbed[p] =>
               /\ pc[p] = "write" /\ pc'[p] = "respond" =>
                     users'[id[p]] = Patched(users[id[p]], body[p])
               /\ pc[p] = "write" /\ reply'[p].code = 409 => body[p].username # Absent
               /\ pc[p] = "respond" /\ reply'[p].code = 200 =>
                     Agrees(body[p], users[id[p]])
<1>1. IInv /\ [Next]_vars => [Exact]_vars
  <2>1. ASSUME IInv, NEW q \in Proc, Step(q), NEW p \in Proc, ~disturbed[p]
        PROVE  /\ pc[p] = "write" /\ pc'[p] = "respond" =>
                     users'[id[p]] = Patched(users[id[p]], body[p])
               /\ pc[p] = "write" /\ reply'[p].code = 409 => body[p].username # Absent
               /\ pc[p] = "respond" /\ reply'[p].code = 200 =>
                     Agrees(body[p], users[id[p]])
    <3>1. /\ pc[p] = "write" => user[p] = users[id[p]]
          /\ pc[p] = "respond" => Agrees(body[p], users[id[p]])
      BY <2>1 DEF IInv, ReadInv
    <3>2. ASSUME pc[p] = "write", pc'[p] = "respond"
          PROVE  users'[id[p]] = Patched(users[id[p]], body[p])
      <4>1. p = q /\ Updates(p)
        BY <2>1, <3>2, WriteStep
      <4>2. QED
        BY <2>1, <3>1, <3>2, <4>1, UpdatedTable
    <3>3. ASSUME pc[p] = "write", reply'[p].code = 409, body[p].username = Absent
          PROVE  FALSE
      <4> DEFINE old == users[id[p]]
                 written == Selected(old, Patched(user[p], body[p]))
      <4>1. Clashes(id[p], written)
        BY <2>1, <3>3, WriteStep
      <4>2. id[p] \in DOMAIN users /\ old \in User /\ body[p] \in Patch /\ user[p] = old
        BY <2>1, <3>1, <3>3 DEF IInv, TypeOK, PhaseInv
      <4>3. written.username = old.username /\ written.email = old.email
        <5>1. user[p] \in User
          BY <4>2
        <5> HIDE DEF old
        <5>2. QED
          BY <3>3, <4>2, <5>1, WrittenRow
      <4>4. \A b \in DOMAIN users \ {id[p]} : users[b].username # old.username
                                              /\ Lower(users[b].email) # Lower(old.email)
        BY <2>1, <4>2 DEF IInv, UniqueInv
      <4> HIDE DEF written, old
      <4>5. QED
        BY <4>1, <4>3, <4>4 DEF Clashes
    <3>4. QED
      BY <3>1, <3>2, <3>3
  <2>2. QED
    BY <2>1 DEF Next, Step
<1>2. QED
  BY <1>1, InvHolds, PTL DEF Spec, PatchIsExact

-----------------------------------------------------------------------------
(* Accounts implements UserTable.                                          *)

\* What readers see of the table.
Seen(us) == [a \in DOMAIN us |-> [username |-> us[a].username,
                                  visibility |-> us[a].visibility]]

LEMMA InitIsInit == Init => Table!Init
BY DEF Init, Table!Init

LEMMA StepIsStep ==
    ASSUME IInv, IInv', [Next]_vars
    PROVE  [Table!Next]_(Seen(users))
<1> DEFINE bar == Seen(users)
<1>0. DOMAIN bar = DOMAIN users
      /\ \A a \in DOMAIN users : /\ bar[a].username = users[a].username
                                 /\ bar[a].visibility = users[a].visibility
  BY DEF Seen
<1>1. CASE UNCHANGED users
  BY <1>1 DEF Seen
<1>2. ASSUME NEW p \in Proc, Step(p), NEW a \in Id, Inserts(p, a) PROVE Table!Next
  <2>1. new[p] \in User /\ new[p].visibility = "public" /\ NoId \notin DOMAIN users
    BY <1>2 DEF Inserts, IInv, TypeOK, PhaseInv, Id, NoId
  <2> DEFINE row == [username |-> new[p].username, visibility |-> "public"]
  <2>2. bar' = [b \in DOMAIN bar \cup {a} |-> IF b = a THEN row ELSE bar[b]]
    BY <1>2, <2>1 DEF Inserts, Seen
  <2>3. ~Table!Taken(a, row.username)
    BY <1>0, <1>2, <2>1 DEF Inserts, Clashes, Table!Taken, Seen
  <2>4. a \notin DOMAIN bar /\ row.username \in Name
    BY <1>0, <1>2, <2>1 DEF Inserts, User
  <2>5. Table!CreateUser(a, row.username)
    BY <2>2, <2>3, <2>4 DEF Table!CreateUser, Table!Store, Seen
  <2>6. QED
    BY <2>4, <2>5 DEF Table!Next
<1>3. ASSUME NEW p \in Proc, Step(p), Updates(p) PROVE Table!Next
  <2> DEFINE written == Selected(users[id[p]], Patched(user[p], body[p]))
  <2>1. /\ id[p] \in DOMAIN users /\ DOMAIN users' = DOMAIN users
        /\ users'[id[p]] = written
        /\ \A b \in DOMAIN users \ {id[p]} : users'[b] = users[b]
    BY <1>3, UpdatedTable
  <2>2. written \in User /\ id[p] \in Id
    BY <2>1 DEF IInv, TypeOK
  <2>3. ~Clashes(id[p], written)
    BY <1>3 DEF Updates
  <2> HIDE DEF written
  <2>4. PICK a \in Id, name \in Name, visibility \in Table!Visibility :
           /\ a = id[p]
           /\ name = written.username /\ visibility = written.visibility
    BY <2>2 DEF User, Visibility, Table!Visibility
  <2> DEFINE row == [username |-> name, visibility |-> visibility]
  <2>5. bar' = [b \in DOMAIN bar \cup {a} |-> IF b = a THEN row ELSE bar[b]]
    BY <2>1, <2>4 DEF Seen
  <2>6. ~Table!Taken(a, name)
    BY <1>0, <2>3, <2>4 DEF Clashes, Table!Taken, Seen
  <2>7. Table!UpdateUser(a, name, visibility)
    BY <1>0, <2>1, <2>4, <2>5, <2>6 DEF Table!UpdateUser, Table!Store, Seen
  <2>8. QED
    BY <2>7 DEF Table!Next
<1>4. CASE UNCHANGED vars
  BY <1>1, <1>4 DEF vars
<1>5. ASSUME NEW p \in Proc, Step(p) PROVE [Table!Next]_(Seen(users))
  BY <1>1, <1>2, <1>3, <1>5, TableWrites DEF IInv
<1>6. QED
  BY <1>4, <1>5 DEF Next, Step

\* To those who only read it the users table is UserTable, which Profiles reads:
\* a name is one account's, a statement changes one account, none disappears.
THEOREM ImplementsUserTable == Spec => TableIsUserTable
<1>1. Init => Table!Init
  BY InitIsInit
<1>2. IInv /\ IInv' /\ [Next]_vars => [Table!Next]_(Seen(users))
  BY StepIsStep
<1>3. QED
  BY <1>1, <1>2, InvHolds, PTL DEF Spec, TableIsUserTable, Table!Spec, Seen
=============================================================================
