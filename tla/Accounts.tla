------------------------------ MODULE Accounts ------------------------------
(***************************************************************************)
(* The users table: POST /register, PATCH /me, the lookup of POST          *)
(* /authenticate and GET /usernames/:username.  PATCH /me reads the whole  *)
(* account, changes what the request named and writes three columns back,  *)
(* in two statements; other requests run between them.                     *)
(*                                                                         *)
(* A name stands for what validate.Username normalizes to; an email keeps  *)
(* its spelling, because the lookup does.  Passwords are LoginGate's.      *)
(***************************************************************************)
EXTENDS Integers, FiniteSets

CONSTANTS
    Name, Address,      \* normalized usernames, lowercased email addresses
    Text,               \* bios
    NoBio,              \* NULL
    NoUser,             \* no account
    Absent,             \* the request does not carry the field
    Proc,               \* requests in flight
    MaxUsers            \* bound on the accounts

ASSUME AccountsAssumption ==
    /\ MaxUsers \in Nat
    /\ NoBio \notin Text
    /\ Absent \notin Name \cup Text \cup {NoBio}

Id == 1 .. MaxUsers
Visibility == {"public", "private"}

\* "" clears the bio: validate.Bio makes it NULL.
Bio == Text \cup {NoBio}

\* An email as typed; stored and rate-limited in lower case.
Email == [address : Address, spelling : {"lower", "mixed"}]
Lower(email) == [email EXCEPT !.spelling = "lower"]

User == [username : Name, email : Email, visibility : Visibility, bio : Bio]
Patch == [username : Name \cup {Absent}, visibility : Visibility \cup {Absent},
          bio : Bio \cup {Absent}]
Nothing == [username |-> Absent, visibility |-> Absent, bio |-> Absent]

VARIABLES
    users,     \* the table: id -> account
    pc,        \* the next statement of each request
    id,        \* the account of the request: the token's, or the new one
    new,       \* what Register is to insert
    body,      \* what PatchMe is to change
    user,      \* the account as PatchMe read it
    reply,     \* what the last request of this slot was answered
    disturbed  \* history: another request wrote the account since it was read

locals == <<pc, id, new, body, user, reply, disturbed>>
vars == <<users, locals>>

NoId == 0

Status(code) == [code |-> code, reason |-> ""]

At(p, phase) == pc[p] = phase
Goto(p, phase) == pc' = [pc EXCEPT ![p] = phase] /\ UNCHANGED <<new, body, reply>>

Start(p, phase, a, u, b) ==
    /\ pc[p] = "idle"
    /\ pc' = [pc EXCEPT ![p] = phase]
    /\ id' = [id EXCEPT ![p] = a]
    /\ new' = [new EXCEPT ![p] = u]
    /\ body' = [body EXCEPT ![p] = b]
    /\ reply' = [reply EXCEPT ![p] = Status(0)]
    /\ UNCHANGED <<users, user, disturbed>>

Finish(p, status) ==
    /\ pc' = [pc EXCEPT ![p] = "idle"]
    /\ id' = [id EXCEPT ![p] = NoId]
    /\ new' = [new EXCEPT ![p] = NoUser]
    /\ body' = [body EXCEPT ![p] = Nothing]
    /\ user' = [user EXCEPT ![p] = NoUser]
    /\ reply' = [reply EXCEPT ![p] = Status(status)]
    /\ disturbed' = [disturbed EXCEPT ![p] = FALSE]

\* A request refused for what it says: a body that does not bind, an invalid
\* name, email, password, visibility or bio, or nothing to update.  (PatchMe
\* reads the account before it looks at the fields; it has written nothing.)
Refuse(p) ==
    /\ pc[p] = "idle"
    /\ reply' = [reply EXCEPT ![p] = Status(400)]
    /\ UNCHANGED <<users, pc, id, new, body, user, disturbed>>

\* Mutant of Clashes: only the name is unique.
ClashesByName(a, u) == \E b \in DOMAIN users \ {a} : users[b].username = u.username

\* Mutant of Clashes: only the address is unique.
ClashesByEmail(a, u) ==
    \E b \in DOMAIN users \ {a} : Lower(users[b].email) = Lower(u.email)

\* The unique indexes on LOWER(username) and LOWER(email).
Clashes(a, u) ==
    \E b \in DOMAIN users \ {a} : \/ users[b].username = u.username
                                  \/ Lower(users[b].email) = Lower(u.email)

-----------------------------------------------------------------------------
(* POST /register.                                                         *)

Register(p, name, email) ==
    Start(p, "insert", NoId,
          [username |-> name, email |-> Lower(email), visibility |-> "public",
           bio |-> NoBio], Nothing)

CreateUser(p) ==
    /\ At(p, "insert")
    /\ IF Clashes(NoId, new[p])
       THEN Finish(p, 409) /\ UNCHANGED users
       ELSE \E a \in Id \ DOMAIN users :
               /\ \A b \in DOMAIN users : b < a
               /\ users' = [b \in DOMAIN users \cup {a} |->
                               IF b = a THEN new[p] ELSE users[b]]
               /\ id' = [id EXCEPT ![p] = a]
               /\ Goto(p, "session")
               /\ UNCHANGED <<user, disturbed>>

\* Sessions!StartRegister.  When it fails the account stays.
IssueSession(p) ==
    /\ At(p, "session")
    /\ \E status \in {201, 500} : Finish(p, status)
    /\ UNCHANGED users

-----------------------------------------------------------------------------
(* PATCH /me.                                                              *)

PatchMe(p, a, b) ==
    /\ a \in DOMAIN users /\ b # Nothing
    /\ Start(p, "load", a, NoUser, b)

GetUserByID(p) ==
    /\ At(p, "load")
    /\ user' = [user EXCEPT ![p] = users[id[p]]]
    /\ Goto(p, "write")
    /\ UNCHANGED <<users, id, disturbed>>

\* The account as it was read, with what the request named.
Patched(u, b) ==
    [u EXCEPT !.username = IF b.username = Absent THEN @ ELSE b.username,
              !.visibility = IF b.visibility = Absent THEN @ ELSE b.visibility,
              !.bio = IF b.bio = Absent THEN @ ELSE b.bio]

\* Mutant of Selected: Bio is missing from the list.
SelectedWithoutBio(old, u) ==
    [old EXCEPT !.username = u.username, !.visibility = u.visibility]

\* The columns UpdateUser writes: each of them, whatever the request named.
Selected(old, u) ==
    [old EXCEPT !.username = u.username, !.visibility = u.visibility, !.bio = u.bio]

UpdateUser(p) ==
    LET written == Selected(users[id[p]], Patched(user[p], body[p])) IN
    /\ At(p, "write")
    /\ IF Clashes(id[p], written)
       THEN Finish(p, 409) /\ UNCHANGED users
       ELSE /\ users' = [users EXCEPT ![id[p]] = written]
            /\ disturbed' = [q \in Proc |->
                                disturbed[q] \/ (q # p /\ id[q] = id[p]
                                                 /\ pc[q] \in {"write", "respond"})]
            /\ Goto(p, "respond")
            /\ UNCHANGED <<id, user>>

\* respondWithUser reads the account again.
Respond(p) ==
    /\ At(p, "respond")
    /\ Finish(p, 200)
    /\ UNCHANGED users

-----------------------------------------------------------------------------
\* The lookup of POST /authenticate, with the right password: the email as it
\* was typed.
Authenticate(p, email) ==
    /\ pc[p] = "idle"
    /\ reply' = [reply EXCEPT ![p] =
                    Status(IF \E a \in DOMAIN users : users[a].email = email
                           THEN 200 ELSE 401)]
    /\ UNCHANGED <<users, pc, id, new, body, user, disturbed>>

\* Past its limiter: advisory, a single read, which may fail.
CheckUsername(p, name) ==
    /\ pc[p] = "idle"
    /\ \/ reply' = [reply EXCEPT ![p] = Status(500)]
       \/ reply' = [reply EXCEPT ![p] =
                       [code |-> 200,
                        reason |-> IF \E a \in DOMAIN users : users[a].username = name
                                   THEN "taken" ELSE ""]]
    /\ UNCHANGED <<users, pc, id, new, body, user, disturbed>>

\* Any statement may fail; the two reads of the account answer 404 then.
StatementFails(p) ==
    /\ pc[p] # "idle"
    /\ Finish(p, IF pc[p] \in {"load", "respond"} THEN 404 ELSE 500)
    /\ UNCHANGED users

Init ==
    /\ users = [a \in {} |-> NoUser]
    /\ pc = [p \in Proc |-> "idle"]
    /\ id = [p \in Proc |-> NoId]
    /\ new = [p \in Proc |-> NoUser]
    /\ body = [p \in Proc |-> Nothing]
    /\ user = [p \in Proc |-> NoUser]
    /\ reply = [p \in Proc |-> Status(0)]
    /\ disturbed = [p \in Proc |-> FALSE]

Next ==
    \E p \in Proc :
        \/ Refuse(p)
        \/ \E name \in Name, email \in Email : Register(p, name, email)
        \/ \E a \in Id, b \in Patch : PatchMe(p, a, b)
        \/ \E email \in Email : Authenticate(p, email)
        \/ \E name \in Name : CheckUsername(p, name)
        \/ CreateUser(p) \/ IssueSession(p)
        \/ GetUserByID(p) \/ UpdateUser(p) \/ Respond(p)
        \/ StatementFails(p)

Spec == Init /\ [][Next]_vars

-----------------------------------------------------------------------------
(* Properties.                                                             *)

\* The types; and however registrations race, an email is one account's.
TypeOK ==
    /\ DOMAIN users \subseteq Id
    /\ users \in [DOMAIN users -> User]
    /\ \A a, b \in DOMAIN users :
          a # b => users[a].email # users[b].email
    /\ pc \in [Proc -> {"idle", "insert", "session", "load", "write", "respond"}]
    /\ id \in [Proc -> DOMAIN users \cup {NoId}]
    /\ new \in [Proc -> User \cup {NoUser}]
    /\ body \in [Proc -> Patch]
    /\ user \in [Proc -> User \cup {NoUser}]
    /\ disturbed \in [Proc -> BOOLEAN]

Table == INSTANCE UserTable
    WITH users <- [a \in DOMAIN users |-> [username |-> users[a].username,
                                           visibility |-> users[a].visibility]]

\* To those who only read it the table is UserTable: whatever registrations
\* and renames overlap, a name is one account's, a statement changes one
\* account, and none disappears.
TableIsUserTable == Table!Spec

Agrees(b, u) == Patched(u, b) = u

\* A PATCH that no other write to the account overlaps changes what it named
\* and nothing else, and is answered 200 with an account that shows it: no
\* field is dropped between the handler and the column list of UpdateUser.  It
\* is answered 409 (openapi.yml: the username is taken) if it asks for a name
\* only: the name it writes back is its own.
PatchIsExact ==
    [][\A p \in Proc :
          ~disturbed[p] =>
             /\ pc[p] = "write" /\ pc'[p] = "respond" =>
                   users'[id[p]] = Patched(users[id[p]], body[p])
             /\ pc[p] = "write" /\ reply'[p].code = 409 => body[p].username # Absent
             /\ pc[p] = "respond" /\ reply'[p].code = 200 =>
                   Agrees(body[p], users[id[p]])]_vars

-----------------------------------------------------------------------------
(* What a comment of the repository says, and the code does not keep.      *)

\* A field absent from a PATCH is not touched by it (handlers.go).
AbsentFieldsKept ==
    [][\A p \in Proc :
          pc[p] = "write" /\ pc'[p] = "respond" =>
              /\ body[p].visibility = Absent =>
                    users'[id[p]].visibility = users[id[p]].visibility
              /\ body[p].bio = Absent => users'[id[p]].bio = users[id[p]].bio]_vars
=============================================================================
