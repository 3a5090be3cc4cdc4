------------------------------ MODULE UserTable ------------------------------
(***************************************************************************)
(* What the users table looks like to those who only read it: accounts     *)
(* appear, and a statement changes the name and the visibility of one of   *)
(* them; a name is one account's, and an account is never deleted.         *)
(* Accounts implements it; Profiles reads it.                              *)
(***************************************************************************)
CONSTANTS Name, Id

VARIABLE users  \* the table: id -> [username, visibility]

Visibility == {"public", "private"}

Taken(a, name) == \E b \in DOMAIN users \ {a} : users[b].username = name

\* An INSERT or an UPDATE of the account a.
Store(a, u) ==
    /\ ~Taken(a, u.username)
    /\ users' = [b \in DOMAIN users \cup {a} |-> IF b = a THEN u ELSE users[b]]

CreateUser(a, name) ==
    /\ a \notin DOMAIN users
    /\ Store(a, [username |-> name, visibility |-> "public"])

UpdateUser(a, name, visibility) ==
    /\ a \in DOMAIN users
    /\ Store(a, [username |-> name, visibility |-> visibility])

Init == users = [a \in {} |-> Name]

Next ==
    \E a \in Id, name \in Name :
        \/ CreateUser(a, name)
        \/ \E visibility \in Visibility : UpdateUser(a, name, visibility)

Spec == Init /\ [][Next]_users
=============================================================================
