----------------------------- MODULE SessionLife -----------------------------
(***************************************************************************)
(* What login sessions promise, without tables or statements.  A session   *)
(* is opened with one live token.  While it has a live token a request may *)
(* be licensed to issue the next one; a licence is good for one token.     *)
(* Tokens and licences lapse at any time, by use, logout, expiry, failure  *)
(* or restart, and nothing revives a session that has neither.             *)
(***************************************************************************)
CONSTANTS Session, Request, Token

VARIABLES
    opened,   \* sessions a login has opened
    born,     \* tokens ever issued
    live,     \* the live tokens of each session
    licence   \* the requests of each session that may yet issue one

vars == <<opened, born, live, licence>>

New(s, t) ==
    /\ t \in Token \ born
    /\ born' = born \cup {t}
    /\ live' = [live EXCEPT ![s] = @ \cup {t}]

Open(s, t) ==
    /\ s \notin opened
    /\ opened' = opened \cup {s}
    /\ New(s, t)
    /\ UNCHANGED licence

Grant(s, r) ==
    /\ live[s] # {}
    /\ licence' = [licence EXCEPT ![s] = @ \cup {r}]
    /\ UNCHANGED <<opened, born, live>>

Issue(s, r, t) ==
    /\ r \in licence[s]
    /\ licence' = [licence EXCEPT ![s] = @ \ {r}]
    /\ New(s, t)
    /\ UNCHANGED opened

Lapse ==
    /\ UNCHANGED <<opened, born>>
    /\ live' \in [Session -> SUBSET Token]
    /\ licence' \in [Session -> SUBSET Request]
    /\ \A s \in Session : live'[s] \subseteq live[s] /\ licence'[s] \subseteq licence[s]

Init ==
    /\ opened = {} /\ born = {}
    /\ live = [s \in Session |-> {}]
    /\ licence = [s \in Session |-> {}]

Next ==
    \/ Lapse
    \/ \E s \in Session, r \in Request : Grant(s, r)
    \/ \E s \in Session, t \in Token :
          Open(s, t) \/ \E r \in Request : Issue(s, r, t)

Spec == Init /\ [][Next]_vars
=============================================================================
