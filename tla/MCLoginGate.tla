---------------------------- MODULE MCLoginGate -----------------------------
(* LoginGate on a small instance: clients, addresses and accounts are         *)
(* interchangeable.                                                           *)
EXTENDS LoginGate, TLC

Symmetry == Permutations(Proc) \cup Permutations(Ip) \cup Permutations(Email)

Recently(history) == [p \in Proc |-> [e \in Email |-> Within(history[p][e])]]

\* Nothing depends on the answers given, or on what left the window.
View == <<now, limiters, pc, req, ipCheck, Recently(attempts), Recently(fresh),
          [e \in Email |-> Within(resets[e])]>>

CONSTANT MaxResets      \* logins and restarts per window

FewResets == \A e \in Email : Len(Within(resets[e])) <= MaxResets

=============================================================================
