---------------------------- MODULE MCUserGames -----------------------------
(* UserGames on a small instance: requests, users and games are               *)
(* interchangeable.                                                           *)
EXTENDS UserGames, TLC

Symmetry == Permutations(Proc) \cup Permutations(User) \cup Permutations(Game)

\* Nothing depends on the answers given.
View == <<entries, nextId, pc, key, body, current, beenFinished>>

=============================================================================
