---------------------------- MODULE MCGameLists -----------------------------
(* GameLists on a small instance: two users, two requests, and ids of IGDB    *)
(* that are also local ones, of the same games or of each other.              *)
EXTENDS GameLists, TLC

\* Game and Id are one set.
Symmetry == Permutations(User) \cup Permutations(Proc) \cup Permutations(Game)

\* A reading begins with columns and names of one kind: what counts is which of
\* them change before it ends.
FirstVersion == CHOOSE v \in Version : TRUE
FirstName == CHOOSE n \in Name : TRUE
BeginsPlain ==
    Readers = {} => /\ \A g \in Stored : games[g].version = FirstVersion
                    /\ \A t \in Tag : names[t] = FirstName

\* Nothing depends on the lists that were answered.
View == <<catalog, entries, pc, locals, posted, had>>
=============================================================================
