----------------------------- MODULE MCAccounts -----------------------------
(* Accounts on a small instance: requests, names and addresses are            *)
(* interchangeable.                                                           *)
EXTENDS Accounts, TLC

Symmetry == Permutations(Proc) \cup Permutations(Name) \cup Permutations(Address)

\* Nothing depends on the answers given.
View == <<users, pc, id, new, body, user, disturbed>>

\* The requests in flight name three fields between them, or fewer.
FewFields ==
    Cardinality({<<p, f>> \in Proc \X DOMAIN Nothing : body[p][f] # Absent}) <= 3

=============================================================================
