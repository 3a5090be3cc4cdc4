----------------------------- MODULE MCProfiles -----------------------------
(* Profiles on a small instance: photos, names and accounts are               *)
(* interchangeable.                                                           *)
EXTENDS Profiles, TLC

Symmetry == Permutations(Photo) \cup Permutations(Name) \cup Permutations(Id)

\* Two answers are kept for a year, or fewer; what a third does is checked, and
\* not explored any further.
SmallCache == Cardinality(DOMAIN cache) <= 2
=============================================================================
