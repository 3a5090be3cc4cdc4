----------------------------- MODULE MCCatalog ------------------------------
(* Catalog on a small instance: two games whose tags come in either order;    *)
(* and its records, on answers with and without each field.                   *)
EXTENDS Catalog, TLC

CONSTANTS t1, t2

BothOrders == {<<t1, t2>>, <<t2, t1>>, <<>>}

\* No tag, a tag, the same tag renamed; ids are those of every facet.
TagListsOfId1 == {<<>>, <<<<1, "old">>>>, <<<<1, "new">>>>}

TwoKnownKinds ==
    [name \in {"DLC", "Mod"} |-> IF name = "DLC" THEN "dlc" ELSE "mod"]

Instants == {-1, 0, 3}

\* The fullest and the emptiest of answers.
FullAndEmpty ==
    {[name |-> "t1", summary |-> "s1", cover |-> "c1", first_release_date |-> 3,
      game_type |-> "DLC", parent_game |-> "p1", genres |-> <<<<1, "old">>>>,
      themes |-> <<<<1, "old">>>>, game_modes |-> <<>>],
     [name |-> "t1", summary |-> Missing, cover |-> Missing,
      first_release_date |-> Missing, game_type |-> Missing, parent_game |-> Missing,
      genres |-> <<>>, themes |-> <<>>, game_modes |-> <<>>]}

Symmetry == Permutations(Proc) \cup Permutations(Game)

\* Only one of the games is edited upstream; either may be.
OneEdit ==
    \A g, h \in Game : upstream[g].version > 0 /\ upstream[h].version > 0 => g = h
=============================================================================
