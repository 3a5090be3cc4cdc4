---------------------------- MODULE CatalogTable ----------------------------
(***************************************************************************)
(* What the catalog looks like to those who only read it: games appear and *)
(* are stored again, any number in one commit.  A game is never deleted,   *)
(* it keeps its id, and an id is one game's.                               *)
(* Catalog implements it; GameLists refers to it and reads it.             *)
(***************************************************************************)
CONSTANTS
    Game,       \* games, by their ids at IGDB
    Id,         \* the ids of their rows
    Version,    \* their columns
    Tag,
    NoRow

VARIABLES
    games,      \* the table: game -> [id, version]
    links       \* games_tags: game -> tags

StoredGames(table) == {g \in Game : table[g] # NoRow}

Init ==
    /\ games = [g \in Game |-> NoRow]
    /\ links = [g \in Game |-> {}]

\* ImportGames commits.
Next ==
    /\ games' \in [Game -> [id : Id, version : Version] \cup {NoRow}]
    /\ links' \in [Game -> SUBSET Tag]
    /\ \A g \in StoredGames(games) : games'[g] # NoRow /\ games'[g].id = games[g].id
    /\ \A g, h \in StoredGames(games') : games'[g].id = games'[h].id => g = h
    /\ \A g \in Game : links'[g] # {} => g \in StoredGames(games')

Spec == Init /\ [][Next]_<<games, links>>
=============================================================================
