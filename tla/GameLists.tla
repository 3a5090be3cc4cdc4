----------------------------- MODULE GameLists ------------------------------
(***************************************************************************)
(* Lists of games over the catalog.  A client names a game by its id at    *)
(* IGDB; POST /me/games imports it, and the entry it inserts refers to the *)
(* catalog's own id.  A list is read in four steps, the entries, their     *)
(* games, the games' links, and the tags those lead to; between any two    *)
(* imports and backfills commit and other tabs add and remove entries.     *)
(*                                                                         *)
(* What else an entry holds is in UserGames.                               *)
(***************************************************************************)
EXTENDS Naturals, FiniteSets

CONSTANTS
    Game, Id, Version, Tag, NoRow,   \* as in CatalogTable
    Name,               \* of tags
    User,
    Proc,               \* requests in flight
    MaxPosted,          \* bound on the pairs of user and game ever posted
    MaxReaders,         \* bound on the requests reading at a time
    MaxCommits,         \* bound on the commits during one reading
    Nobody, NoId, NoList

VARIABLES
    games, links,       \* the catalog
    names,              \* and the names in its tags, of which none is deleted
    entries,            \* user_games: pairs of a user and a row of games
    pc,                 \* the next statement of each request
    user,               \* whose request it is
    gameId,             \* the id importIGDBGames returned to a POST
    found,              \* the entries read
    shown,              \* the columns of their games
    linked,             \* the tags those are linked to
    list,               \* the list that was answered, as id -> game
    posted,             \* history: the pairs of user and game ever posted
    had                 \* history: what the catalog showed since a reading began

catalog == <<games, links, names>>
locals == <<user, gameId, found, shown, linked>>
vars == <<catalog, entries, pc, locals, list, posted, had>>

Catalog == INSTANCE CatalogTable

Nothing == [i \in {} |-> NoRow]
Stored == {g \in Game : games[g] # NoRow}
Now == [games |-> games, links |-> links, names |-> names]

At(p, phase) == pc[p] = phase /\ UNCHANGED catalog
Goto(p, phase) == pc' = [pc EXCEPT ![p] = phase]

Finish(p, answer) ==
    /\ Goto(p, "idle")
    /\ user' = [user EXCEPT ![p] = Nobody]
    /\ gameId' = [gameId EXCEPT ![p] = NoId]
    /\ found' = [found EXCEPT ![p] = {}]
    /\ shown' = [shown EXCEPT ![p] = Nothing]
    /\ linked' = [linked EXCEPT ![p] = Nothing]
    /\ list' = [list EXCEPT ![p] = answer]
    /\ had' = [had EXCEPT ![p] = {}]
    /\ UNCHANGED posted

Reading(p) == pc[p] \in {"games", "links", "tags"}
Readers == {p \in Proc : Reading(p)}

\* An import or a backfill commits; the tags of what it stored may have got other
\* names.
Import ==
    /\ \A p \in Proc : Cardinality(had[p]) <= MaxCommits
    /\ Catalog!Next
    /\ names' \in [Tag -> Name]
    /\ \A t \in Tag : names'[t] # names[t] => \E g \in Game : t \in links'[g]
    /\ had' = [p \in Proc |-> IF p \in Readers
                              THEN had[p] \cup {Now'} ELSE had[p]]
    /\ UNCHANGED <<entries, pc, locals, list, posted>>

-----------------------------------------------------------------------------
(* POST /me/games.                                                         *)

\* Mutant of LocalId: the id the client sent is taken for a local one.
LocalIdAsSent(g) == g

\* Mutant of LocalId: what ImportGames returned is not added to what was known.
LocalIdUnknown(g) == 0

\* What GamesByIGDBIDs or, after its commit, ImportGames returned.
LocalId(g) == games[g].id

\* Up to the end of importIGDBGames: the game is stored.
PostMyGame(p, u, g) ==
    /\ At(p, "idle")
    /\ g \in Stored
    /\ user' = [user EXCEPT ![p] = u]
    /\ gameId' = [gameId EXCEPT ![p] = LocalId(g)]
    /\ Goto(p, "insert")
    /\ posted' = posted \cup {<<u, g>>}
    /\ Cardinality(posted') <= MaxPosted
    /\ UNCHANGED <<entries, found, shown, linked, list, had>>

\* Refused by the unique constraint, or by the foreign key.
Refused(p) ==
    \/ <<user[p], gameId[p]>> \in entries
    \/ \A g \in Stored : games[g].id # gameId[p]

AddUserGame(p) ==
    /\ At(p, "insert")
    /\ IF Refused(p) THEN Finish(p, NoList) /\ UNCHANGED entries
       ELSE /\ entries' = entries \cup {<<user[p], gameId[p]>>}
            /\ Goto(p, "reread")
            /\ UNCHANGED <<locals, list, posted, had>>

-----------------------------------------------------------------------------
(* Reading: Find, and First after an insert.                               *)

\* With the entries in hand; from here on the catalog is read.
Entries(p, ids) ==
    /\ Cardinality(Readers) < MaxReaders
    /\ found' = [found EXCEPT ![p] = ids]
    /\ had' = [had EXCEPT ![p] = {Now}]
    /\ Goto(p, "games")
    /\ UNCHANGED <<entries, gameId, shown, linked, list, posted>>

\* The rows WHERE user_id = ? selects.
ScopedToUser(u) == {e \in entries : e[1] = u}

GetUserGames(p, u) ==
    /\ At(p, "idle")
    /\ user' = [user EXCEPT ![p] = u]
    /\ Entries(p, {e[2] : e \in ScopedToUser(u)})

\* Gone already: the POST is answered 500.
Reread(p) ==
    /\ At(p, "reread")
    /\ IF <<user[p], gameId[p]>> \in ScopedToUser(user[p])
       THEN Entries(p, {gameId[p]}) /\ UNCHANGED user
       ELSE Finish(p, NoList) /\ UNCHANGED entries

\* Preload("Game"): one SELECT for all of them.
PreloadGame(p) ==
    /\ At(p, "games")
    /\ shown' = [shown EXCEPT ![p] =
           [i \in {games[g].id : g \in Stored} \cap found[p] |->
               games[CHOOSE g \in Stored : games[g].id = i].version]]
    /\ Goto(p, "links")
    /\ UNCHANGED <<entries, user, gameId, found, linked, list, posted, had>>

\* Mutant of LinksOf: only one level is preloaded.
TagsNotPreloaded(i) == {}

LinksOf(i) == UNION {links[g] : g \in {h \in Stored : games[h].id = i}}

\* Preload("Game.Tags") is two SELECTs: games_tags,
PreloadLinks(p) ==
    /\ At(p, "links")
    /\ linked' = [linked EXCEPT ![p] = [i \in DOMAIN shown[p] |-> LinksOf(i)]]
    /\ Goto(p, "tags")
    /\ UNCHANGED <<entries, user, gameId, found, shown, list, posted, had>>

Named(tags, name) == {<<t, name[t]>> : t \in tags}

\* An entry whose game is not found is shown without one.
Answer(p) == [i \in DOMAIN shown[p] |->
                 [version |-> shown[p][i], tags |-> Named(linked[p][i], names)]]

\* and tags.
PreloadTags(p) ==
    /\ At(p, "tags")
    /\ Finish(p, Answer(p))
    /\ UNCHANGED entries

-----------------------------------------------------------------------------
\* DELETE /me/games/:gameId, by the local id.
DeleteUserGame(u, i) ==
    /\ entries' = entries \ {<<u, i>>}
    /\ UNCHANGED <<catalog, pc, locals, list, posted, had>>

\* A statement fails.
Fails(p) ==
    /\ pc[p] # "idle"
    /\ Finish(p, NoList)
    /\ UNCHANGED <<catalog, entries>>

Init ==
    /\ Catalog!Init
    /\ names \in [Tag -> Name]
    /\ entries = {}
    /\ pc = [p \in Proc |-> "idle"]
    /\ user = [p \in Proc |-> Nobody]
    /\ gameId = [p \in Proc |-> NoId]
    /\ found = [p \in Proc |-> {}]
    /\ shown = [p \in Proc |-> Nothing]
    /\ linked = [p \in Proc |-> Nothing]
    /\ list = [p \in Proc |-> NoList]
    /\ posted = {}
    /\ had = [p \in Proc |-> {}]

Step(p) ==
    \/ \E u \in User : GetUserGames(p, u) \/ \E g \in Game : PostMyGame(p, u, g)
    \/ AddUserGame(p) \/ Reread(p)
    \/ PreloadGame(p) \/ PreloadLinks(p) \/ PreloadTags(p)
    \/ Fails(p)

Next ==
    \/ Import
    \/ \E u \in User, i \in Id : DeleteUserGame(u, i)
    \/ \E p \in Proc : Step(p)

Spec == Init /\ [][Next]_vars

-----------------------------------------------------------------------------
(* Properties.                                                             *)

Content == [version : Version, tags : SUBSET (Tag \X Name)]

\* The types; ids are the catalog's own.
TypeOK ==
    /\ games \in [Game -> [id : Id, version : Version] \cup {NoRow}]
    /\ links \in [Game -> SUBSET Tag]
    /\ names \in [Tag -> Name]
    /\ entries \subseteq User \X Id
    /\ pc \in [Proc -> {"idle", "insert", "reread", "games", "links", "tags"}]
    /\ user \in [Proc -> User \cup {Nobody}]
    /\ gameId \in [Proc -> Id \cup {NoId}]
    /\ found \in [Proc -> SUBSET Id]
    /\ \A p \in Proc : shown[p] \in [DOMAIN shown[p] -> Version]
    /\ \A p \in Proc : linked[p] \in [DOMAIN linked[p] -> SUBSET Tag]
    /\ \A p \in Proc : list[p] # NoList => list[p] \in [DOMAIN list[p] -> Content]
    /\ posted \subseteq User \X Game

IsRowOf(table, i, g) == table[g] # NoRow /\ table[g].id = i

Refers(u, i) == \E g \in Game : IsRowOf(games, i, g) /\ <<u, g>> \in posted

\* An entry is of a game its user posted: the id importIGDBGames returns is that
\* of the game which was named, still is when the entry is inserted, whatever is
\* stored meanwhile (PostMyGame does not ask the database again), and ever after.
EntriesAreAsked ==
    /\ \A e \in entries : Refers(e[1], e[2])
    /\ \A p \in Proc : pc[p] = "insert" => Refers(user[p], gameId[p])

\* A list shows its reader's entries, each with its game.  The columns of all of
\* them are of one state of the catalog since the reading began, their links of
\* one, and the names of their tags of one: where nothing was committed
\* meanwhile, of the same (GetUserGames, AddUserGame, UpdateUserGame).
ListIsCurrent ==
    [][\A p \in Proc : pc[p] = "tags" /\ pc'[p] = "idle" /\ list'[p] # NoList =>
          /\ DOMAIN list'[p] = found[p]
          /\ \E one, two, three \in had[p] : \A i \in found[p] : \E g \in Game :
                /\ IsRowOf(one.games, i, g) /\ <<user[p], g>> \in posted
                /\ list'[p][i] = [version |-> one.games[g].version,
                                  tags |-> Named(two.links[g], three.names)]]_vars
=============================================================================
