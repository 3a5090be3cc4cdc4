------------------------------ MODULE Catalog -------------------------------
(***************************************************************************)
(* The catalog of games: importIGDBGames, which POST /me/games calls for   *)
(* one game, cmd/backfill, which re-imports them all, and the transaction  *)
(* of ImportGames that both end in.                                        *)
(*                                                                         *)
(* PostgreSQL at READ COMMITTED: an upsert holds its row, inserted or      *)
(* updated, until its transaction ends; another upsert of that row waits;  *)
(* a cycle of waits aborts one that waits.  A "version" stands for every   *)
(* column IGDB owns, which are in GameRecord.  Tags are rows to be locked: *)
(* their ids and names are there too, and no tag or game is ever deleted.  *)
(***************************************************************************)
EXTENDS GameRecord, FiniteSets

CONSTANTS
    Game,           \* IGDB ids
    Tag,            \* (facet, igdb_id)
    TagLists,       \* the tags IGDB may give a game, in the order it gives them
    NoRow,          \* the game is not in the catalog
    Proc,           \* requests and backfills in flight
    MaxVersion      \* bound on the edits of a game upstream

\* Enough ids for the rows there are and the rows being inserted.
Id == 1 .. Cardinality(Game) * (Cardinality(Proc) + 1)
Row == [id : Id, version : 0 .. MaxVersion]

ASSUME CatalogAssumption ==
    /\ IsFiniteSet(Game) /\ IsFiniteSet(Proc)
    /\ MaxVersion \in Nat
    /\ TagLists \subseteq {s \in Seq(Tag) : IsInjective(s)}
    /\ NoRow \notin Row

Fetched == [game : Game, version : 0 .. MaxVersion, tags : TagLists]

VARIABLES
    upstream,   \* IGDB: what it answers for a game
    published,  \* history: everything it ever answered for one
    games,      \* the games table, by igdb_id
    links,      \* games_tags
    pc,         \* the next statement of each importer
    asked,      \* the games it wants
    fetched,    \* what IGDB returned, from the game being stored on
    todo,       \* the tags of that game that are not stored yet
    tx,         \* its open transaction: the rows written, and so held
    answer,     \* the map of ids an importer returned, until its slot is reused
    before      \* history: IGDB's versions when it began

vars == <<upstream, published, games, links, pc, asked, fetched, todo, tx,
          answer, before>>

NoTx == [games |-> <<>>, links |-> <<>>, tags |-> {}]

At(p, phase) == pc[p] = phase
Unseen == [g \in Game |-> 0]
With(f, x, y) == [z \in DOMAIN f \cup {x} |-> IF z = x THEN y ELSE f[z]]

Finish(p, ids) ==
    /\ pc' = [pc EXCEPT ![p] = "idle"]
    /\ asked' = [asked EXCEPT ![p] = {}]
    /\ fetched' = [fetched EXCEPT ![p] = <<>>]
    /\ todo' = [todo EXCEPT ![p] = <<>>]
    /\ tx' = [tx EXCEPT ![p] = NoTx]
    /\ answer' = [answer EXCEPT ![p] = ids]
    /\ before' = [before EXCEPT ![p] = Unseen]

\* IGDB edits a game.
Edit(g, list) ==
    /\ upstream[g].version < MaxVersion
    /\ upstream' = [upstream EXCEPT ![g] = [version |-> @.version + 1, tags |-> list]]
    /\ published' = [published EXCEPT ![g] = @ \cup {upstream'[g]}]
    /\ UNCHANGED <<games, links, pc, asked, fetched, todo, tx, answer,
                   before>>

-----------------------------------------------------------------------------
(* importIGDBGames and cmd/backfill, up to the transaction.                *)

Start(p, phase, wanted) ==
    /\ At(p, "idle")
    /\ pc' = [pc EXCEPT ![p] = phase]
    /\ asked' = [asked EXCEPT ![p] = wanted]
    /\ answer' = [answer EXCEPT ![p] = <<>>]
    /\ before' = [before EXCEPT ![p] = [g \in Game |-> upstream[g].version]]
    /\ UNCHANGED <<upstream, published, games, links, fetched, todo, tx>>

ImportIGDBGames(p, g) == Start(p, "known", {g})

GamesByIGDBIDs(p) ==
    /\ At(p, "known")
    /\ LET known == {g \in asked[p] : games[g] # NoRow} IN
       IF known = asked[p]
       THEN Finish(p, [g \in known |-> games[g].id])
       ELSE /\ pc' = [pc EXCEPT ![p] = "fetch"]
            /\ UNCHANGED <<asked, fetched, todo, tx, answer, before>>
    /\ UNCHANGED <<upstream, published, games, links>>

\* AllGameIGDBIDs; an empty catalog leaves nothing to do.
Backfill(p) ==
    LET ids == {g \in Game : games[g] # NoRow} IN
    ids # {} /\ Start(p, "refetch", ids)

\* Mutant of IgdbAnswer: the first answer is kept and given again.
FirstAnswer(g) == CHOOSE a \in published[g] : a.version = 0

IgdbAnswer(g) == upstream[g]

\* In whatever order IGDB returns them.
Fetch(p, returned) ==
    /\ \E order \in Bijection(1 .. Cardinality(returned), returned) :
          fetched' = [fetched EXCEPT ![p] =
              [i \in DOMAIN order |->
                  [game |-> order[i], version |-> IgdbAnswer(order[i]).version,
                   tags |-> IgdbAnswer(order[i]).tags]]]
    /\ pc' = [pc EXCEPT ![p] = "game"]
    /\ UNCHANGED <<upstream, published, games, links, asked, todo, tx, answer, before>>

\* A request needs every game it asked for: fewer are a 404, which is Fails.
FetchMissing(p) == At(p, "fetch") /\ Fetch(p, asked[p])

\* The backfill takes what there is; nothing at all ends it, as Fails does.
FetchAll(p) ==
    /\ At(p, "refetch")
    /\ \E returned \in (SUBSET asked[p]) \ {{}} : Fetch(p, returned)

GetByIDs(p) == FetchMissing(p) \/ FetchAll(p)

-----------------------------------------------------------------------------
(* ImportGames.                                                            *)

\* What the next statement of p upserts is held by another transaction.
WaitsFor(p, q) ==
    /\ p # q
    /\ \/ At(p, "game") /\ Head(fetched[p]).game \in DOMAIN tx[q].games
       \/ At(p, "tag") /\ Head(todo[p]) \in tx[q].tags

Blocked(p) == \E q \in Proc : WaitsFor(p, q)

UsedId == {games[g].id : g \in {h \in Game : games[h] # NoRow}}
          \cup UNION {{tx[q].games[g].id : g \in DOMAIN tx[q].games} : q \in Proc}
FreshId == CHOOSE i \in Id \ UsedId : \A j \in Id \ UsedId : i <= j

\* Mutant of UpsertedId: DO NOTHING returns no row on a conflict.
IdDoNothing(g) == IF games[g] = NoRow THEN FreshId ELSE 0

\* Mutant of UpsertedId: the conflicting row is replaced.
IdReplaced(g) == FreshId

\* The primary key RETURNING gives back: the row's own when there is one.
UpsertedId(g) == IF games[g] = NoRow THEN FreshId ELSE games[g].id

\* What follows the game, or the tag, that was just stored.
NextPhase(rest) == IF rest = <<>> THEN "links" ELSE "tag"

UpsertGame(p) ==
    LET g == Head(fetched[p]) IN
    /\ At(p, "game") /\ ~Blocked(p)
    /\ tx' = [tx EXCEPT ![p].games =
                 With(@, g.game, [id |-> UpsertedId(g.game), version |-> g.version])]
    /\ todo' = [todo EXCEPT ![p] = g.tags]
    /\ pc' = [pc EXCEPT ![p] = NextPhase(g.tags)]
    /\ UNCHANGED <<upstream, published, games, links, asked, fetched, answer, before>>

UpsertTag(p) ==
    /\ At(p, "tag") /\ ~Blocked(p)
    /\ tx' = [tx EXCEPT ![p].tags = @ \cup {Head(todo[p])}]
    /\ todo' = [todo EXCEPT ![p] = Tail(@)]
    /\ pc' = [pc EXCEPT ![p] = NextPhase(Tail(todo[p]))]
    /\ UNCHANGED <<upstream, published, games, links, asked, fetched, answer, before>>

\* Mutant of NewLinks: the old links are not deleted first.
LinksAppended(g) == links[g.game] \cup Range(g.tags)

NewLinks(g) == Range(g.tags)

\* The DELETE and the INSERTs: only the holder of the game's row links it.
ReplaceLinks(p) ==
    LET g == Head(fetched[p]) IN
    /\ At(p, "links")
    /\ tx' = [tx EXCEPT ![p].links = With(@, g.game, NewLinks(g))]
    /\ fetched' = [fetched EXCEPT ![p] = Tail(@)]
    /\ pc' = [pc EXCEPT ![p] = IF Tail(fetched[p]) = <<>> THEN "commit" ELSE "game"]
    /\ UNCHANGED <<upstream, published, games, links, asked, todo, answer,
                   before>>

\* The locals end with the transaction: nothing is left to do but to answer.
Commit(p) ==
    /\ At(p, "commit")
    /\ games' = [g \in Game |-> IF g \in DOMAIN tx[p].games THEN tx[p].games[g]
                                ELSE games[g]]
    /\ links' = [g \in Game |-> IF g \in DOMAIN tx[p].links THEN tx[p].links[g]
                                ELSE links[g]]
    /\ Finish(p, [g \in DOMAIN tx[p].games |-> tx[p].games[g].id])
    /\ UNCHANGED <<upstream, published>>

\* p waits, at some remove, for itself.
Deadlocked(p) ==
    \E cycle \in SUBSET Proc :
        /\ p \in cycle
        /\ \A q \in cycle : /\ \E r \in cycle : WaitsFor(q, r)
                            /\ \E r \in cycle : WaitsFor(r, q)

\* The call to IGDB fails or returns too few games, or a statement or the
\* commit fails: rolled back, nothing returned.  No request cancels a statement
\* that waits: it goes on waiting unless the deadlock detector picks it.
Fails(p) ==
    /\ ~At(p, "idle")
    /\ Blocked(p) => Deadlocked(p)
    /\ Finish(p, <<>>)
    /\ UNCHANGED <<upstream, published, games, links>>

Init ==
    /\ upstream \in [Game -> [version : {0}, tags : TagLists]]
    /\ published = [g \in Game |-> {upstream[g]}]
    /\ games = [g \in Game |-> NoRow]
    /\ links = [g \in Game |-> {}]
    /\ pc = [p \in Proc |-> "idle"]
    /\ asked = [p \in Proc |-> {}]
    /\ fetched = [p \in Proc |-> <<>>]
    /\ todo = [p \in Proc |-> <<>>]
    /\ tx = [p \in Proc |-> NoTx]
    /\ answer = [p \in Proc |-> <<>>]
    /\ before = [p \in Proc |-> Unseen]

Statement(p) ==
    \/ GamesByIGDBIDs(p) \/ GetByIDs(p)
    \/ UpsertGame(p) \/ UpsertTag(p) \/ ReplaceLinks(p) \/ Commit(p) \/ Fails(p)

Next ==
    \/ \E g \in Game, list \in TagLists : Edit(g, list)
    \/ \E p \in Proc : \/ \E g \in Game : ImportIGDBGames(p, g)
                       \/ Backfill(p)
                       \/ Statement(p)

Spec == Init /\ [][Next]_vars

-----------------------------------------------------------------------------
(* Properties.                                                             *)

\* The types; and a surrogate key names one game.
TypeOK ==
    /\ upstream \in [Game -> [version : 0 .. MaxVersion, tags : TagLists]]
    /\ games \in [Game -> Row \cup {NoRow}]
    /\ \A g, h \in Game : games[g] # NoRow /\ games[h] # NoRow /\ g # h =>
                              games[g].id # games[h].id
    /\ links \in [Game -> SUBSET Tag]
    /\ pc \in [Proc -> {"idle", "known", "fetch", "refetch", "game", "tag",
                        "links", "commit"}]
    /\ asked \in [Proc -> SUBSET Game]
    /\ \A p \in Proc :
          /\ Range(fetched[p]) \subseteq Fetched
          /\ Range(todo[p]) \subseteq Tag
          /\ Range(tx[p].games) \subseteq Row
          /\ Range(answer[p]) \subseteq Id
          /\ before[p] \in [Game -> 0 .. MaxVersion]

\* What the catalog shows of a game is one answer of IGDB, whole: its columns
\* and exactly the tags that came with them, however imports of it and of games
\* that share its tags interleave, fail or deadlock.
WholeImports ==
    \A g \in Game :
        IF games[g] = NoRow THEN links[g] = {}
        ELSE \E a \in published[g] : /\ a.version = games[g].version
                                     /\ Range(a.tags) = links[g]

\* What an import stores is no older than what IGDB would have answered when the
\* import began.  Of two that overlap the older answer may be stored last; one
\* that overlaps no other never takes the catalog back (cmd/backfill).
NeverBehindItsStart ==
    [][\A p \in Proc : At(p, "commit") /\ pc'[p] = "idle" =>
          \A g \in DOMAIN tx[p].games :
              games'[g] # games[g] => games'[g].version >= before[p][g]]_vars

\* An id that was returned, which user_games is about to refer to, is and stays
\* the id of that game's row, whoever imports it again.
AnsweredIdsHold ==
    \A p \in Proc : \A g \in DOMAIN answer[p] :
        games[g] # NoRow /\ games[g].id = answer[p][g]

Table == INSTANCE CatalogTable WITH Version <- 0 .. MaxVersion

\* To those who only read it the catalog is CatalogTable: whatever imports and
\* backfills overlap, fail or deadlock, a commit adds games or stores them again
\* under the ids they have, which list entries refer to (user_games.game_id).
KeepsCatalogTable == Table!Spec

Commits == \E p \in Proc : Commit(p)

\* What an import commits reads as IGDB answered, whatever was stored before and
\* whatever the answer lacks: no column is lost between decoder, row and upsert,
\* a field that is gone upstream goes blank, and a tag is in the list it came
\* in, though the ids of genres, themes and modes overlap (Client.games,
\* FromIGDB, ImportGames, SplitTags).
ReadsAsAnswered == [][Commits => SecondAnswerIsRead]_vars
=============================================================================
