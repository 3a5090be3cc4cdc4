------------------------------ MODULE GameRecord ------------------------------
(***************************************************************************)
(* What the catalog keeps of a game: IGDB's answer is decoded (Client.games*)
(* of internal/igdb), made a row and tags (models.FromIGDB), upserted over *)
(* what was stored before (ImportGames), and read back with its tags put   *)
(* into their lists (SplitTags).  Catalog's "version" is all of this.      *)
(*                                                                         *)
(* A list of tags is in the order of the answer when it is written, and a  *)
(* set when it is read.                                                    *)
(***************************************************************************)
EXTENDS Integers, Sequences, Functions

CONSTANTS
    Title, Summary, Cover, ParentId,  \* values of an answer's fields
    Seconds,         \* Unix times of a first release, in years of four digits
    GameType,        \* names IGDB may give a kind of game
    kindSlugs,       \* what is stored for those the code knows
    ListOfTags,      \* tag lists an answer may carry: <<id, name>> in order
    Stored,          \* the answers that may have been stored before
    Missing,         \* JSON null, or no such field
    Blank,           \* ""
    SecondsPerDay

ASSUME RecordAssumption ==
    /\ Seconds \subseteq Int /\ SecondsPerDay \in Nat \ {0}
    /\ ListOfTags \subseteq Seq(Int \X STRING)
    /\ \A list \in ListOfTags : IsInjective([i \in DOMAIN list |-> list[i][1]])
    /\ Missing \notin DOMAIN kindSlugs /\ Missing \notin Int

Optional(S) == S \cup {Missing}

\* apiGame.
ApiGame == [name : Title, summary : Optional(Summary), cover : Optional(Cover),
            first_release_date : Optional(Seconds), game_type : Optional(GameType),
            parent_game : Optional(ParentId),
            genres : ListOfTags, themes : ListOfTags, game_modes : ListOfTags]

\* A type that is not listed must not fail an import.
KindSlug(name) == IF name \in DOMAIN kindSlugs THEN kindSlugs[name] ELSE "unknown"

\* The UTC day of an instant; days are counted from 1970.
Day(s) == s \div SecondsPerDay

\* Client.games.
Decode(a) ==
    [title |-> a.name,
     kind |-> IF a.game_type = Missing THEN "unknown" ELSE KindSlug(a.game_type),
     parentIgdbId |-> a.parent_game,
     summary |-> a.summary,
     image |-> IF a.cover = Blank THEN Missing ELSE a.cover,
     releaseDate |-> IF a.first_release_date = Missing THEN Missing
                     ELSE Day(a.first_release_date),
     genres |-> a.genres, themes |-> a.themes, gameModes |-> a.game_modes]

\* The zero time, which stands for no date: January 1 of the year 1.
ZeroDay == -719162

Tagged(facet, list) ==
    [i \in DOMAIN list |-> [facet |-> facet, igdbId |-> list[i][1], name |-> list[i][2]]]

Or(value, absent) == IF value = Missing THEN absent ELSE value

FromIGDB(g) ==
    [title |-> g.title, kind |-> g.kind, parentIgdbId |-> g.parentIgdbId,
     image |-> Or(g.image, Blank), summary |-> Or(g.summary, Blank),
     releaseDate |-> Or(g.releaseDate, ZeroDay),
     tags |-> Tagged("genre", g.genres) \o Tagged("theme", g.themes)
              \o Tagged("game_mode", g.gameModes)]

-----------------------------------------------------------------------------
(* The tables: the row of one game, tags, and the game's links to them.    *)

Columns == {"title", "image", "kind", "releaseDate", "parentIgdbId", "summary"}

Empty == [row |-> <<>>, tags |-> <<>>, links |-> {}]

\* Mutant of DoUpdates: parent_igdb_id is not in the list.
DoUpdatesWithoutParent == Columns \ {"parentIgdbId"}

\* The columns a conflict on igdb_id updates.
DoUpdates == {"title", "image", "kind", "releaseDate", "parentIgdbId", "summary"}

\* The unique constraint of tags.
Key(tag) == <<tag.facet, tag.igdbId>>

ImportGame(db, g) ==
    LET keys == {Key(g.tags[i]) : i \in DOMAIN g.tags} IN
    [row |-> [c \in Columns |-> IF db.row = <<>> \/ c \in DoUpdates THEN g[c]
                                ELSE db.row[c]],
     tags |-> [k \in DOMAIN db.tags \cup keys |->
                  IF k \in keys THEN g.tags[CHOOSE i \in DOMAIN g.tags : Key(g.tags[i]) = k]
                  ELSE db.tags[k]],
     links |-> keys]

\* Preload("Game.Tags") and SplitTags: the tags of one facet, as a client sees
\* them.
Split(db, facet) ==
    {<<db.tags[k].igdbId, db.tags[k].name>> :
        k \in {k \in db.links : db.tags[k].facet = facet}}

-----------------------------------------------------------------------------
(* What a client reads of a game.                                          *)

ReadsAs(db, a) ==
    /\ db.row["title"] = a.name
    /\ db.row["summary"] = Or(a.summary, Blank)
    /\ db.row["image"] = Or(a.cover, Blank)
    /\ db.row["parentIgdbId"] = a.parent_game
    /\ IF a.game_type \in DOMAIN kindSlugs
       THEN db.row["kind"] = kindSlugs[a.game_type]
       ELSE db.row["kind"] = "unknown"
    /\ IF a.first_release_date = Missing
       THEN db.row["releaseDate"] = ZeroDay
       ELSE a.first_release_date - db.row["releaseDate"] * SecondsPerDay
               \in 0 .. SecondsPerDay - 1
    /\ Split(db, "genre") = Range(a.genres)
    /\ Split(db, "theme") = Range(a.themes)
    /\ Split(db, "game_mode") = Range(a.game_modes)

\* What is read of a game that was imported twice is the second answer.
SecondAnswerIsRead ==
    \A old \in Stored, a \in ApiGame :
        LET first == ImportGame(Empty, FromIGDB(Decode(old)))
        IN  ReadsAs(ImportGame(first, FromIGDB(Decode(a))), a)
=============================================================================
