----------------------------- MODULE UserGames ------------------------------
(***************************************************************************)
(* The list of games: the user_games table and POST, PATCH and DELETE on   *)
(* /me/games.  A PATCH that carries a rating or a review reads the entry's *)
(* category, judges it, and updates in a later statement; other tabs of    *)
(* the user move, delete and re-add the entry meanwhile.                   *)
(*                                                                         *)
(* A review is written, cleared and judged exactly as a rating is, so one  *)
(* column "rating" stands for both.  The importing of the game is Catalog. *)
(***************************************************************************)
EXTENDS Integers, FiniteSets

CONSTANTS
    User, Game,
    Score,              \* ratings the validator accepts, 0 not among them
    Unrated,            \* NULL
    Proc,               \* requests in flight
    MaxRows             \* bound on the rows ever inserted

Finished == "finished"
Category == {Finished, "currently_playing", "want_to_play"}

\* Absent: the request does not carry the field.  Clear: rating 0, review ""
\* (a POST may only clear its review).  Invalid: a rating out of range, a review
\* too long.
Absent == "absent"
Clear == "clear"
Invalid == "invalid"

ASSUME UserGamesAssumption ==
    /\ MaxRows \in Nat
    /\ Unrated \notin Score
    /\ {Absent, Clear, Invalid} \cap Score = {}

Key == User \X Game
Entry == [id : 1 .. MaxRows, category : Category, rating : Score \cup {Unrated}]
PostBody == [category : Category, rating : Score \cup {Absent, Clear}]
PatchBody == [category : Category \cup {Absent},
              rating : Score \cup {Absent, Clear, Invalid}]

VARIABLES
    entries,    \* user_games: (user, game) -> row; the pair is unique
    nextId,     \* the identity column's next value
    pc,         \* the next statement of each request
    key,        \* whose entry of which game the request is about
    body,       \* its body, validated
    current,    \* the category GetUserGameCategory returned
    reply,      \* the status the last request of this slot was answered
    beenFinished \* history: the pairs that ever were listed as finished

vars == <<entries, nextId, pc, key, body, current, reply, beenFinished>>

NoKey == <<"nobody", "nothing">>
NoBody == [category |-> Absent, rating |-> Absent]

Begin(p, phase, k, b) ==
    /\ pc[p] = "idle"
    /\ pc' = [pc EXCEPT ![p] = phase]
    /\ key' = [key EXCEPT ![p] = k]
    /\ body' = [body EXCEPT ![p] = b]
    /\ reply' = [reply EXCEPT ![p] = 0]
    /\ UNCHANGED <<entries, nextId, current, beenFinished>>

At(p, phase) == pc[p] = phase
Goto(p, phase) == pc' = [pc EXCEPT ![p] = phase] /\ UNCHANGED <<key, body, reply>>

Finish(p, status) ==
    /\ pc' = [pc EXCEPT ![p] = "idle"]
    /\ key' = [key EXCEPT ![p] = NoKey]
    /\ body' = [body EXCEPT ![p] = NoBody]
    /\ current' = [current EXCEPT ![p] = Absent]
    /\ reply' = [reply EXCEPT ![p] = status]

\* A request refused for what it says: bad id, bad body, nothing to update, no
\* such category; in a POST also a rating that is not allowed or not valid.
Refuse(p) ==
    /\ pc[p] = "idle"
    /\ reply' = [reply EXCEPT ![p] = 400]
    /\ UNCHANGED <<entries, nextId, pc, key, body, current, beenFinished>>

-----------------------------------------------------------------------------
(* validate/listentry.go.                                                  *)

\* Mutant of RatingAllowed: a game being played can be rated too.
RatingAllowedWhilePlaying(category) == category # "want_to_play"

RatingAllowed(category) == category = Finished

ResultingCategory(now, patch) == IF patch # Absent THEN patch ELSE now

-----------------------------------------------------------------------------
(* dbrepo/user_games.go.                                                   *)

\* Mutant of RatingOf: the sentinel is stored instead of NULL.
RatingOfRaw(value) == IF value = Absent THEN Unrated ELSE value

RatingOf(value) == IF value \in {Absent, Clear} THEN Unrated ELSE value

\* Mutant of Updated: a nil rating is written also when the patch has none.
UpdatedAlwaysRating(e, b) ==
    [e EXCEPT !.category = ResultingCategory(@, b.category),
              !.rating = RatingOf(b.rating)]

\* The Set flags decide which columns are written.
Updated(e, b) ==
    [e EXCEPT !.category = ResultingCategory(@, b.category),
              !.rating = IF b.rating = Absent THEN @ ELSE RatingOf(b.rating)]

\* The rows WHERE user_id = ? AND game_id = ? selects.
ScopedToUser(user, game) == {k \in DOMAIN entries : k = <<user, game>>}

Rows(p) == ScopedToUser(key[p][1], key[p][2])

NoteFinished ==
    beenFinished' = beenFinished \cup
        {k \in DOMAIN entries' : entries'[k].category = Finished}

-----------------------------------------------------------------------------
(* POST /me/games.                                                         *)

Post(p, k, b) ==
    /\ b.rating # Absent => RatingAllowed(b.category)
    /\ Begin(p, "insert", k, b)

\* The game could not be imported.
ImportFails(p) ==
    /\ At(p, "insert")
    /\ \E status \in {404, 500, 502, 503} : Finish(p, status)
    /\ UNCHANGED <<entries, nextId, beenFinished>>

\* The unique constraint answers for a game that is listed already (the number
\* the identity column loses then is not counted).
AddUserGame(p) ==
    /\ At(p, "insert")
    /\ IF key[p] \in DOMAIN entries
       THEN /\ Finish(p, 409)
            /\ UNCHANGED <<entries, nextId>>
       ELSE /\ nextId <= MaxRows
            /\ entries' = [k \in DOMAIN entries \cup {key[p]} |->
                              IF k = key[p]
                              THEN [id |-> nextId, category |-> body[p].category,
                                    rating |-> RatingOf(body[p].rating)]
                              ELSE entries[k]]
            /\ nextId' = nextId + 1
            /\ Goto(p, "rereadPost")
            /\ UNCHANGED current
    /\ NoteFinished

\* The response is read back: a row that is gone by then is an error.
RereadPost(p) ==
    /\ At(p, "rereadPost")
    /\ Finish(p, IF Rows(p) # {} THEN 201 ELSE 500)
    /\ UNCHANGED <<entries, nextId, beenFinished>>

-----------------------------------------------------------------------------
(* PATCH /me/games/:gameId.                                                *)

Patch(p, k, b) ==
    /\ b # NoBody
    /\ Begin(p, IF b.rating # Absent THEN "judge" ELSE "update", k, b)

GetUserGameCategory(p) ==
    /\ At(p, "judge")
    /\ IF Rows(p) = {}
       THEN Finish(p, 404)
       ELSE LET now == entries[CHOOSE k \in Rows(p) : TRUE].category IN
            IF /\ RatingAllowed(ResultingCategory(now, body[p].category))
               /\ body[p].rating # Invalid
            THEN /\ current' = [current EXCEPT ![p] = now]
                 /\ Goto(p, "update")
            ELSE Finish(p, 400)
    /\ UNCHANGED <<entries, nextId, beenFinished>>

UpdateUserGame(p) ==
    /\ At(p, "update")
    /\ entries' = [k \in DOMAIN entries |->
                      IF k \in Rows(p) THEN Updated(entries[k], body[p])
                      ELSE entries[k]]
    /\ IF Rows(p) = {} THEN Finish(p, 404)
       ELSE Goto(p, "rereadPatch") /\ UNCHANGED current
    /\ NoteFinished
    /\ UNCHANGED nextId

\* Deleted since: answered as if it had not been there.
RereadPatch(p) ==
    /\ At(p, "rereadPatch")
    /\ Finish(p, IF Rows(p) # {} THEN 200 ELSE 404)
    /\ UNCHANGED <<entries, nextId, beenFinished>>

-----------------------------------------------------------------------------
Delete(p, k) == Begin(p, "delete", k, NoBody)

DeleteUserGame(p) ==
    /\ At(p, "delete")
    /\ entries' = [k \in DOMAIN entries \ Rows(p) |-> entries[k]]
    /\ Finish(p, IF Rows(p) = {} THEN 404 ELSE 204)
    /\ UNCHANGED <<nextId, beenFinished>>

\* Any statement may fail; GET /me/games changes nothing.
StatementFails(p) ==
    /\ pc[p] # "idle"
    /\ Finish(p, 500)
    /\ UNCHANGED <<entries, nextId, beenFinished>>

Init ==
    /\ entries = [k \in {} |-> NoBody]
    /\ nextId = 1
    /\ pc = [p \in Proc |-> "idle"]
    /\ key = [p \in Proc |-> NoKey]
    /\ body = [p \in Proc |-> NoBody]
    /\ current = [p \in Proc |-> Absent]
    /\ reply = [p \in Proc |-> 0]
    /\ beenFinished = {}

Request(p) ==
    \/ Refuse(p)
    \/ \E k \in Key, b \in PostBody : Post(p, k, b)
    \/ \E k \in Key, b \in PatchBody : Patch(p, k, b)
    \/ \E k \in Key : Delete(p, k)

Statement(p) ==
    \/ ImportFails(p) \/ AddUserGame(p) \/ RereadPost(p)
    \/ GetUserGameCategory(p) \/ UpdateUserGame(p) \/ RereadPatch(p)
    \/ DeleteUserGame(p) \/ StatementFails(p)

Next == \E p \in Proc : Request(p) \/ Statement(p)

Spec == Init /\ [][Next]_vars

-----------------------------------------------------------------------------
(* Properties.                                                             *)

Phase == {"idle", "insert", "rereadPost", "judge", "update", "rereadPatch", "delete"}

\* The types; and ids are handed out once, so an id tells a row from the one
\* that took its place.
TypeOK ==
    /\ DOMAIN entries \subseteq Key
    /\ entries \in [DOMAIN entries -> Entry]
    /\ nextId \in 1 .. MaxRows + 1
    /\ \A k, l \in DOMAIN entries :
          entries[k].id < nextId /\ (entries[k].id = entries[l].id => k = l)
    /\ pc \in [Proc -> Phase]
    /\ key \in [Proc -> Key \cup {NoKey}]
    /\ body \in [Proc -> PatchBody]
    /\ current \in [Proc -> Category \cup {Absent}]
    /\ reply \in [Proc -> {0, 200, 201, 204, 400, 404, 409, 500, 502, 503}]
    /\ beenFinished \subseteq Key

\* A rating is earned: whoever has rated a game has finished it at some time,
\* also when the judged row has been moved, deleted or replaced since.
RatedWasFinished ==
    \A k \in DOMAIN entries : entries[k].rating # Unrated => k \in beenFinished

\* A rating is never lost by the way: as long as its row is there it changes
\* only by a request that named it.  Moving a game keeps it.
RatingKept ==
    [][\A k \in DOMAIN entries \cap DOMAIN entries' :
          entries'[k].id = entries[k].id /\ entries'[k].rating # entries[k].rating =>
              \E p \in Proc : /\ pc[p] = "update" /\ pc'[p] # "update"
                              /\ key[p] = k /\ body[p].rating # Absent]_vars
=============================================================================
