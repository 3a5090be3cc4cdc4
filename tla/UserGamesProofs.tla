--------------------------- MODULE UserGamesProofs --------------------------
(***************************************************************************)
(* For any number of users, games and requests: a rating is earned, kept   *)
(* and its owner's.                                                        *)
(*                                                                         *)
(* RatedWasFinished is not inductive: a PATCH writes the rating it judged  *)
(* some statements ago.  EarnedInv says why it may: either it moves the    *)
(* entry to finished itself, or the entry it judged was finished, and      *)
(* FinishedNoted says that is not forgotten.                               *)
(***************************************************************************)
EXTENDS UserGames, TLAPS

FinishedNoted ==
    \A k \in DOMAIN entries : entries[k].category = Finished => k \in beenFinished

KeyInv == \A p \in Proc : pc[p] # "idle" => key[p] \in Key

PostInv ==
    \A p \in Proc :
        pc[p] = "insert" =>
            /\ body[p] \in PostBody
            /\ body[p].rating # Absent => body[p].category = Finished

EarnedInv ==
    \A p \in Proc :
        pc[p] = "update" /\ body[p].rating # Absent =>
            /\ body[p].rating # Invalid
            /\ \/ body[p].category = Finished
               \/ body[p].category = Absent /\ key[p] \in beenFinished

IInv ==
    /\ TypeOK /\ FinishedNoted /\ KeyInv /\ PostInv /\ EarnedInv
    /\ RatedWasFinished

-----------------------------------------------------------------------------
\* A request's rows are those of its pair.
LEMMA RowsAreKey ==
    ASSUME NEW p \in Proc, key[p] \in Key
    PROVE  Rows(p) = {k \in DOMAIN entries : k = key[p]}
<1>1. key[p] = <<key[p][1], key[p][2]>>
  BY DEF Key
<1>2. QED
  BY <1>1, Zenon DEF Rows, ScopedToUser

LEMMA PostIsPatch == PostBody \subseteq PatchBody
BY DEF PostBody, PatchBody

LEMMA NoBodyType == NoBody \in PatchBody
BY DEF NoBody, PatchBody

\* The types of what requests hold.
RequestType ==
    /\ pc \in [Proc -> Phase]
    /\ key \in [Proc -> Key \cup {NoKey}]
    /\ body \in [Proc -> PatchBody]
    /\ current \in [Proc -> Category \cup {Absent}]
    /\ reply \in [Proc -> {0, 200, 201, 204, 400, 404, 409, 500, 502, 503}]

\* The types of the table.
TableType ==
    /\ DOMAIN entries \subseteq Key
    /\ entries \in [DOMAIN entries -> Entry]
    /\ nextId \in 1 .. MaxRows + 1
    /\ \A k, l \in DOMAIN entries :
          entries[k].id < nextId /\ (entries[k].id = entries[l].id => k = l)
    /\ beenFinished \subseteq Key

LEMMA TypeSplit == TypeOK <=> RequestType /\ TableType
BY DEF TypeOK, RequestType, TableType

LEMMA BeginType ==
    ASSUME RequestType, NEW p \in Proc, NEW phase \in Phase, NEW k \in Key,
           NEW b \in PatchBody, Begin(p, phase, k, b)
    PROVE  RequestType'
BY DEF RequestType, Begin

LEMMA FinishType ==
    ASSUME RequestType, NEW p \in Proc,
           NEW status \in {0, 200, 201, 204, 400, 404, 409, 500, 502, 503},
           Finish(p, status)
    PROVE  RequestType'
BY NoBodyType DEF RequestType, Finish, Phase

LEMMA RequestTypeStep ==
    ASSUME TypeOK, NEW p \in Proc, Request(p) \/ Statement(p)
    PROVE  RequestType'
<1>0. RequestType /\ TableType
  BY TypeSplit
<1>1. CASE Request(p)
  <2>1. CASE Refuse(p)
    BY <1>0, <2>1 DEF Refuse, RequestType
  <2>2. ASSUME NEW k \in Key, NEW b \in PostBody, Post(p, k, b) PROVE RequestType'
    BY <1>0, <2>2, PostIsPatch, BeginType DEF Post, Phase
  <2>3. ASSUME NEW k \in Key, NEW b \in PatchBody, Patch(p, k, b) PROVE RequestType'
    BY <1>0, <2>3, BeginType DEF Patch, Phase
  <2>4. ASSUME NEW k \in Key, Delete(p, k) PROVE RequestType'
    BY <1>0, <2>4, BeginType, NoBodyType DEF Delete, Phase
  <2>5. QED
    BY <1>1, <2>1, <2>2, <2>3, <2>4 DEF Request
<1>2. CASE ImportFails(p) \/ RereadPost(p) \/ RereadPatch(p) \/ DeleteUserGame(p) \/ StatementFails(p)
  BY <1>0, <1>2, FinishType
  DEF ImportFails, RereadPost, RereadPatch, DeleteUserGame, StatementFails
<1>3. CASE AddUserGame(p)
  BY <1>0, <1>3, FinishType DEF AddUserGame, Goto, RequestType, Phase
<1>4. CASE UpdateUserGame(p)
  BY <1>0, <1>4, FinishType DEF UpdateUserGame, Goto, RequestType, Phase
<1>5. CASE GetUserGameCategory(p)
  <2> DEFINE found == CHOOSE k \in Rows(p) : TRUE
  <2>1. \/ \E status \in {400, 404} : Finish(p, status)
        \/ /\ Rows(p) # {}
           /\ current' = [current EXCEPT ![p] = entries[found].category]
           /\ Goto(p, "update")
    BY <1>5 DEF GetUserGameCategory
  <2>2. ASSUME Rows(p) # {} PROVE entries[found].category \in Category
    <3>1. found \in Rows(p)
      BY <2>2
    <3>2. found \in DOMAIN entries
      BY <3>1 DEF Rows, ScopedToUser
    <3>3. QED
      BY <1>0, <3>2 DEF TableType, Entry
  <2> HIDE DEF found
  <2>3. QED
    BY <1>0, <2>1, <2>2, FinishType DEF Goto, RequestType, Phase
<1>6. QED
  BY <1>1, <1>2, <1>3, <1>4, <1>5 DEF Statement

-----------------------------------------------------------------------------
\* What an update makes of a row.
LEMMA UpdatedRow ==
    ASSUME NEW e \in Entry, NEW b \in PatchBody, b.rating # Invalid
    PROVE  /\ Updated(e, b) \in Entry
           /\ Updated(e, b).id = e.id
           /\ Updated(e, b).category = ResultingCategory(e.category, b.category)
           /\ b.rating = Absent => Updated(e, b).rating = e.rating
<1> DEFINE c == ResultingCategory(e.category, b.category)
           e1 == [e EXCEPT !.category = c]
           r == IF b.rating = Absent THEN e1.rating ELSE RatingOf(b.rating)
<1>1. Updated(e, b) = [e1 EXCEPT !.rating = r]
  BY Zenon DEF Updated
<1>2. c \in Category
  BY DEF ResultingCategory, Entry, PatchBody
<1> HIDE DEF c
<1>3. e1 \in Entry /\ e1.id = e.id /\ e1.category = c /\ e1.rating = e.rating
  BY <1>2 DEF Entry
<1> HIDE DEF e1
<1>4. r \in Score \cup {Unrated}
  BY <1>3 DEF RatingOf, Entry, PatchBody
<1>5. b.rating = Absent => r = e.rating
  BY <1>3
<1> HIDE DEF r
<1>6. QED
  BY <1>1, <1>3, <1>4, <1>5 DEF Entry, c

\* The three statements that write the table, as far as the properties care.
LEMMA Inserted ==
    ASSUME IInv, NEW p \in Proc, AddUserGame(p), key[p] \notin DOMAIN entries
    PROVE  LET row == entries'[key[p]] IN
           /\ key[p] \in Key
           /\ nextId \in 1 .. MaxRows /\ nextId' = nextId + 1
           /\ DOMAIN entries' = DOMAIN entries \cup {key[p]}
           /\ \A k \in DOMAIN entries : entries'[k] = entries[k]
           /\ row \in Entry /\ row.id = nextId
           /\ row.rating # Unrated => row.category = Finished
           /\ Goto(p, "rereadPost")
<1>1. /\ pc[p] = "insert"
      /\ nextId <= MaxRows /\ nextId' = nextId + 1
      /\ entries' = [k \in DOMAIN entries \cup {key[p]} |->
                        IF k = key[p]
                        THEN [id |-> nextId, category |-> body[p].category,
                              rating |-> RatingOf(body[p].rating)]
                        ELSE entries[k]]
      /\ Goto(p, "rereadPost")
  BY DEF AddUserGame, At
<1> DEFINE row == [id |-> nextId, category |-> body[p].category,
                   rating |-> RatingOf(body[p].rating)]
<1>2. key[p] \in Key /\ body[p] \in PostBody
      /\ (body[p].rating # Absent => body[p].category = Finished)
  BY <1>1 DEF IInv, KeyInv, PostInv
<1>3. nextId \in 1 .. MaxRows
  BY <1>1, UserGamesAssumption DEF IInv, TypeOK
<1>4. RatingOf(body[p].rating) \in Score \cup {Unrated}
      /\ (RatingOf(body[p].rating) # Unrated => body[p].rating # Absent)
  BY <1>2 DEF PostBody, RatingOf
<1>5. row \in Entry /\ row.id = nextId /\ (row.rating # Unrated => row.category = Finished)
  BY <1>2, <1>3, <1>4 DEF PostBody, Entry
<1> HIDE DEF row
<1>6. entries'[key[p]] = row
  BY <1>1 DEF row
<1>7. DOMAIN entries' = DOMAIN entries \cup {key[p]} /\ \A k \in DOMAIN entries : entries'[k] = entries[k]
  BY <1>1
<1>8. QED
  BY <1>1, <1>2, <1>3, <1>5, <1>6, <1>7

LEMMA UpdatedTable ==
    ASSUME IInv, NEW p \in Proc, UpdateUserGame(p)
    PROVE  /\ key[p] \in Key /\ pc[p] = "update"
           /\ DOMAIN entries' = DOMAIN entries
           /\ \A k \in DOMAIN entries :
                 IF k = key[p] THEN entries'[k] = Updated(entries[k], body[p])
                 ELSE entries'[k] = entries[k]
           /\ \A k \in DOMAIN entries :
                 /\ entries'[k] \in Entry
                 /\ entries'[k].id = entries[k].id
                 /\ entries'[k].rating # entries[k].rating =>
                       k = key[p] /\ body[p].rating # Absent
<1>1. pc[p] = "update" /\ key[p] \in Key
  BY DEF UpdateUserGame, At, IInv, KeyInv
<1>2. entries' = [k \in DOMAIN entries |->
                     IF k \in Rows(p) THEN Updated(entries[k], body[p]) ELSE entries[k]]
  BY DEF UpdateUserGame
<1>3. Rows(p) = {k \in DOMAIN entries : k = key[p]}
  BY <1>1, RowsAreKey
<1>4. DOMAIN entries' = DOMAIN entries
      /\ \A k \in DOMAIN entries :
            IF k = key[p] THEN entries'[k] = Updated(entries[k], body[p])
            ELSE entries'[k] = entries[k]
  BY <1>2, <1>3
<1>5. body[p] \in PatchBody /\ body[p].rating # Invalid
  <2>1. body[p] \in PatchBody
    BY DEF IInv, TypeOK
  <2>2. body[p].rating # Absent => body[p].rating # Invalid
    BY <1>1 DEF IInv, EarnedInv
  <2>3. Absent # Invalid
    BY DEF Absent, Invalid
  <2>4. QED
    BY <2>1, <2>2, <2>3
<1>6. \A k \in DOMAIN entries : entries[k] \in Entry
  BY DEF IInv, TypeOK
<1>7. QED
  BY <1>1, <1>4, <1>5, <1>6, UpdatedRow

LEMMA DeletedTable ==
    ASSUME IInv, NEW p \in Proc, DeleteUserGame(p)
    PROVE  /\ DOMAIN entries' = DOMAIN entries \ {key[p]}
           /\ \A k \in DOMAIN entries' : entries'[k] = entries[k]
<1>1. key[p] \in Key
  BY DEF DeleteUserGame, At, IInv, KeyInv
<1>2. Rows(p) = {k \in DOMAIN entries : k = key[p]}
  BY <1>1, RowsAreKey
<1>3. QED
  BY <1>2 DEF DeleteUserGame

\* Every other step leaves the table alone.
LEMMA TableWrites ==
    ASSUME NEW p \in Proc, Request(p) \/ Statement(p)
    PROVE  \/ AddUserGame(p) /\ key[p] \notin DOMAIN entries
           \/ UpdateUserGame(p) \/ DeleteUserGame(p)
           \/ UNCHANGED <<entries, nextId>> /\ (UNCHANGED beenFinished \/ NoteFinished)
BY DEF Request, Statement, Refuse, Post, Patch, Delete, Begin, ImportFails, AddUserGame,
       RereadPost, GetUserGameCategory, RereadPatch, StatementFails

LEMMA TableStep ==
    ASSUME IInv, NEW p \in Proc, Request(p) \/ Statement(p)
    PROVE  TableType' /\ FinishedNoted' /\ RatedWasFinished' /\ beenFinished \subseteq beenFinished'
<1> DEFINE Noted == /\ beenFinished \subseteq beenFinished'
                    /\ beenFinished' \subseteq Key
                    /\ FinishedNoted'
<1>0. TableType /\ FinishedNoted /\ RatedWasFinished
  BY TypeSplit DEF IInv
<1>1. ASSUME NoteFinished, DOMAIN entries' \subseteq Key PROVE Noted
  BY <1>0, <1>1 DEF NoteFinished, TableType, FinishedNoted
<1>2. CASE AddUserGame(p) /\ key[p] \notin DOMAIN entries
  <2>1. /\ key[p] \in Key
        /\ nextId \in 1 .. MaxRows /\ nextId' = nextId + 1
        /\ DOMAIN entries' = DOMAIN entries \cup {key[p]}
        /\ \A k \in DOMAIN entries : entries'[k] = entries[k]
        /\ entries'[key[p]] \in Entry /\ entries'[key[p]].id = nextId
        /\ entries'[key[p]].rating # Unrated => entries'[key[p]].category = Finished
    BY <1>2, Inserted
  <2>2. Noted
    BY <1>0, <1>1, <1>2, <2>1 DEF AddUserGame, TableType
  <2>3. nextId' \in 1 .. MaxRows + 1
    BY <2>1, UserGamesAssumption
  <2>4. \A k \in DOMAIN entries' : entries'[k] \in Entry /\ entries'[k].id < nextId'
    BY <1>0, <2>1, UserGamesAssumption DEF TableType, Entry
  <2>5. \A k, l \in DOMAIN entries' : entries'[k].id = entries'[l].id => k = l
    <3>1. \A k \in DOMAIN entries : entries'[k].id # nextId
      BY <1>0, <2>1, UserGamesAssumption DEF TableType, Entry
    <3>2. QED
      BY <1>0, <2>1, <3>1 DEF TableType
  <2>6. entries' = [k \in DOMAIN entries' |-> entries'[k]]
    BY <1>2 DEF AddUserGame
  <2>7. TableType'
    BY <1>0, <2>1, <2>2, <2>3, <2>4, <2>5, <2>6 DEF TableType
  <2>8. RatedWasFinished'
    BY <1>0, <2>1, <2>2 DEF RatedWasFinished, FinishedNoted
  <2>9. QED
    BY <2>2, <2>7, <2>8
<1>3. CASE UpdateUserGame(p)
  <2>1. /\ key[p] \in Key /\ pc[p] = "update"
        /\ DOMAIN entries' = DOMAIN entries
        /\ \A k \in DOMAIN entries :
              IF k = key[p] THEN entries'[k] = Updated(entries[k], body[p])
              ELSE entries'[k] = entries[k]
        /\ \A k \in DOMAIN entries :
              /\ entries'[k] \in Entry
              /\ entries'[k].id = entries[k].id
              /\ entries'[k].rating # entries[k].rating =>
                    k = key[p] /\ body[p].rating # Absent
    BY <1>3, UpdatedTable
  <2>2. Noted
    BY <1>0, <1>1, <1>3, <2>1 DEF UpdateUserGame, TableType
  <2>3. entries' = [k \in DOMAIN entries' |-> entries'[k]] /\ nextId' = nextId
    BY <1>3 DEF UpdateUserGame
  <2>4. TableType'
    BY <1>0, <2>1, <2>2, <2>3 DEF TableType
  <2>5. ASSUME NEW k \in DOMAIN entries', entries'[k].rating # Unrated
        PROVE  k \in beenFinished'
    <3>1. CASE entries'[k].rating = entries[k].rating
      BY <1>0, <2>1, <2>2, <2>5, <3>1 DEF RatedWasFinished
    <3>2. CASE entries'[k].rating # entries[k].rating
      <4>1. k = key[p] /\ body[p].rating # Absent
        BY <2>1, <2>5, <3>2
      <4>2. /\ body[p].rating # Invalid
            /\ \/ body[p].category = Finished
               \/ body[p].category = Absent /\ key[p] \in beenFinished
        BY <2>1, <4>1 DEF IInv, EarnedInv
      <4>3. CASE body[p].category = Finished
        <5>1. entries[k] \in Entry /\ body[p] \in PatchBody
          BY <1>0, <2>1, <2>5 DEF TableType, IInv, TypeOK
        <5>2. entries'[k].category = Finished
          BY <2>1, <2>5, <4>1, <4>2, <4>3, <5>1, UpdatedRow
          DEF ResultingCategory, Finished, Absent
        <5>3. QED
          BY <2>2, <2>5, <5>2 DEF FinishedNoted
      <4>4. QED
        BY <2>2, <4>1, <4>2, <4>3
    <3>3. QED
      BY <3>1, <3>2
  <2>6. QED
    BY <2>2, <2>4, <2>5 DEF RatedWasFinished
<1>4. CASE DeleteUserGame(p)
  <2>1. /\ DOMAIN entries' = DOMAIN entries \ {key[p]}
        /\ \A k \in DOMAIN entries' : entries'[k] = entries[k]
    BY <1>4, DeletedTable
  <2>2. UNCHANGED <<nextId, beenFinished>> /\ entries' = [k \in DOMAIN entries' |-> entries'[k]]
    BY <1>4 DEF DeleteUserGame
  <2>3. QED
    BY <1>0, <2>1, <2>2 DEF TableType, FinishedNoted, RatedWasFinished
<1>5. CASE UNCHANGED <<entries, nextId>> /\ (UNCHANGED beenFinished \/ NoteFinished)
  BY <1>0, <1>5 DEF TableType, FinishedNoted, RatedWasFinished, NoteFinished
<1>6. QED
  BY <1>2, <1>3, <1>4, <1>5, TableWrites

-----------------------------------------------------------------------------
\* What KeyInv, PostInv and EarnedInv say of one request.
Sound(q) ==
    /\ pc[q] # "idle" => key[q] \in Key
    /\ pc[q] = "insert" =>
          /\ body[q] \in PostBody
          /\ body[q].rating # Absent => body[q].category = Finished
    /\ pc[q] = "update" /\ body[q].rating # Absent =>
          /\ body[q].rating # Invalid
          /\ \/ body[q].category = Finished
             \/ body[q].category = Absent /\ key[q] \in beenFinished

LEMMA SoundSplit == (KeyInv /\ PostInv /\ EarnedInv) <=> \A q \in Proc : Sound(q)
BY DEF KeyInv, PostInv, EarnedInv, Sound

\* A request's step leaves the other requests alone.
LEMMA OthersStay ==
    ASSUME RequestType, NEW p \in Proc, Request(p) \/ Statement(p),
           NEW q \in Proc, q # p
    PROVE  pc'[q] = pc[q] /\ key'[q] = key[q] /\ body'[q] = body[q]
<1> USE DEF RequestType
<1>1. ASSUME NEW phase, NEW k, NEW b, Begin(p, phase, k, b)
      PROVE  pc'[q] = pc[q] /\ key'[q] = key[q] /\ body'[q] = body[q]
  BY <1>1 DEF Begin
<1>2. ASSUME NEW status, Finish(p, status)
      PROVE  pc'[q] = pc[q] /\ key'[q] = key[q] /\ body'[q] = body[q]
  BY <1>2 DEF Finish
<1>3. ASSUME NEW phase, Goto(p, phase)
      PROVE  pc'[q] = pc[q] /\ key'[q] = key[q] /\ body'[q] = body[q]
  BY <1>3 DEF Goto
<1>4. CASE Request(p)
  BY <1>1, <1>4 DEF Request, Refuse, Post, Patch, Delete
<1>5. CASE Statement(p)
  BY <1>2, <1>3, <1>5
  DEF Statement, ImportFails, AddUserGame, RereadPost, GetUserGameCategory,
      UpdateUserGame, RereadPatch, DeleteUserGame, StatementFails
<1>6. QED
  BY <1>4, <1>5

\* A PATCH goes on to its update only if it moves the entry to finished, or the
\* entry it read is there and finished and stays where it is.
LEMMA JudgedIsSound ==
    ASSUME IInv, NEW p \in Proc, GetUserGameCategory(p)
    PROVE  Sound(p)'
<1>0. RequestType /\ pc[p] = "judge" /\ key[p] \in Key /\ UNCHANGED beenFinished
  BY TypeSplit DEF GetUserGameCategory, At, IInv, KeyInv
<1>1. ASSUME NEW status, Finish(p, status) PROVE Sound(p)'
  BY <1>0, <1>1 DEF Finish, Sound, RequestType
<1>2. CASE Rows(p) # {}
  <2> DEFINE now == entries[CHOOSE k \in Rows(p) : TRUE].category
  <2>1. \/ \E status \in {400, 404} : Finish(p, status)
        \/ /\ RatingAllowed(ResultingCategory(now, body[p].category))
           /\ body[p].rating # Invalid
           /\ Goto(p, "update")
    BY <1>2 DEF GetUserGameCategory
  <2>2. key[p] \in DOMAIN entries /\ now = entries[key[p]].category
    BY <1>0, <1>2, RowsAreKey
  <2> HIDE DEF now
  <2>3. now = Finished => key[p] \in beenFinished
    BY <2>2 DEF IInv, FinishedNoted
  <2>4. CASE /\ RatingAllowed(ResultingCategory(now, body[p].category))
             /\ body[p].rating # Invalid
             /\ Goto(p, "update")
    <3>1. pc'[p] = "update" /\ key'[p] = key[p] /\ body'[p] = body[p]
      BY <1>0, <2>4 DEF Goto, RequestType
    <3>2. \/ body[p].category = Finished
          \/ body[p].category = Absent /\ now = Finished
      BY <2>4 DEF RatingAllowed, ResultingCategory
    <3>3. QED
      BY <1>0, <2>3, <2>4, <3>1, <3>2 DEF Sound
  <2>5. QED
    BY <1>1, <2>1, <2>4
<1>3. CASE Rows(p) = {}
  BY <1>1, <1>3 DEF GetUserGameCategory
<1>4. QED
  BY <1>2, <1>3

LEMMA SoundStep ==
    ASSUME IInv, NEW p \in Proc, Request(p) \/ Statement(p),
           beenFinished \subseteq beenFinished'
    PROVE  \A q \in Proc : Sound(q)'
<1>0. RequestType /\ \A q \in Proc : Sound(q)
  BY TypeSplit, SoundSplit DEF IInv
<1>1. ASSUME NEW q \in Proc, pc'[q] = pc[q], key'[q] = key[q], body'[q] = body[q]
      PROVE  Sound(q)'
  BY <1>0, <1>1 DEF Sound
<1>2. Sound(p)'
  <2>1. ASSUME NEW status, Finish(p, status) PROVE Sound(p)'
    BY <1>0, <2>1 DEF Finish, Sound, RequestType
  <2>2. ASSUME NEW phase \in {"rereadPost", "rereadPatch"}, Goto(p, phase), pc[p] # "idle"
        PROVE  Sound(p)'
    BY <1>0, <2>2 DEF Goto, Sound, RequestType
  <2>3. CASE Refuse(p)
    BY <1>1, <2>3 DEF Refuse
  <2>4. ASSUME NEW k \in Key, NEW b \in PostBody, Post(p, k, b) PROVE Sound(p)'
    BY <1>0, <2>4 DEF Post, Begin, Sound, RequestType, RatingAllowed
  <2>5. ASSUME NEW k \in Key, NEW b \in PatchBody, Patch(p, k, b) PROVE Sound(p)'
    BY <1>0, <2>5 DEF Patch, Begin, Sound, RequestType
  <2>6. ASSUME NEW k \in Key, Delete(p, k) PROVE Sound(p)'
    BY <1>0, <2>6 DEF Delete, Begin, Sound, RequestType
  <2>7. CASE ImportFails(p) \/ RereadPost(p) \/ RereadPatch(p) \/ DeleteUserGame(p) \/ StatementFails(p)
    BY <2>1, <2>7 DEF ImportFails, RereadPost, RereadPatch, DeleteUserGame, StatementFails
  <2>8. CASE AddUserGame(p)
    BY <2>1, <2>2, <2>8 DEF AddUserGame, At
  <2>9. CASE UpdateUserGame(p)
    BY <2>1, <2>2, <2>9 DEF UpdateUserGame, At
  <2>10. CASE GetUserGameCategory(p)
    BY <2>10, JudgedIsSound
  <2>11. QED
    BY <2>3, <2>4, <2>5, <2>6, <2>7, <2>8, <2>9, <2>10 DEF Request, Statement
<1>3. ASSUME NEW q \in Proc, q # p PROVE Sound(q)'
  BY <1>0, <1>1, <1>3, OthersStay
<1>4. QED
  BY <1>2, <1>3

-----------------------------------------------------------------------------
\* IInv is inductive.
LEMMA InvInit == Init => IInv
<1>1. Init => TypeOK
  BY UserGamesAssumption, NoBodyType DEF Init, TypeOK, Phase
<1>2. Init => FinishedNoted /\ KeyInv /\ PostInv /\ EarnedInv /\ RatedWasFinished
  BY DEF Init, FinishedNoted, KeyInv, PostInv, EarnedInv, RatedWasFinished
<1>3. QED
  BY <1>1, <1>2 DEF IInv

LEMMA InvStep == IInv /\ [Next]_vars => IInv'
<1> SUFFICES ASSUME IInv, [Next]_vars PROVE IInv'
  OBVIOUS
<1>1. ASSUME NEW p \in Proc, Request(p) \/ Statement(p) PROVE IInv'
  <2>1. TableType' /\ FinishedNoted' /\ RatedWasFinished' /\ beenFinished \subseteq beenFinished'
    BY <1>1, TableStep
  <2>2. TypeOK'
    <3>1. RequestType'
      BY <1>1, RequestTypeStep DEF IInv
    <3>2. QED
      BY <2>1, <3>1 DEF TypeOK, RequestType, TableType
  <2>3. \A q \in Proc : Sound(q)'
    BY <1>1, <2>1, SoundStep
  <2>4. KeyInv' /\ PostInv' /\ EarnedInv'
    BY <2>3 DEF Sound, KeyInv, PostInv, EarnedInv
  <2>5. QED
    BY <2>1, <2>2, <2>4 DEF IInv
<1>2. CASE UNCHANGED vars
  BY <1>2
  DEF vars, IInv, TypeOK, FinishedNoted, KeyInv, PostInv, EarnedInv, RatedWasFinished
<1>3. QED
  BY <1>1, <1>2 DEF Next

LEMMA InvHolds == Spec => []IInv
BY InvInit, InvStep, PTL DEF Spec

-----------------------------------------------------------------------------
\* The types; and an id is handed out once, so that a row is never taken for the
\* one it replaced (AddUserGame).
THEOREM TypeCorrect == Spec => []TypeOK
<1>1. IInv => TypeOK
  BY DEF IInv
<1>2. QED
  BY <1>1, InvHolds, PTL

\* A rating is earned: whoever has rated a game had it listed as finished at some
\* time, however many requests moved, deleted and listed it again between the
\* judgement and the update (GetUserGameCategory, UpdateUserGame).
THEOREM RatingIsEarned == Spec => []RatedWasFinished
<1>1. IInv => RatedWasFinished
  BY DEF IInv
<1>2. QED
  BY <1>1, InvHolds, PTL

\* What a step may do to the row of a pair.
LEMMA RowStep ==
    ASSUME IInv, NEW p \in Proc, Request(p) \/ Statement(p), NEW k \in Key
    PROVE  \/ /\ (k \in DOMAIN entries) <=> (k \in DOMAIN entries')
              /\ k \in DOMAIN entries => entries'[k] = entries[k]
           \/ /\ key[p] = k
              /\ \/ pc[p] = "insert" /\ pc'[p] = "rereadPost" /\ k \notin DOMAIN entries
                 \/ pc[p] = "delete" /\ pc'[p] = "idle" /\ k \notin DOMAIN entries'
                 \/ /\ pc[p] = "update" /\ pc'[p] # "update"
                    /\ k \in DOMAIN entries /\ entries'[k].rating # entries[k].rating =>
                          body[p].rating # Absent
<1>0. pc \in [Proc -> Phase]
  BY DEF IInv, TypeOK
<1>1. CASE AddUserGame(p) /\ key[p] \notin DOMAIN entries
  <2>1. /\ DOMAIN entries' = DOMAIN entries \cup {key[p]}
        /\ \A l \in DOMAIN entries : entries'[l] = entries[l]
        /\ Goto(p, "rereadPost")
    BY <1>1, Inserted
  <2>2. pc[p] = "insert" /\ pc'[p] = "rereadPost"
    BY <1>0, <1>1, <2>1 DEF AddUserGame, At, Goto
  <2>3. QED
    BY <1>1, <2>1, <2>2
<1>2. CASE UpdateUserGame(p)
  <2>1. pc[p] = "update" /\ pc'[p] # "update"
    BY <1>0, <1>2 DEF UpdateUserGame, At, Finish, Goto
  <2>2. QED
    BY <1>2, <2>1, UpdatedTable
<1>3. CASE DeleteUserGame(p)
  <2>1. pc[p] = "delete" /\ pc'[p] = "idle"
    BY <1>0, <1>3 DEF DeleteUserGame, At, Finish
  <2>2. QED
    BY <1>3, <2>1, DeletedTable
<1>4. CASE UNCHANGED entries
  BY <1>4
<1>5. QED
  BY <1>1, <1>2, <1>3, <1>4, TableWrites

\* As long as its row is there a rating changes only by a request that named it:
\* moving a game keeps it (UpdateUserGame).
THEOREM RatingIsKept == Spec => RatingKept
<1> DEFINE Kept ==
        \A k \in DOMAIN entries \cap DOMAIN entries' :
            entries'[k].id = entries[k].id /\ entries'[k].rating # entries[k].rating =>
                \E p \in Proc : /\ pc[p] = "update" /\ pc'[p] # "update"
                                /\ key[p] = k /\ body[p].rating # Absent
<1>1. IInv /\ [Next]_vars => [Kept]_vars
  <2>1. ASSUME IInv, NEW p \in Proc, Request(p) \/ Statement(p) PROVE Kept
    <3>1. DOMAIN entries \subseteq Key
      BY <2>1 DEF IInv, TypeOK
    <3>2. QED
      BY <2>1, <3>1, RowStep
  <2>2. QED
    BY <2>1 DEF Next
<1>2. QED
  BY <1>1, InvHolds, PTL DEF Spec, RatingKept
=============================================================================
