-------------------------- MODULE GameListsProofs --------------------------
(***************************************************************************)
(* For any number of users, games, requests and commits: entries are of    *)
(* games their users posted, and a list is what the catalog said of them   *)
(* while it was read.                                                      *)
(***************************************************************************)
EXTENDS GameLists, TLAPS

Row == [id : Id, version : Version]

UniqueInv == \A g, h \in Stored : games[g].id = games[h].id => g = h

\* Whatever was stored then is still, under its id.
Before(state) ==
    \A g \in Game : state.games[g] # NoRow =>
        games[g] # NoRow /\ games[g].id = state.games[g].id

\* What a reader has seen of the catalog, and whose entries it found.
ReadInv(p) ==
    Reading(p) =>
        /\ Now \in had[p]
        /\ \A state \in had[p] : Before(state)
        /\ \A i \in found[p] : Refers(user[p], i)

\* The columns of i in this state of the catalog.
ColumnsFrom(state, p, i) ==
    \E g \in Game : /\ IsRowOf(state.games, i, g) /\ <<user[p], g>> \in posted
                    /\ shown[p][i] = state.games[g].version

ShownInv(p) ==
    /\ pc[p] \in {"links", "tags"} =>
          /\ DOMAIN shown[p] = found[p]
          /\ \E one \in had[p] : \A i \in found[p] : ColumnsFrom(one, p, i)
    /\ pc[p] = "tags" =>
          /\ DOMAIN linked[p] = found[p]
          /\ \E two \in had[p] : \A i \in found[p], g \in Game :
                IsRowOf(games, i, g) => linked[p][i] = two.links[g]

Shape == /\ DOMAIN had = Proc /\ DOMAIN shown = Proc /\ DOMAIN list = Proc
         /\ DOMAIN linked = Proc

IInv ==
    /\ TypeOK /\ Shape
    /\ UniqueInv /\ EntriesAreAsked
    /\ \A p \in Proc : ReadInv(p) /\ ShownInv(p)

-----------------------------------------------------------------------------
\* An id leads to one game.
LEMMA OneGame ==
    ASSUME UniqueInv, NEW i, NEW g \in Game, IsRowOf(games, i, g)
    PROVE  {h \in Stored : games[h].id = i} = {g}
BY DEF UniqueInv, IsRowOf, Stored

\* The catalog is not touched and nothing that was posted is forgotten, so what
\* is asked for remains so.
LEMMA StillRefers ==
    ASSUME UNCHANGED games, posted \subseteq posted', NEW u, NEW i, Refers(u, i)
    PROVE  Refers(u, i)'
BY DEF Refers, IsRowOf

\* A request whose phase, entries and columns stay as they are reads on.
LEMMA QuietReader ==
    ASSUME UNCHANGED catalog, posted \subseteq posted', NEW p, ReadInv(p), ShownInv(p),
           pc'[p] = pc[p], user'[p] = user[p], found'[p] = found[p],
           shown'[p] = shown[p], linked'[p] = linked[p], had'[p] = had[p]
    PROVE  ReadInv(p)' /\ ShownInv(p)'
<1>1. ReadInv(p)'
  <2> SUFFICES ASSUME Reading(p)
               PROVE  /\ Now' \in had[p]
                      /\ \A state \in had[p] : Before(state)'
                      /\ \A i \in found[p] : Refers(user[p], i)'
      BY DEF ReadInv, Refers, Reading
  <2>1. Now' = Now
        BY DEF Now, catalog
  <2>2. \A state \in had[p] : Before(state)'
        BY DEF ReadInv, Before, catalog
  <2> QED
        BY <2>1, <2>2, StillRefers DEF ReadInv, catalog
<1>2. ShownInv(p)'
      BY DEF ShownInv, ColumnsFrom, IsRowOf, catalog
<1> QED
      BY <1>1, <1>2

\* A request that is not reading has nothing to keep.
LEMMA NotReading ==
    ASSUME NEW p, pc'[p] \notin {"games", "links", "tags"}
    PROVE  ReadInv(p)' /\ ShownInv(p)'
BY DEF ReadInv, ShownInv, Reading

LEMMA Finishing ==
    ASSUME TypeOK, Shape, NEW p \in Proc, NEW a, Finish(p, a)
    PROVE  /\ pc' = [pc EXCEPT ![p] = "idle"] /\ pc'[p] = "idle"
           /\ posted' = posted /\ Shape'
           /\ \A q \in Proc \ {p} :
                 /\ pc'[q] = pc[q] /\ user'[q] = user[q] /\ gameId'[q] = gameId[q]
                 /\ found'[q] = found[q] /\ shown'[q] = shown[q] /\ had'[q] = had[q]
                 /\ linked'[q] = linked[q]
BY DEF Finish, Goto, TypeOK, Shape

LEMMA FinishTypes ==
    ASSUME TypeOK, Shape, NEW p \in Proc, NEW a, Finish(p, a),
           a = NoList \/ a \in [DOMAIN a -> Content],
           UNCHANGED catalog, entries' \subseteq entries
    PROVE  TypeOK'
<1>1. /\ user' \in [Proc -> User \cup {Nobody}]
      /\ gameId' \in [Proc -> Id \cup {NoId}]
      /\ found' \in [Proc -> SUBSET Id]
      /\ pc' \in [Proc -> {"idle", "insert", "reread", "games", "links", "tags"}]
      BY DEF TypeOK, Finish, Goto
<1>2. \A q \in Proc : shown'[q] = (IF q = p THEN Nothing ELSE shown[q])
      BY DEF Shape, Finish
<1>3. \A q \in Proc : shown'[q] \in [DOMAIN shown'[q] -> Version]
      BY <1>2 DEF TypeOK, Nothing
<1>4. \A q \in Proc : list'[q] = (IF q = p THEN a ELSE list[q])
      BY DEF Shape, Finish
<1>5. \A q \in Proc : list'[q] # NoList => list'[q] \in [DOMAIN list'[q] -> Content]
      BY <1>4 DEF TypeOK
<1>6. \A q \in Proc : linked'[q] = (IF q = p THEN Nothing ELSE linked[q])
      BY DEF Shape, Finish
<1>7. \A q \in Proc : linked'[q] \in [DOMAIN linked'[q] -> SUBSET Tag]
      BY <1>6 DEF TypeOK, Nothing
<1> QED
      BY <1>1, <1>3, <1>5, <1>7 DEF TypeOK, Finish, catalog

-----------------------------------------------------------------------------
(* One lemma per action.                                                   *)

\* What a request that finishes leaves of the invariant.
LEMMA FinishIInv ==
    ASSUME IInv, NEW p \in Proc, NEW a, Finish(p, a),
           a = NoList \/ a \in [DOMAIN a -> Content],
           UNCHANGED catalog, entries' \subseteq entries
    PROVE  IInv'
<1> USE DEF catalog
<1>1. TypeOK' /\ Shape'
      BY FinishTypes, Finishing DEF IInv
<1>2. UniqueInv'
      BY DEF IInv, UniqueInv, Stored
<1>3. EntriesAreAsked'
  <2>1. \A e \in entries' : Refers(e[1], e[2])'
        BY Finishing, StillRefers DEF IInv, EntriesAreAsked
  <2>2. ASSUME NEW q \in Proc, pc'[q] = "insert" PROVE Refers(user[q], gameId[q])'
    <3>1. pc[q] = "insert" /\ user'[q] = user[q] /\ gameId'[q] = gameId[q]
          BY <2>2, Finishing DEF IInv
    <3>2. Refers(user[q], gameId[q])
          BY <3>1 DEF IInv, EntriesAreAsked
    <3> QED
          BY <3>1, <3>2, Finishing DEF IInv, Refers, IsRowOf
  <2> QED
        BY <2>1, <2>2 DEF EntriesAreAsked
<1>4. ASSUME NEW q \in Proc PROVE ReadInv(q)' /\ ShownInv(q)'
  <2>1. CASE q = p
        BY <2>1, Finishing, NotReading DEF IInv
  <2>2. CASE q # p
        BY <2>2, Finishing, QuietReader DEF IInv
  <2> QED
        BY <2>1, <2>2
<1> QED
      BY <1>1, <1>2, <1>3, <1>4 DEF IInv

\* A commit keeps what was stored under its id, so nothing anyone holds goes bad.
LEMMA ImportIInv ==
    ASSUME IInv, Import
    PROVE  IInv'
<1> USE DEF Catalog!Next, Catalog!StoredGames
<1>0. /\ UNCHANGED <<entries, pc, locals, list, posted>>
      /\ \A p \in Proc : Reading(p) => had'[p] = had[p] \cup {Now'}
      BY DEF Import, Readers
<1>1. TypeOK' /\ Shape'
      BY DEF IInv, TypeOK, Shape, Import, locals
<1>2. UniqueInv'
      BY DEF Import, UniqueInv, Stored
<1>3. ASSUME NEW u, NEW i, Refers(u, i) PROVE Refers(u, i)'
      BY <1>0, <1>3 DEF Import, Refers, IsRowOf
<1>4. EntriesAreAsked'
      BY <1>0, <1>3 DEF IInv, EntriesAreAsked, locals
<1>5. ASSUME NEW p \in Proc PROVE ReadInv(p)'
  <2> SUFFICES ASSUME Reading(p)
               PROVE  /\ Now' \in had'[p]
                      /\ \A state \in had'[p] : Before(state)'
                      /\ \A i \in found[p] : Refers(user[p], i)'
      BY <1>0 DEF ReadInv, locals, Refers, Reading
  <2>1. \A state \in had[p] : Before(state)
        BY DEF IInv, ReadInv
  <2>2. ASSUME NEW state, Before(state) PROVE Before(state)'
        BY <2>2 DEF Import, Before
  <2>3. Before(Now)'
        BY DEF Before, Now
  <2>4. had'[p] = had[p] \cup {Now'}
        BY <1>0
  <2>5. \A state \in had'[p] : Before(state)'
        BY <2>1, <2>2, <2>3, <2>4
  <2>6. ASSUME NEW i \in found[p] PROVE Refers(user[p], i)'
    <3>1. Refers(user[p], i) /\ user' = user
          BY <1>0 DEF IInv, ReadInv, locals
    <3>2. Refers(user[p], i)'
          BY <1>0, <3>1 DEF Import, Refers, IsRowOf
    <3> QED
          BY <3>2
  <2> QED
        BY <2>4, <2>5, <2>6
<1>6. ASSUME NEW p \in Proc PROVE ShownInv(p)'
  <2>1. ASSUME NEW i \in found[p], NEW g \in Game, IsRowOf(games, i, g)', Reading(p)
        PROVE  IsRowOf(games, i, g)
    <3>1. PICK h \in Game : IsRowOf(games, i, h)
          BY <2>1 DEF IInv, ReadInv, Refers
    <3>2. IsRowOf(games, i, h)'
          BY <3>1 DEF Import, IsRowOf
    <3>3. g = h
          BY <1>2, <2>1, <3>2 DEF UniqueInv, Stored, IsRowOf
    <3> QED
          BY <3>1, <3>3
  <2>2. /\ UNCHANGED <<pc, user, found, shown, linked, posted>>
        /\ Reading(p) => had[p] \subseteq had'[p]
        BY <1>0 DEF locals
  <2>3. ASSUME pc[p] \in {"links", "tags"}
        PROVE  /\ DOMAIN shown[p] = found[p]
               /\ \E one \in had'[p] : \A i \in found[p] : ColumnsFrom(one, p, i)'
        BY <2>2, <2>3 DEF IInv, ShownInv, ColumnsFrom, Reading
  <2>4. ASSUME pc[p] = "tags"
        PROVE  /\ DOMAIN linked[p] = found[p]
               /\ \E two \in had'[p] : \A i \in found[p], g \in Game :
                     IsRowOf(games, i, g)' => linked[p][i] = two.links[g]
    <3>1. PICK two \in had[p] : \A i \in found[p], g \in Game :
             IsRowOf(games, i, g) => linked[p][i] = two.links[g]
          BY <2>4 DEF IInv, ShownInv
    <3>2. two \in had'[p] /\ Reading(p)
          BY <2>2, <2>4 DEF Reading
    <3> QED
          BY <2>1, <2>4, <3>1, <3>2 DEF IInv, ShownInv
  <2> QED
        BY <2>2, <2>3, <2>4 DEF ShownInv
<1> QED
      BY <1>1, <1>2, <1>4, <1>5, <1>6 DEF IInv

LEMMA PostIInv ==
    ASSUME IInv, NEW p \in Proc, NEW u \in User, NEW g \in Game, PostMyGame(p, u, g)
    PROVE  IInv'
<1> USE DEF catalog
<1>1. /\ UNCHANGED catalog /\ posted \subseteq posted'
      /\ pc'[p] = "insert" /\ user'[p] = u /\ gameId'[p] = games[g].id
      /\ \A q \in Proc \ {p} : pc'[q] = pc[q] /\ user'[q] = user[q] /\ gameId'[q] = gameId[q]
      BY DEF IInv, TypeOK, PostMyGame, At, Goto, LocalId
<1>2. TypeOK' /\ Shape'
      BY DEF IInv, TypeOK, Shape, PostMyGame, At, Goto, LocalId, Stored
<1>3. UniqueInv'
      BY <1>1 DEF IInv, UniqueInv, Stored
<1>4. EntriesAreAsked'
  <2>1. \A e \in entries : Refers(e[1], e[2])'
        BY <1>1, StillRefers DEF IInv, EntriesAreAsked
  <2>2. Refers(u, games[g].id)'
        BY <1>1 DEF PostMyGame, Refers, IsRowOf, Stored
  <2>3. ASSUME NEW q \in Proc \ {p}, pc[q] = "insert" PROVE Refers(user[q], gameId[q])'
    <3>1. Refers(user[q], gameId[q])
          BY <2>3 DEF IInv, EntriesAreAsked
    <3> QED
          BY <1>1, <3>1 DEF Refers, IsRowOf
  <2>4. ASSUME NEW q \in Proc, pc'[q] = "insert" PROVE Refers(user[q], gameId[q])'
    <3>1. CASE q = p
          BY <1>1, <2>2, <3>1 DEF Refers, IsRowOf
    <3>2. CASE q # p
          BY <1>1, <2>3, <2>4, <3>2
    <3> QED
          BY <3>1, <3>2
  <2> QED
        BY <2>1, <2>4 DEF EntriesAreAsked, PostMyGame
<1>5. ASSUME NEW q \in Proc PROVE ReadInv(q)' /\ ShownInv(q)'
  <2>1. CASE q = p
        BY <1>1, <2>1, NotReading
  <2>2. CASE q # p
        BY <1>1, <2>2, QuietReader DEF IInv, PostMyGame
  <2> QED
        BY <2>1, <2>2
<1> QED
      BY <1>2, <1>3, <1>4, <1>5 DEF IInv

LEMMA AddIInv ==
    ASSUME IInv, NEW p \in Proc, AddUserGame(p)
    PROVE  IInv'
<1> USE DEF catalog
<1>1. CASE Refused(p)
      BY <1>1, FinishIInv DEF AddUserGame, At
<1>2. CASE ~Refused(p)
  <2>1. /\ UNCHANGED <<games, links, names, user, gameId, found, shown, linked, list,
                     posted, had>>
        /\ pc[p] = "insert" /\ pc' = [pc EXCEPT ![p] = "reread"]
        /\ entries' = entries \cup {<<user[p], gameId[p]>>}
        BY <1>2 DEF AddUserGame, At, Goto, locals
  <2>2. Refers(user[p], gameId[p])
        BY <2>1 DEF IInv, EntriesAreAsked
  <2>3. user[p] \in User /\ gameId[p] \in Id
        BY <2>2 DEF IInv, TypeOK, Refers, IsRowOf
  <2>4. TypeOK' /\ Shape'
        BY <2>1, <2>3 DEF IInv, TypeOK, Shape
  <2>5. UniqueInv'
        BY <2>1 DEF IInv, UniqueInv, Stored
  <2>6. EntriesAreAsked'
    <3>1. ASSUME NEW e \in entries' PROVE Refers(e[1], e[2])'
      <4>1. Refers(e[1], e[2])
            BY <2>1, <2>2 DEF IInv, EntriesAreAsked
      <4> QED
            BY <2>1, <4>1, StillRefers
    <3>2. ASSUME NEW q \in Proc, pc'[q] = "insert" PROVE Refers(user[q], gameId[q])'
      <4>1. pc[q] = "insert"
            BY <2>1, <3>2 DEF IInv, TypeOK
      <4>2. Refers(user[q], gameId[q])
            BY <4>1 DEF IInv, EntriesAreAsked
      <4> QED
            BY <2>1, <4>2 DEF Refers, IsRowOf
    <3> QED
          BY <3>1, <3>2 DEF EntriesAreAsked
  <2>7. ASSUME NEW q \in Proc PROVE ReadInv(q)' /\ ShownInv(q)'
    <3>1. CASE q = p
          BY <2>1, <3>1, NotReading DEF IInv, TypeOK
    <3>2. CASE q # p
          BY <2>1, <3>2, QuietReader DEF IInv, TypeOK
    <3> QED
          BY <3>1, <3>2
  <2> QED
        BY <2>4, <2>5, <2>6, <2>7 DEF IInv
<1> QED
      BY <1>1, <1>2

\* A reading begins: the catalog as it is, and entries that were asked for.
LEMMA EntriesIInv ==
    ASSUME IInv, NEW p \in Proc, NEW u \in User, NEW ids \in SUBSET Id, Entries(p, ids),
           UNCHANGED catalog, user' = [user EXCEPT ![p] = u],
           \A i \in ids : Refers(u, i)
    PROVE  IInv'
<1> USE DEF catalog
<1>1. /\ UNCHANGED <<games, links, names, entries, gameId, shown, linked, list, posted>>
      /\ pc' = [pc EXCEPT ![p] = "games"] /\ found' = [found EXCEPT ![p] = ids]
      /\ had' = [had EXCEPT ![p] = {Now}]
      BY DEF Entries, Goto
<1>2. TypeOK' /\ Shape'
      BY <1>1 DEF IInv, TypeOK, Shape
<1>3. UniqueInv'
      BY <1>1 DEF IInv, UniqueInv, Stored
<1>4. EntriesAreAsked'
      BY <1>1 DEF IInv, TypeOK, EntriesAreAsked, Refers, IsRowOf
<1>5. ReadInv(p)' /\ ShownInv(p)'
  <2>1. pc'[p] = "games" /\ found'[p] = ids /\ had'[p] = {Now} /\ user'[p] = u
        BY <1>1 DEF IInv, TypeOK, Shape
  <2>2. Now' = Now /\ Before(Now)'
        BY <1>1 DEF Now, Before
  <2>3. \A state \in had'[p] : Before(state)'
        BY <2>1, <2>2 DEF Before, Now
  <2>4. \A i \in ids : Refers(user[p], i)'
        BY <1>1, <2>1 DEF Refers, IsRowOf
  <2> QED
        BY <2>1, <2>2, <2>3, <2>4 DEF ReadInv, ShownInv
<1>6. ASSUME NEW q \in Proc \ {p} PROVE ReadInv(q)' /\ ShownInv(q)'
      BY <1>1, QuietReader DEF IInv, TypeOK, Shape
<1> QED
      BY <1>2, <1>3, <1>4, <1>5, <1>6 DEF IInv

LEMMA GetIInv ==
    ASSUME IInv, NEW p \in Proc, NEW u \in User, GetUserGames(p, u)
    PROVE  IInv'
<1> USE DEF catalog
<1> DEFINE ids == {e[2] : e \in ScopedToUser(u)}
<1>1. ids \in SUBSET Id
      BY DEF IInv, TypeOK, ScopedToUser
<1>2. \A i \in ids : Refers(u, i)
      BY DEF IInv, EntriesAreAsked, ScopedToUser
<1>3. Entries(p, ids) /\ UNCHANGED catalog /\ user' = [user EXCEPT ![p] = u]
      BY DEF GetUserGames, At
<1> HIDE DEF ids
<1> QED
      BY <1>1, <1>2, <1>3, EntriesIInv

LEMMA RereadIInv ==
    ASSUME IInv, NEW p \in Proc, Reread(p)
    PROVE  IInv'
<1>1. CASE <<user[p], gameId[p]>> \in ScopedToUser(user[p])
  <2> DEFINE u == user[p]
             ids == {gameId[p]}
  <2>1. <<user[p], gameId[p]>> \in entries
        BY <1>1 DEF ScopedToUser
  <2>2. user[p] \in User /\ gameId[p] \in Id /\ Refers(user[p], gameId[p])
        BY <2>1 DEF IInv, TypeOK, EntriesAreAsked
  <2>3. Entries(p, ids) /\ UNCHANGED catalog /\ user' = user
        BY <1>1 DEF Reread, At
  <2>4. user' = [user EXCEPT ![p] = u]
        BY <2>3 DEF IInv, TypeOK
  <2>5. u \in User /\ ids \in SUBSET Id /\ \A i \in ids : Refers(u, i)
        BY <2>2
  <2> HIDE DEF u, ids
  <2> QED
        BY <2>3, <2>4, <2>5, EntriesIInv
<1>2. CASE <<user[p], gameId[p]>> \notin ScopedToUser(user[p])
      BY <1>2, FinishIInv DEF Reread, At
<1> QED
      BY <1>1, <1>2

LEMMA GameIInv ==
    ASSUME IInv, NEW p \in Proc, PreloadGame(p)
    PROVE  IInv'
<1> USE DEF catalog
<1> DEFINE known == {games[g].id : g \in Stored} \cap found[p]
           columns == [i \in known |->
                          games[CHOOSE g \in Stored : games[g].id = i].version]
<1>1. /\ UNCHANGED <<games, links, names, entries, user, gameId, found, linked, list,
                     posted, had>>
      /\ pc[p] = "games" /\ pc' = [pc EXCEPT ![p] = "links"]
      /\ shown' = [shown EXCEPT ![p] = columns]
      BY DEF PreloadGame, At, Goto
<1>2. /\ Now \in had[p]
      /\ \A i \in found[p] : Refers(user[p], i)
      BY <1>1 DEF IInv, ReadInv, Reading
<1>3. ASSUME NEW i \in found[p], NEW g \in Game, IsRowOf(games, i, g)
      PROVE  i \in known /\ columns[i] = games[g].version /\ games[g].version \in Version
  <2>1. g \in Stored /\ games[g].id = i
        BY <1>3 DEF IsRowOf, Stored
  <2>2. {h \in Stored : games[h].id = i} = {g}
        BY <1>3, OneGame DEF IInv
  <2>3. (CHOOSE h \in Stored : games[h].id = i) = g
        BY <2>2
  <2>4. games[g] \in [id : Id, version : Version]
        BY <2>1 DEF IInv, TypeOK, Stored
  <2> QED
        BY <2>1, <2>3, <2>4
<1>4. known = found[p] /\ DOMAIN columns = found[p]
      BY <1>2, <1>3 DEF Refers
<1>5. columns \in [found[p] -> Version]
      BY <1>2, <1>3, <1>4 DEF Refers
<1> HIDE DEF known, columns
<1>6. \A q \in Proc : shown'[q] = (IF q = p THEN columns ELSE shown[q])
      BY <1>1 DEF IInv, Shape
<1>7. TypeOK' /\ Shape'
  <2>1. \A q \in Proc : shown'[q] \in [DOMAIN shown'[q] -> Version]
        BY <1>4, <1>5, <1>6 DEF IInv, TypeOK
  <2> QED
        BY <1>1, <2>1 DEF IInv, TypeOK, Shape
<1>8. UniqueInv' /\ EntriesAreAsked'
      BY <1>1 DEF IInv, TypeOK, UniqueInv, Stored, EntriesAreAsked, Refers, IsRowOf
<1>9. ReadInv(p)'
      BY <1>1 DEF IInv, TypeOK, ReadInv, Reading, Now, Before, Refers, IsRowOf
<1>10. ShownInv(p)'
  <2>1. ASSUME NEW i \in found[p] PROVE ColumnsFrom(Now, p, i)'
    <3>1. PICK g \in Game : IsRowOf(games, i, g) /\ <<user[p], g>> \in posted
          BY <1>2 DEF Refers
    <3>2. shown'[p][i] = games[g].version
          BY <1>3, <1>6, <3>1
    <3> QED
          BY <1>1, <3>1, <3>2 DEF ColumnsFrom, Now, IsRowOf
  <2>2. Now' \in had'[p] /\ found'[p] = found[p] /\ DOMAIN shown'[p] = found[p]
        BY <1>1, <1>2, <1>4, <1>6 DEF Now
  <2>3. pc'[p] = "links"
        BY <1>1 DEF IInv, TypeOK
  <2> QED
        BY <2>1, <2>2, <2>3 DEF ShownInv
<1>11. ASSUME NEW q \in Proc \ {p} PROVE ReadInv(q)' /\ ShownInv(q)'
      BY <1>1, <1>6, QuietReader DEF IInv, TypeOK
<1> QED
      BY <1>7, <1>8, <1>9, <1>10, <1>11 DEF IInv

LEMMA LinksIInv ==
    ASSUME IInv, NEW p \in Proc, PreloadLinks(p)
    PROVE  IInv'
<1> USE DEF catalog
<1> DEFINE tags == [i \in DOMAIN shown[p] |-> LinksOf(i)]
<1>1. /\ UNCHANGED <<games, links, names, entries, user, gameId, found, shown, list,
                     posted, had>>
      /\ pc[p] = "links" /\ pc' = [pc EXCEPT ![p] = "tags"]
      /\ linked' = [linked EXCEPT ![p] = tags]
      BY DEF PreloadLinks, At, Goto
<1>2. Now \in had[p] /\ DOMAIN shown[p] = found[p]
      BY <1>1 DEF IInv, ReadInv, Reading, ShownInv
<1>3. ASSUME NEW i \in found[p], NEW g \in Game, IsRowOf(games, i, g)
      PROVE  tags[i] = Now.links[g]
  <2>1. LinksOf(i) = UNION {links[h] : h \in {g}}
        BY <1>3, OneGame DEF IInv, LinksOf
  <2> QED
        BY <1>2, <2>1 DEF Now
<1>4. DOMAIN tags = found[p] /\ tags \in [DOMAIN tags -> SUBSET Tag]
      BY <1>2 DEF IInv, TypeOK, LinksOf, Stored
<1> HIDE DEF tags
<1>5. \A q \in Proc : linked'[q] = (IF q = p THEN tags ELSE linked[q])
      BY <1>1 DEF IInv, Shape
<1>6. TypeOK' /\ Shape'
  <2>1. \A q \in Proc : linked'[q] \in [DOMAIN linked'[q] -> SUBSET Tag]
        BY <1>4, <1>5 DEF IInv, TypeOK
  <2> QED
        BY <1>1, <2>1 DEF IInv, TypeOK, Shape
<1>7. UniqueInv' /\ EntriesAreAsked'
      BY <1>1 DEF IInv, TypeOK, UniqueInv, Stored, EntriesAreAsked, Refers, IsRowOf
<1>8. ReadInv(p)'
      BY <1>1 DEF IInv, TypeOK, ReadInv, Reading, Now, Before, Refers, IsRowOf
<1>9. ShownInv(p)'
  <2>1. \E one \in had[p] : \A i \in found[p] : ColumnsFrom(one, p, i)'
        BY <1>1 DEF IInv, ShownInv, ColumnsFrom
  <2>2. /\ DOMAIN linked'[p] = found[p]
        /\ \A i \in found[p], g \in Game :
              IsRowOf(games, i, g)' => linked'[p][i] = Now.links[g]
        BY <1>1, <1>3, <1>4, <1>5 DEF IsRowOf
  <2> QED
        BY <1>1, <1>2, <2>1, <2>2 DEF ShownInv
<1>10. ASSUME NEW q \in Proc \ {p} PROVE ReadInv(q)' /\ ShownInv(q)'
      BY <1>1, <1>5, QuietReader DEF IInv, TypeOK
<1> QED
      BY <1>6, <1>7, <1>8, <1>9, <1>10 DEF IInv

LEMMA AnswerIsContent ==
    ASSUME IInv, NEW p \in Proc, pc[p] = "tags"
    PROVE  Answer(p) \in [DOMAIN Answer(p) -> Content]
<1>1. DOMAIN shown[p] = found[p] /\ \A i \in found[p] : Refers(user[p], i)
      BY DEF IInv, ShownInv, ReadInv, Reading
<1>2. ASSUME NEW i \in found[p] PROVE linked[p][i] \in SUBSET Tag
  <2>1. DOMAIN linked[p] = found[p] /\ linked[p] \in [DOMAIN linked[p] -> SUBSET Tag]
        BY DEF IInv, ShownInv, TypeOK
  <2> QED
        BY <1>2, <2>1
<1>3. ASSUME NEW i \in found[p]
      PROVE  Named(linked[p][i], names) \in SUBSET (Tag \X Name)
      BY <1>2, <1>3 DEF IInv, TypeOK, Named
<1> QED
      BY <1>1, <1>3 DEF IInv, TypeOK, Answer, Content

LEMMA InitIInv == Init => IInv
<1> SUFFICES ASSUME Init PROVE IInv
    OBVIOUS
<1> USE DEF Init, Catalog!Init
<1>1. TypeOK /\ Shape
      BY DEF TypeOK, Shape, Nothing
<1>2. UniqueInv /\ EntriesAreAsked
      BY DEF UniqueInv, Stored, EntriesAreAsked
<1>3. \A p \in Proc : ReadInv(p) /\ ShownInv(p)
      BY DEF ReadInv, ShownInv, Reading
<1> QED
      BY <1>1, <1>2, <1>3 DEF IInv

LEMMA NextIInv == IInv /\ [Next]_vars => IInv'
<1> USE DEF catalog
<1> SUFFICES ASSUME IInv, [Next]_vars PROVE IInv'
    OBVIOUS
<1>1. CASE Import
      BY <1>1, ImportIInv
<1>2. ASSUME NEW u \in User, NEW i \in Id, DeleteUserGame(u, i) PROVE IInv'
  <2>1. UNCHANGED <<games, links, names, pc, user, gameId, found, shown, linked,
                     list, posted, had>>
        /\ entries' \subseteq entries
        BY <1>2 DEF DeleteUserGame, locals
  <2>2. TypeOK' /\ Shape' /\ UniqueInv' /\ EntriesAreAsked'
        BY <2>1 DEF IInv, TypeOK, Shape, UniqueInv, Stored, EntriesAreAsked, Refers, IsRowOf
  <2> QED
        BY <2>1, <2>2, QuietReader DEF IInv
<1>3. ASSUME NEW p \in Proc, Step(p) PROVE IInv'
  <2>1. ASSUME NEW u \in User, GetUserGames(p, u) PROVE IInv'
        BY <2>1, GetIInv
  <2>2. ASSUME NEW u \in User, NEW g \in Game, PostMyGame(p, u, g) PROVE IInv'
        BY <2>2, PostIInv
  <2>3. CASE AddUserGame(p)
        BY <2>3, AddIInv
  <2>4. CASE Reread(p)
        BY <2>4, RereadIInv
  <2>5. CASE PreloadGame(p)
        BY <2>5, GameIInv
  <2>6. CASE PreloadLinks(p)
        BY <2>6, LinksIInv
  <2>7. CASE PreloadTags(p)
        BY <2>7, AnswerIsContent, FinishIInv DEF PreloadTags, At
  <2>8. CASE Fails(p)
        BY <2>8, FinishIInv DEF Fails
  <2> QED
        BY <1>3, <2>1, <2>2, <2>3, <2>4, <2>5, <2>6, <2>7, <2>8 DEF Step
<1>4. CASE UNCHANGED vars
  <2>1. UNCHANGED <<games, links, names, entries, pc, user, gameId, found, shown,
                    linked, list, posted, had>>
        BY <1>4 DEF vars, locals
  <2>2. TypeOK' /\ Shape' /\ UniqueInv' /\ EntriesAreAsked'
        BY <2>1 DEF IInv, TypeOK, Shape, UniqueInv, Stored, EntriesAreAsked, Refers, IsRowOf
  <2> QED
        BY <2>1, <2>2, QuietReader DEF IInv
<1> QED
      BY <1>1, <1>2, <1>3, <1>4 DEF Next

\* IInv holds in every reachable state.
LEMMA Invariance == Spec => []IInv
BY InitIInv, NextIInv, PTL DEF Spec

-----------------------------------------------------------------------------
(* The theorems.                                                           *)

\* The types: ids in entries and requests are the catalog's own (importIGDBGames).
THEOREM TypeCorrect == Spec => []TypeOK
<1>1. IInv => TypeOK
      BY DEF IInv
<1> QED
      BY <1>1, Invariance, PTL

\* An entry refers to a game its user posted, whatever is stored between the
\* import, the insert and later (PostMyGame).
THEOREM EntriesWereAsked == Spec => []EntriesAreAsked
<1>1. IInv => EntriesAreAsked
      BY DEF IInv
<1> QED
      BY <1>1, Invariance, PTL

LEMMA AnsweredList ==
    ASSUME IInv, NEW p \in Proc, pc[p] = "tags", list'[p] # NoList, PreloadTags(p)
    PROVE  /\ DOMAIN list'[p] = found[p]
           /\ \E one, two, three \in had[p] : \A i \in found[p] : \E g \in Game :
                 /\ IsRowOf(one.games, i, g) /\ <<user[p], g>> \in posted
                 /\ list'[p][i] = [version |-> one.games[g].version,
                                   tags |-> Named(two.links[g], three.names)]
<1>1. list'[p] = Answer(p)
      BY DEF PreloadTags, Finish, IInv, Shape
<1>2. DOMAIN shown[p] = found[p] /\ Now \in had[p]
      BY DEF IInv, ShownInv, ReadInv, Reading
<1>3. PICK one \in had[p] : \A i \in found[p] : ColumnsFrom(one, p, i)
      BY DEF IInv, ShownInv
<1>4. PICK two \in had[p] : \A i \in found[p], g \in Game :
         IsRowOf(games, i, g) => linked[p][i] = two.links[g]
      BY DEF IInv, ShownInv
<1>5. ASSUME NEW i \in found[p]
      PROVE  \E g \in Game :
                 /\ IsRowOf(one.games, i, g) /\ <<user[p], g>> \in posted
                 /\ list'[p][i] = [version |-> one.games[g].version,
                                   tags |-> Named(two.links[g], Now.names)]
  <2>1. PICK g \in Game : /\ IsRowOf(one.games, i, g) /\ <<user[p], g>> \in posted
                          /\ shown[p][i] = one.games[g].version
        BY <1>3 DEF ColumnsFrom
  <2>2. IsRowOf(games, i, g)
        BY <2>1 DEF IInv, ReadInv, Reading, Before, IsRowOf
  <2>3. linked[p][i] = two.links[g] /\ Now.names = names
        BY <1>4, <2>2 DEF Now
  <2> QED
        BY <1>1, <1>2, <2>1, <2>3 DEF Answer
<1>6. DOMAIN list'[p] = found[p]
      BY <1>1, <1>2 DEF Answer
<1>7. \E three \in had[p] : \A i \in found[p] : \E g \in Game :
          /\ IsRowOf(one.games, i, g) /\ <<user[p], g>> \in posted
          /\ list'[p][i] = [version |-> one.games[g].version,
                            tags |-> Named(two.links[g], three.names)]
      BY <1>2, <1>5
<1> QED
      BY <1>6, <1>7

\* A list shows its reader's entries, each with its game; columns, links and
\* names of tags are each of one state of the catalog since the reading began
\* (GetUserGames).
THEOREM ListsAreCurrent == Spec => ListIsCurrent
<1>1. ASSUME IInv, Next, NEW p \in Proc, pc[p] = "tags", pc'[p] = "idle",
             list'[p] # NoList
      PROVE  PreloadTags(p)
  <2>1. \/ Import \/ \E u \in User, i \in Id : DeleteUserGame(u, i)
        \/ \E q \in Proc : Step(q)
        BY <1>1 DEF Next
  <2>2. pc' # pc
        BY <1>1
  <2>3. PICK q \in Proc : Step(q)
        BY <2>1, <2>2 DEF Import, DeleteUserGame
  <2>4. q = p
        BY <1>1, <2>3 DEF Step, GetUserGames, PostMyGame, AddUserGame, Reread, Entries,
           PreloadGame, PreloadLinks, PreloadTags, Fails, Finish, Goto, At, IInv, TypeOK
  <2>5. PreloadTags(p) \/ Fails(p)
        BY <1>1, <2>3, <2>4 DEF Step, GetUserGames, PostMyGame, AddUserGame, Reread,
           PreloadGame, PreloadLinks, At
  <2> QED
        BY <1>1, <2>5 DEF Fails, Finish, IInv, Shape
<1>2. IInv /\ [Next]_vars =>
          [\A p \in Proc : pc[p] = "tags" /\ pc'[p] = "idle" /\ list'[p] # NoList =>
              /\ DOMAIN list'[p] = found[p]
              /\ \E one, two, three \in had[p] : \A i \in found[p] : \E g \in Game :
                    /\ IsRowOf(one.games, i, g) /\ <<user[p], g>> \in posted
                    /\ list'[p][i] = [version |-> one.games[g].version,
                                      tags |-> Named(two.links[g], three.names)]]_vars
      BY <1>1, AnsweredList
<1> QED
      BY <1>2, Invariance, PTL DEF Spec, ListIsCurrent
=============================================================================
