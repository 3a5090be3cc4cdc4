--------------------------- MODULE CatalogProofs ---------------------------
(***************************************************************************)
(* For any number of games, tags, importers and edits: what the catalog    *)
(* shows of a game is one answer, whole and no older than the import that  *)
(* stored it; an id that was handed out is good; and a game is read back   *)
(* as it was answered.                                                     *)
(*                                                                         *)
(* An import writes what it fetched before its transaction, and commits    *)
(* what it wrote some statements ago.  FetchedInv and TxInv say why that   *)
(* is an answer still; HeldInv is the row locks, and IdInv what they are   *)
(* for: nobody inserts a game between another's upsert and its commit.     *)
(***************************************************************************)
EXTENDS Catalog, TLAPS, WellFoundedInduction, FiniteSetTheorems,
        FunctionTheorems, SequenceTheorems

Answer == [version : 0 .. MaxVersion, tags : TagLists]

UpstreamInv ==
    /\ upstream \in [Game -> Answer]
    /\ published \in [Game -> SUBSET Answer]
    /\ \A g \in Game : upstream[g] \in published[g]

\* What p may have fetched: answers not older than its beginning.
Given(p) ==
    {f \in Fetched : /\ [version |-> f.version, tags |-> f.tags] \in published[f.game]
                     /\ before[p][f.game] <= f.version}

Phase == {"idle", "known", "fetch", "refetch", "game", "tag", "links", "commit"}
InTx == {"game", "tag", "links", "commit"}

FetchedInv(p) ==
    /\ pc[p] \in Phase
    /\ pc[p] \in {"fetch", "known"} => asked[p] # {}
    /\ before[p] \in [Game -> 0 .. MaxVersion]
    /\ \A g \in Game : before[p][g] <= upstream[g].version
    /\ fetched[p] \in Seq(Given(p))
    /\ pc[p] \in {"game", "tag", "links"} => fetched[p] # << >>
    /\ pc[p] \notin InTx => fetched[p] = << >>
    /\ todo[p] \in Seq(Tag)
    /\ pc[p] = "tag" => todo[p] # << >>

\* One answer for the game g has this version and these tags.
IsAnswer(g, version, tags) ==
    \E a \in published[g] : a.version = version /\ Range(a.tags) = tags

\* p has stored g, its columns but not yet its links.
Pending(p, g) ==
    /\ pc[p] \in {"tag", "links"}
    /\ g = Head(fetched[p]).game
    /\ tx[p].games[g].version = Head(fetched[p]).version

Complete(p, g) ==
    /\ g \in DOMAIN tx[p].links
    /\ IsAnswer(g, tx[p].games[g].version, tx[p].links[g])

TxInv(p) ==
    /\ tx[p] = [games |-> tx[p].games, links |-> tx[p].links, tags |-> tx[p].tags]
    /\ pc[p] \notin InTx => tx[p] = NoTx
    /\ DOMAIN tx[p].games \subseteq Game
    /\ \A g \in DOMAIN tx[p].games :
          /\ tx[p].games[g] \in Row
          /\ before[p][g] <= tx[p].games[g].version
          /\ Pending(p, g) \/ Complete(p, g)
    /\ \A g \in DOMAIN tx[p].links : g \in DOMAIN tx[p].games /\ tx[p].links[g] \subseteq Tag
    /\ pc[p] \in {"tag", "links"} =>
          Head(fetched[p]).game \in DOMAIN tx[p].games /\ Pending(p, Head(fetched[p]).game)

\* The row locks.
HeldInv ==
    \A p, q \in Proc : \A g \in DOMAIN tx[p].games \cap DOMAIN tx[q].games : p = q

\* An upsert of a game that is stored keeps its id.
IdInv ==
    \A p \in Proc : \A g \in DOMAIN tx[p].games :
        games[g] # NoRow => games[g].id = tx[p].games[g].id

\* g has, or is about to have, the id i.
HasId(g, i) ==
    \/ games[g] # NoRow /\ games[g].id = i
    \/ \E p \in Proc : g \in DOMAIN tx[p].games /\ tx[p].games[g].id = i

UniqueInv == \A g, h \in Game, i \in Id : HasId(g, i) /\ HasId(h, i) => g = h

TableInv ==
    /\ games \in [Game -> Row \cup {NoRow}]
    /\ links \in [Game -> SUBSET Tag]

Shape ==
    /\ pc \in [Proc -> Phase] /\ asked \in [Proc -> SUBSET Game] /\ DOMAIN fetched = Proc
    /\ DOMAIN todo = Proc /\ DOMAIN tx = Proc /\ DOMAIN answer = Proc
    /\ DOMAIN before = Proc

AnswerInv ==
    \A p \in Proc : \A g \in DOMAIN answer[p] :
        /\ g \in Game
        /\ games[g] # NoRow
        /\ games[g].id = answer[p][g]

IInv ==
    /\ UpstreamInv /\ TableInv /\ Shape
    /\ \A p \in Proc : FetchedInv(p) /\ TxInv(p)
    /\ HeldInv /\ IdInv /\ UniqueInv /\ AnswerInv /\ WholeImports

-----------------------------------------------------------------------------
(* Sequences, answers and ids.                                             *)

LEMMA Nothing == DOMAIN << >> = {}
OBVIOUS

LEMMA SeqMore == ASSUME NEW S, NEW T, S \subseteq T, NEW s \in Seq(S) PROVE s \in Seq(T)
OBVIOUS

LEMMA AnswerTypes ==
    ASSUME NEW a \in Answer
    PROVE  /\ a = [version |-> a.version, tags |-> a.tags]
           /\ a.version \in Nat /\ a.tags \in Seq(Tag) /\ Range(a.tags) \subseteq Tag
<1>1. a.version \in 0 .. MaxVersion /\ a.tags \in TagLists
      BY DEF Answer
<1>2. a.tags \in Seq(Tag)
      BY <1>1, CatalogAssumption
<1> QED
      BY <1>1, <1>2, LenProperties, CatalogAssumption DEF Answer, Range

LEMMA GivenTypes ==
    ASSUME NEW p, NEW f \in Given(p)
    PROVE  /\ f.game \in Game /\ f.version \in 0 .. MaxVersion
           /\ f.tags \in Seq(Tag) /\ Range(f.tags) \subseteq Tag
           /\ IsAnswer(f.game, f.version, Range(f.tags))
           /\ before[p][f.game] <= f.version
<1>1. f \in Fetched /\ [version |-> f.version, tags |-> f.tags] \in published[f.game]
      BY DEF Given
<1>2. f.game \in Game /\ f.version \in 0 .. MaxVersion /\ f.tags \in TagLists
      BY <1>1 DEF Fetched
<1>3. f.tags \in Seq(Tag)
      BY <1>2, CatalogAssumption
<1>4. Range(f.tags) \subseteq Tag
      BY <1>3, LenProperties DEF Range
<1>5. IsAnswer(f.game, f.version, Range(f.tags))
      BY <1>1 DEF IsAnswer
<1> QED
      BY <1>2, <1>3, <1>4, <1>5 DEF Given

\* A row's fields.
LEMMA RowTypes ==
    ASSUME NEW r \in Row
    PROVE  r.id \in Id /\ r.version \in 0 .. MaxVersion /\ r # NoRow
BY CatalogAssumption DEF Row

-----------------------------------------------------------------------------
(* What a step leaves alone.                                               *)

\* The locals of q.
Locals(q) == <<pc[q], asked[q], fetched[q], todo[q], tx[q], before[q]>>

\* IGDB's answers only grow and its versions only advance.
Onward ==
    /\ \A g \in Game : published[g] \subseteq published'[g]
    /\ \A g \in Game : /\ upstream[g].version \in Nat /\ upstream'[g].version \in Nat
                       /\ upstream[g].version <= upstream'[g].version

LEMMA AnswersStay ==
    ASSUME Onward, NEW g \in Game, NEW version, NEW tags, IsAnswer(g, version, tags)
    PROVE  IsAnswer(g, version, tags)'
BY DEF Onward, IsAnswer

LEMMA GivenGrows ==
    ASSUME Onward, NEW p, UNCHANGED before[p]
    PROVE  Given(p) \subseteq Given(p)'
BY DEF Onward, Given, Fetched

LEMMA OthersStay ==
    ASSUME Onward, NEW q \in Proc, FetchedInv(q), TxInv(q), UNCHANGED Locals(q)
    PROVE  FetchedInv(q)' /\ TxInv(q)'
<1>1. UNCHANGED <<pc[q], asked[q], fetched[q], todo[q], tx[q], before[q]>>
      BY DEF Locals
<1>2. FetchedInv(q)'
  <2>1. fetched'[q] \in Seq(Given(q)')
    <3>1. Given(q) \subseteq Given(q)' /\ fetched[q] \in Seq(Given(q))
          BY <1>1, GivenGrows DEF FetchedInv
    <3> HIDE DEF Given
    <3> QED
          BY <1>1, <3>1, SeqMore
  <2>2. \A g \in Game : before[q][g] <= upstream'[g].version
    <3> SUFFICES ASSUME NEW g \in Game PROVE before[q][g] <= upstream'[g].version
        OBVIOUS
    <3>1. before[q][g] \in 0 .. MaxVersion /\ before[q][g] <= upstream[g].version
          BY DEF FetchedInv
    <3> QED
          BY <3>1 DEF Onward
  <2> QED
        BY <1>1, <2>1, <2>2 DEF FetchedInv
<1>3. \A g \in Game : Complete(q, g) => Complete(q, g)'
      BY <1>1, AnswersStay DEF Complete
<1>4. \A g : Pending(q, g) => Pending(q, g)'
      BY <1>1 DEF Pending
<1>5. TxInv(q)'
  <2> HIDE DEF Pending, Complete
  <2> QED
        BY <1>1, <1>3, <1>4 DEF TxInv
<1> QED
      BY <1>2, <1>5

LEMMA StillOnward == ASSUME UpstreamInv, UNCHANGED <<upstream, published>>
                     PROVE  Onward /\ UpstreamInv'
BY AnswerTypes DEF UpstreamInv, Onward

\* One importer's step.
Moves(p) ==
    /\ Shape'
    /\ \A q \in Proc \ {p} : UNCHANGED <<Locals(q), answer[q]>>

LEMMA OneMoves ==
    ASSUME IInv, NEW p \in Proc, Moves(p), UNCHANGED <<upstream, published>>,
           FetchedInv(p)', TxInv(p)'
    PROVE  UpstreamInv' /\ \A q \in Proc : FetchedInv(q)' /\ TxInv(q)'
<1>1. Onward /\ UpstreamInv'
      BY StillOnward DEF IInv
<1>2. \A q \in Proc \ {p} : FetchedInv(q)' /\ TxInv(q)'
      BY <1>1, OthersStay DEF IInv, Moves
<1> QED
      BY <1>1, <1>2

\* Nothing is upserted: transactions go on as they are, or end.
TxKept ==
    \A q \in Proc : \A g \in DOMAIN tx'[q].games :
        g \in DOMAIN tx[q].games /\ tx'[q].games[g] = tx[q].games[g]

LEMMA QuietTables ==
    ASSUME IInv, UNCHANGED <<games, links>>, TxKept, Onward
    PROVE  TableInv' /\ HeldInv' /\ IdInv' /\ UniqueInv' /\ WholeImports'
<1>1. TableInv'
      BY DEF IInv, TableInv
<1>2. HeldInv'
      BY DEF IInv, HeldInv, TxKept
<1>3. IdInv'
      BY DEF IInv, IdInv, TxKept
<1>4. UniqueInv'
  <2>1. \A g, i : HasId(g, i)' => HasId(g, i)
        BY DEF HasId, TxKept
  <2> QED
        BY <2>1 DEF IInv, UniqueInv
<1>5. WholeImports'
  <2> SUFFICES ASSUME NEW g \in Game, games[g] # NoRow
               PROVE  IsAnswer(g, games[g].version, links[g])'
      BY DEF IInv, WholeImports, IsAnswer
  <2>1. IsAnswer(g, games[g].version, links[g])
        BY DEF IInv, WholeImports, IsAnswer
  <2> QED
        BY <2>1, AnswersStay
<1> QED
      BY <1>1, <1>2, <1>3, <1>4, <1>5

\* Nobody is answered but p, and what p is answered holds.
LEMMA AnswersHold ==
    ASSUME IInv, UNCHANGED games,
           \A q \in Proc : answer'[q] = answer[q] \/ answer'[q] = << >>
    PROVE  AnswerInv'
BY Nothing DEF IInv, AnswerInv

LEMMA Finished ==
    ASSUME IInv, NEW p \in Proc, NEW ids, Finish(p, ids)
    PROVE  /\ Moves(p) /\ answer'[p] = ids
           /\ tx'[p] = NoTx /\ pc'[p] = "idle"
           /\ \A q \in Proc \ {p} : tx'[q] = tx[q] /\ answer'[q] = answer[q]
BY DEF IInv, Shape, Finish, Moves, Locals, Phase

LEMMA FinishedInv ==
    ASSUME IInv, NEW p \in Proc, NEW ids, Finish(p, ids), Onward
    PROVE  FetchedInv(p)' /\ TxInv(p)'
<1>1. /\ pc'[p] = "idle" /\ asked'[p] = {} /\ fetched'[p] = << >> /\ todo'[p] = << >>
      /\ tx'[p] = NoTx /\ before'[p] = Unseen
      BY DEF IInv, Shape, Finish
<1>2. FetchedInv(p)'
  <2>1. Unseen \in [Game -> 0 .. MaxVersion] /\ \A g \in Game : Unseen[g] <= upstream'[g].version
        BY CatalogAssumption DEF Unseen, Onward
  <2> QED
        BY <1>1, <2>1 DEF FetchedInv, Phase, InTx
<1>3. TxInv(p)'
      BY <1>1, Nothing DEF TxInv, NoTx, InTx
<1> QED
      BY <1>2, <1>3

-----------------------------------------------------------------------------
(* The steps that write no row.                                            *)

LEMMA InitIInv == Init => IInv
<1> SUFFICES ASSUME Init PROVE IInv
    OBVIOUS
<1>1. 0 \in 0 .. MaxVersion /\ Unseen \in [Game -> 0 .. MaxVersion]
      BY CatalogAssumption DEF Unseen
<1>2. UpstreamInv
  <2>1. \A g \in Game : upstream[g] \in Answer /\ published[g] = {upstream[g]}
        BY <1>1 DEF Init, Answer
  <2> QED
        BY <2>1 DEF Init, UpstreamInv
<1>3. Shape
      BY DEF Init, Shape, Phase
<1>4. ASSUME NEW p \in Proc PROVE FetchedInv(p) /\ TxInv(p)
  <2>1. /\ pc[p] = "idle" /\ asked[p] = {} /\ fetched[p] = << >> /\ todo[p] = << >>
        /\ tx[p] = NoTx /\ before[p] = Unseen
        BY DEF Init
  <2>2. \A g \in Game : Unseen[g] <= upstream[g].version
        BY <1>1 DEF Init, Unseen
  <2> QED
        BY <1>1, <2>1, <2>2, Nothing DEF FetchedInv, TxInv, Phase, InTx, NoTx
<1>5. \A p \in Proc : DOMAIN tx[p].games = {} /\ DOMAIN answer[p] = {}
      BY Nothing DEF Init, NoTx
<1>6. \A g \in Game : games[g] = NoRow /\ links[g] = {}
      BY DEF Init
<1>7. TableInv
      BY DEF Init, TableInv
<1>8. HeldInv /\ IdInv /\ AnswerInv
      BY <1>5 DEF HeldInv, IdInv, AnswerInv
<1>9. UniqueInv
      BY <1>5, <1>6 DEF UniqueInv, HasId
<1>10. WholeImports
      BY <1>6 DEF WholeImports
<1> QED
      BY <1>2, <1>3, <1>4, <1>7, <1>8, <1>9, <1>10 DEF IInv

\* A step of p that upserts and commits nothing.
LEMMA QuietStep ==
    ASSUME IInv, NEW p \in Proc, Moves(p), UNCHANGED <<upstream, published, games, links>>,
           FetchedInv(p)', TxInv(p)', AnswerInv',
           \A g \in DOMAIN tx'[p].games :
               g \in DOMAIN tx[p].games /\ tx'[p].games[g] = tx[p].games[g]
    PROVE  IInv'
<1>1. Onward
      BY StillOnward DEF IInv
<1>2. TxKept
      BY DEF TxKept, Moves, Locals
<1>3. UpstreamInv' /\ \A q \in Proc : FetchedInv(q)' /\ TxInv(q)'
      BY OneMoves
<1>4. TableInv' /\ HeldInv' /\ IdInv' /\ UniqueInv' /\ WholeImports'
      BY <1>1, <1>2, QuietTables
<1> QED
      BY <1>3, <1>4 DEF IInv, Moves

LEMMA EditStep ==
    ASSUME IInv, NEW g \in Game, NEW list \in TagLists, Edit(g, list)
    PROVE  IInv' /\ Onward
<1> DEFINE new == [version |-> upstream[g].version + 1, tags |-> list]
<1>1. /\ upstream' = [upstream EXCEPT ![g] = new]
      /\ published' = [published EXCEPT ![g] = @ \cup {new}]
      /\ upstream[g].version < MaxVersion
  <2>1. upstream'[g] = new
        BY DEF Edit, IInv, UpstreamInv
  <2> QED
        BY <2>1 DEF Edit
<1>2. new \in Answer
      BY <1>1, CatalogAssumption DEF IInv, UpstreamInv, Answer
<1>3. UpstreamInv'
      BY <1>1, <1>2 DEF IInv, UpstreamInv
<1>4. \A h \in Game : upstream[h].version \in Nat /\ upstream'[h].version \in Nat
      BY <1>3, AnswerTypes DEF IInv, UpstreamInv
<1>5. Onward
  <2>1. \A h \in Game : upstream[h].version <= upstream'[h].version
        BY <1>1, <1>4 DEF IInv, UpstreamInv
  <2>2. \A h \in Game : published[h] \subseteq published'[h]
        BY <1>1 DEF IInv, UpstreamInv
  <2> QED
        BY <1>4, <2>1, <2>2 DEF Onward
<1>6. \A q \in Proc : UNCHANGED Locals(q)
      BY DEF Edit, Locals
<1>7. \A q \in Proc : FetchedInv(q)' /\ TxInv(q)'
      BY <1>5, <1>6, OthersStay DEF IInv
<1>8. TxKept
      BY DEF Edit, TxKept
<1>9. TableInv' /\ HeldInv' /\ IdInv' /\ UniqueInv' /\ WholeImports'
      BY <1>5, <1>8, QuietTables DEF Edit
<1>10. AnswerInv' /\ Shape'
      BY DEF Edit, IInv, AnswerInv, Shape
<1> QED
      BY <1>3, <1>5, <1>7, <1>9, <1>10 DEF IInv

LEMMA StartStep ==
    ASSUME IInv, NEW p \in Proc, NEW phase \in {"known", "refetch"},
           NEW wanted \in SUBSET Game, wanted # {}, Start(p, phase, wanted)
    PROVE  IInv'
<1>1. /\ pc[p] = "idle" /\ pc'[p] = phase /\ asked'[p] = wanted /\ answer'[p] = << >>
      /\ before'[p] = [g \in Game |-> upstream[g].version]
      /\ UNCHANGED <<upstream, published, games, links, fetched, todo, tx>>
      BY DEF IInv, Shape, Start, At
<1>2. Moves(p)
      BY DEF Start, IInv, Shape, Moves, Locals, Phase
<1>3. Onward /\ UpstreamInv'
      BY <1>1, StillOnward DEF IInv
<1>4. tx[p] = NoTx
      BY <1>1 DEF IInv, TxInv, InTx
<1>5. TxInv(p)'
      BY <1>1, <1>4, Nothing DEF TxInv, NoTx
<1>6. FetchedInv(p)'
  <2>1. \A g \in Game : upstream[g].version \in 0 .. MaxVersion
        BY DEF IInv, UpstreamInv, Answer
  <2>2. fetched[p] = << >>
        BY <1>1 DEF IInv, FetchedInv, InTx
  <2> QED
        BY <1>1, <2>1, <2>2 DEF IInv, FetchedInv, Phase, InTx
<1>7. AnswerInv'
      BY <1>1, <1>2, AnswersHold DEF Moves
<1> QED
      BY <1>1, <1>2, <1>5, <1>6, <1>7, QuietStep

\* The end of a request that stores nothing: it fails, or knew its game.
LEMMA FinishStep ==
    ASSUME IInv, NEW p \in Proc, NEW ids, Finish(p, ids),
           UNCHANGED <<upstream, published, games, links>>,
           \A g \in DOMAIN ids : g \in Game /\ games[g] # NoRow /\ games[g].id = ids[g]
    PROVE  IInv'
<1>1. Moves(p) /\ answer'[p] = ids /\ tx'[p] = NoTx
      BY Finished
<1>2. FetchedInv(p)' /\ TxInv(p)'
      BY StillOnward, FinishedInv DEF IInv
<1>3. AnswerInv'
      BY <1>1 DEF Moves, IInv, AnswerInv
<1> QED
      BY <1>1, <1>2, <1>3, QuietStep, Nothing DEF NoTx

LEMMA FailsStep == ASSUME IInv, NEW p \in Proc, Fails(p) PROVE IInv'
BY FinishStep, Nothing DEF Fails

LEMMA KnownStep == ASSUME IInv, NEW p \in Proc, GamesByIGDBIDs(p) PROVE IInv'
<1> DEFINE known == {g \in asked[p] : games[g] # NoRow}
<1>1. CASE known = asked[p]
  <2>1. Finish(p, [g \in known |-> games[g].id])
        BY <1>1 DEF GamesByIGDBIDs
  <2>2. known \subseteq Game
        BY DEF IInv, Shape
  <2> QED
        BY <2>1, <2>2, FinishStep DEF GamesByIGDBIDs
<1>2. CASE known # asked[p]
  <2>1. /\ pc[p] = "known" /\ pc'[p] = "fetch"
        /\ UNCHANGED <<upstream, published, games, links, asked, fetched, todo, tx,
                       answer, before>>
        BY <1>2 DEF GamesByIGDBIDs, At, IInv, Shape
  <2>2. Moves(p)
        BY <1>2 DEF GamesByIGDBIDs, IInv, Shape, Moves, Locals, Phase
  <2>3. FetchedInv(p)'
        BY <2>1 DEF IInv, FetchedInv, Phase, InTx, Given
  <2>4. TxInv(p)'
    <3>1. tx[p] = NoTx
          BY <2>1 DEF IInv, TxInv, InTx
    <3> QED
          BY <2>1, <3>1, Nothing DEF TxInv, NoTx
  <2>5. AnswerInv'
        BY <2>1, AnswersHold
  <2> QED
        BY <2>1, <2>2, <2>3, <2>4, <2>5, QuietStep
<1> QED
      BY <1>1, <1>2

LEMMA FetchStep == ASSUME IInv, NEW p \in Proc, GetByIDs(p) PROVE IInv'
<1>1. PICK returned \in SUBSET asked[p] :
          /\ returned # {} /\ Fetch(p, returned) /\ pc[p] \in {"fetch", "refetch"}
      BY DEF GetByIDs, FetchMissing, FetchAll, At, IInv, FetchedInv
<1> DEFINE Got(order) ==
        [i \in DOMAIN order |->
            [game |-> order[i], version |-> IgdbAnswer(order[i]).version,
             tags |-> IgdbAnswer(order[i]).tags]]
<1>2. PICK order \in Bijection(1 .. Cardinality(returned), returned) :
          fetched' = [fetched EXCEPT ![p] = Got(order)]
      BY <1>1 DEF Fetch
<1>3. /\ returned \subseteq Game /\ IsFiniteSet(returned)
      /\ Cardinality(returned) \in Nat /\ Cardinality(returned) # 0
  <2>1. returned \subseteq Game /\ IsFiniteSet(Game)
        BY CatalogAssumption DEF IInv, Shape
  <2> QED
        BY <1>1, <2>1, FS_Subset, FS_CardinalityType, FS_EmptySet
<1>4. order \in [1 .. Cardinality(returned) -> returned]
      BY <1>2, Fun_BijectionProperties
<1>5. /\ fetched'[p] = Got(order) /\ pc'[p] = "game"
      /\ UNCHANGED <<upstream, published, games, links, asked, todo, tx, answer, before>>
      BY <1>1, <1>2 DEF Fetch, IInv, Shape
<1>6. \A g \in returned :
          [game |-> g, version |-> upstream[g].version, tags |-> upstream[g].tags] \in Given(p)
  <2> SUFFICES ASSUME NEW g \in returned
               PROVE  [game |-> g, version |-> upstream[g].version,
                       tags |-> upstream[g].tags] \in Given(p)
      OBVIOUS
  <2>1. g \in Game /\ upstream[g] \in Answer /\ upstream[g] \in published[g]
        BY <1>3 DEF IInv, UpstreamInv
  <2>2. upstream[g] = [version |-> upstream[g].version, tags |-> upstream[g].tags]
        BY <2>1, AnswerTypes
  <2>3. before[p][g] <= upstream[g].version
        BY <2>1 DEF IInv, FetchedInv
  <2> QED
        BY <2>1, <2>2, <2>3 DEF Given, Fetched, Answer
<1>7. Got(order) \in [1 .. Cardinality(returned) -> Given(p)]
      BY <1>4, <1>6 DEF IgdbAnswer
<1>8. Got(order) \in Seq(Given(p)) /\ Got(order) # << >>
  <2> HIDE DEF Got, Given
  <2> QED
        BY <1>3, <1>7, Nothing
<1>9. Given(p)' = Given(p)
      BY <1>5 DEF Given
<1>10. FetchedInv(p)'
  <2> HIDE DEF Got, Given
  <2> QED
        BY <1>5, <1>8, <1>9 DEF IInv, FetchedInv, Phase, InTx
<1>11. TxInv(p)'
  <2>1. tx[p] = NoTx
        BY <1>1 DEF IInv, TxInv, InTx
  <2> QED
        BY <1>5, <2>1, Nothing DEF TxInv, NoTx
<1>12. Moves(p)
      BY <1>1, <1>2 DEF Fetch, IInv, Shape, Moves, Locals, Phase
<1>13. AnswerInv'
      BY <1>5, AnswersHold
<1> QED
      BY <1>5, <1>10, <1>11, <1>12, <1>13, QuietStep

-----------------------------------------------------------------------------
(* The identity column.  A row to be inserted finds a number: there are as *)
(* many as rows and open upserts can have, and this game has no row.       *)

LEMMA Least ==
    ASSUME NEW S \in SUBSET Nat, S # {}
    PROVE  \E x \in S : \A y \in S : x <= y
<1>1. PICK x \in S : \A y \in S : ~(<<y, x>> \in OpToRel(<, Nat))
      BY NatLessThanWellFounded, WFMin
<1>2. ASSUME NEW y \in S PROVE ~(y < x)
  <2>1. <<y, x>> \notin OpToRel(<, Nat)
        BY <1>1
  <2>2. <<y, x>> \notin {ss \in Nat \X Nat : ss[1] < ss[2]}
        BY <2>1 DEF OpToRel
  <2> QED
        BY <2>2
<1> QED
      BY <1>2

LEMMA IdLeft ==
    ASSUME IInv, NEW g \in Game, games[g] = NoRow
    PROVE  Id \ UsedId # {}
<1> DEFINE Listed == {h \in Game : games[h] # NoRow}
           Held == {s \in Game \X Proc : s[1] \in DOMAIN tx[s[2]].games}
           rowId == [h \in Listed |-> games[h].id]
           heldId == [s \in Held |-> tx[s[2]].games[s[1]].id]
           R == {games[h].id : h \in Listed}
           T == {heldId[s] : s \in Held}
           C == Cardinality(Game)
           P == Cardinality(Proc)
<1>1. /\ C \in Nat /\ P \in Nat /\ IsFiniteSet(Game) /\ IsFiniteSet(Proc)
      /\ IsFiniteSet(Game \X Proc) /\ Cardinality(Game \X Proc) = C * P
      BY CatalogAssumption, FS_CardinalityType, FS_Product
<1>2. IsFiniteSet(Listed) /\ Cardinality(Listed) \in Nat /\ Cardinality(Listed) < C
  <2>1. Listed \in SUBSET Game /\ Listed # Game
        OBVIOUS
  <2> HIDE DEF Listed
  <2> QED
        BY <1>1, <2>1, FS_Subset, FS_CardinalityType
<1>3. IsFiniteSet(Held) /\ Cardinality(Held) \in Nat /\ Cardinality(Held) <= C * P
  <2>1. Held \in SUBSET (Game \X Proc)
        OBVIOUS
  <2> HIDE DEF Held
  <2> QED
        BY <1>1, <2>1, FS_Subset, FS_CardinalityType
<1>4. IsFiniteSet(R) /\ Cardinality(R) \in Nat /\ Cardinality(R) <= Cardinality(Listed)
  <2>1. rowId \in Surjection(Listed, R)
        BY DEF Surjection
  <2> HIDE DEF Listed, R, rowId
  <2> QED
        BY <1>2, <2>1, FS_Surjection, FS_CardinalityType
<1>5. IsFiniteSet(T) /\ Cardinality(T) \in Nat /\ Cardinality(T) <= Cardinality(Held)
  <2>1. heldId \in Surjection(Held, T)
        BY DEF Surjection
  <2> HIDE DEF Held, T, heldId
  <2> QED
        BY <1>3, <2>1, FS_Surjection, FS_CardinalityType
<1>6. /\ IsFiniteSet(R \cup T) /\ Cardinality(R \cup T) \in Nat
      /\ Cardinality(R \cup T) < C + C * P
  <2> HIDE DEF Listed, Held, R, T, C, P
  <2>1. IsFiniteSet(R \cap T)
        BY <1>4, FS_Subset, R \cap T \in SUBSET R
  <2>2. Cardinality(R \cap T) \in Nat
        BY <2>1, FS_CardinalityType
  <2>3. /\ IsFiniteSet(R \cup T)
        /\ Cardinality(R \cup T) = Cardinality(R) + Cardinality(T) - Cardinality(R \cap T)
        BY <1>4, <1>5, FS_Union
  <2>4. C * P \in Nat
        BY <1>1
  <2>5. Cardinality(R \cup T) \in Nat
        BY <2>3, FS_CardinalityType
  <2> QED
        BY <1>1, <1>2, <1>3, <1>4, <1>5, <2>2, <2>3, <2>4, <2>5
<1>7. UsedId \subseteq R \cup T
  <2> SUFFICES ASSUME NEW i \in UsedId PROVE i \in R \cup T
      OBVIOUS
  <2>1. CASE i \in R
        BY <2>1
  <2>2. CASE \E q \in Proc : \E h \in DOMAIN tx[q].games : i = tx[q].games[h].id
    <3>1. PICK q \in Proc : \E h \in DOMAIN tx[q].games : i = tx[q].games[h].id
          BY <2>2
    <3>2. PICK h \in DOMAIN tx[q].games : i = tx[q].games[h].id
          BY <3>1
    <3>3. <<h, q>> \in Held /\ heldId[<<h, q>>] = i
          BY <3>2 DEF IInv, TxInv
    <3> QED
          BY <3>3
  <2> QED
        BY <2>1, <2>2 DEF UsedId
<1>8. IsFiniteSet(Id) /\ Cardinality(Id) = C + C * P
  <2> HIDE DEF C, P
  <2>1. C * (P + 1) = C + C * P /\ C * (P + 1) \in Nat
        BY <1>1
  <2>2. Id = 1 .. C * (P + 1)
        BY DEF Id, C, P
  <2> QED
        BY <2>1, <2>2, FS_Interval
<1> SUFFICES ASSUME Id \subseteq UsedId PROVE FALSE
    OBVIOUS
<1> HIDE DEF R, T, C, P
<1>9. Id \in SUBSET (R \cup T)
      BY <1>7
<1>10. Cardinality(Id) <= Cardinality(R \cup T)
      BY <1>6, <1>9, FS_Subset
<1> QED
      BY <1>1, <1>6, <1>8, <1>10

LEMMA FreshIdIsNew ==
    ASSUME IInv, NEW g \in Game, games[g] = NoRow
    PROVE  FreshId \in Id /\ \A h \in Game : ~HasId(h, FreshId)
<1>1. \E i \in Id \ UsedId : \A j \in Id \ UsedId : i <= j
  <2>1. Id \ UsedId \in SUBSET Nat
        BY CatalogAssumption, FS_CardinalityType DEF Id
  <2> QED
        BY <2>1, IdLeft, Least
<1>2. FreshId \in Id \ UsedId
  <2> DEFINE S == Id \ UsedId
  <2>1. (CHOOSE i \in S : \A j \in S : i <= j) \in S
        BY <1>1
  <2> QED
        BY <2>1 DEF FreshId
<1>3. \A h \in Game : \A i : HasId(h, i) => i \in UsedId
      BY DEF HasId, UsedId
<1> QED
      BY <1>2, <1>3

-----------------------------------------------------------------------------
(* The statements of ImportGames.                                          *)

\* What is stored next.
LEMMA HeadGiven ==
    ASSUME IInv, NEW p \in Proc, pc[p] \in {"game", "tag", "links"}
    PROVE  Head(fetched[p]) \in Given(p) /\ Tail(fetched[p]) \in Seq(Given(p))
<1>1. fetched[p] \in Seq(Given(p)) /\ fetched[p] # << >>
      BY DEF IInv, FetchedInv
<1> HIDE DEF Given
<1> QED
      BY <1>1, HeadTailProperties

\* The id an upsert returns: the row's own, or one that nobody has.
LEMMA UpsertedIdIs ==
    ASSUME IInv, NEW g \in Game
    PROVE  /\ UpsertedId(g) \in Id
           /\ games[g] # NoRow => UpsertedId(g) = games[g].id
           /\ games[g] = NoRow => \A h \in Game : ~HasId(h, UpsertedId(g))
<1>1. games[g] # NoRow => games[g] \in Row
      BY DEF IInv, TableInv
<1> QED
      BY <1>1, RowTypes, FreshIdIsNew DEF UpsertedId

LEMMA UpsertGameStep == ASSUME IInv, NEW p \in Proc, UpsertGame(p) PROVE IInv'
<1>1. /\ pc[p] = "game" /\ ~Blocked(p)
      /\ UNCHANGED <<upstream, published, games, links, asked, fetched, answer, before>>
      BY DEF UpsertGame, At
<1>2. PICK f : f = Head(fetched[p])
      OBVIOUS
<1>3. PICK g : g = f.game
      OBVIOUS
<1>4. PICK row : row = [id |-> UpsertedId(g), version |-> f.version]
      OBVIOUS
<1>5. /\ f \in Given(p) /\ g \in Game /\ f.version \in 0 .. MaxVersion
      /\ f.tags \in Seq(Tag) /\ before[p][g] <= f.version
      BY <1>1, <1>2, <1>3, HeadGiven, GivenTypes
<1>5a. /\ row \in Row /\ row.version = f.version /\ row.id = UpsertedId(g)
      BY <1>4, <1>5, UpsertedIdIs DEF Row
<1>6. /\ tx'[p].games = With(tx[p].games, g, row)
      /\ tx'[p].links = tx[p].links /\ tx'[p].tags = tx[p].tags
      /\ tx'[p] = [games |-> tx'[p].games, links |-> tx'[p].links, tags |-> tx'[p].tags]
      /\ \A q \in Proc \ {p} : tx'[q] = tx[q]
  <2>1. tx[p] = [games |-> tx[p].games, links |-> tx[p].links, tags |-> tx[p].tags]
        BY DEF IInv, TxInv
  <2>2. tx' = [tx EXCEPT ![p].games = With(tx[p].games, g, row)]
        BY <1>2, <1>3, <1>4 DEF UpsertGame, IInv, Shape
  <2>3. tx'[p] = [tx[p] EXCEPT !.games = With(tx[p].games, g, row)]
        BY <2>2 DEF IInv, Shape
  <2>4. tx'[p] = [games |-> With(tx[p].games, g, row), links |-> tx[p].links,
                  tags |-> tx[p].tags]
        BY <2>1, <2>3
  <2> QED
        BY <2>2, <2>4
<1>7. /\ DOMAIN tx'[p].games = DOMAIN tx[p].games \cup {g}
      /\ tx'[p].games[g] = row
      /\ \A h \in DOMAIN tx[p].games \ {g} : tx'[p].games[h] = tx[p].games[h]
      BY <1>6 DEF With
<1>8. /\ todo'[p] = f.tags /\ pc'[p] = IF f.tags = << >> THEN "links" ELSE "tag"
      BY <1>2 DEF UpsertGame, IInv, Shape, NextPhase
<1>9. Moves(p)
      BY DEF UpsertGame, IInv, Shape, Moves, Locals, Phase, NextPhase
<1>10. Given(p)' = Given(p)
      BY <1>1 DEF Given
<1>11. FetchedInv(p)'
  <2>1. FetchedInv(p) /\ pc'[p] \in {"links", "tag"} /\ pc'[p] \in Phase /\ pc'[p] \in InTx
        BY <1>8 DEF IInv, Phase, InTx
  <2> HIDE DEF Given
  <2> QED
        BY <1>1, <1>5, <1>8, <1>10, <2>1 DEF FetchedInv
<1>12. TxInv(p)'
  <2>1. TxInv(p)
        BY DEF IInv
  <2>2. Pending(p, g)'
        BY <1>1, <1>2, <1>3, <1>5a, <1>7, <1>8 DEF Pending
  <2>3. \A h \in DOMAIN tx[p].games : Complete(p, h)
        BY <1>1, <2>1 DEF TxInv, Pending
  <2>4. \A h \in DOMAIN tx[p].games \ {g} : Complete(p, h)'
        BY <1>1, <1>6, <1>7, <2>3 DEF Complete, IsAnswer
  <2>5. \A h \in DOMAIN tx'[p].games :
            /\ tx'[p].games[h] \in Row
            /\ before'[p][h] <= tx'[p].games[h].version
            /\ Pending(p, h)' \/ Complete(p, h)'
    <3>1. \A h \in DOMAIN tx[p].games :
              tx[p].games[h] \in Row /\ before[p][h] <= tx[p].games[h].version
          BY <2>1 DEF TxInv
    <3> QED
          BY <1>1, <1>5, <1>5a, <1>7, <2>2, <2>4, <3>1
  <2>6. /\ pc'[p] \in InTx /\ Head(fetched'[p]).game \in DOMAIN tx'[p].games
        /\ Pending(p, Head(fetched[p]).game)'
        BY <1>1, <1>2, <1>3, <1>7, <1>8, <2>2 DEF InTx, Pending
  <2>7. /\ DOMAIN tx'[p].games \subseteq Game
        /\ \A h \in DOMAIN tx'[p].links :
              h \in DOMAIN tx'[p].games /\ tx'[p].links[h] \subseteq Tag
        BY <1>5, <1>6, <1>7, <2>1 DEF TxInv
  <2> QED
        BY <1>6, <2>5, <2>6, <2>7 DEF TxInv
<1>13. UpstreamInv' /\ \A q \in Proc : FetchedInv(q)' /\ TxInv(q)'
      BY <1>1, <1>9, <1>11, <1>12, OneMoves
<1>14. \A q \in Proc \ {p} : g \notin DOMAIN tx[q].games
      BY <1>1, <1>2, <1>3 DEF Blocked, WaitsFor, At
<1>15. HeldInv'
      BY <1>6, <1>7, <1>14 DEF IInv, HeldInv
<1>16. IdInv'
  <2>1. games[g] # NoRow => games[g].id = row.id
        BY <1>5, <1>5a, UpsertedIdIs
  <2> QED
        BY <1>1, <1>6, <1>7, <2>1 DEF IInv, IdInv
<1>17. UniqueInv'
  <2>1. \A h \in Game : \A i : HasId(h, i)' => HasId(h, i) \/ (h = g /\ i = row.id)
    <3>1. SUFFICES ASSUME NEW h \in Game, NEW i, HasId(h, i)'
                   PROVE  HasId(h, i) \/ (h = g /\ i = row.id)
          OBVIOUS
    <3>2. CASE games[h] # NoRow /\ games[h].id = i
          BY <3>2 DEF HasId
    <3>3. CASE \E q \in Proc : h \in DOMAIN tx'[q].games /\ tx'[q].games[h].id = i
      <4>1. PICK q \in Proc : h \in DOMAIN tx'[q].games /\ tx'[q].games[h].id = i
            BY <3>3
      <4>2. CASE q = p /\ h = g
            BY <1>7, <4>1, <4>2
      <4>3. CASE q # p \/ h # g
            BY <1>6, <1>7, <4>1, <4>3 DEF HasId
      <4> QED
            BY <4>2, <4>3
    <3> QED
          BY <1>1, <3>1, <3>2, <3>3 DEF HasId
  <2>2. \A h \in Game : HasId(h, row.id) => h = g
    <3>1. CASE games[g] = NoRow
          BY <1>5, <1>5a, <3>1, UpsertedIdIs
    <3>2. CASE games[g] # NoRow
      <4>1. row.id \in Id /\ HasId(g, row.id)
            BY <1>5, <1>5a, <3>2, UpsertedIdIs DEF HasId
      <4> QED
            BY <1>5, <4>1 DEF IInv, UniqueInv
    <3> QED
          BY <3>1, <3>2
  <2> QED
        BY <1>5, <2>1, <2>2 DEF IInv, UniqueInv
<1>18. TableInv' /\ AnswerInv' /\ WholeImports'
      BY <1>1 DEF IInv, TableInv, AnswerInv, WholeImports
<1> QED
      BY <1>9, <1>13, <1>15, <1>16, <1>17, <1>18 DEF IInv, Moves

LEMMA UpsertTagStep == ASSUME IInv, NEW p \in Proc, UpsertTag(p) PROVE IInv'
<1>1. /\ pc[p] = "tag" /\ pc'[p] = NextPhase(Tail(todo[p]))
      /\ todo'[p] = Tail(todo[p])
      /\ UNCHANGED <<upstream, published, games, links, asked, fetched, answer, before>>
      BY DEF UpsertTag, At, IInv, Shape
<1>2. todo[p] \in Seq(Tag) /\ todo[p] # << >>
      BY <1>1 DEF IInv, FetchedInv
<1>3. Head(todo[p]) \in Tag /\ Tail(todo[p]) \in Seq(Tag)
      BY <1>2, HeadTailProperties
<1>4. /\ pc'[p] \in {"links", "tag"} /\ (pc'[p] = "tag" => todo'[p] # << >>)
      BY <1>1 DEF NextPhase
<1>5. /\ tx'[p] = [games |-> tx[p].games, links |-> tx[p].links,
                   tags |-> tx[p].tags \cup {Head(todo[p])}]
      /\ \A q \in Proc \ {p} : tx'[q] = tx[q]
  <2>1. tx[p] = [games |-> tx[p].games, links |-> tx[p].links, tags |-> tx[p].tags]
        BY DEF IInv, TxInv
  <2>2. tx' = [tx EXCEPT ![p].tags = tx[p].tags \cup {Head(todo[p])}]
        BY DEF UpsertTag, IInv, Shape
  <2>3. tx'[p] = [tx[p] EXCEPT !.tags = tx[p].tags \cup {Head(todo[p])}]
        BY <2>2 DEF IInv, Shape
  <2> QED
        BY <2>1, <2>2, <2>3
<1>6. Moves(p)
      BY DEF UpsertTag, IInv, Shape, Moves, Locals, Phase, NextPhase
<1>7. Given(p)' = Given(p)
      BY <1>1 DEF Given
<1>8. FetchedInv(p)'
  <2>1. FetchedInv(p) /\ pc'[p] \in Phase /\ pc'[p] \in InTx
        BY <1>4 DEF IInv, Phase, InTx
  <2> HIDE DEF Given
  <2> QED
        BY <1>1, <1>3, <1>4, <1>7, <2>1 DEF FetchedInv
<1>9. TxInv(p)'
  <2>1. \A g : Pending(p, g) => Pending(p, g)'
        BY <1>1, <1>4, <1>5 DEF Pending
  <2>2. \A g : Complete(p, g) => Complete(p, g)'
        BY <1>1, <1>5 DEF Complete, IsAnswer
  <2>3. TxInv(p)
        BY DEF IInv
  <2>4. /\ tx'[p].games = tx[p].games /\ tx'[p].links = tx[p].links
        /\ tx'[p] = [games |-> tx'[p].games, links |-> tx'[p].links,
                     tags |-> tx'[p].tags]
        BY <1>5
  <2> QED
        BY <1>1, <1>4, <2>1, <2>2, <2>3, <2>4 DEF TxInv, InTx
<1>10. AnswerInv'
      BY <1>1, AnswersHold
<1> QED
      BY <1>1, <1>5, <1>6, <1>8, <1>9, <1>10, QuietStep

LEMMA ReplaceLinksStep == ASSUME IInv, NEW p \in Proc, ReplaceLinks(p) PROVE IInv'
<1>1. /\ pc[p] = "links" /\ fetched'[p] = Tail(fetched[p])
      /\ pc'[p] = IF Tail(fetched[p]) = << >> THEN "commit" ELSE "game"
      /\ UNCHANGED <<upstream, published, games, links, asked, todo, answer, before>>
      BY DEF ReplaceLinks, At, IInv, Shape
<1>2. PICK f : f = Head(fetched[p])
      OBVIOUS
<1>3. PICK g : g = f.game
      OBVIOUS
<1>4. /\ f \in Given(p) /\ Tail(fetched[p]) \in Seq(Given(p))
      /\ Range(f.tags) \subseteq Tag /\ IsAnswer(g, f.version, Range(f.tags))
      BY <1>1, <1>2, <1>3, HeadGiven, GivenTypes
<1>5. /\ tx'[p] = [games |-> tx[p].games, links |-> With(tx[p].links, g, Range(f.tags)),
                   tags |-> tx[p].tags]
      /\ \A q \in Proc \ {p} : tx'[q] = tx[q]
  <2>1. tx[p] = [games |-> tx[p].games, links |-> tx[p].links, tags |-> tx[p].tags]
        BY DEF IInv, TxInv
  <2>2. tx' = [tx EXCEPT ![p].links = With(tx[p].links, g, Range(f.tags))]
        BY <1>2, <1>3 DEF ReplaceLinks, NewLinks, IInv, Shape
  <2>3. tx'[p] = [tx[p] EXCEPT !.links = With(tx[p].links, g, Range(f.tags))]
        BY <2>2 DEF IInv, Shape
  <2> QED
        BY <2>1, <2>2, <2>3
<1>6. /\ DOMAIN tx'[p].links = DOMAIN tx[p].links \cup {g}
      /\ tx'[p].links[g] = Range(f.tags) /\ tx'[p].games = tx[p].games
      /\ \A h \in DOMAIN tx[p].links \ {g} : tx'[p].links[h] = tx[p].links[h]
      BY <1>5 DEF With
<1>7. Moves(p)
      BY DEF ReplaceLinks, IInv, Shape, Moves, Locals, Phase
<1>8. Given(p)' = Given(p)
      BY <1>1 DEF Given
<1>9. FetchedInv(p)'
  <2>1. /\ FetchedInv(p) /\ pc'[p] \in Phase /\ pc'[p] \in InTx
        /\ pc'[p] \in {"commit", "game"} /\ (pc'[p] = "game" => fetched'[p] # << >>)
        BY <1>1 DEF IInv, Phase, InTx
  <2> HIDE DEF Given
  <2> QED
        BY <1>1, <1>4, <1>8, <2>1 DEF FetchedInv
<1>10. TxInv(p)'
  <2>1. TxInv(p)
        BY DEF IInv
  <2>2. g \in DOMAIN tx[p].games /\ tx[p].games[g].version = f.version
        BY <1>1, <1>2, <1>3, <2>1 DEF TxInv, Pending
  <2>3. Complete(p, g)'
        BY <1>1, <1>4, <1>6, <2>2 DEF Complete, IsAnswer
  <2>4. \A h \in DOMAIN tx[p].games \ {g} : Complete(p, h)
        BY <1>2, <1>3, <2>1 DEF TxInv, Pending
  <2>5. \A h \in DOMAIN tx[p].games \ {g} : Complete(p, h)'
        BY <1>1, <1>6, <2>4 DEF Complete, IsAnswer
  <2>6. \A h \in DOMAIN tx'[p].games :
            /\ tx'[p].games[h] \in Row
            /\ before'[p][h] <= tx'[p].games[h].version
            /\ Complete(p, h)'
    <3>1. \A h \in DOMAIN tx[p].games :
              tx[p].games[h] \in Row /\ before[p][h] <= tx[p].games[h].version
          BY <2>1 DEF TxInv
    <3> QED
          BY <1>1, <1>6, <2>3, <2>5, <3>1
  <2>7. /\ DOMAIN tx'[p].games \subseteq Game
        /\ \A h \in DOMAIN tx'[p].links :
              h \in DOMAIN tx'[p].games /\ tx'[p].links[h] \subseteq Tag
        BY <1>4, <1>6, <2>1, <2>2 DEF TxInv
  <2>8. pc'[p] \in {"commit", "game"}
        BY <1>1
  <2>9. tx'[p] = [games |-> tx'[p].games, links |-> tx'[p].links, tags |-> tx'[p].tags]
        BY <1>5
  <2> QED
        BY <2>6, <2>7, <2>8, <2>9 DEF TxInv, InTx
<1>11. AnswerInv'
      BY <1>1, AnswersHold
<1> QED
      BY <1>1, <1>6, <1>7, <1>9, <1>10, <1>11, QuietStep

\* What a commit makes visible.
LEMMA Committed ==
    ASSUME IInv, NEW p \in Proc, Commit(p)
    PROVE  /\ pc[p] = "commit" /\ UNCHANGED <<upstream, published>>
           /\ Finish(p, [g \in DOMAIN tx[p].games |-> tx[p].games[g].id])
           /\ \A g \in DOMAIN tx[p].games :
                 /\ g \in Game /\ Complete(p, g)
                 /\ games'[g] = tx[p].games[g] /\ games'[g] \in Row /\ games'[g] # NoRow
                 /\ links'[g] = tx[p].links[g] /\ links'[g] \subseteq Tag
           /\ \A g \in Game \ DOMAIN tx[p].games :
                 games'[g] = games[g] /\ links'[g] = links[g]
           /\ DOMAIN games' = Game /\ DOMAIN links' = Game
<1>1. pc[p] = "commit" /\ TxInv(p)
      BY DEF Commit, At, IInv
<1>2. \A g \in DOMAIN tx[p].games : g \in Game /\ tx[p].games[g] \in Row /\ Complete(p, g)
      BY <1>1 DEF TxInv, Pending
<1>3. \A g \in DOMAIN tx[p].links : g \in DOMAIN tx[p].games /\ tx[p].links[g] \subseteq Tag
      BY <1>1 DEF TxInv
<1>4. \A g \in DOMAIN tx[p].games : tx[p].games[g] # NoRow
      BY <1>2, RowTypes
<1>5. \A g \in DOMAIN tx[p].games :
          games'[g] = tx[p].games[g] /\ links'[g] = tx[p].links[g]
      BY <1>2 DEF Commit, Complete
<1>6. \A g \in Game \ DOMAIN tx[p].games : games'[g] = games[g] /\ links'[g] = links[g]
      BY <1>3 DEF Commit
<1>7. \A g \in DOMAIN tx[p].games : links'[g] \subseteq Tag
      BY <1>2, <1>3, <1>5 DEF Complete
<1> QED
      BY <1>1, <1>2, <1>4, <1>5, <1>6, <1>7 DEF Commit

LEMMA CommitStep == ASSUME IInv, NEW p \in Proc, Commit(p) PROVE IInv'
<1> DEFINE ids == [g \in DOMAIN tx[p].games |-> tx[p].games[g].id]
<1>1. Finish(p, ids) /\ UNCHANGED <<upstream, published>>
      BY Committed
<1>2. /\ Moves(p) /\ answer'[p] = ids /\ tx'[p] = NoTx
      /\ \A q \in Proc \ {p} : tx'[q] = tx[q] /\ answer'[q] = answer[q]
      BY <1>1, Finished
<1>3. Onward
      BY <1>1, StillOnward DEF IInv
<1>4. UpstreamInv' /\ \A q \in Proc : FetchedInv(q)' /\ TxInv(q)'
      BY <1>1, <1>2, <1>3, FinishedInv, OneMoves
<1>5. DOMAIN tx'[p].games = {}
      BY <1>2, Nothing DEF NoTx
<1>6. \A g \in DOMAIN tx[p].games : g \in Game /\ games'[g] = tx[p].games[g]
      BY Committed
<1>7. \A g \in Game \ DOMAIN tx[p].games : games'[g] = games[g]
      BY Committed
<1>8. TableInv'
  <2>1. \A g \in Game : games'[g] \in Row \cup {NoRow} /\ links'[g] \subseteq Tag
        BY Committed DEF IInv, TableInv
  <2>2. games' = [g \in Game |-> games'[g]] /\ links' = [g \in Game |-> links'[g]]
        BY DEF Commit
  <2> QED
        BY <2>1, <2>2 DEF TableInv
<1>9. HeldInv'
      BY <1>2, <1>5 DEF IInv, HeldInv
<1>10. IdInv'
  <2> SUFFICES ASSUME NEW q \in Proc, NEW g \in DOMAIN tx'[q].games, games'[g] # NoRow
               PROVE  games'[g].id = tx'[q].games[g].id
      BY DEF IdInv
  <2>1. q # p /\ tx'[q] = tx[q] /\ g \in DOMAIN tx[q].games
        BY <1>2, <1>5
  <2>2. g \in Game \ DOMAIN tx[p].games
        BY <2>1 DEF IInv, HeldInv, TxInv
  <2> QED
        BY <1>7, <2>1, <2>2 DEF IInv, IdInv
<1>11. UniqueInv'
  <2>1. ASSUME NEW g \in Game, NEW i, HasId(g, i)' PROVE HasId(g, i)
    <3>1. CASE \E q \in Proc : g \in DOMAIN tx'[q].games /\ tx'[q].games[g].id = i
          BY <1>2, <1>5, <3>1 DEF HasId
    <3>2. CASE games'[g] # NoRow /\ games'[g].id = i
          BY <1>6, <1>7, <3>2 DEF HasId
    <3> QED
          BY <2>1, <3>1, <3>2 DEF HasId
  <2> QED
        BY <2>1 DEF IInv, UniqueInv
<1>12. AnswerInv'
  <2>1. ASSUME NEW q \in Proc \ {p}, NEW g \in DOMAIN answer[q]
        PROVE  g \in Game /\ games'[g] # NoRow /\ games'[g].id = answer[q][g]
    <3>1. g \in Game /\ games[g] # NoRow /\ games[g].id = answer[q][g]
          BY DEF IInv, AnswerInv
    <3>2. CASE g \in DOMAIN tx[p].games
      <4>1. games'[g] # NoRow
            BY <3>2, Committed
      <4>2. games'[g].id = games[g].id
            BY <1>6, <3>1, <3>2 DEF IInv, IdInv
      <4> QED
            BY <3>1, <4>1, <4>2
    <3>3. CASE g \notin DOMAIN tx[p].games
          BY <1>7, <3>1, <3>3
    <3> QED
          BY <3>2, <3>3
  <2>2. ASSUME NEW g \in DOMAIN ids
        PROVE  g \in Game /\ games'[g] # NoRow /\ games'[g].id = ids[g]
        BY Committed
  <2> HIDE DEF ids
  <2> QED
        BY <1>2, <2>1, <2>2 DEF AnswerInv
<1>13. WholeImports'
  <2> SUFFICES ASSUME NEW g \in Game
               PROVE  IF games'[g] = NoRow THEN links'[g] = {}
                      ELSE IsAnswer(g, games'[g].version, links'[g])
      BY <1>1 DEF WholeImports, IsAnswer
  <2>1. CASE g \in DOMAIN tx[p].games
        BY <2>1, Committed DEF Complete
  <2>2. CASE g \notin DOMAIN tx[p].games
    <3>1. games'[g] = games[g] /\ links'[g] = links[g]
          BY <2>2, Committed
    <3> QED
          BY <3>1 DEF IInv, WholeImports, IsAnswer
  <2> QED
        BY <2>1, <2>2
<1> QED
      BY <1>2, <1>4, <1>8, <1>9, <1>10, <1>11, <1>12, <1>13 DEF IInv, Moves

-----------------------------------------------------------------------------
(* The theorems.                                                           *)

LEMMA NextIInv == IInv /\ [Next]_vars => IInv'
<1> SUFFICES ASSUME IInv, [Next]_vars PROVE IInv'
    OBVIOUS
<1>1. CASE \E g \in Game, list \in TagLists : Edit(g, list)
      BY <1>1, EditStep
<1>2. ASSUME NEW p \in Proc, NEW g \in Game, ImportIGDBGames(p, g) PROVE IInv'
      BY <1>2, StartStep DEF ImportIGDBGames
<1>3. ASSUME NEW p \in Proc, Backfill(p) PROVE IInv'
      BY <1>3, StartStep DEF Backfill
<1>4. ASSUME NEW p \in Proc, Statement(p) PROVE IInv'
      BY <1>4, KnownStep, FetchStep, UpsertGameStep, UpsertTagStep, ReplaceLinksStep,
         CommitStep, FailsStep DEF Statement
<1>5. CASE UNCHANGED vars
  <2>1. Onward
        BY <1>5, StillOnward DEF vars, IInv
  <2>2. UpstreamInv' /\ Shape' /\ TxKept
        BY <1>5 DEF vars, IInv, UpstreamInv, Shape, TxKept
  <2>3. \A p \in Proc : FetchedInv(p)' /\ TxInv(p)'
        BY <1>5, <2>1, OthersStay DEF vars, IInv, Locals
  <2>4. TableInv' /\ HeldInv' /\ IdInv' /\ UniqueInv' /\ WholeImports'
        BY <1>5, <2>1, <2>2, QuietTables DEF vars
  <2>5. AnswerInv'
        BY <1>5 DEF vars, IInv, AnswerInv
  <2> QED
        BY <2>2, <2>3, <2>4, <2>5 DEF IInv
<1> QED
      BY <1>1, <1>2, <1>3, <1>4, <1>5 DEF Next

\* IInv holds in every reachable state: it is what the theorems rest on.
LEMMA Invariance == Spec => []IInv
BY InitIInv, NextIInv, PTL DEF Spec

\* The types; and the identity column never gives two games one id, since an open
\* upsert holds its row (ImportGames).
THEOREM TypeCorrect == Spec => []TypeOK
<1>1. IInv => TypeOK
  <2> SUFFICES ASSUME IInv PROVE TypeOK
      OBVIOUS
  <2>1. upstream \in [Game -> [version : 0 .. MaxVersion, tags : TagLists]]
        BY DEF IInv, UpstreamInv, Answer
  <2>2. games \in [Game -> Row \cup {NoRow}] /\ links \in [Game -> SUBSET Tag]
        BY DEF IInv, TableInv
  <2>3. \A g, h \in Game : games[g] # NoRow /\ games[h] # NoRow /\ g # h =>
                               games[g].id # games[h].id
    <3> SUFFICES ASSUME NEW g \in Game, NEW h \in Game, games[g] # NoRow,
                        games[h] # NoRow, games[g].id = games[h].id
                 PROVE  g = h
        OBVIOUS
    <3>1. games[g].id \in Id
          BY <2>2, RowTypes
    <3>2. HasId(g, games[g].id) /\ HasId(h, games[g].id)
          BY DEF HasId
    <3> QED
          BY <3>1, <3>2 DEF IInv, UniqueInv
  <2>4. pc \in [Proc -> {"idle", "known", "fetch", "refetch", "game", "tag", "links",
                         "commit"}]
        BY DEF IInv, Shape, Phase
  <2>5. asked \in [Proc -> SUBSET Game]
        BY DEF IInv, Shape
  <2>6. ASSUME NEW p \in Proc
        PROVE  /\ Range(fetched[p]) \subseteq Fetched
               /\ Range(todo[p]) \subseteq Tag
               /\ Range(tx[p].games) \subseteq Row
               /\ Range(answer[p]) \subseteq Id
               /\ before[p] \in [Game -> 0 .. MaxVersion]
    <3>1. fetched[p] \in Seq(Fetched) /\ todo[p] \in Seq(Tag)
      <4>1. Given(p) \subseteq Fetched
            BY DEF Given
      <4>2. fetched[p] \in Seq(Given(p)) /\ todo[p] \in Seq(Tag)
            BY DEF IInv, FetchedInv
      <4> HIDE DEF Given
      <4> QED
            BY <4>1, <4>2, SeqMore
    <3>2. Range(fetched[p]) \subseteq Fetched /\ Range(todo[p]) \subseteq Tag
          BY <3>1, LenProperties DEF Range
    <3>3. Range(tx[p].games) \subseteq Row
          BY DEF IInv, TxInv, Range
    <3>4. \A g \in DOMAIN answer[p] : answer[p][g] \in Id
          BY <2>2, RowTypes DEF IInv, AnswerInv
    <3>5. Range(answer[p]) \subseteq Id
          BY <3>4 DEF Range
    <3> QED
          BY <3>2, <3>3, <3>5 DEF IInv, FetchedInv
  <2> QED
        BY <2>1, <2>2, <2>3, <2>4, <2>5, <2>6 DEF TypeOK
<1> QED
      BY <1>1, Invariance, PTL

\* What is stored of a game is one answer of IGDB, its columns and the tags that
\* came with them (ImportGames, one transaction).
THEOREM ImportsAreWhole == Spec => []WholeImports
<1>1. IInv => WholeImports
      BY DEF IInv
<1> QED
      BY <1>1, Invariance, PTL

\* An id that was handed out is that of its game's row for good: importing it
\* again updates the row in place (ImportGames, ON CONFLICT DO UPDATE).
THEOREM IdsHold == Spec => []AnsweredIdsHold
<1>1. IInv => AnsweredIdsHold
      BY DEF IInv, AnswerInv, AnsweredIdsHold
<1> QED
      BY <1>1, Invariance, PTL

\* No import stores what is older than its beginning (importIGDBGames,
\* cmd/backfill).
THEOREM StoresAreFresh == Spec => NeverBehindItsStart
<1>1. ASSUME IInv, Next, NEW p \in Proc, At(p, "commit"), pc'[p] = "idle",
             NEW g \in DOMAIN tx[p].games, games'[g] # games[g]
      PROVE  games'[g].version >= before[p][g]
  <2>1. PICK q \in Proc : Commit(q)
        BY <1>1 DEF Next, Edit, ImportIGDBGames, Backfill, Start, Statement,
           GamesByIGDBIDs, GetByIDs, FetchMissing, FetchAll, Fetch, UpsertGame, UpsertTag,
           ReplaceLinks, Fails
  <2>2. q = p
    <3>1. Moves(q)
          BY <1>1, <2>1, Committed, Finished
    <3> QED
          BY <1>1, <3>1 DEF Moves, Locals, At
  <2>3. games'[g] = tx[p].games[g]
        BY <1>1, <2>1, <2>2, Committed
  <2>4. before[p][g] <= tx[p].games[g].version
        BY <1>1 DEF IInv, TxInv
  <2>5. before[p][g] \in 0 .. MaxVersion /\ tx[p].games[g].version \in 0 .. MaxVersion
        BY <1>1, RowTypes DEF IInv, TxInv, FetchedInv
  <2> QED
        BY <2>3, <2>4, <2>5, CatalogAssumption
<1>2. IInv /\ [Next]_vars =>
          [\A p \in Proc : At(p, "commit") /\ pc'[p] = "idle" =>
              \A g \in DOMAIN tx[p].games :
                  games'[g] # games[g] => games'[g].version >= before[p][g]]_vars
      BY <1>1
<1> QED
      BY <1>2, Invariance, PTL DEF Spec, NeverBehindItsStart

-----------------------------------------------------------------------------
(* Catalog implements CatalogTable.                                        *)

LEMMA CommitIsNext ==
    ASSUME IInv, IInv', NEW p \in Proc, Commit(p)
    PROVE  Table!Next
<1>1. games' \in [Game -> [id : Id, version : 0 .. MaxVersion] \cup {NoRow}]
      BY DEF IInv, TableInv, Row
<1>2. links' \in [Game -> SUBSET Tag]
      BY DEF IInv, TableInv
<1>3. ASSUME NEW g \in Game, games[g] # NoRow
      PROVE  games'[g] # NoRow /\ games'[g].id = games[g].id
  <2>1. CASE g \in DOMAIN tx[p].games
    <3>1. games'[g] = tx[p].games[g]
          BY <2>1 DEF Commit
    <3>2. tx[p].games[g] \in Row
          BY <2>1 DEF IInv, TxInv
    <3>3. tx[p].games[g] # NoRow
          BY <3>2, CatalogAssumption
    <3>4. games[g].id = tx[p].games[g].id
          BY <1>3, <2>1 DEF IInv, IdInv
    <3> QED
          BY <3>1, <3>3, <3>4
  <2>2. CASE g \notin DOMAIN tx[p].games
        BY <1>3, <2>2 DEF Commit
  <2> QED
        BY <2>1, <2>2
<1>4. ASSUME NEW g \in Game, NEW h \in Game, games'[g] # NoRow, games'[h] # NoRow,
             games'[g].id = games'[h].id
      PROVE  g = h
  <2>1. PICK i \in Id : games'[g].id = i
        BY <1>4 DEF IInv, TableInv, Row
  <2>2. HasId(g, i)' /\ HasId(h, i)'
        BY <1>4, <2>1 DEF HasId
  <2> QED
        BY <2>1, <2>2 DEF IInv, UniqueInv
<1>5. ASSUME NEW g \in Game, links'[g] # {}
      PROVE  games'[g] # NoRow
      BY <1>5 DEF IInv, WholeImports
<1> QED
      BY <1>1, <1>2, <1>3, <1>4, <1>5 DEF Table!Next, Table!StoredGames

\* To those who only read it the catalog is CatalogTable: rows appear and are
\* replaced in whole commits, and keep the ids that entries refer to.
THEOREM ImplementsCatalogTable == Spec => KeepsCatalogTable
<1>1. Init => Table!Init
      BY DEF Init, Table!Init
<1>2. IInv /\ IInv' /\ [Next]_vars => [Table!Next]_<<games, links>>
  <2> SUFFICES ASSUME IInv, IInv', [Next]_vars, ~UNCHANGED <<games, links>>
               PROVE  Table!Next
      OBVIOUS
  <2>1. \E p \in Proc : Commit(p)
        BY DEF Next, vars, Edit, ImportIGDBGames, Backfill, Start, Statement,
               GamesByIGDBIDs, GetByIDs, FetchMissing, FetchAll, Fetch, UpsertGame,
               UpsertTag, ReplaceLinks,
               Fails
  <2> QED
        BY <2>1, CommitIsNext
<1> QED
      BY <1>1, <1>2, Invariance, PTL DEF Spec, KeepsCatalogTable, Table!Spec

-----------------------------------------------------------------------------
(* What is read of a game is what IGDB answered last.                      *)

TagOf(facet, x) == [facet |-> facet, igdbId |-> x[1], name |-> x[2]]
TagsOf(facet, list) == {TagOf(facet, x) : x \in Range(list)}
Facet == {"genre", "theme", "game_mode"}
AnyTag == [facet : Facet, igdbId : Int, name : STRING]

LEMMA RangeOfConcat ==
    ASSUME NEW S, NEW s \in Seq(S), NEW t \in Seq(S)
    PROVE  Range(s \o t) = Range(s) \cup Range(t)
<1>1. DOMAIN s = 1 .. Len(s) /\ DOMAIN t = 1 .. Len(t)
        /\ DOMAIN (s \o t) = 1 .. Len(s) + Len(t)
        /\ Len(s) \in Nat /\ Len(t) \in Nat
      BY ConcatProperties
<1>2. ASSUME NEW x \in Range(s \o t) PROVE x \in Range(s) \cup Range(t)
  <2>1. PICK i \in 1 .. Len(s) + Len(t) : x = (s \o t)[i]
        BY <1>1 DEF Range
  <2>2. CASE i <= Len(s)
    <3>1. x = s[i] /\ i \in DOMAIN s
          BY <1>1, <2>1, <2>2, ConcatProperties
    <3> QED
          BY <3>1 DEF Range
  <2>3. CASE ~(i <= Len(s))
    <3>1. x = t[i - Len(s)] /\ i - Len(s) \in DOMAIN t
          BY <1>1, <2>1, <2>3, ConcatProperties
    <3> QED
          BY <3>1 DEF Range
  <2> QED
        BY <2>2, <2>3
<1>3. ASSUME NEW i \in DOMAIN s PROVE s[i] \in Range(s \o t)
  <2>1. i \in 1 .. Len(s) + Len(t) /\ i <= Len(s)
        BY <1>1
  <2>2. (s \o t)[i] = s[i] /\ i \in DOMAIN (s \o t)
        BY <1>1, <2>1, ConcatProperties
  <2> QED
        BY <2>2 DEF Range
<1>4. ASSUME NEW i \in DOMAIN t PROVE t[i] \in Range(s \o t)
  <2>1. i + Len(s) \in 1 .. Len(s) + Len(t) /\ ~(i + Len(s) <= Len(s))
          /\ i + Len(s) - Len(s) = i
        BY <1>1
  <2>2. (s \o t)[i + Len(s)] = t[i] /\ i + Len(s) \in DOMAIN (s \o t)
        BY <1>1, <2>1, ConcatProperties
  <2> QED
        BY <2>2 DEF Range
<1> QED
      BY <1>2, <1>3, <1>4 DEF Range

LEMMA ListTypes ==
    ASSUME NEW list \in ListOfTags
    PROVE  /\ list \in Seq(Int \X STRING)
           /\ Range(list) \subseteq Int \X STRING
           /\ \A x, y \in Range(list) : x[1] = y[1] => x = y
<1>1. list \in Seq(Int \X STRING) /\ IsInjective([i \in DOMAIN list |-> list[i][1]])
      BY RecordAssumption
<1>2. \A i, j \in DOMAIN list : list[i][1] = list[j][1] => i = j
      BY <1>1 DEF IsInjective
<1> QED
      BY <1>1, <1>2 DEF Range

LEMMA TaggedIs ==
    ASSUME NEW facet \in Facet, NEW list \in ListOfTags
    PROVE  Tagged(facet, list) \in Seq(AnyTag) /\ Range(Tagged(facet, list)) = TagsOf(facet, list)
<1>1. list \in Seq(Int \X STRING)
      BY ListTypes
<1>2. DOMAIN list = 1 .. Len(list) /\ Len(list) \in Nat
        /\ \A i \in DOMAIN list : list[i] \in Int \X STRING
      BY <1>1
<1>3. Tagged(facet, list) = [i \in DOMAIN list |-> TagOf(facet, list[i])]
      BY DEF Tagged, TagOf
<1>4. \A i \in DOMAIN list : TagOf(facet, list[i]) \in AnyTag
      BY <1>2 DEF TagOf, AnyTag
<1>5. Tagged(facet, list) \in Seq(AnyTag)
  <2>1. Tagged(facet, list) \in [1 .. Len(list) -> AnyTag]
        BY <1>2, <1>3, <1>4
  <2> QED
        BY <1>2, <2>1, SeqDef
<1> QED
      BY <1>3, <1>5 DEF Range, TagsOf

\* The tags of a row are those of the three lists, each with its facet, and no
\* two of them have the same key.
LEMMA TagsOfRow ==
    ASSUME NEW a \in ApiGame
    PROVE  LET T == Range(FromIGDB(Decode(a)).tags) IN
           /\ T = TagsOf("genre", a.genres) \cup TagsOf("theme", a.themes)
                    \cup TagsOf("game_mode", a.game_modes)
           /\ \A t, u \in T : Key(t) = Key(u) => t = u
<1> DEFINE G == Tagged("genre", a.genres)
           H == Tagged("theme", a.themes)
           M == Tagged("game_mode", a.game_modes)
<1>1. a.genres \in ListOfTags /\ a.themes \in ListOfTags /\ a.game_modes \in ListOfTags
      BY DEF ApiGame
<1>2. FromIGDB(Decode(a)).tags = G \o H \o M
      BY DEF FromIGDB, Decode
<1>3. G \in Seq(AnyTag) /\ H \in Seq(AnyTag) /\ M \in Seq(AnyTag)
  <2>1. "genre" \in Facet /\ "theme" \in Facet /\ "game_mode" \in Facet
        BY DEF Facet
  <2> QED
        BY <1>1, <2>1, TaggedIs
<1>4. G \o H \in Seq(AnyTag)
      BY <1>3, ConcatProperties
<1>5. Range(G \o H \o M) = Range(G) \cup Range(H) \cup Range(M)
  <2> HIDE DEF G, H, M
  <2>1. Range((G \o H) \o M) = Range(G \o H) \cup Range(M)
        BY <1>3, <1>4, RangeOfConcat, ZenonT(30)
  <2>2. Range(G \o H) = Range(G) \cup Range(H)
        BY <1>3, RangeOfConcat
  <2> QED
        BY <2>1, <2>2
<1>6. Range(G \o H \o M) = TagsOf("genre", a.genres) \cup TagsOf("theme", a.themes)
                             \cup TagsOf("game_mode", a.game_modes)
  <2>1. "genre" \in Facet /\ "theme" \in Facet /\ "game_mode" \in Facet
        BY DEF Facet
  <2> QED
        BY <1>1, <1>5, <2>1, TaggedIs
<1>7. ASSUME NEW f, NEW l \in ListOfTags, NEW h, NEW m \in ListOfTags,
             f = h => l = m,
             NEW t \in TagsOf(f, l), NEW u \in TagsOf(h, m), Key(t) = Key(u)
      PROVE  t = u
  <2>1. PICK x \in Range(l) : t = TagOf(f, x)
        BY DEF TagsOf
  <2>2. PICK y \in Range(m) : u = TagOf(h, y)
        BY DEF TagsOf
  <2>3. f = h /\ x[1] = y[1]
        BY <1>7, <2>1, <2>2 DEF Key, TagOf
  <2>4. x = y
        BY <1>7, <2>3, ListTypes
  <2> QED
        BY <2>1, <2>2, <2>3, <2>4
<1>8. ASSUME NEW t \in Range(G \o H \o M), NEW u \in Range(G \o H \o M), Key(t) = Key(u)
      PROVE  t = u
  <2>1. \E f \in {"genre", "theme", "game_mode"} :
          t \in TagsOf(f, IF f = "genre" THEN a.genres
                          ELSE IF f = "theme" THEN a.themes ELSE a.game_modes)
        BY <1>6
  <2>2. \E f \in {"genre", "theme", "game_mode"} :
          u \in TagsOf(f, IF f = "genre" THEN a.genres
                          ELSE IF f = "theme" THEN a.themes ELSE a.game_modes)
        BY <1>6
  <2> DEFINE L(f) == IF f = "genre" THEN a.genres
                     ELSE IF f = "theme" THEN a.themes ELSE a.game_modes
  <2>3. \A f : L(f) \in ListOfTags
        BY <1>1
  <2>4. PICK f \in {"genre", "theme", "game_mode"} : t \in TagsOf(f, L(f))
        BY <2>1
  <2>5. PICK h \in {"genre", "theme", "game_mode"} : u \in TagsOf(h, L(h))
        BY <2>2
  <2> HIDE DEF L
  <2> QED
        BY <1>7, <1>8, <2>3, <2>4, <2>5
<1> QED
      BY <1>2, <1>6, <1>8

\* What is linked after an import is what the answer's tags are, whatever was
\* stored of them before.
LEMMA LinkedTags ==
    ASSUME NEW a \in ApiGame, NEW db, NEW f
    PROVE  Split(ImportGame(db, FromIGDB(Decode(a))), f)
             = {<<t.igdbId, t.name>> :
                   t \in {t \in Range(FromIGDB(Decode(a)).tags) : t.facet = f}}
<1> DEFINE g == FromIGDB(Decode(a))
           T == Range(g.tags)
           after == ImportGame(db, g)
           keys == {Key(g.tags[i]) : i \in DOMAIN g.tags}
<1>1. \A t, u \in T : Key(t) = Key(u) => t = u
      BY TagsOfRow
<1>2. keys = {Key(t) : t \in T}
      BY DEF Range
<1>3. after.links = keys
      BY DEF ImportGame
<1>4. ASSUME NEW k \in keys PROVE after.tags[k] \in T /\ Key(after.tags[k]) = k
  <2>1. after.tags[k] = g.tags[CHOOSE i \in DOMAIN g.tags : Key(g.tags[i]) = k]
        BY DEF ImportGame
  <2>2. \E i \in DOMAIN g.tags : Key(g.tags[i]) = k
        OBVIOUS
  <2> QED
        BY <2>1, <2>2 DEF Range
<1>5. ASSUME NEW t \in T PROVE Key(t) \in keys /\ after.tags[Key(t)] = t
      BY <1>1, <1>2, <1>4
<1> HIDE DEF g, T, after, keys
<1>6. {after.tags[k] : k \in {k \in keys : after.tags[k].facet = f}}
        = {t \in T : t.facet = f}
      BY <1>4, <1>5
<1>7. Split(after, f) = {<<after.tags[k].igdbId, after.tags[k].name>> :
                            k \in {k \in keys : after.tags[k].facet = f}}
      BY <1>3 DEF Split
<1>8. Split(after, f) = {<<t.igdbId, t.name>> : t \in {t \in T : t.facet = f}}
      BY <1>4, <1>5, <1>7
<1> QED
      BY <1>8 DEF g, T, after

\* Each list comes back: whatever facets share ids.
LEMMA ListComesBack ==
    ASSUME NEW list \in ListOfTags, NEW facet, NEW T,
           {t \in T : t.facet = facet} = TagsOf(facet, list)
    PROVE  {<<t.igdbId, t.name>> : t \in {t \in T : t.facet = facet}} = Range(list)
<1>1. Range(list) \subseteq Int \X STRING
      BY ListTypes
<1>2. \A x \in Range(list) : <<TagOf(facet, x).igdbId, TagOf(facet, x).name>> = x
      BY <1>1 DEF TagOf
<1>3. {<<t.igdbId, t.name>> : t \in TagsOf(facet, list)} = Range(list)
      BY <1>2 DEF TagsOf
<1> QED
      BY <1>3

LEMMA SplitIsAnswered ==
    ASSUME NEW a \in ApiGame, NEW db
    PROVE  LET after == ImportGame(db, FromIGDB(Decode(a))) IN
           /\ Split(after, "genre") = Range(a.genres)
           /\ Split(after, "theme") = Range(a.themes)
           /\ Split(after, "game_mode") = Range(a.game_modes)
<1> DEFINE T == Range(FromIGDB(Decode(a)).tags)
<1>1. a.genres \in ListOfTags /\ a.themes \in ListOfTags /\ a.game_modes \in ListOfTags
      BY DEF ApiGame
<1>2. T = TagsOf("genre", a.genres) \cup TagsOf("theme", a.themes)
            \cup TagsOf("game_mode", a.game_modes)
      BY TagsOfRow
<1>3. \A f, l : \A t \in TagsOf(f, l) : t.facet = f
      BY DEF TagsOf, TagOf
<1>4. /\ {t \in T : t.facet = "genre"} = TagsOf("genre", a.genres)
      /\ {t \in T : t.facet = "theme"} = TagsOf("theme", a.themes)
      /\ {t \in T : t.facet = "game_mode"} = TagsOf("game_mode", a.game_modes)
  <2> HIDE DEF T
  <2> QED
      BY <1>2, <1>3
<1>5. \A f : Split(ImportGame(db, FromIGDB(Decode(a))), f)
               = {<<t.igdbId, t.name>> : t \in {t \in T : t.facet = f}}
      BY LinkedTags
<1> DEFINE Read(f) == {<<t.igdbId, t.name>> : t \in {t \in T : t.facet = f}}
<1>6. Read("genre") = Range(a.genres)
  <2> HIDE DEF T
  <2> QED
      BY <1>1, <1>4, ListComesBack
<1>7. Read("theme") = Range(a.themes)
  <2> HIDE DEF T
  <2> QED
      BY <1>1, <1>4, ListComesBack
<1>8. Read("game_mode") = Range(a.game_modes)
  <2> HIDE DEF T
  <2> QED
      BY <1>1, <1>4, ListComesBack
<1>9. \A f : Split(ImportGame(db, FromIGDB(Decode(a))), f) = Read(f)
      BY <1>5
<1> HIDE DEF T, Read
<1> QED
      BY <1>6, <1>7, <1>8, <1>9

\* An instant is less than a day after the start of its day, before 1970 too.
LEMMA DayIsThatOf ==
    ASSUME NEW s \in Int, NEW n \in Int, n > 0
    PROVE  s \div n \in Int /\ s - (s \div n) * n \in 0 .. n - 1
<1>1. s \div n \in Int /\ s = n * (s \div n) + (s % n) /\ s % n \in 0 .. n - 1
      BY SMT
<1> QED
      BY <1>1, SMT

\* No column is lost, and what is gone upstream goes blank.
LEMMA ColumnsAreAnswered ==
    ASSUME NEW a \in ApiGame, NEW db
    PROVE  LET row == ImportGame(db, FromIGDB(Decode(a))).row IN
           /\ row["title"] = a.name
           /\ row["summary"] = Or(a.summary, Blank)
           /\ row["image"] = Or(a.cover, Blank)
           /\ row["parentIgdbId"] = a.parent_game
           /\ IF a.game_type \in DOMAIN kindSlugs
              THEN row["kind"] = kindSlugs[a.game_type]
              ELSE row["kind"] = "unknown"
           /\ IF a.first_release_date = Missing
              THEN row["releaseDate"] = ZeroDay
              ELSE a.first_release_date - row["releaseDate"] * SecondsPerDay
                      \in 0 .. SecondsPerDay - 1
<1> DEFINE d == Decode(a)
           g == FromIGDB(d)
           row == ImportGame(db, g).row
<1>1. row = [c \in Columns |-> g[c]]
      BY DEF ImportGame, DoUpdates, Columns
<1>2. /\ row["title"] = g.title /\ row["summary"] = g.summary /\ row["image"] = g.image
      /\ row["parentIgdbId"] = g.parentIgdbId /\ row["kind"] = g.kind
      /\ row["releaseDate"] = g.releaseDate
      BY <1>1 DEF Columns, FromIGDB
<1> HIDE DEF row
<1>3. g.title = a.name /\ g.parentIgdbId = a.parent_game
        /\ g.summary = Or(a.summary, Blank)
      BY DEF FromIGDB, Decode
<1>4. g.image = Or(a.cover, Blank)
      BY DEF FromIGDB, Decode, Or
<1>5. IF a.game_type \in DOMAIN kindSlugs THEN g.kind = kindSlugs[a.game_type]
                                           ELSE g.kind = "unknown"
  <2>1. g.kind = IF a.game_type = Missing THEN "unknown" ELSE KindSlug(a.game_type)
        BY DEF FromIGDB, Decode
  <2> QED
        BY <2>1, RecordAssumption DEF KindSlug
<1>6. CASE a.first_release_date = Missing
  <2>1. g.releaseDate = ZeroDay
        BY <1>6 DEF FromIGDB, Decode, Or
  <2> QED
        BY <1>2, <1>3, <1>4, <1>5, <1>6, <2>1 DEF row
<1>7. CASE a.first_release_date # Missing
  <2>1. a.first_release_date \in Int
        BY <1>7, RecordAssumption DEF ApiGame, Optional
  <2>2. Day(a.first_release_date) \in Int
          /\ a.first_release_date - Day(a.first_release_date) * SecondsPerDay
               \in 0 .. SecondsPerDay - 1
    <3>1. SecondsPerDay \in Int /\ SecondsPerDay > 0
          BY RecordAssumption
    <3> QED
          BY <2>1, <3>1, DayIsThatOf DEF Day
  <2>3. g.releaseDate = Day(a.first_release_date)
    <3>1. d.releaseDate = Day(a.first_release_date)
          BY <1>7 DEF Decode
    <3>2. Day(a.first_release_date) # Missing
          BY <2>2, RecordAssumption
    <3> QED
          BY <3>1, <3>2 DEF FromIGDB, Or
  <2> QED
        BY <1>2, <1>3, <1>4, <1>5, <1>7, <2>2, <2>3 DEF row
<1> QED
      BY <1>6, <1>7

\* What is read of a game after an import is the answer that was imported,
\* whatever the tables held (FromIGDB, ImportGames, SplitTags).
THEOREM ImportReads ==
    ASSUME NEW a \in ApiGame, NEW db
    PROVE  ReadsAs(ImportGame(db, FromIGDB(Decode(a))), a)
BY ColumnsAreAnswered, SplitIsAnswered DEF ReadsAs

\* No column or tag is lost or mixed up on the way from IGDB's answer to the
\* client, for any titles, instants, kinds and lists of tags (Client.games,
\* FromIGDB, ImportGames, SplitTags).
THEOREM AnswersAreRead == Spec => ReadsAsAnswered
<1>1. SecondAnswerIsRead
      BY ImportReads DEF SecondAnswerIsRead
<1>2. Commits => SecondAnswerIsRead
      BY <1>1
<1> QED
      BY <1>2, PTL DEF Spec, ReadsAsAnswered
=============================================================================
