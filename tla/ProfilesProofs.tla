--------------------------- MODULE ProfilesProofs ---------------------------
(***************************************************************************)
(* For any number of visitors, accounts, names and photos: what strangers  *)
(* are shown.  IInv says of each visitor, at each step of its visit, what  *)
(* it holds and why it may (VisitInv), and that whatever is cached is      *)
(* cached under its own fingerprint (CacheInv); a step of anybody else     *)
(* only lengthens the histories (Stays).                                   *)
(***************************************************************************)
EXTENDS Profiles, TLAPS

\* What a visitor holds was public, and had, during the visit.
VisitInv(v) ==
    /\ at[v] # "idle" => asked[v] \in Name
    /\ at[v] = "idle" => /\ who[v] = NoId /\ list[v] = NoId
                         /\ photo[v] = NoPhoto /\ version[v] = NoVersion
    /\ at[v] \in {"profile", "games", "hash"} => version[v] = NoVersion
    /\ at[v] \in {"games", "hash", "bytes"} => who[v] # NoId
    /\ who[v] # NoId => who[v] \in open[v]
    /\ list[v] # NoId => list[v] \in open[v]
    /\ at[v] = "page" /\ version[v] # NoVersion =>
          \E x \in Photo, a \in open[v] :
              version[v] = Hash(x) /\ <<a, x>> \in had[v]
    /\ photo[v] # NoPhoto => \E a \in open[v] : <<a, photo[v]>> \in had[v]

\* What is kept for good under a version has that fingerprint.
CacheInv == \A url \in DOMAIN cache : url[2] = Hash(cache[url])

IInv == TypeOK /\ CacheInv /\ \A v \in Visitor : VisitInv(v)

-----------------------------------------------------------------------------

\* The tables and the visits begin empty.
LEMMA TypeInit == Init => TypeOK
BY DEF Init, Table!Init, TypeOK, Version

\* A statement on the users table keeps its types and loses no account.
LEMMA TableType ==
    ASSUME TypeOK, Table!Next
    PROVE  /\ DOMAIN users \subseteq DOMAIN users'
           /\ DOMAIN users' \subseteq Id
           /\ users' \in [DOMAIN users' -> [username : Name, visibility : Table!Visibility]]
<1>1. PICK a \in Id, u \in [username : Name, visibility : Table!Visibility] : Table!Store(a, u)
  BY DEF Table!Next, Table!CreateUser, Table!UpdateUser, Table!Visibility
<1>2. users' = [b \in DOMAIN users \cup {a} |-> IF b = a THEN u ELSE users[b]]
  BY <1>1 DEF Table!Store
<1>3. QED
  BY <1>2 DEF TypeOK

\* What is stored is one of the pictures.
LEMMA ProcessedPhoto == ASSUME NEW p \in Processed PROVE p.photo \in Photo
BY DEF Processed, Upload

\* A photo is stored with its fingerprint, also over another (SetUserAvatar).
LEMMA AvatarType ==
    ASSUME TypeOK, NEW a \in Id, Account(a)
    PROVE  /\ DOMAIN avatars' \subseteq DOMAIN users
           /\ \A b \in DOMAIN avatars' :
                 avatars'[b] \in {[bytes |-> x, hash |-> Hash(x)] : x \in Photo}
<1>1. CASE PutMyAvatar(a)
  <2>1. PICK x \in Photo : a \in DOMAIN users /\ SetUserAvatar(a, x, Hash(x))
    BY <1>1, ProcessedPhoto DEF PutMyAvatar
  <2> DEFINE row == [bytes |-> x, hash |-> Hash(x)]
  <2>2. avatars' = [b \in DOMAIN avatars \cup {a} |->
                       IF b # a THEN avatars[b]
                       ELSE IF a \in DOMAIN avatars THEN Replaced(avatars[a], row) ELSE row]
    BY <2>1 DEF SetUserAvatar
  <2>3. ASSUME a \in DOMAIN avatars PROVE Replaced(avatars[a], row) = row
    <3>1. PICK y \in Photo : avatars[a] = [bytes |-> y, hash |-> Hash(y)]
      BY <2>3 DEF TypeOK
    <3>2. Replaced(avatars[a], row) = [[avatars[a] EXCEPT !.bytes = row.bytes] EXCEPT !.hash = row.hash]
      BY Zenon DEF Replaced
    <3>3. [avatars[a] EXCEPT !.bytes = row.bytes] = [bytes |-> x, hash |-> Hash(y)]
      BY <3>1
    <3>4. QED
      BY <3>2, <3>3
  <2>4. \A b \in DOMAIN avatars' : avatars'[b] = IF b = a THEN row ELSE avatars[b]
    BY <2>2, <2>3
  <2> HIDE DEF row
  <2>5. DOMAIN avatars' = DOMAIN avatars \cup {a}
    BY <2>2
  <2>6. row \in {[bytes |-> y, hash |-> Hash(y)] : y \in Photo}
    BY DEF row
  <2>7. QED
    BY <2>1, <2>4, <2>5, <2>6 DEF TypeOK
<1>2. CASE DeleteMyAvatar(a)
  BY <1>2 DEF DeleteMyAvatar, TypeOK
<1>3. QED
  BY <1>1, <1>2 DEF Account

Phase == {"idle", "profile", "games", "hash", "page", "photo", "bytes", "seen"}

\* The types of what a visitor holds.
VisitType ==
    /\ at \in [Visitor -> Phase]
    /\ asked \in [Visitor -> Name \cup {NoName}]
    /\ version \in [Visitor -> Version]
    /\ who \in [Visitor -> DOMAIN users \cup {NoId}]
    /\ list \in [Visitor -> Id \cup {NoId}]
    /\ photo \in [Visitor -> Photo \cup {NoPhoto}]

CacheType == DOMAIN cache \subseteq Name \X Version /\ cache \in [DOMAIN cache -> Photo]

\* A row is a picture and its fingerprint.
LEMMA RowPhoto ==
    ASSUME TypeOK, NEW a \in DOMAIN avatars
    PROVE  /\ avatars[a].bytes \in Photo
           /\ avatars[a].hash = Hash(avatars[a].bytes)
           /\ avatars[a].hash \in Version
           /\ avatars[a].hash # NoVersion
<1>1. PICK x \in Photo : avatars[a] = [bytes |-> x, hash |-> Hash(x)]
  BY DEF TypeOK
<1>2. Hash(x) \in Version /\ Hash(x) # NoVersion
  BY NothingAssumption DEF Version
<1>3. QED
  BY <1>1, <1>2

\* A step of a visit keeps its types and writes no table.
LEMMA VisitTypeStep ==
    ASSUME TypeOK, NEW v \in Visitor, VisitInv(v), Stranger(v)
    PROVE  VisitType' /\ CacheType' /\ UNCHANGED <<users, avatars>>
<1> DEFINE Typed == VisitType' /\ CacheType' /\ UNCHANGED <<users, avatars>>
<1> USE DEF VisitType, CacheType, Phase
<1>0. VisitType /\ CacheType
  BY DEF TypeOK
<1>1. NoVersion \in Version
  BY DEF Version
<1>2. ASSUME NEW name \in Name, OpenProfile(v, name) PROVE Typed
  BY <1>0, <1>1, <1>2 DEF OpenProfile, Visit
<1>3. ASSUME NEW name \in Name, NEW ver \in Version, TypeUrl(v, name, ver)
      PROVE  Typed
  BY <1>0, <1>3 DEF TypeUrl, Visit
<1>4. ASSUME GetProfile(v) PROVE Typed
  BY <1>0, <1>4 DEF GetProfile, At, Goto, FindPublic, Named
<1>5. ASSUME GetUserGames(v) PROVE Typed
  BY <1>0, <1>5 DEF GetUserGames, At, Goto, ListOf, TypeOK
<1>6. ASSUME GetUserAvatar(v) PROVE Typed
  BY <1>0, <1>6, RowPhoto DEF GetUserAvatar, At, Goto
<1>7. ASSUME PageShowsPhoto(v) PROVE Typed
  BY <1>0, <1>7 DEF PageShowsPhoto, At, Goto
<1>8. ASSUME PhotoOwner(v) PROVE Typed
  BY <1>0, <1>8 DEF PhotoOwner, At, Goto, FindPublic, Named
<1>9. ASSUME GetProfileAvatar(v) PROVE Typed
  <2>1. /\ at' = [at EXCEPT ![v] = "seen"] /\ at[v] = "bytes"
        /\ UNCHANGED <<asked, version, who, list, users, avatars>>
        /\ who[v] \in DOMAIN avatars
        /\ photo' = [photo EXCEPT ![v] = avatars[who[v]].bytes]
    BY <1>9 DEF GetProfileAvatar, At, Goto
  <2>2. avatars[who[v]].bytes \in Photo
    BY <2>1, RowPhoto
  <2>3. VisitType'
    BY <1>0, <2>1, <2>2
  <2> DEFINE url == <<asked[v], version[v]>>
             x == avatars[who[v]].bytes
  <2>4. \/ cache' = cache
        \/ cache' = [u \in DOMAIN cache \cup {url} |-> IF u = url THEN x ELSE cache[u]]
    BY <1>9, Zenon DEF GetProfileAvatar
  <2>5. url \in Name \X Version
    BY <1>0, <2>1 DEF VisitInv
  <2> HIDE DEF url, x
  <2>6. x \in Photo
    BY <2>2 DEF x
  <2>7. CacheType'
    BY <1>0, <2>4, <2>5, <2>6
  <2>8. QED
    BY <2>1, <2>3, <2>7
<1>10. ASSUME Leave(v) PROVE Typed
  BY <1>0, <1>1, <1>10 DEF Leave
<1>11. QED
  BY <1>2, <1>3, <1>4, <1>5, <1>6, <1>7, <1>8, <1>9, <1>10 DEF Stranger

-----------------------------------------------------------------------------
\* While a visit lasts its histories grow, by what is public and held now.
LEMMA Grows ==
    ASSUME Observe, NEW v \in Visitor, at'[v] # "idle"
    PROVE  /\ open[v] \subseteq open'[v] /\ PublicAs(users', asked'[v]) \subseteq open'[v]
           /\ had[v] \subseteq had'[v] /\ Holdings(avatars') \subseteq had'[v]
BY DEF Observe

\* Whatever others do, what a visitor holds stays justified.
LEMMA Stays ==
    ASSUME Observe, NEW v \in Visitor, VisitInv(v),
           at'[v] = at[v], asked'[v] = asked[v], version'[v] = version[v],
           who'[v] = who[v], list'[v] = list[v], photo'[v] = photo[v]
    PROVE  VisitInv(v)'
<1>1. CASE at[v] = "idle"
  BY <1>1 DEF VisitInv
<1>2. CASE at[v] # "idle"
  <2>1. open[v] \subseteq open'[v] /\ had[v] \subseteq had'[v]
    BY <1>2, Grows
  <2>2. QED
    BY <1>2, <2>1 DEF VisitInv
<1>3. QED
  BY <1>1, <1>2

\* A visitor moves alone.
LEMMA OthersStay ==
    ASSUME TypeOK, NEW v \in Visitor, Stranger(v), NEW w \in Visitor, w # v
    PROVE  /\ at'[w] = at[w] /\ asked'[w] = asked[w] /\ version'[w] = version[w]
           /\ who'[w] = who[w] /\ list'[w] = list[w] /\ photo'[w] = photo[w]
<1> DEFINE Same == /\ at'[w] = at[w] /\ asked'[w] = asked[w] /\ version'[w] = version[w]
                   /\ who'[w] = who[w] /\ list'[w] = list[w] /\ photo'[w] = photo[w]
<1> USE DEF TypeOK
<1>1. ASSUME NEW name, NEW ver, NEW phase, Visit(v, phase, name, ver) PROVE Same
  BY <1>1 DEF Visit
<1>2. CASE GetProfile(v)
  BY <1>2 DEF GetProfile, At, Goto, FindPublic
<1>3. CASE GetUserGames(v)
  BY <1>3 DEF GetUserGames, At, Goto
<1>4. CASE GetUserAvatar(v)
  BY <1>4 DEF GetUserAvatar, At, Goto
<1>5. CASE PageShowsPhoto(v)
  BY <1>5 DEF PageShowsPhoto, At, Goto
<1>6. CASE PhotoOwner(v)
  BY <1>6 DEF PhotoOwner, At, Goto, FindPublic
<1>7. CASE GetProfileAvatar(v)
  <2>1. /\ at' = [at EXCEPT ![v] = "seen"]
        /\ UNCHANGED <<asked, version, who, list>>
        /\ photo' = [photo EXCEPT ![v] = avatars[who[v]].bytes]
    BY <1>7 DEF GetProfileAvatar, Goto
  <2>2. QED
    BY <2>1
<1>8. CASE Leave(v)
  BY <1>8 DEF Leave
<1>9. QED
  BY <1>1, <1>2, <1>3, <1>4, <1>5, <1>6, <1>7, <1>8 DEF Stranger, OpenProfile, TypeUrl

\* The account a step finds is public under the name asked for as it finds it.
LEMMA FoundIsOpen ==
    ASSUME TypeOK, Observe, NEW v \in Visitor, FindPublic(v),
           UNCHANGED <<users, asked>>, at'[v] # "idle"
    PROVE  who'[v] \in open'[v] /\ who'[v] # NoId
<1>1. PICK a \in Named(asked[v]) : Visible(a) /\ who' = [who EXCEPT ![v] = a]
  BY DEF FindPublic
<1>2. a \in PublicAs(users', asked'[v])
  BY <1>1 DEF Named, Visible, PublicAs
<1>3. a \in Id /\ who'[v] = a
  BY <1>1 DEF Named, TypeOK
<1>4. QED
  BY <1>2, <1>3, Grows, NothingAssumption

\* Each step of a visit keeps what its visitor holds justified.
LEMMA VisitStep ==
    ASSUME TypeOK, CacheInv, Observe, NEW v \in Visitor, VisitInv(v), Stranger(v)
    PROVE  VisitInv(v)'
<1>0. /\ at \in [Visitor -> Phase]
      /\ asked \in [Visitor -> Name \cup {NoName}]
      /\ version \in [Visitor -> Version]
      /\ DOMAIN who = Visitor /\ DOMAIN list = Visitor /\ DOMAIN photo = Visitor
  BY DEF TypeOK, Phase
<1>1. ASSUME NEW name \in Name, OpenProfile(v, name) PROVE VisitInv(v)'
  BY <1>0, <1>1 DEF OpenProfile, Visit, VisitInv, Phase
<1>2. ASSUME NEW name \in Name, NEW ver \in Version, TypeUrl(v, name, ver) PROVE VisitInv(v)'
  BY <1>0, <1>2 DEF TypeUrl, Visit, VisitInv, Phase
<1>3. CASE GetProfile(v)
  <2>1. /\ at[v] = "profile" /\ at'[v] = "games" /\ FindPublic(v)
        /\ UNCHANGED <<users, asked, version, list, photo>>
    BY <1>0, <1>3 DEF GetProfile, At, Goto
  <2>2. who'[v] \in open'[v] /\ who'[v] # NoId
    BY <2>1, FoundIsOpen
  <2>3. open[v] \subseteq open'[v] /\ had[v] \subseteq had'[v]
    BY <2>1, Grows
  <2>4. QED
    BY <2>1, <2>2, <2>3 DEF VisitInv
<1>4. CASE GetUserGames(v)
  <2>1. /\ at[v] = "games" /\ at'[v] = "hash" /\ list'[v] = who[v]
        /\ UNCHANGED <<asked, version, who, photo>>
    BY <1>0, <1>4 DEF GetUserGames, At, Goto, ListOf
  <2>2. open[v] \subseteq open'[v] /\ had[v] \subseteq had'[v]
    BY <2>1, Grows
  <2>3. QED
    BY <2>1, <2>2 DEF VisitInv
<1>5. CASE GetUserAvatar(v)
  <2>1. /\ at[v] = "hash" /\ at'[v] = "page"
        /\ UNCHANGED <<asked, who, list, photo, avatars>>
        /\ \/ who[v] \in DOMAIN avatars /\ version'[v] = avatars[who[v]].hash
           \/ version'[v] = version[v]
    BY <1>0, <1>5 DEF GetUserAvatar, At, Goto
  <2>2. open[v] \subseteq open'[v] /\ had[v] \subseteq had'[v] /\ Holdings(avatars) \subseteq had'[v]
    BY <2>1, Grows
  <2>3. who[v] \in open[v] /\ version[v] = NoVersion
    BY <2>1 DEF VisitInv
  <2>4. ASSUME version'[v] # NoVersion
        PROVE  \E x \in Photo, a \in open'[v] : version'[v] = Hash(x) /\ <<a, x>> \in had'[v]
    <3>1. who[v] \in DOMAIN avatars /\ version'[v] = avatars[who[v]].hash
      BY <2>1, <2>3, <2>4
    <3>2. PICK x \in Photo : avatars[who[v]].bytes = x /\ version'[v] = Hash(x)
      BY <3>1, RowPhoto
    <3>3. <<who[v], x>> \in had'[v]
      BY <2>2, <3>1, <3>2 DEF Holdings
    <3>4. QED
      BY <2>2, <2>3, <3>2, <3>3
  <2>5. QED
    BY <2>1, <2>2, <2>4 DEF VisitInv
<1>6. CASE PageShowsPhoto(v)
  <2> DEFINE url == <<asked[v], version[v]>>
  <2>1. /\ at[v] = "page" /\ version[v] # NoVersion
        /\ UNCHANGED <<asked, version, who, list>>
        /\ \/ /\ url \in DOMAIN cache /\ photo'[v] = cache[url] /\ at'[v] = "seen"
           \/ /\ photo'[v] = photo[v] /\ at'[v] = "photo"
    BY <1>0, <1>6 DEF PageShowsPhoto, At, Goto
  <2>2. open[v] \subseteq open'[v] /\ had[v] \subseteq had'[v]
    BY <2>1, Grows
  <2>3. PICK x \in Photo, a \in open[v] : version[v] = Hash(x) /\ <<a, x>> \in had[v]
    BY <2>1 DEF VisitInv
  <2>4. ASSUME url \in DOMAIN cache PROVE cache[url] = x
    BY <2>3, <2>4 DEF CacheInv, Hash
  <2>5. photo'[v] # NoPhoto => \E b \in open'[v] : <<b, photo'[v]>> \in had'[v]
    <3>1. CASE photo'[v] = x
      BY <2>2, <2>3, <3>1
    <3>2. CASE photo'[v] = photo[v]
      BY <2>2, <3>2 DEF VisitInv
    <3>3. QED
      BY <2>1, <2>4, <3>1, <3>2
  <2>6. QED
    BY <2>1, <2>2, <2>5 DEF VisitInv
<1>7. CASE PhotoOwner(v)
  <2>1. /\ at[v] = "photo" /\ at'[v] = "bytes" /\ FindPublic(v)
        /\ UNCHANGED <<users, asked, version, list, photo>>
    BY <1>0, <1>7 DEF PhotoOwner, At, Goto
  <2>2. who'[v] \in open'[v] /\ who'[v] # NoId
    BY <2>1, FoundIsOpen
  <2>3. open[v] \subseteq open'[v] /\ had[v] \subseteq had'[v]
    BY <2>1, Grows
  <2>4. QED
    BY <2>1, <2>2, <2>3 DEF VisitInv
<1>8. CASE GetProfileAvatar(v)
  <2>1. /\ at[v] = "bytes" /\ at' = [at EXCEPT ![v] = "seen"]
        /\ who[v] \in DOMAIN avatars
        /\ photo' = [photo EXCEPT ![v] = avatars[who[v]].bytes]
        /\ UNCHANGED <<asked, version, who, list, avatars>>
    BY <1>8 DEF GetProfileAvatar, At, Goto
  <2>2. at'[v] = "seen" /\ photo'[v] = avatars[who[v]].bytes
    BY <1>0, <2>1
  <2>3. open[v] \subseteq open'[v] /\ had[v] \subseteq had'[v] /\ Holdings(avatars) \subseteq had'[v]
    BY <2>1, <2>2, Grows
  <2>4. who[v] \in open'[v] /\ <<who[v], photo'[v]>> \in had'[v]
    BY <2>1, <2>2, <2>3 DEF VisitInv, Holdings
  <2>5. QED
    BY <2>1, <2>2, <2>3, <2>4 DEF VisitInv
<1>9. CASE Leave(v)
  BY <1>0, <1>9 DEF Leave, VisitInv
<1>10. QED
  BY <1>1, <1>2, <1>3, <1>4, <1>5, <1>6, <1>7, <1>8, <1>9 DEF Stranger

-----------------------------------------------------------------------------
\* What is kept for a year is kept under its own fingerprint.
LEMMA CacheStep ==
    ASSUME TypeOK, CacheInv, NEW v \in Visitor, Stranger(v)
    PROVE  CacheInv'
<1>1. CASE GetProfileAvatar(v)
  <2> DEFINE row == avatars[who[v]]
             url == <<asked[v], version[v]>>
  <2>1. /\ who[v] \in DOMAIN avatars
        /\ \/ cache' = cache
           \/ /\ version[v] = row.hash
              /\ cache' = [u \in DOMAIN cache \cup {url} |->
                              IF u = url THEN row.bytes ELSE cache[u]]
    BY <1>1, Zenon DEF GetProfileAvatar, Immutable
  <2>2. row.hash = Hash(row.bytes)
    BY <2>1, RowPhoto
  <2>3. url[2] = version[v]
    OBVIOUS
  <2> HIDE DEF row, url
  <2>4. QED
    BY <2>1, <2>2, <2>3 DEF CacheInv
<1>2. CASE UNCHANGED cache
  BY <1>2 DEF CacheInv
<1>3. QED
  BY <1>1, <1>2
  DEF Stranger, OpenProfile, TypeUrl, Visit, GetProfile, GetUserGames, GetUserAvatar,
      PageShowsPhoto, PhotoOwner, Leave

\* IInv is inductive.
LEMMA InvInit == Init => IInv
<1>1. Init => TypeOK
  BY TypeInit
<1>2. Init => CacheInv
  BY DEF Init, CacheInv
<1>3. Init => \A v \in Visitor : VisitInv(v)
  BY DEF Init, VisitInv
<1>4. QED
  BY <1>1, <1>2, <1>3 DEF IInv

\* Every step, of the table, of an owner or of a visitor, keeps IInv.
LEMMA InvStep == IInv /\ [Next]_vars => IInv'
<1> SUFFICES ASSUME IInv, [Next]_vars PROVE IInv'
  OBVIOUS
<1> USE DEF IInv
<1>1. CASE Observe /\ Table!Next /\ UNCHANGED <<avatars, cache, visits>>
  <2>1. TypeOK'
    BY <1>1, TableType DEF TypeOK, visits
  <2>2. CacheInv'
    BY <1>1 DEF CacheInv
  <2>3. \A v \in Visitor : VisitInv(v)'
    BY <1>1, Stays DEF visits
  <2>4. QED
    BY <2>1, <2>2, <2>3
<1>2. ASSUME Observe, NEW a \in Id, Account(a) PROVE IInv'
  <2>1. UNCHANGED <<users, cache, visits>>
    BY <1>2 DEF Account, PutMyAvatar, DeleteMyAvatar
  <2>2. TypeOK'
    BY <1>2, <2>1, AvatarType DEF TypeOK, visits
  <2>3. CacheInv'
    BY <2>1 DEF CacheInv
  <2>4. \A v \in Visitor : VisitInv(v)'
    BY <1>2, <2>1, Stays DEF visits
  <2>5. QED
    BY <2>2, <2>3, <2>4
<1>3. ASSUME Observe, NEW v \in Visitor, Stranger(v) PROVE IInv'
  <2>1. VisitType' /\ CacheType' /\ UNCHANGED <<users, avatars>>
    BY <1>3, VisitTypeStep
  <2>2. TypeOK'
    BY <2>1 DEF TypeOK, VisitType, CacheType, Phase
  <2>3. CacheInv'
    BY <1>3, CacheStep
  <2>4. ASSUME NEW w \in Visitor PROVE VisitInv(w)'
    <3>1. CASE w = v
      BY <1>3, <3>1, VisitStep
    <3>2. CASE w # v
      BY <1>3, <3>2, OthersStay, Stays
    <3>3. QED
      BY <3>1, <3>2
  <2>5. QED
    BY <2>2, <2>3, <2>4
<1>4. CASE UNCHANGED vars
  BY <1>4 DEF vars, visits, TypeOK, CacheInv, VisitInv
<1>5. QED
  BY <1>1, <1>2, <1>3, <1>4 DEF Next

\* The invariant holds throughout.
LEMMA InvHolds == Spec => []IInv
BY InvInit, InvStep, PTL DEF Spec

-----------------------------------------------------------------------------
(* Images: for every width of int and every limit.                         *)

\* Dividing first is as good as an exact product.
LEMMA DivideFirst ==
    ASSUME NEW m \in Nat, NEW h \in Nat \ {0}, NEW w \in Nat \ {0}, w <= m \div h
    PROVE  w * h \in 1 .. m
<1>1. (m \div h) * h <= m
  OBVIOUS
<1>2. w * h <= (m \div h) * h
  OBVIOUS
<1>3. w * h >= 1
  OBVIOUS
<1>4. QED
  BY <1>1, <1>2, <1>3

\* Whatever a header declares, up to the largest ints, at most MaxImagePixels
\* pixels are decoded, and at least one (ImageDimensions, Avatar).
LEMMA DecodesBounded == BoundedDecodes
<1>1. SUFFICES ASSUME NEW upload \in Upload, Avatar(upload) = 200
               PROVE  upload.width * upload.height \in 1 .. MaxImagePixels
  BY DEF BoundedDecodes
<1>2. /\ upload.width \in Int /\ upload.height \in Int
      /\ upload.width > 0 /\ upload.height > 0
      /\ upload.width <= MaxImagePixels \div upload.height
  BY <1>1, ImagesAssumption DEF Upload, Int32, Avatar, IsImage, ImageDimensions
<1>3. QED
  BY <1>2, DivideFirst, ImagesAssumption

\* Half of what is left over, rounded down.
LEMMA Half ==
    ASSUME NEW n \in Nat
    PROVE  n \div 2 \in Nat /\ n - 2 * (n \div 2) \in {0, 1}
OBVIOUS

\* coverRect is a square inside the picture, as large as any and in its middle,
\* for pictures of every size and place (coverRect).
LEMMA CropCentred == CentredCrops
<1>1. SUFFICES ASSUME NEW minX \in Int32, NEW minY \in Int32,
                      NEW w \in 1 .. MaxImagePixels, NEW h \in 1 .. MaxImagePixels
               PROVE  LET r == CoverRect(minX, minY, w, h)
                          Gap(low, high, inLow, inHigh) == (inLow - low) - (high - inHigh)
                      IN  /\ minX <= r.minX /\ r.maxX <= minX + w
                          /\ minY <= r.minY /\ r.maxY <= minY + h
                          /\ r.maxX - r.minX = r.maxY - r.minY
                          /\ r.maxX - r.minX = w \/ r.maxY - r.minY = h
                          /\ Gap(minX, minX + w, r.minX, r.maxX) \in {-1, 0}
                          /\ Gap(minY, minY + h, r.minY, r.maxY) \in {-1, 0}
  BY DEF CentredCrops
<1> DEFINE side == CoverSide(w, h)
           a == (w - side) \div 2
           b == (h - side) \div 2
<1>2. /\ minX \in Int /\ minY \in Int /\ w \in Nat /\ h \in Nat
      /\ side \in Nat /\ side <= w /\ side <= h /\ side \in {w, h}
  BY ImagesAssumption DEF Int32, CoverSide
<1>3. w - side \in Nat /\ h - side \in Nat
  BY <1>2
<1>4. /\ a \in Nat /\ (w - side) - 2 * a \in {0, 1}
      /\ b \in Nat /\ (h - side) - 2 * b \in {0, 1}
  BY <1>3, Half
<1>5. CoverRect(minX, minY, w, h)
        = [minX |-> minX + a, minY |-> minY + b,
           maxX |-> minX + a + side, maxY |-> minY + b + side]
  BY DEF CoverRect
<1> HIDE DEF side, a, b
<1>6. QED
  BY <1>2, <1>4, <1>5

-----------------------------------------------------------------------------
\* The types; and a photo's fingerprint is stored with it, whatever was stored
\* before and whatever replaces it (SetUserAvatar).
THEOREM TypeCorrect == Spec => []TypeOK
<1>1. IInv => TypeOK
  BY DEF IInv
<1>2. QED
  BY <1>1, InvHolds, PTL

\* For any number of visitors and accounts nobody is shown the list of an
\* account that was not public under the name asked for at some instant of the
\* visit (GetProfile).
THEOREM ListedWasPublic == Spec => []OnlyPublicListed
<1>1. IInv => OnlyPublicListed
  BY DEF IInv, VisitInv, OnlyPublicListed
<1>2. QED
  BY <1>1, InvHolds, PTL

\* For any number of visitors, accounts and photos, a photo that is shown was,
\* since the visit began, that of an account public under the name, though
\* answers are kept for a year: what is kept is kept under its own fingerprint,
\* and the page asks only for one it was told (GetProfileAvatar).
THEOREM ShownIsCurrent == Spec => []PhotoIsCurrent
<1>1. IInv => PhotoIsCurrent
  BY DEF IInv, VisitInv, PhotoIsCurrent
<1>2. QED
  BY <1>1, InvHolds, PTL

\* No upload is stored whose pixels should not have been decoded, for every width
\* of int and every limit (ImageDimensions).
THEOREM StoredWasBounded == Spec => DecodesAreBounded
<1>1. [Next]_vars => [Uploads => BoundedDecodes]_vars
  BY DecodesBounded
<1>2. QED
  BY <1>1, PTL DEF Spec, DecodesAreBounded

\* No photo is stored that was cropped off its middle, for pictures of every size
\* and place (coverRect).
THEOREM StoredIsCentred == Spec => CropIsCentred
<1>1. [Next]_vars => [Uploads => CentredCrops]_vars
  BY CropCentred
<1>2. QED
  BY <1>1, PTL DEF Spec, CropIsCentred
=============================================================================
