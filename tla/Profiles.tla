------------------------------ MODULE Profiles ------------------------------
(***************************************************************************)
(* What strangers see of an account: GET /profiles/:username, the photo of *)
(* GET /profiles/:username/avatar, and PUT and DELETE /me/avatar that      *)
(* change it.  Both reads are a chain of statements, and the page makes    *)
(* the second of the answer to the first; meanwhile accounts are renamed,  *)
(* made private and registered under a name that became free, and photos   *)
(* are replaced.  Photos are cached by browsers and proxies, for a year    *)
(* where the answer says so.                                               *)
(*                                                                         *)
(* A list is its owner: whose entries they are is all that matters here.   *)
(***************************************************************************)
EXTENDS Images, FiniteSets

CONSTANTS
    Name,        \* normalized usernames
    Id,          \* accounts
    Visitor,     \* browsers
    NoId, NoName, NoVersion, NoPhoto

ASSUME NothingAssumption ==
    /\ NoId \notin Id /\ NoName \notin Name /\ NoPhoto \notin Photo
    /\ NoVersion \notin {Hash(x) : x \in Photo}

Version == {Hash(x) : x \in Photo} \cup {NoVersion}

VARIABLES
    users,    \* the table: id -> [username, visibility]
    avatars,  \* user_avatars: id -> [bytes, hash]
    cache,    \* answers kept for good: <<username, v>> -> bytes
    at,       \* what each visitor waits for
    asked,    \* the name in the path
    version,  \* the v of the photo's URL; what the profile's answer said
    who,      \* the account found under the name, when it was
    list,     \* whose list is shown
    photo,    \* the photo shown
    open,     \* history: accounts that had the name, and were public, since
    had       \* history: <<account, photo>> held since the visit began

visits == <<at, asked, version, who, list, photo>>
vars == <<users, avatars, cache, visits, open, had>>

Table == INSTANCE UserTable

-----------------------------------------------------------------------------
(* PUT and DELETE /me/avatar.                                              *)

\* Mutant of Replaced: the hash is not in the list of columns.
ReplacedWithoutHash(old, row) == [old EXCEPT !.bytes = row.bytes]

\* The columns DoUpdates names.
Replaced(old, row) == [old EXCEPT !.bytes = row.bytes, !.hash = row.hash]

\* ON CONFLICT (user_id) DO UPDATE.
SetUserAvatar(a, bytes, hash) ==
    LET row == [bytes |-> bytes, hash |-> hash] IN
    avatars' = [b \in DOMAIN avatars \cup {a} |->
                   IF b # a THEN avatars[b]
                   ELSE IF a \in DOMAIN avatars THEN Replaced(avatars[a], row) ELSE row]

\* Uploads that end up the same are one.
Processed == {[status |-> Avatar(u), photo |-> u.photo] : u \in Upload}

PutMyAvatar(a) ==
    /\ a \in DOMAIN users
    /\ \E p \in Processed :
          /\ p.status = 200
          /\ SetUserAvatar(a, p.photo, Hash(p.photo))
    /\ UNCHANGED <<users, cache, visits>>

DeleteMyAvatar(a) ==
    /\ a \in DOMAIN users
    /\ avatars' = [b \in DOMAIN avatars \ {a} |-> avatars[b]]
    /\ UNCHANGED <<users, cache, visits>>

-----------------------------------------------------------------------------
(* How a visit begins, moves and ends.                                     *)

Visit(v, phase, name, ver) ==
    /\ at[v] = "idle"
    /\ at' = [at EXCEPT ![v] = phase]
    /\ asked' = [asked EXCEPT ![v] = name]
    /\ version' = [version EXCEPT ![v] = ver]
    /\ UNCHANGED <<users, avatars, cache, who, list, photo>>

At(v, phase) == at[v] = phase /\ UNCHANGED <<users, avatars>>

Goto(v, phase) ==
    /\ at' = [at EXCEPT ![v] = phase]
    /\ UNCHANGED asked

\* The answer is an error, or the visitor has seen enough.
Leave(v) ==
    /\ at[v] # "idle"
    /\ at' = [at EXCEPT ![v] = "idle"]
    /\ asked' = [asked EXCEPT ![v] = NoName]
    /\ version' = [version EXCEPT ![v] = NoVersion]
    /\ who' = [who EXCEPT ![v] = NoId]
    /\ list' = [list EXCEPT ![v] = NoId]
    /\ photo' = [photo EXCEPT ![v] = NoPhoto]
    /\ UNCHANGED <<users, avatars, cache>>

Named(name) == {a \in DOMAIN users : users[a].username = name}

Visible(a) == users[a].visibility = "public"

\* GetUserByUsername and the check that follows it.  The other answers, 404,
\* 403 and 500, are Leave.
FindPublic(v) ==
    \E a \in Named(asked[v]) :
        /\ Visible(a)
        /\ who' = [who EXCEPT ![v] = a]

-----------------------------------------------------------------------------
(* GET /profiles/:username.                                                *)

OpenProfile(v, name) == Visit(v, "profile", name, NoVersion)

GetProfile(v) ==
    /\ At(v, "profile")
    /\ FindPublic(v)
    /\ Goto(v, "games")
    /\ UNCHANGED <<cache, version, list, photo>>

\* Mutant of ListOf: the list is joined to the account by its name.
ListOfName(v) == Named(asked[v])

ListOf(v) == {who[v]}

\* An error of the SELECT is a 500, which is Leave.
GetUserGames(v) ==
    /\ At(v, "games")
    /\ \E a \in ListOf(v) : list' = [list EXCEPT ![v] = a]
    /\ Goto(v, "hash")
    /\ UNCHANGED <<cache, version, who, photo>>

\* An error of the SELECT is no photo.
GetUserAvatar(v) ==
    /\ At(v, "hash")
    /\ \/ /\ who[v] \in DOMAIN avatars
          /\ version' = [version EXCEPT ![v] = avatars[who[v]].hash]
       \/ UNCHANGED version
    /\ Goto(v, "page")
    /\ UNCHANGED <<cache, who, list, photo>>

-----------------------------------------------------------------------------
(* GET /profiles/:username/avatar, from the page or typed by hand.         *)

\* The page asks for the version the profile named, and not at all if it has
\* one already.
PageShowsPhoto(v) ==
    /\ At(v, "page") /\ version[v] # NoVersion
    /\ IF <<asked[v], version[v]>> \in DOMAIN cache
       THEN /\ photo' = [photo EXCEPT ![v] = cache[<<asked[v], version[v]>>]]
            /\ Goto(v, "seen")
       ELSE UNCHANGED photo /\ Goto(v, "photo")
    /\ UNCHANGED <<cache, version, who, list>>

\* By hand, with any version or none; a URL that is cached is not asked for.
TypeUrl(v, name, ver) ==
    /\ <<name, ver>> \notin DOMAIN cache
    /\ Visit(v, "photo", name, ver)

PhotoOwner(v) ==
    /\ At(v, "photo")
    /\ FindPublic(v)
    /\ Goto(v, "bytes")
    /\ UNCHANGED <<cache, version, list, photo>>

\* Mutant of Immutable: every answer is kept for a year.
ImmutableAlways(v, row) == TRUE

\* Cache-Control: the caller got the version it asked for.  Any other answer
\* is asked for again, since If-None-Match is not looked at.
Immutable(v, row) == version[v] = row.hash

\* No row is a 404 and an error a 500, which are Leave.
GetProfileAvatar(v) ==
    /\ At(v, "bytes")
    /\ who[v] \in DOMAIN avatars
    /\ LET row == avatars[who[v]]
           url == <<asked[v], version[v]>>
       IN  /\ photo' = [photo EXCEPT ![v] = row.bytes]
           /\ cache' = IF Immutable(v, row)
                       THEN [u \in DOMAIN cache \cup {url} |->
                                IF u = url THEN row.bytes ELSE cache[u]]
                       ELSE cache
    /\ Goto(v, "seen")
    /\ UNCHANGED <<version, who, list>>

-----------------------------------------------------------------------------
Holdings(av) == {<<a, av[a].bytes>> : a \in DOMAIN av}
PublicAs(us, name) ==
    {a \in DOMAIN us : us[a].username = name /\ us[a].visibility = "public"}

\* The histories: they start with a visit and follow every step until it ends.
Observe ==
    /\ open' = [v \in Visitor |->
                   IF at'[v] = "idle" THEN {}
                   ELSE open[v] \cup PublicAs(users', asked'[v])]
    /\ had' = [v \in Visitor |->
                   IF at'[v] = "idle" THEN {} ELSE had[v] \cup Holdings(avatars')]

Init ==
    /\ Table!Init
    /\ avatars = [a \in {} |-> NoPhoto]
    /\ cache = [u \in {} |-> NoPhoto]
    /\ at = [v \in Visitor |-> "idle"]
    /\ asked = [v \in Visitor |-> NoName]
    /\ version = [v \in Visitor |-> NoVersion]
    /\ who = [v \in Visitor |-> NoId]
    /\ list = [v \in Visitor |-> NoId]
    /\ photo = [v \in Visitor |-> NoPhoto]
    /\ open = [v \in Visitor |-> {}]
    /\ had = [v \in Visitor |-> {}]

Account(a) == PutMyAvatar(a) \/ DeleteMyAvatar(a)

Stranger(v) ==
    \/ \E name \in Name : OpenProfile(v, name)
    \/ \E name \in Name, ver \in Version : TypeUrl(v, name, ver)
    \/ GetProfile(v) \/ GetUserGames(v) \/ GetUserAvatar(v) \/ PageShowsPhoto(v)
    \/ PhotoOwner(v) \/ GetProfileAvatar(v) \/ Leave(v)

Next ==
    /\ \/ Table!Next /\ UNCHANGED <<avatars, cache, visits>>
       \/ \E a \in Id : Account(a)
       \/ \E v \in Visitor : Stranger(v)
    /\ Observe

Spec == Init /\ [][Next]_vars

-----------------------------------------------------------------------------
(* Properties.                                                             *)

\* The types; and a photo's fingerprint is stored with the photo.
TypeOK ==
    /\ DOMAIN users \subseteq Id
    /\ users \in [DOMAIN users -> [username : Name, visibility : Table!Visibility]]
    /\ DOMAIN avatars \subseteq DOMAIN users
    /\ \A a \in DOMAIN avatars :
          avatars[a] \in {[bytes |-> x, hash |-> Hash(x)] : x \in Photo}
    /\ DOMAIN cache \subseteq Name \X Version
    /\ cache \in [DOMAIN cache -> Photo]
    /\ at \in [Visitor -> {"idle", "profile", "games", "hash", "page", "photo",
                           "bytes", "seen"}]
    /\ asked \in [Visitor -> Name \cup {NoName}]
    /\ version \in [Visitor -> Version]
    /\ who \in [Visitor -> DOMAIN users \cup {NoId}]
    /\ list \in [Visitor -> Id \cup {NoId}]
    /\ photo \in [Visitor -> Photo \cup {NoPhoto}]

\* Nobody is shown the list of an account unless, at some instant of the visit,
\* it was public and had the name that was asked for: names move and accounts
\* close between the statement that finds the account and the one that reads
\* its list (GetProfile).
OnlyPublicListed ==
    \A v \in Visitor : list[v] # NoId => list[v] \in open[v]

\* The photo a visitor is shown is one that an account public by that name had
\* since the visit began, however often photos were replaced, names moved, and
\* whatever was cached for a year before: cacheable, "and still change the
\* moment it is replaced" (profile_handlers.go:27, GetProfileAvatar).
PhotoIsCurrent ==
    \A v \in Visitor :
        photo[v] # NoPhoto => \E a \in open[v] : <<a, photo[v]>> \in had[v]

Uploads == \E a \in Id : PutMyAvatar(a)

\* No photo is stored of an upload whose pixels should not have been decoded:
\* whatever a header declares, up to the largest ints, no product wraps round
\* to a small one (ImageDimensions).
DecodesAreBounded == [][Uploads => BoundedDecodes]_vars

\* No photo is stored that is squashed, or off the middle of what was uploaded by
\* more than half a pixel (coverRect).
CropIsCentred == [][Uploads => CentredCrops]_vars
=============================================================================
