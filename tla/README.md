# Verification of toomanyhours-api

TLA+ models of the API server (`src/cmd/api`, `src/internal`) and its backfill
command (`src/cmd/backfill`), checked with TLC on small instances. Every property
that holds, but for one of liveness, is also proved with TLAPS, for every
value of the constants: any number of requests, users, tokens and games, and
texts of any length.

`PROJECT.json` lists the components, the runs, a mutant for every property, the
source lines of every definition, the hazards, the findings and the theorems.

## The system

One Go process answers HTTP with Gin. It keeps almost everything in PostgreSQL
(through GORM, one connection pool, autocommit unless noted) and three things in
memory: three failure limiters, the IGDB throttle and the IGDB token cache. Gin
runs each request in a goroutine of its own. With one exception
(`ImportGames`) no handler opens a transaction: **a handler is a sequence of
statements, and any other request may run between two of them**. The server may
stop between any two, and any statement may fail. This is what the models are
about.

| Component | State | Operations | Hard part |
|---|---|---|---|
| Login sessions (`handlers.go`, `session.go`, `refresh_tokens.go`, `refresh/decide.go`) | `refresh_tokens`; signed JWTs at clients | refresh, logout, open a session, housekeeping | read, judge, consume and re-issue are four statements; grace window; crash half-way |
| Failure limiter (`ratelimit`) | map of failure times, last sweep | `Check`, `Record(Failure)`, `Reset` | lazy pruning, sweeping, exact edges of the window |
| Login gate (`Authenticate`) | two limiters | check both, verify, count or reset both | asked before bcrypt and told after it |
| IGDB client and throttle (`igdb`) | next slot; token, expiry, mutex | `wait`, `getToken`, `post`, `do` | a mutex held across I/O, revocation, retry, spacing |
| List of games (`user_games*.go`, `listentry.go`) | `user_games` | read, add, patch, delete | a rule judged in one statement and written in another |
| Accounts (`handlers.go`, `postgres_dbrepol.go`, `validate/user.go`) | `users` | register, patch, look up, check a name | read-modify-write, races for a name |
| Catalog (`igdb_handlers.go`, `catalog.go`, `cmd/backfill`) | `games`, `tags`, `games_tags` | import one game, re-import all | row locks in upstream's order, concurrent imports |
| Profiles and avatars (`profile_handlers.go`, `avatar_handlers.go`, `avatars.go`) | `user_avatars`; caches of browsers and proxies | public profile, public photo, upload, remove | name and privacy are read before the data; a photo is cached for a year |
| Images (`images`, `validate/image.go`) | – | judge, crop, encode | sizes that overflow, rounding |
| Search (`SearchGames`, `igdb/query.go`) | – | check, quote, ask | text of a client inside a query |

How they interact: `Authenticate` runs the gate, looks up an account and opens a
session; `Register` inserts an account and opens a session; `PostMyGame` imports
a game, through the IGDB client, and inserts a list entry that refers to it;
the public profile reads accounts, lists and avatars. Components share tables,
never memory, except for the limiters and the IGDB client.

What makes each correct:

- *Sessions*: consumption of a token is final; a replay later than the grace
  window is refused; a session that is over never comes back; ending one leaves
  the others; a token in a client's hands has its row until it expires.
- *Limiter and gate*: exactly the failures of the last window count; a block
  ends when it was announced to; nobody extends it; the map is swept; a client
  is held to the limit between logins, and to once the limit more per login.
- *IGDB*: callers whose timers are on time are spaced; a token is replaced for
  cause; a retry does not repeat the refused token unless Twitch hands it out
  again; a token found in the cache outlives the request; calls return.
- *List*: nobody touches another's list; a rating is never lost by the way and
  never appears on a game that was not finished at some time; an entry refers to
  the game its user posted, and is shown as the catalog had it during the reading,
  statement by statement.
- *Accounts*: names and emails are unique; a PATCH changes what it names.
- *Catalog*: what is stored of a game is one answer of IGDB, whole; ids that
  were handed out stay valid, though imports race and may deadlock; it is no
  older than when the import began; no field or tag is lost or mixed up between
  the answer and the client.
- *Profiles*: nobody's list is shown who was not public by that name during the
  visit; no photo is shown that is older than the visit, whatever was cached.
- *Images, search*: what is decoded is bounded, what is cropped is the middle;
  what a client typed is read by IGDB as a title and as nothing else.

## Modules

| Module | Models | State and actions |
|---|---|---|
| `RefreshDecide` | `refresh.Decide` | operators only; the checks in the code's order |
| `Sessions` | refresh, logout and session issue | `rows` is the table, `pc` the next statement of each request, `tok`, `row`, `familyActive` and `minted` its local variables; one action per statement |
| `SessionLife` | what sessions promise | the abstract specification: live tokens, licences to issue one more, and no way back; `Sessions` implements it (`KeepsSessionLife`) |
| `SessionsProofs` | – | theorems about `Sessions`; that it implements `SessionLife` |
| `LimiterOps` | the limiter as a value | one operator per method, returning the limiter left behind |
| `SlidingWindow` | what a limiter promises | the abstract specification: failures vanish the instant they are one window old |
| `Clock` | the clock the limiters read | `now`, and its step |
| `Limiter` | one shared limiter | a step per method call, which holds the mutex throughout; implements `SlidingWindow` |
| `LoginGate` | `POST /authenticate` up to the session | composes two limiters (`LimiterOps`) and the clients; `attempts`, `fresh` and `resets` are histories of a window, and no reset or restart empties `attempts`; one action per call; `GateInit`, `GateNext`, `GateSpec` |
| `LimiterProofs` | – | theorems about `Limiter`, that it implements `SlidingWindow`, and about `LoginGate` |
| `IgdbClient` | throttle, token cache, `do` | instants are kept relative to the clock, so the state space is finite without a time bound; a timer fires on time or late; Twitch hands out any token with any life, the refused one included, and IGDB may refuse any |
| `IgdbClientProofs` | – | theorems about `IgdbClient` and `IgdbQuery` |
| `UserGames` | `/me/games` | `entries` is the table, keyed by its unique constraint; one action per statement |
| `UserGamesProofs` | – | theorems about `UserGames` |
| `CatalogTable` | `games` and `games_tags` as others see them | abstract: whole commits, and ids that stay; `Catalog` implements it, `GameLists` refers to it and reads it |
| `GameLists` | the id in `POST /me/games`, and the reading of a list | composes `CatalogTable`, the names of tags and `user_games`; a list is read in four SELECTs (entries, games, links, tags); `had` is what the catalog showed meanwhile |
| `GameListsProofs` | – | theorems about `GameLists` |
| `IgdbQuery` | `SearchGames`, `escapeSearchTerm` | operators only, what `IgdbClient` sends; text is a sequence of kinds of character, and how IGDB reads a literal is external |
| `UserTable` | `users` as readers see it | abstract: names and visibilities change one account at a time; `Accounts` implements it, `Profiles` reads it |
| `Accounts` | `users` | one action per statement; both unique indexes are `Clashes` |
| `AccountsProofs` | – | theorems about `Accounts`; that it implements `UserTable` |
| `Images` | `images.Avatar`, `coverRect`, `validate.ImageDimensions` | operators only; `Wrapped` is int arithmetic; `Avatar` is the status an upload gets, with the errors of reading and encoding |
| `Profiles` | the public profile, the public photo, `/me/avatar` | `at` is the next statement of each visitor, `cache` what may be kept for a year; composes `UserTable` and `Images`; `open` and `had` are histories of a visit |
| `ProfilesProofs` | – | theorems about `Profiles` and `Images` |
| `GameRecord` | decoding an answer, `FromIGDB`, the upsert's columns, `SplitTags` | operators only, on a table of one game: what a version of `Catalog` stands for |
| `Catalog` | imports and the backfill | `FetchMissing` is a request that asks IGDB for the games that are not stored, `FetchAll` the backfill; `tx` is the open transaction of each importer: what it wrote, and so what it holds; `Commit` makes it visible |
| `CatalogProofs` | – | theorems about `Catalog` and `GameRecord`; that it implements `CatalogTable` |
| `MC*` | – | symmetry, views and values for TLC |

Conventions. A statement of SQL is one step. A handler is a chain of steps led by
`pc`; `Begin`/`Start` take a request, `Goto` moves it on, `Finish` answers it and
clears its locals. A slot of `Proc` is reused, so any number of requests follow
one another and as many as there are slots overlap. Requests that are refused
for what they say (`Refuse`, `RefuseBody`, `RefuseCookie`) change no state but
the answer. `StatementFails` is an error of the database at any statement;
`Restart` (in `Sessions`, `LoginGate`) loses what is in memory. Definitions
called "Mutant of X" are not used by the specification: each is a bug that could
be in the code, with which the property named in `PROJECT.json` fails.
History variables (marked "history") are read by properties only. MC views leave
out the answers already given, on which nothing depends.

What data stands for: instants are naturals; names, emails, tokens, games and
tags are model values; a password is right or wrong by choice; a rating stands
for the rating and the review, which the code treats alike; in `Catalog` a
game's version stands for all the columns IGDB owns, which are in `GameRecord`;
in `Profiles` a list stands for whose it is and a picture for its JPEG. `Hash` is
one idealisation: the code keeps 12 hex characters of a SHA-256 ("plenty to tell
one person's avatars apart", `avatar.go:99`), and the model takes photos that
differ to differ in them. A photo that collides with the one before it would be
served from a cache instead of it.

## Runs

| Run | Bounds | Shows |
|---|---|---|
| `sessions` | 2 requests, 1 family of 3 tokens or 2 of one token, 3 only while none can have expired, expiry 2, grace 0, clock to 3 | refinement of `SessionLife`, late replays refused, consumption final, over stays over, no token without row; a consumed token has a successor unless something was cut short |
| `limiter` | 3 keys, 2 failures, window 2, sweep threshold 2, clock to 5 | refinement of `SlidingWindow`, exact waits, map swept |
| `login_gate` | 2 clients, 1 address, 1 account, limits 2, windows 3 and 2, clock to 5, a login or restart per window | a client has no more than the limit of guesses judged since the last login or restart, and no more than the limit again for each of those; `Retry-After` is enough |
| `igdb_client` | 2 callers (1 cancellable), 2 tokens, 2 slots ahead, interval and margin of 1, exchanges of at most 1, tokens that live 1 or 3, any of them handed out at any time; every term of up to 5 characters of 6 kinds | spacing, single flight, retry, margin; every call returns; a search term stays in its literal |
| `user_games` | 2 requests, 2 users, 1 game, 3 rows ever | ratings kept, ratings earned |
| `accounts` | 2 requests that name 3 fields between them, 2 names, 2 addresses, 2 accounts | refinement of `UserTable`, unique emails; an undisturbed PATCH is exact |
| `profiles` | 1 visitor, 2 accounts, 3 names, 2 photos, 2 cached answers; ints of 4 bits | lists and photos shown; images judged |
| `catalog` | 2 importers, 2 games, 2 tags in both orders or none, 1 edit of one game; every answer with and without each field, 2 kinds the code knows and 1 it does not, over 2 stored ones | whole, fresh imports, valid ids; to readers it is `CatalogTable`; a game reads as answered |
| `game_lists` | 2 requests, 2 users, 2 games, 1 tag, 2 versions, 2 names of the tag; 2 pairs ever posted; one list read at a time, with 1 commit meanwhile | entries are of the games their users posted; a list shows columns, links and names of tags of one state each |
| `logout_race`, `accounts_lost_update` | as the module's other runs | see *Findings* |
| `igdb_rate` | 3 callers (1 cancellable), 2 requests per second | see *Findings* |

Why these are enough. Every race found here is between two requests, and a
third only repeats what a second can do, since requests share nothing but the
table (the proofs of `Sessions` hold for any number). Three tokens of one family
are a chain of two rotations or a fork; that sessions do
not mix takes two of one token each, explored while both may be live (`FewTokens` of `MCSessions` cuts off the rest, and a third token once one may
have expired). The clock passes expiry, the grace window and both ends of a
limiter's window. Two failures tell "oldest" from "newest", three keys exceed
the sweep threshold. Two callers are one that fetches and one that waits for the
mutex or gives up; requests in excess of a rate of two take three. Two users and one game make two rows of one
game; three rows let an entry be deleted and added again by each. Two tags in
both orders are the smallest deadlock. Three names let an account move to a new
one while the other takes the old; visitors share only the cache, and one that
returns finds what it left there as another would. While a list is read a commit falls before
the games, between games and links, between links and tags, or after all; readings
leave nothing behind, so one at a time loses none; what a list may mix is
columns, links and names of different states, which one commit shows (the
theorem is for any number); local ids and IGDB's are one set, so that taking one
for the other shows. Ints of 4 bits wrap round as
those of 32 do, and the limit of 5 pixels is passed in both directions. Terms of
five characters hold any escape followed by any other and are longer than the
limit of four; two tokens are a refused one and another, and either may be handed
out next; a life of 1 is within the margin and one of 3 outlasts it; a login at
the gate starts an account afresh, and one per window shows what that gives a
client, as the next is the same again; days are of two seconds, with instants before 1970.

State constraints are in guards and named: `MaxTime`, `MaxAhead`, `MaxRows`,
`MaxUsers`, `MaxVersion`, `MaxPosted`, `MaxReaders`, `MaxCommits`, the size of
`Jti`, `Family` and `Token`. Six more are CONSTRAINTs, whose states are checked
and not followed further: `FewTokens`, `FewFields` (requests in flight name
three fields between them, so one PATCH of all still meets one of another),
`SmallCache` (two cached answers, so an old one and a new one), `OneEdit`
(either game is edited upstream, not both), `FewResets` (one login or restart
per window and account) and `BeginsPlain` (while nobody reads, columns and names
are the first ones, since a list depends on what changes during its reading). A bound stops the environment (the clock, a new login, an edit upstream); where it stops a
handler (no identifier left) the request may still fail or be lost.

### Fairness

Only `IgdbClient` assumes any, for `EveryCallReturns`. The clock advances, timers
fire, early or late, and exchanges end (`http.Client` has a timeout), which is weak fairness;
getting the mutex is strong fairness, since Go's `sync.Mutex` hands over to a
waiter that starves. Nobody has to call, to give up or to revoke. The other
properties are about safety and need none, and the other modules have nothing to
wait for but the database: in `Catalog` an import may wait for a row lock, and
that it gets it, or is picked by the deadlock detector, is PostgreSQL's promise
rather than this code's.

## Proofs

Every theorem holds for all values of the constants that satisfy the named
ASSUME of its modules; TLC evaluates each ASSUME in the runs. Each proof module
names its inductive invariant `IInv`: hardly any property is inductive alone,
since a request acts on what it read some statements ago.

**Sessions** (`SessionsProofs`; durations are naturals, tokens live for some time,
`NoJti` and `NoRow` are not values; any requests, tokens, families, restarts and
failures). `TypeCorrect`, `LateReplay`, `RowOfTokenInHand`, `RevocationFinal`,
`OtherSessions`, `OverForever`.
`IInv == TypeOK /\ PhaseInv /\ RowsInv /\ SnapshotInv`. `PhaseInv` says what a
request holds in each phase. `RowsInv` ties a row to what was issued: same
family, same expiry, and it can only be gone when it has expired. `SnapshotInv`
ties the copy of a row a request holds to the table: if the copy says "consumed"
the table agrees to the instant; if it says "live" and the table says "consumed",
that happened after the request began. The last is the argument for
`LateReplayRefused`: an accepted request either read a live row, and then it
began before the token was consumed, or it read a consumed one and `Decide`
measured the grace window against the true instant. `TableStep` collects what
any statement may do to the table (rows only appear, are consumed once, or are
deleted expired).

Two more follow. `SuccessorIsLive`: that a consumed token leaves a
live one is not inductive, as the one that replaced it might lapse first;
`IssuedInv` (no token was promised a longer life than one issued now) and
`SuccessorInv` (it is replaced by one that expires no earlier) say why it does
not. `ImplementsSessionLife`: every statement is a step of `SessionLife` or
changes nothing of it.

**Limiter** (`LimiterProofs`; limit and window are positive). `TypeCorrect`,
`BlockEndsOnTime`, `WaitIsExact`, `SweptInTime`, `ImplementsSlidingWindow`.
`IInv` is `Sound(limiter, now)`: besides the types, every key's newest failure is
younger than a window before the last sweep, which is what `MapIsSwept` takes. The
rest is about `Prune` alone. A time-ordered sequence is cut in one place
(`CutExists`, by the least-number principle, as the prover cannot instantiate an
induction rule); pruning cuts there; pruning twice is pruning once with the later
cutoff. So the failures that count, `Live(k)`, do not depend on when their key was
last touched or swept, and they are the mapping of the refinement.

**Login gate** (`LimiterProofs`; limits, windows and the unit of `Retry-After` are
positive; any clients, addresses and accounts). `GateTypeCorrect`, `ClientsAreHeld`,
`WaitSuffices`. `EachClientIsHeld` speaks of the attempts a client was let
through to, the limiter of the failures it was told of, and between the two lies
bcrypt. A login to the account, its own or another's, and a restart empty the
limiter, so the attempts are kept twice: `attempts` has all of the window, `fresh`
those since the limiter was last emptied. `GateIInv` compares the latter with the
failures: `Behind(Within(fresh[p][e]), Counted(e), Margin(p, e))` says that, counted
from the newest, every attempt of `p` since then has a failure of the account at least as late, but for `Margin`, the one
whose outcome `p` still owes; and that one is excused only while the account is
below its limit. At the limit `Record` drops the failure, and then the account
is full of failures no older than `p`'s attempts, which is why dropping it costs
nothing. As the failures are later they leave the window later: as time passes
the comparison stays. So when the limiter lets `p` through, fewer than `EmailMax`
of those attempts count. `Paid` adds the rest: in every window that ends now `p`
was let through at most as often as since the last reset and `EmailMax` times for
each reset. It speaks of every cutoff, since the window moves on.
`WaitSuffices` needs `Sound` of both limiters and that rounding up is enough.

**IGDB client** (`IgdbClientProofs`; an HTTP exchange takes no longer than the refresh
margin, 10 s and a minute in the code; tokens live any time, 0 included). `TypeCorrect`, `RetryIsWorthIt`,
`TokenOutlives`, `ReplacedForCause`, `OnePerInterval`. `SlotInv`: slots that are
claimed and have not passed are distinct and before the next one; one whose timer
was late is let through whenever it wakes, and `OneCallerPerInterval` claims nothing
of it. `FetchInv`: what was seen when the
mutex was taken is still so, which is what single flight rests on. `StaleInv`:
what a retry was refused with counts as rejected until it is done, also if Twitch
hands it out again meanwhile. `LifeInv`: a token found in the cache by a first
request outlives what is left of the exchange. Of a token fetched for the request
nothing is claimed, since any `expires_in` is stored (`client.go:143`), and of a retry
nothing either, since it takes what is cached whatever its expiry
(`client.go:99-101`). `RefusedTokenNotRepeated` excepts the caller whose refused
token was handed out again, which
`TestPersistentUnauthorizedFailsRatherThanLooping` has happen.

**Search** (`IgdbClientProofs`). `TermsAreQuoted`, `TermsStay`, for terms of any length (`MaxTerm` is
any natural). The text written so far is `Safe`: it closes no literal, leaves no
backslash open, and says what was meant. `PlainIsSafe` and `EscapedIsSafe` show
that each kind of character keeps it so. The induction is by the least length at
which a term would fail; that the recursive functions of the model
(`FlattenSeq`, `Escapes`) exist at all is shown in the same way.

**List of games** (`UserGamesProofs`). `TypeCorrect`, `RatingIsEarned`,
`RatingIsKept`. The rating's rule is judged in one statement and
written in another. `EarnedInv` says why the update may write: either it moves
the entry to finished itself, or the entry it judged was finished, which
`FinishedNoted` keeps.

**Accounts** (`AccountsProofs`). `TypeCorrect`, `PatchesAreExact`,
`ImplementsUserTable`. `UniqueInv` is the unique indexes; `ReadInv`: while no other
write to the account is noted it still is what was read, afterwards what was
asked for.

**Profiles and images** (`ProfilesProofs`). `TypeCorrect`,
`ListedWasPublic`, `ShownIsCurrent`, `StoredWasBounded`, `StoredIsCentred`.
`VisitInv` says what a visitor holds at each step and why it may, `CacheInv` that
whatever is cached is cached under its own fingerprint. The images need
arithmetic only: dividing first is as good as an exact product, for ints of any
width, and half of a natural is off by at most one. `Profiles` reads the table
that `ImplementsUserTable` shows `Accounts` to keep.

**Catalog** (`CatalogProofs`; finitely many games and importers, `NoRow` is not a
row). `TypeCorrect`, `ImportsAreWhole`, `IdsHold`, `StoresAreFresh`,
`ImplementsCatalogTable`. An import
writes what it fetched before its transaction and commits what it wrote some
statements ago: `FetchedInv` says that what it carries was answered by IGDB since
it began, `TxInv` that what it wrote is whole but for the game it is at.
`HeldInv` is the row locks, and `IdInv` what they are for: between an upsert and
its commit nobody else inserts that game, so the id it was told is the row's.
`IdLeft` shows by counting that a fresh id is always left, though `Id` is finite
in the model. `ImportReads` and `AnswersAreRead` are about `GameRecord` (a day has some seconds, the
ids of a list differ): whatever the tables held,
each column, the kind by its own name, reads as answered (`ColumnsAreAnswered`), and since tags of different
lists have different keys, each list comes back (`SplitIsAnswered`).

**Lists over the catalog** (`GameListsProofs`; no assumptions). `TypeCorrect`,
`EntriesWereAsked`, `ListsAreCurrent`. `ReadInv`: whatever the catalog showed since
a reading began is still stored under its id, so the game whose columns were read
is the one whose links are read. `ShownInv` keeps, for columns and for links, one
state of the catalog each that they are all of. `GameLists` uses the catalog that
`ImplementsCatalogTable` shows `Catalog` to keep.

Model-checked only: `EveryCallReturns`, since liveness under fairness is outside
what TLAPS can do here. The findings are counterexamples and have nothing to
prove. Proved without a run of their own: `OtherSessions`, `BlockEndsOnTime`,
`StoredIsCentred`.

## Findings

Each is a run that expects a violation; `PROJECT.json` quotes the line it
contradicts.

1. `logout_race`: a refresh accepted before a logout writes its successor after
   it; the ended session has a live token.
2. `igdb_rate`: callers spaced by the throttle bunch behind the token mutex, and
   retries pass it by, so IGDB's rate is exceeded.
3. `accounts_lost_update`: a PATCH of one field writes back two others as it read
   them; a bio edit can make a profile public again.

Met while modelling and possible in the models, but not stated as runs:

- With no grace window two overlapping refreshes are both accepted on one token,
  where `decide_test.go:94` has every replay an attack (`sessions` runs with a
  grace of 0; `LateReplayRefused` says what is true: a request that *began* after
  the token was consumed is refused).
- N clients at once may have N times the login limit of guesses judged, since the
  limiter is asked before bcrypt and told after it. `EachClientIsHeld` states the
  limit for one client at a time.
- The timeout of a request does not reach the IGDB client: handlers pass the Gin
  context, whose `Done` is nil (`Cancellable` in `IgdbClient`). A call lasts as
  long as the HTTP client's own timeouts allow.
- A list entry may leave "finished" between the judgement of its rating and the
  write; `RatedWasFinished` claims only that it was finished at some time.
- A PATCH of an account that names no username may be refused with "username
  already taken" when another request has renamed the account meanwhile and the
  old name is gone; `PatchIsExact` excludes it when nothing else writes the
  account.
- Emails are stored in lower case and looked up as typed (`Authenticate` in
  `Accounts`), so who registers with a capital can only log in without it.
- A page may show one account's list and another's photo: the photo is asked for
  by name, and the name may have moved. Each was public by that name during the
  visit (`OnlyPublicListed`, `PhotoIsCurrent`), which is all that is promised.
- A photo that was cached while its account was public is shown by that cache
  after the account was made private, to whoever has the URL with its version.
- A search term of two control characters passes the minimum of two and asks IGDB
  for nothing (`SearchGames` counts before `escapeSearchTerm` drops them).
- Of two overlapping imports the one that asked first may be stored last, so the
  catalog shows the older answer until the next backfill (`NeverBehindItsStart`
  claims freshness as of the start of an import only).
- A list read while an import commits may show a game with the columns of one
  answer, the links of another and the tags' names of a third, as they are three
  statements (`ListIsCurrent` claims that each is of one state during the reading).
- A login to an account empties its failures, whoever made them: somebody who
  guesses at it has the limit again after each login of its owner, and after each
  restart (`EachClientIsHeld` counts both).
- A retry may present the very token that was refused, when Twitch hands it out
  again, and a token about to expire.
- Between consuming a token and writing its successor a session has no live token:
  a second tab then is told that its session is over, and has its cookie expired,
  where `decide.go:30` has only sessions that were ended be told so
  (`RotationLeavesSuccessor` excepts that request).

## Not modelled

Pixels and codecs (Go libraries); the constant text of IGDB queries; the proxy for
a game's add-ons (`GetGameDLCs`: an integer, one call of `IgdbClient`, nothing
stored); CORS, cookies' attributes, access tokens (stateless: a function of the
header and the clock); start-up and configuration; the health check; running the
migrations (their constraints are in the modules). The limiter of the username
check has no module of its own: its two calls are a `Check` and a `Record` of
`Limiter`, which runs them in any order.
Deleting accounts, games or tags is not in the code. The order of a list, the
timestamps `created_at` and `updated_at` are left out.

## Plan

Done, in this order: `RefreshDecide`, `Sessions`, `SessionsProofs`, `LimiterOps`,
`Limiter` against `SlidingWindow`, `LoginGate`, `IgdbClient`, `UserGames`,
`Accounts`, `Catalog`; then `SessionLife` under `Sessions`, `Images`, `UserTable`
between `Accounts` and `Profiles`, `IgdbQuery`, `GameRecord`; the proofs of
images, profiles, lists, accounts, the IGDB client, `SessionLife`, the limiter and
the catalog; `CatalogTable` under `Catalog`, `GameLists` over it and its proofs;
the proofs of the login gate, of the search term and of `GameRecord`.

Next, to prove:

- that a sequence of imports leaves the tags of *other* games as answered, which
  takes `GameRecord` on more than one game: a tag renamed by one import is
  renamed for all.
- the limiter's map under `MapIsSwept` as a bound on its size.
