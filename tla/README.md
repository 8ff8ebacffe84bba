# A verification project for mcp-webtools

mcp-webtools is an MCP server that gives AI agents two tools, `fetch` and
`search`, together with a database of agents, tokens and recorded calls, a REST
API for administrators and a web UI behind Keycloak logins. This directory holds
TLA+ specifications of its core, the TLC configurations that check them, and
TLAPS proofs. Paths below are relative to `src/`.

## 1. The system: inventory

| component | state it keeps | operations | talks to |
|---|---|---|---|
| memory cache (`internal/cache/cache.go`) | linked list, map, running byte count, one mutex | Get, Put with LRU eviction, expiry on Get | fetch, search |
| database cache (same file) | `cache_entries` table | Get, Put | used by nothing |
| page cutting (`internal/tools/fetch/fetch.go`) | none | pageFrom, pageFromStream, readChunk, cutToUTF8Boundary | fetch |
| fetch tool (`fetch.go`, `handler.go`, `internal/httpclient`) | result cache and snapshot cache, shared by all calls | Fetch: look up, GET with retries, capture, stream, store | origins, cache |
| search tool (`internal/tools/search`) | result cache | Search: look up, query SearXNG, truncate, store | SearXNG, cache |
| agent authentication (`internal/auth`, `internal/storage/actor_repo.go`) | `actors`, `agent_credentials` | issue, authenticate, revoke, revoke all, list | recorder, REST |
| recorder (`internal/recorder`) | none | wrap a tool, preview its output, insert a row | history |
| history (`internal/storage/history_repo.go`) | `tool_calls` | record, list by keyset, distinct tools, prune | REST |
| human sessions (`internal/humanauth`) | `human_sessions`, cookies | login, callback, authenticate and refresh, logout | Keycloak |
| human actors and roles (`internal/storage/human_repo.go`, `internal/humanauth/middleware.go`) | `user_identities`, `actors` of kind human | get or create, RequireAdmin | REST |
| REST API (`internal/restapi`) | none | agents, tokens, history, me | storage |
| process life (`cmd/webtools/main.go`, `internal/health`) | routes behind an atomic pointer, readiness checker behind a lock, listener | ready or degraded start, retry, swap, probes, shutdown | all |
| storage opening (`internal/storage/db.go`, `db_postgres.go`) | schema, advisory lock | open, migrate, backfill | main |
| web UI (`web/`) | history page state | load, load more, filter | REST |

What is hard in it:

* **Sharing between concurrent calls.** Every tool call runs in a goroutine of
  its own; the two fetch caches are shared, so a page or a snapshot stored by
  one call is served by another, later, under another version of the document.
* **Sequences of statements without a transaction.** Authentication is three
  statements, refreshing a session is read, exchange with Keycloak, write; an
  administrator, a logout or another request of the session runs in between.
* **Boundaries.** A page ends on its limit, in a rune, one byte before the end;
  a body is as long as the cache budget, or one byte longer.
* **Time.** Cache entries, retained rows, session claims and shutdown grace each
  have an age limit.
* **Paging through a table that changes.** New calls arrive, late inserts
  commit with an older timestamp, the retention sweep deletes the cursor's row.
* **Two versions on one schema.** During a rolling update replicas of the old
  version write rows while replicas of the new one wait for the migration lock,
  add columns and carry rows over, in statements that fail and processes that die.
* **Answers out of order in the browser.** The history page has several requests
  under way, some cancelled and some not, and one list that they all change.
* **Starting without a database** and swapping the routes in later, while
  probes and calls arrive and SIGTERM may come at any moment.

`PROJECT.json` lists each of these at its line under `hazards`, with the
properties that cover it.

## 2. Modules

```
LRU ──────────┬── AtomicCache ◄─ refines ── MemoryCache ── Search
              └── Fetcher
Pages ────────┴── Walk
ToolCalls ─── HistoryPage
AgentAccess   HumanActor   HumanSession   Migration   Boot
```

Every specification `X` at the end of a line, and MemoryCache, has a module `MCX` with
the definitions of its run, and a module `XProofs` with its theorems, except that the
proofs about Search are in MemoryCacheProofs and those about Pages and Walk in
FetcherProofs, which needs the same lemmas on pages. Search and Walk name their
specifications `SearchSpec` and `WalkSpec`, so that those modules can extend both.

**LRU** writes the cache's operations as operators on a record `order, items,
used`. `BytesHeld` counts bytes as the cardinality of a set of byte slots, which
needs no recursion and so stays within the provers' reach.

**MemoryCache** runs them under `c.mu`: `PutInsert`, one `PutEvict` per turn of
the eviction loop, `PutReturn`. The variable `putting` is the lock. `GetMiss`,
`GetExpired` and `GetHit` are the three ways out of Get.

**AtomicCache** is what callers are promised: Get and Put in one step. The
refinement mapping is `cache <- Trimmed(cache, MaxBytes)`: entries which a Put
under way still has to delete already count as gone.

**Pages** is the page arithmetic. A document is a sequence with, at each byte,
the width of the rune ending there (0 if none): exactly what
`utf8.DecodeLastRune` can tell about a slice. **Walk** is the agent's loop
"call with the last next_offset, stop when truncated is false", in which each
page comes from the snapshot or from the stream. Pages also holds the recorder's
preview, which is cut the same way.

**Fetcher** composes LRU and Pages: each call is a process that goes through
the result cache, the snapshot cache, the GET, the capture with its timer or the
stream, and the stores. `Origin[t]` is the document served at time t. A cached
value records when and for whom it was read; the properties compare this with
the caller. Each cache operation is one step, which `ImplementsAtomic` justifies.

**Search** composes the searches with MemoryCache itself, eviction loop and lock
included, instead of its atomic form: they supply its keys, values and sizes and
are its whole environment. `LookupHits` and `LookupMisses` are the cache's Get,
`Store`, `Evict` and `Stop` its Put. A result is the number of its bytes, an answer
of SearXNG a sequence of results; one query stands for all, since the query is part
of the key as it is. A stored value also says who asked and when SearXNG answered,
for the properties.

**ToolCalls** is the `tool_calls` table. It splits the recording into the stamp
(`uuid.New`, `time.Now`) and the commit of the insert, so rows appear late and out
of order, and has the sweep and the listing query as operators.

**HistoryPage** is the component of `web/src/pages/History.jsx` over that table.
Request 0 is the first page's: a change of filter replaces it, which is what the
effect's `cancelled` flag amounts to. The other requests are Load mores, which
nothing cancels. The server answers a request in the two statements of
`ListToolCalls` (`ReadCursor`, `ReadPage`), or with an error in JSON (`Fail`), or not
at all (`Disconnect`). `crossed`, `cut`, `start` and the field `there` exist for the
properties only.

**Migration** is storage.Open of several replicas on one Postgres database: connect,
wait for the advisory lock, read the columns, create the table or add the missing
columns one by one, four backfill statements, unlock. Replicas of the old version insert
rows with the old columns until the update has stopped them. A row keeps what its writer
said next to its columns; `owed` holds the rows an Open that has returned must have
carried over. The columns are those ToolCall has under another name; `error_message`,
for which it has none, is left out. The old schema is the one in
`internal/storage/migration_populated_test.go`, with its NOT NULL columns or without.

**AgentAccess** has one action per SQL statement of a request (find the
credential, touch `last_used_at`, load the actor, insert the row), each with its
failure, and the REST handlers that change credentials. These take any id a path
names: an agent's, a human's, or one of no actor. The fields `late` and
`failed` of a request exist for the properties only; so does `gone` in the
specification, since the recorder does not hand the request's context to its insert
and a cancelled tool simply returns an error.

**HumanSession** models the callback, Authenticate and logout; Keycloak is the
variables `enabled`, `rotates` and `current` (the refresh token it accepts).
Claims are represented by the time they were read. `late`, `refused`, `lost`,
`age`, `rival` and `excused` exist for the properties only.

**HumanActor** is GetOrCreateHumanActor statement by statement. The rows of an
open transaction are part of the request's state: nobody sees them, and inserts
of the same subject or display name wait for them, as the unique indexes make
them wait on Postgres (SQLite's single writer allows fewer interleavings). The
request stands for the id it generates. Behind it stands RequireAdmin and
`POST /api/actors`, whose agents share the display names with humans. A request's
`after`, the requests that were over when it came, exists for the properties only.

**Boot** models main's goroutines: the select loop, the listener, the retry with
its backoff, and the probes and calls from outside. storage.Open is there twice, at
boot and in the retry: it succeeds while the database is up and its migration lock
free, fails while the database is down, and waits while another session holds the lock
(`locked`, which the environment changes as it likes). The retry looks at the context
only between two Opens; main, in its first Open, never.

### Environment assumptions

* Random ids and tokens do not repeat and SHA-256 does not collide: a credential
  stands for its raw token and its hash, a session for its id and its hash.
* An MCP session is used with tokens of its own agent. Framing, sessions and
  context propagation are the SDK's.
* In HumanSession at most `Slack` passes between Keycloak's answer and the
  commit of the row it leads to; that is local work, which the code does not
  bound itself. `GrantsAreFresh` states the bound with the slack in it.
* Postgres answers statements, grants the advisory lock in turn and ends the
  sessions of a dead process. AutoMigrate adds the missing columns in the order of
  the model's fields and leaves columns it does not know alone, as gorm does.
* In Search nothing but local work lies between SearXNG's answer and the Put, so no
  time passes there. `AnswersAreRecent` would otherwise need a slack, as
  `GrantsAreFresh` has one: the cache counts an entry's age from the Put.
* In Boot the identity provider answers the discovery request of buildAppHandler or
  refuses it; SIGTERM cancels that request.
* In Fetcher, `Timeout` bounds doGet to the end of the body. This is the
  http.Client timeout, which covers reading the body.

## 3. Runs

All passing runs check for deadlock, except `history_page`, `human_session`, `search` and
`migration`: their clocks, ids, clicks and requests run out, and a quiet system is a
proper end there.

| run | instance | distinct states |
|---|---|---|
| `memory_cache` | 3 keys, sizes 0, 1, 2, 4, budget 3, TTL 1, clock to 2 | 1,370 (symmetric) |
| `walk` | every UTF-8 text up to 8 bytes, pages of 4 bytes | 709 |
| `fetcher` | 3 overlapping calls, 2 agents and an anonymous caller, offsets 0 and 2, pages of 2, budget 4, TTL 1, 4 versions of the document | 872,052 (symmetric) |
| `search` | 2 searches at a time, 2 agents and an anonymous caller, limits 0 (the default), one of its own and over the maximum, answers `<<0, 2>>` and `<<4>>`, budget 3, TTL 1, clock to 2 | 469,536 (symmetric) |
| `history_page` | 3 rows and one arriving, pages of 2, 2 Load mores at once, 2 filters, 3 clicks, retention 1, clock to 2 | 145,920 |
| `migration` | 2 replicas and the old version, 2 rows, 2 faults, old columns NOT NULL or not, empty or old database | 97,049 |
| `agent_access` | 2 agents, 1 human and an id of nobody, 2 credentials, 2 requests, clock to 2 | 1,089,467 (symmetric) |
| `boot` | 2 calls of up to 3 ticks, grace 1, backoff cap 30, the migration lock taken and given back at will | 134,544 |
| `human_actor` | 2 subjects, 2 display names, 2 roles, 3 requests | 125,728 (symmetric) |
| `human_session` | 1 session, 3 requests, interval 2, slack 1, clock to 6, with and without rotation | 837,623 (symmetric) |

**memory_cache.** `Lockstep`: list and map hold the same keys. `UsedIsBytesHeld`:
the running count is exact. `WithinBudget`: whoever takes the lock finds the
budget kept. `EntriesComeFromPut`: no step renews an entry's age but its own
Put. `ImplementsAtomic`: the refinement. The bounds include an empty value, a
value larger than the whole budget, replacement by a larger and by a smaller
value, and evictions of several entries by one Put.

**walk.** `PagesAreText`, `WalkIsWhole`, `SnapshotAndStreamAgree`, `WalkEnds`, and
`PreviewIsLongest` for the recorder's preview of the same texts.
Pages of 4 bytes are the smallest that can hold every rune; eight bytes give
texts ending on a page, in its middle, and with a cut in every rune width.
Fairness: an agent that has not seen the end keeps calling.

**fetcher.** `AgentsAreIsolated`, `AnswersAreFresh` (a page is at most TTL plus
one exchange old, so neither cache refreshes the age of the other),
`PagesAreRight`, `SnapshotsAreWhole`, `SuccessIsCached`. Three calls are enough
for one to store, a second to overwrite or expire and a third to read. The four
documents are as long as the budget, longer with and without a Content-Length,
and shorter than two pages. Deadlock checking shows that no call waits for ever.

**search.** `AnswersAreOwn`: a search gets what SearXNG answered its own agent, cut
to its own limit, whatever was stored and evicted meanwhile. `AnswersAreRecent`: when a
search returns, SearXNG gave its answer no longer ago than the time to live. The time of
the answer is kept with the value, apart from the `storedAt` by which the cache
decides, so that a hit which renewed an entry's age would break it, however fresh the
entry would seem to the next hit. The answers include one that
starts with an empty result, so that an entry of size zero is stored, and one larger
than the budget, so that a Put evicts another agent's entry and its own.

**history_page.** `ListIsOfFilter`: rows of the selected filter only, newest first, none
twice. `EndIsTheEnd`: a list that offers no more has every row that was there when it
was first read, but for those that outlived the retention; this carries the promise of
keyset paging over rows with one timestamp, late inserts and a cursor whose row is
pruned. `LoadingEnds`. Each names its exception: loads that cross (`crossed`) and a Load
more that met a server error (`cut`). Pages of two split the two rows that have one
timestamp. The run has a retention; the theorem `EndsAreEnds` also holds without one,
where no row may be missing at all. Fairness: every request is answered or its
connection breaks; nothing is assumed of users, recorders or the sweep.

**migration.** `RenamesReadAsWritten`: a row of the old version reads as it was written,
in the four columns that a statement of the backfill fills, once an Open that took the
lock after it has returned, and no backfill touches any column of what the new version
wrote. The fifth, `output_size`, no statement fills: see the other observations below.
`ReplicasDoNotCollide`: the lock keeps AutoMigrate of two replicas apart. `OpenEnds`: no
Open waits for ever behind a failed or crashed one; the exception is an unlock that
failed on a connection that stayed alive. Two replicas and two faults let one crash
inside the other's wait and start again; two rows are one before and one during the
migration. Fairness: the steps of an Open are taken, and a lock that keeps becoming free
is granted (Postgres queues waiters). Faults are never forced.

**agent_access.** `RevokedTokensAreRefused`, `RevocationIsPermanent`,
`RowsNameTheOwner`, `AnswersAreRecorded`, `RefusalsAreJustified`. Two requests may
share a credential or an actor, and each step races with both ways of revoking.

**boot.** `ReadyMeansRoutes`, `ReadinessIsKept`, `CutOnlyAfterGrace`, `Recovers`,
`StopsOnSignal`. Fairness: weak fairness of time, of the main goroutine's select,
of the retry's timer and of calls (each tool has a timeout), and storage.Open returns
while the database is down, or up with its migration lock free. Nothing is assumed
of the database, of whoever holds the lock, of signals, of probes or of the listener.
`StopsOnSignal` therefore has two parts. Once main has left its first Open, SIGTERM ends
the process, whatever the lock does, also while the retry's Open waits for it. In the
first Open, which has no context (`cmd/webtools/main.go:141`,
`internal/storage/db_postgres.go:42-49`), main hears nothing: there the process ends if
the lock is given back for good, and need not otherwise. `Recovers` supposes the
same. The grace is shorter than the longest call, as in the code (5 s against 15 s).

**human_actor.** `IdentitiesAndActorsPair`: no statement that fails leaves half an
actor. `OneActorPerSubject`: whoever wins the race, all requests of a subject act as one
actor. `FailuresAreGenuine`: losing the race is no error, only a display name that
belongs to somebody else is. Three requests are two racers of a subject and one of
another with their name. `RoleChangesTakeEffect`: an identity does not keep the role of
a request when another one, which came only after that one had its actor and had another
role, has got its actor too. Requests that overlap may store their roles in any order;
the comparison before the write may be out of date by then. Deadlock checking shows that
transactions never wait for each other in a circle.

**human_session.** `GrantsAreFresh`: however refreshes overlap, no request acts
on claims older than the interval plus the slack. `LogoutHolds`: a logout ends the
session, except when a refresh was under way or the delete failed.
`RefusedMeansRevoked`: Keycloak refuses a refresh only of a user it no longer
honours, except when another request of the session rotated the token between this
one's read and its refresh, or a rotated token was lost with an answer or a write.

### Disagreements

Two runs are expected to fail; each checks one sentence of the repository.

* `snapshot_prefix`: a body of the cache budget plus one byte, sent without a
  Content-Length, is stored without its last byte. The probe of `bodyEnded` reads
  two bytes, gets one and the end, and calls the body complete. The `fetcher` run
  leaves this one length out, so that its other claims are checked apart from it.
* `migrated_insert`: the migration keeps the old columns with their constraints.
  In the schema of the repository's own migration test `args` and `status` are NOT
  NULL without a default, so that every insert of the new version, which names
  neither, is refused and its row lost.

Other observations, which the models show but no run states:

* `output_size` has no statement in the backfill, although the old table's
  `response_bytes` holds it and the function's comment (`internal/storage/db.go:66-69`)
  names that column, so the output of every old row reads as of size 0.
  `error_message` is dropped as well.
* A failed `pg_advisory_unlock` is called not fatal because `conn.Close` ends the session
  (`internal/storage/db_postgres.go:54-56`). It returns the session to the pool, and
  the lock with it; the next Open of any process waits for it (`leaked`).
* "A refresh failure means Keycloak no longer honors the session"
  (`internal/humanauth/oidc_provider_test.go:147`), so Authenticate deletes the row. Two
  requests of one session that both find it expired send the same refresh token; when
  the realm rotates tokens the second is refused, and the session of a user whom
  Keycloak honours is gone (`rival`).
* A Load more is appended to whatever the list is when its answer arrives: to
  another filter's rows, or a second time after a double click (the exception
  `crossed`). Its status is not looked at, so that a server error hides the rest of
  the history without a word (`cut`). A first page that fails leaves the rows of the
  previous filter below the error.
* While another session keeps the migration lock, a process in its first Open neither
  listens nor stops on SIGTERM, which NotifyContext has taken from it.
* Rows an old replica writes after the last Open have no `called_at` until the next one,
  are never pruned and come first in Postgres's descending order.
* The result cache is consulted before the snapshot cache, so a page cached before
  a snapshot was taken is served as its continuation.
* A page of undecodable bytes inside a longer body is cut to nothing; its
  `next_offset` is its own offset. The `walk` run is about UTF-8 text. A stream page
  drops undecodable bytes at the end of a body, which a snapshot page keeps.
* A refresh that overlaps a logout writes the deleted row back. Logout ignores the
  error of its delete. `LogoutHolds` excepts exactly these two.
* A token can be issued for a human's id, and a request with it acts as that human:
  neither the handler nor AuthenticateAgentToken asks for the kind of the actor.
* A search whose results are all empty has size zero and never counts against the
  cache's budget. `--history-preview-bytes` does not reach the recorder (the flag of
  `cmd/webtools/main.go:91-96`). The shutdown grace of 5 s is shorter than the 15 s a
  fetch may take.

## 4. Proofs

Every theorem below is checked by TLAPS and holds for every value of the constants
that meets the named assumptions of its modules, which TLC evaluates in the runs.
Each inductive invariant was first checked by TLC on the instance of the run.

| module | theorem | statement |
|---|---|---|
| MemoryCacheProofs | `TypeCorrect` | `Spec => []TypeOK` |
| | `ListAndMapAgree` | `Spec => []Lockstep` |
| | `CountIsExact` | `Spec => []UsedIsBytesHeld` |
| | `BudgetHolds` | `Spec => []WithinBudget` |
| | `AgesCountFromPut` | `Spec => EntriesComeFromPut` |
| | `CacheIsAtomic` | `Spec => ImplementsAtomic` |
| | `SearchesUseTheCache` | `SearchSpec => Spec` |
| | `ResultsStayInBudget` | `SearchSpec => []WithinBudget` |
| | `OneSearchInsidePut` | `SearchSpec => []LockSound` |
| | `SearchesGetTheirOwn` | `SearchSpec => []AnswersAreOwn` |
| | `SearchesGetRecent` | `TTL > 0 => (SearchSpec => []AnswersAreRecent)` |
| FetcherProofs | `AgentsKeepApart` | `Spec => []AgentsAreIsolated` |
| | `AnswersAgeOnce` | `Spec => []AnswersAreFresh` |
| | `SuccessLeavesAnEntry` | `Spec => SuccessIsCached` |
| | `SnapshotsAreDocuments` | `NoneOneOver => (Spec => []SnapshotsAreWhole)` |
| | `AnswersArePages` | `NoneOneOver /\ SourcesAgree => (Spec => []PagesAreRight)` |
| | `TextAnswersArePages` | `NoneOneOver /\ TextServed => (Spec => []PagesAreRight)` |
| | `EveryPageIsText` | `Texts => (WalkSpec => []PagesAreText)` |
| | `PagesMakeTheWhole` | `Texts => (WalkSpec => []WalkIsWhole)` |
| | `SourcesGiveOnePage` | `Texts => (WalkSpec => []SnapshotAndStreamAgree)` |
| | `PreviewsAreLongest` | `Texts => (WalkSpec => []PreviewIsLongest)` |
| HistoryPageProofs | `ListsAreOfFilter` | `Spec => []ListIsOfFilter` |
| | `EndsAreEnds` | `Spec => []EndIsTheEnd` |
| AgentAccessProofs | `TypeCorrect` | `Spec => []TypeOK` |
| | `RevocationHolds` | `Spec => []RevokedTokensAreRefused` |
| | `HistoryHasOwners` | `Spec => []RowsNameTheOwner` |
| | `AnswersLeaveRows` | `Spec => []AnswersAreRecorded` |
| | `RefusalsHaveReasons` | `Spec => []RefusalsAreJustified` |
| | `RevocationStays` | `Spec => RevocationIsPermanent` |
| HumanActorProofs | `PairsStayWhole` | `Spec => []IdentitiesAndActorsPair` |
| | `SubjectsHaveOneActor` | `Spec => []OneActorPerSubject` |
| | `RacesAreNoFailures` | `Spec => []FailuresAreGenuine` |
| | `RolesTakeEffect` | `Spec => []RoleChangesTakeEffect` |
| HumanSessionProofs | `ClaimsAreFresh` | `Spec => []GrantsAreFresh` |
| | `LogoutEndsSession` | `Spec => []LogoutHolds` |
| | `RefusalsAreDeserved` | `Spec => []RefusedMeansRevoked` |
| MigrationProofs | `MigrationsSerialise` | `Spec => []ReplicasDoNotCollide` |
| | `BackfillCarriesOver` | `Spec => []RenamesReadAsWritten` |
| BootProofs | `ReadinessStays` | `Spec => ReadinessIsKept` |
| | `ReadyHasRoutes` | `Spec => ReadyMeansRoutes` |
| | `ShutdownWaits` | `Spec => []CutOnlyAfterGrace` |

FetcherProofs, HistoryPageProofs, HumanActorProofs, HumanSessionProofs, MigrationProofs
and BootProofs state their inductive invariant as a theorem of its own, `Invariance`.

### The cache

From `KeysAssumption`, `SizesAssumption`, `BudgetAssumption` and `TimeAssumption` of
MemoryCache. None of `Lockstep`, `UsedIsBytesHeld` and `WithinBudget` is inductive
alone. Removing a key from the list leaves its other occurrences unless the list is
free of duplicates; subtracting an entry's size keeps the count exact only when the
entry was counted; and the budget holds on return because the loop ends either with
a count within the budget, which is then the real number of bytes, or with an empty
list, which by lockstep means an empty map. The inductive invariant is therefore the
conjunction of the type invariant, lockstep, the exact count, the budget when
unlocked, and `PutterIsFront` (the key being put is at the front while its Put
evicts, so meeting it at the back means that it is the last one left). The lemmas
describe `Unlink`, `DeleteLocked`, `PushFront`, `Inserted` and `Touched`, and how
`ByteSlots` grows and shrinks with them; finiteness comes from FiniteSetTheorems.

The refinement maps the cache to its most recently used entries that fit the budget
together, which is what the eviction loop leaves. `RestIsRecent` says that deleting
the last entry keeps the more recent ones as they are, `EvictionIsTrimmed` that
therefore a turn of the loop does not change what the loop amounts to: `PutEvict` is a
stutter, and `PutInsert` is the atomic Put. This rests on the exact byte count, so the
step uses the inductive invariant before and after. `SameOperations` shows that the
operators of LRU are the same in both specifications.

### Search

Search contributes its own invariant: `LockSound` (the cache's lock is held exactly
while one search is inside Put, and its key is the one being put), `SearchSound` (the
value a search holds is an answer of SearXNG to its own caller, cut to its own
normalised limit, and not from the future) and `ItemsSound` (so is every entry, for the
agent and limit in its key, and its `storedAt` is the time of that answer).
`SearchesGetRecent` needs the last part: what Get compares with the time to live is
`storedAt`, and that no hit, eviction or other Put moves it away from the time of the
answer is what has to be shown. `SearchesUseTheCache` shows that Search's steps are
steps of MemoryCache, so that the budget is inherited rather than proved again. From
`SearchAssumption` and `CacheAssumption`, which says that the instance's keys and values
include those the searches form; `TTL > 0` is a hypothesis of `SearchesGetRecent` alone,
and met, since New replaces a time to live that is not positive.

### Pages

From `MaxPageAssumption`, `DocumentsAssumption` and `PreviewAssumption`. `Texts` says
that the documents are UTF-8, as in the `walk` run; `walk` has no claim about other
bytes, for which some of the properties are false (section 3). The heart is
`CutIsBoundary`: a slice that starts between two runes is cut between two runes, and
loses nothing if it ends between two. `PageOfText` derives from it the page at any
boundary, of the whole or from the stream, and `PreviewOfText` the preview. Max and Min
over sets are reasoned about through well-founded induction's minimal element, which
needs no operator parameter. The properties of the loop support each other: that its
bytes are the document up to the next offset is not inductive without the offset being
between two runes, since a cut that starts inside a rune may keep nothing of a
document's end.

### The fetch tool

From the assumptions of Fetcher; `IsDocument` makes a document a sequence, and
`OffsetAssumption` (offsets are naturals) is Fetch's own check, `ErrNegativeOffset`. The
inductive invariant says of both caches that list and map agree (otherwise an eviction
might leave an entry that no longer counts) and that every entry was read by the agent
its key names, at most one exchange before it was stored; and of every call how its
position bounds the times of its exchange. `AnswersAreFresh` needs the second part for
both caches, since a page cut from a snapshot must not be stored with a new age.
`SuccessIsCached` rests on a lemma that Put never evicts what it just stored if it fits.

What the pages contain is proved on top of it with a second invariant, `PageInv`, under
two hypotheses about the origins, both met by the `fetcher` instance. `NoneOneOver`: no
document sent without its length is exactly one byte longer than the cache budget. That
is the disagreement of `snapshot_prefix`, and the theorem says that it is the only one:
every other body is captured whole or not at all. `SourcesAgree`: a page is the same
from the stream as from the whole document. `TextAnswersArePages` replaces this by a
condition on what origins serve and callers ask, `TextServed`: UTF-8 text, at offsets
between two runes, where following `next_offset` leads, or past the end.
`TextSourcesAgree` derives the one from the other by `PageOfText`.

### The history page

From `IdsAssumption`, `AbsentAssumption`, `PageSizeAssumption` and `RetentionAssumption`
of ToolCalls and `TableAssumption` (a table is finite and has a primary key) and
`RequestsAssumption` of HistoryPage. Both properties speak of the list only; what makes
them inductive is what a list, and every request under way, knows of a table that
others change.

* `TableSound` is the primary key over committed and uncommitted rows. `Recorded` says
  that a row was committed, whether it is there or not: its id is never another row's,
  and it never comes back. The cursor's row found by its id is therefore the last
  row of the list, also when rows arrived late or were pruned between.
* `ListSound` adds the order in which rows go. The sweep takes a row only with all
  older ones, so when the row of a cursor is gone, so is everything the cursor
  was to lead to: the refused Load more ends a list that is complete. `TableStep` shows
  this of every step of the table and `ListStep` carries it over to any list.
* `Covered` is what a list that offers more still owes: each row that was there when
  the first page was read is in the list, or gone, or older than its last row.
* `MoreSound` follows a Load more through its two statements: its filter and
  cursor are those of the list as it is now, the cursor's row is its last, the page it
  gets is older than that row and covers what was owed. This needs that it is the only
  one and that no first page is under way, which is the exception `crossed`.
* `FirstSound` says that a first page is under way exactly while the list is
  loading, for the filter that is chosen.

`ListingOf` shows that the listing of a page is a sequence of its rows, each once, newest
first: counting the newer rows numbers them from 0 without a gap (`RankIsBijection`, from
the theorems on injections between finite sets). `PageOf` is the server's part, that a
page with its next cursor covers what the query selects, and `Appended` the client's,
that a list with the page behind it is such a list again.

### Agent access

From `StrangerAssumption` (no actor has that id), `BadTokenAssumption` and
`MaxTimeAssumption`. The
inductive invariant adds to the types what each position of a request implies.
`TokensSound`: a request that arrived late still finds its token revoked, one past
the credential query was not late, one past the actor query acts as the owner of its
token. `CredsSound`: a revoked row was issued (so no issue overwrites it), and an
issued one belongs to an existing actor or to an id that will never be given out;
without the latter, `RefusalsAreJustified` is not inductive, since an agent created
later could make a past refusal look wrong. `RowsSound` and `OutcomesSound` tie each
row to one answered request. `MoveKeepsIInv` treats all steps of a request that leave
no row at once: each is a replacement of one request's state by another that meets
the same conditions.

### Human actors

From `AdminAssumption` and `IdsAssumption` (the ids that requests generate are none of
the agents'). `OneActorPerSubject` needs to know that a subject has at most one
identity, which in turn needs what open transactions hold: `HoldersSound` says that a
request with an uncommitted identity is the only one of its subject and that no
committed one exists, which is the unique index at work. `RequestSound` says what a
request knows at its position: an actor that its subject's identity names, or a winner
to look up. `FailuresSound` spells `FailuresAreGenuine` out in a form that a later
insert cannot disturb. `RolesTakeEffect` has an invariant of its own relative to this
one: `AfterSound` (the requests a request came after are over) and `RolesSound` (every
identity has a request that wrote its role, and whatever came after that request has yet
to look at the identity or bears that role). `Moves` and the lemmas on it treat the
steps that change no row together.

### Human sessions

From `TimesAssumption`. `RefusedMeansRevoked` is the hard one: a refused refresh used
a token that is not the current one, and the invariant has to say who knows which
token. A row holds the current token, unless a request is about to store a newer one or
has lost it (`SessionSound`); so does a request about to refresh, unless a rival
was faster (`RequestSound`); and with rotation a token that is not stored yet is
known to one request alone, everybody else's being older (`SavesAreAlone`).
`SessionSound` also says that a session that was ended without excuse has no row,
which is what `LogoutHolds` rests on, and that a row expires at most interval plus
slack after its claims were read.

### Migration

From `ReplicasAssumption`, `BoundsAssumption` and `CallsAssumption` (a call's input is
never NULL). The invariant comes in two parts. `Control` knows nothing of rows: an Open
between lock and unlock is the holder, what it read of the schema is still so, the
old version has its columns. `ReplicasDoNotCollide` follows from it. `Data` says what
each row holds given the columns there are, and how far the backfill under way has
settled the rows that were there when its lock was granted (`Progress`); a row that
an old replica inserts meanwhile is not among them. `DataKept` treats `ALTER TABLE` and
the four UPDATE statements alike, as a map from rows to rows that unsettles nothing.

### Boot

From `DurationAssumption` and `BackoffAssumption`. `RetrySound` (the retry never runs
beside a ready checker, and is over before its database is used) gives
`ReadinessIsKept`; `RoutesSound` (routes before checker, also for the copy that a probe
has taken) gives `ReadyMeansRoutes`; `GraceSound` (a call under way has run as long as
the shutdown has waited, since the closed listener accepts no more) gives
`CutOnlyAfterGrace`.

### Only model-checked

Every liveness property (`WalkEnds`, `LoadingEnds`, `OpenEnds`, `Recovers`,
`StopsOnSignal`) and the absence of deadlock: fairness and ENABLED are outside the
prover's reach.

## 5. Not modelled

The database cache, which nothing constructs; the actors page and the rest of the
web UI beyond the history page; paths, JSON and `/me`; flags; SQLite's pragmas. See
`components` in `PROJECT.json`. AES-GCM, the OIDC library, the MCP SDK and GORM are
taken as working.

## 6. Plan

Modelled and checked: everything above. HumanSession and HumanActor meet in the claims
of a granted request: the first bounds their age, the second shows that the admin gate
reads them and not the role stored with the identity, so an administrator whose role was
withdrawn creates no agent past the refresh interval and the slack.

Every invariant and every action property of the runs is proved for all values of
the constants. What the model leaves open is the other half of the web UI: the actors
page, whose reloads after two revocations may be answered in the other order, is listed
under `hazards` and has no module.
