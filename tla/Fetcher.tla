------------------------------ MODULE Fetcher ------------------------------
(***************************************************************************)
(* Fetcher of internal/tools/fetch/fetch.go: concurrent Fetch calls share  *)
(* the snapshot cache (whole documents, keyed by caller and URL) and the   *)
(* result cache (completed pages, keyed by caller, URL and offset).        *)
(*                                                                         *)
(* A call is a process that moves through the steps of Fetch; between two  *)
(* of its steps other calls run, time passes and the origin's document     *)
(* changes.  Each cache operation is one step, because the cache's mutex   *)
(* makes it one (MemoryCache implements AtomicCache).                      *)
(***************************************************************************)
EXTENDS LRU, Pages

CONSTANTS
    Agents,     \* authenticated agents, the cacheKey of a call
    NoAgent,    \* the empty cacheKey: caching disabled for the call
    Urls,
    Calls,      \* the tool calls made: each runs Fetch once
    Offsets,    \* the offsets callers ask for
    Origin,     \* Origin[t]: the document every URL serves at time t
    CacheBudget,\* byte budget of each cache
    TTL,        \* time to live of cached snapshots and pages
    Timeout,    \* bound on the time from doGet to the end of the body
    MaxTime     \* bound on the clock, for TLC

ASSUME AgentAssumption == NoAgent \notin Agents
ASSUME OffsetAssumption == Offsets \subseteq Nat
ASSUME SizeAssumption == CacheBudget \in Nat /\ CacheBudget >= MaxPage
ASSUME ClockAssumption == TTL \in Nat \ {0} /\ Timeout \in Nat /\ MaxTime \in Nat
ASSUME OriginAssumption ==
    /\ DOMAIN Origin = 0 .. MaxTime
    /\ \A t \in 0 .. MaxTime :
          IsDocument(Origin[t].body) /\ Origin[t].sized \in BOOLEAN

VARIABLES
    now,        \* the clock
    snapshots,  \* cache of [readAt, by, size]: the body is the first size
                \* bytes of what the origin served at readAt to agent by
    results,    \* cache of [readAt, by, page]
    call,       \* call[c]: where call c stands
    answer      \* answer[c]: what call c returned, or Pending

vars == <<now, snapshots, results, call, answer>>

Pending == [status |-> "pending"]
Failed == [status |-> "error"]
Ok(content, page) ==
    [status |-> "ok", readAt |-> content.readAt, by |-> content.by, page |-> page,
     age |-> now - content.readAt]

Idle == [pc |-> "new"]

Init ==
    /\ now = 0
    /\ snapshots = EmptyCache
    /\ results = EmptyCache
    /\ call = [c \in Calls |-> Idle]
    /\ answer = [c \in Calls |-> Pending]

Body(readAt) == Origin[readAt].body

\* resultKey that forgets the offset (mutant).
ResultKeyWithoutOffset(r) == <<r.agent, r.url>>

\* The keys without the caller: one cache for all agents (mutant).
ResultKeyShared(r) == <<"all", r.url, r.offset>>

\* The cache keys of a call.
SnapKey(r) == <<r.agent, r.url>>
ResultKey(r) == <<r.agent, r.url, r.offset>>

Goto(c, pc) == call' = [call EXCEPT ![c].pc = pc]

\* The call is over; only what it asked for is remembered.
Return(c, value) ==
    /\ call' = [call EXCEPT ![c].pc = "done", ![c].started = 0, ![c].readAt = 0]
    /\ answer' = [answer EXCEPT ![c] = value]

\* The next call: the handler calls Fetch with a valid http(s) URL and offset.
\* Without an actor the cacheKey is empty and both lookups are skipped.
Start(agent, url, offset) ==
    LET new == {c \in Calls : call[c].pc = "new"}
        c   == CHOOSE c \in new : TRUE
    IN  /\ new # {}
        /\ call' = [call EXCEPT ![c] =
                      [pc |-> IF agent = NoAgent THEN "get" ELSE "results",
                       agent |-> agent, url |-> url, offset |-> offset,
                       started |-> IF agent = NoAgent THEN now ELSE 0,
                       readAt |-> 0]]
        /\ UNCHANGED <<now, snapshots, results, answer>>

\* results.Get: a hit is returned as it was stored.
LookupResult(c) ==
    LET r == call[c]
        k == ResultKey(r)
    IN  /\ r.pc = "results"
        /\ results' = AfterGet(results, k, now, TTL)
        /\ IF Hits(results, k, now, TTL)
           THEN LET v == results.items[k].value IN Return(c, Ok(v, v.page))
           ELSE Goto(c, "snapshots") /\ UNCHANGED answer
        /\ UNCHANGED <<now, snapshots>>

\* A page served from the snapshot and stored as a new result (mutant).
LookupSnapshotRestored(c) ==
    LET r == call[c]
        k == SnapKey(r)
    IN  /\ r.pc = "snapshots"
        /\ snapshots' = AfterGet(snapshots, k, now, TTL)
        /\ IF Hits(snapshots, k, now, TTL)
           THEN LET v == snapshots.items[k].value
                    p == PageFrom(Body(v.readAt), v.size, r.offset, MaxPage)
                IN  /\ Return(c, Ok(v, p))
                    /\ results' = AfterPut(results, ResultKey(r),
                           [value |-> [readAt |-> v.readAt, by |-> v.by, page |-> p],
                            size |-> p.bytes, storedAt |-> now], CacheBudget)
           ELSE /\ call' = [call EXCEPT ![c].pc = "get", ![c].started = now]
                /\ UNCHANGED <<answer, results>>
        /\ UNCHANGED now

\* snapshots.Get: a hit is paged from memory, and not stored again as a result.
LookupSnapshot(c) ==
    LET r == call[c]
        k == SnapKey(r)
    IN  /\ r.pc = "snapshots"
        /\ snapshots' = AfterGet(snapshots, k, now, TTL)
        /\ IF Hits(snapshots, k, now, TTL)
           THEN LET v == snapshots.items[k].value
                IN  Return(c, Ok(v, PageFrom(Body(v.readAt), v.size, r.offset, MaxPage)))
           ELSE /\ call' = [call EXCEPT ![c].pc = "get", ![c].started = now]
                /\ UNCHANGED answer
        /\ UNCHANGED <<now, results>>

\* Only a first page of a document not known to exceed the budget is captured.
Captures(r, doc) ==
    /\ r.agent # NoAgent
    /\ r.offset = 0
    /\ doc.sized => Len(doc.body) <= CacheBudget

\* doGet answers with a 2xx status: the body is the document of this moment.
Respond(c) ==
    /\ call[c].pc = "get"
    /\ call' = [call EXCEPT
                  ![c].pc = IF Captures(call[c], Origin[now]) THEN "capture" ELSE "stream",
                  ![c].readAt = now]
    /\ UNCHANGED <<now, snapshots, results, answer>>

\* A transport error, a non-2xx status, a body that fails before the page is
\* read, or the client's timeout: the call fails and nothing is cached.
Fail(c) ==
    /\ call[c].pc \in {"get", "capture", "stream"}
    /\ Return(c, Failed)
    /\ UNCHANGED <<now, snapshots, results>>

\* What the call has read so far: the document of readAt, for its agent.
Content(r) == [readAt |-> r.readAt, by |-> r.agent]

\* storeResult forgotten (mutant).
StoreNothing(r, page) == UNCHANGED results

\* storeResult, a no-op for a call without a key.
StoreResult(r, page) ==
    results' = IF r.agent = NoAgent THEN results
               ELSE AfterPut(results, ResultKey(r),
                       [value |-> [readAt |-> r.readAt, by |-> r.agent, page |-> page],
                        size |-> page.bytes, storedAt |-> now], CacheBudget)

\* pageFromStream, then storeResult.
StreamPage(c) ==
    LET r    == call[c]
        page == PageFromStream(Body(r.readAt), r.offset, MaxPage)
    IN  /\ r.pc = "stream"
        /\ StoreResult(r, page)
        /\ Return(c, Ok(Content(r), page))
        /\ UNCHANGED <<now, snapshots>>

\* captureAndPage has its first page (up to MaxPage + 1 bytes) in hand.
ReadFirstPage(c) ==
    /\ call[c].pc = "capture"
    /\ Goto(c, "rest")
    /\ UNCHANGED <<now, snapshots, results, answer>>

FirstRead(size) == ReadChunk(size, 0, MaxPage)

\* How much of a body of the given size captureRest reads: the first page and
\* what the rest of the budget allows (a negative limit reads nothing).
CapturedSize(size) ==
    Min({size, Max({CacheBudget, FirstRead(size)})})

\* The body probe that takes any short read for the end (mutant).
BodyEndedShort(size) == size - CapturedSize(size) <= 2

\* bodyEnded after that read: no byte left, or exactly one, which the probe
\* swallows before it meets the end of the stream.
BodyEnded(size) == size - CapturedSize(size) <= 1

\* Not captured: the page already read is served and kept as a result.
ServeFirstPage(c) ==
    LET r    == call[c]
        page == PageFrom(Body(r.readAt), FirstRead(Len(Body(r.readAt))), 0, MaxPage)
    IN  /\ StoreResult(r, page)
        /\ Return(c, Ok(Content(r), page))
        /\ UNCHANGED <<now, snapshots>>

\* The rest did not arrive whole: the capture timer fired, the stream died, or
\* the body goes on past the budget.
GiveUpCapture(c) == call[c].pc = "rest" /\ ServeFirstPage(c)

\* The body ended in time: store the snapshot when it fits and page from it.
FinishCapture(c) ==
    LET r    == call[c]
        size == CapturedSize(Len(Body(r.readAt)))
        page == PageFrom(Body(r.readAt), size, 0, MaxPage)
    IN  /\ r.pc = "rest"
        /\ BodyEnded(Len(Body(r.readAt)))
        /\ IF size <= CacheBudget
           THEN /\ snapshots' = AfterPut(snapshots, SnapKey(r),
                       [value |-> [readAt |-> r.readAt, by |-> r.agent, size |-> size],
                        size |-> size, storedAt |-> now], CacheBudget)
                /\ UNCHANGED results
           ELSE StoreResult(r, page) /\ UNCHANGED snapshots
        /\ Return(c, Ok(Content(r), page))
        /\ UNCHANGED now

\* A call is on the network: the client's timeout is running.
OnNetwork(c) == call[c].pc \in {"get", "capture", "rest", "stream"}

\* Time passes; no call stays on the network past the client's timeout.
Tick ==
    /\ now < MaxTime
    /\ \A c \in Calls : OnNetwork(c) => now - call[c].started < Timeout
    /\ now' = now + 1
    /\ UNCHANGED <<snapshots, results, call, answer>>

\* Every call has returned.  TLC's deadlock check therefore finds any call that
\* can wait for ever.
Finished == (\A c \in Calls : call[c].pc = "done") /\ UNCHANGED vars

Step(c) ==
    \/ LookupResult(c)
    \/ LookupSnapshot(c)
    \/ Respond(c)
    \/ Fail(c)
    \/ StreamPage(c)
    \/ ReadFirstPage(c)
    \/ GiveUpCapture(c)
    \/ FinishCapture(c)

Next ==
    \/ \E agent \in Agents \cup {NoAgent}, url \in Urls, o \in Offsets :
          Start(agent, url, o)
    \/ \E c \in Calls : Step(c)
    \/ Tick
    \/ Finished

Spec == Init /\ [][Next]_vars

-----------------------------------------------------------------------------
(* Properties.                                                             *)

Answered(c) == answer[c].status = "ok"

\* "one agent's cached document can never be served to another": what a call
\* returns was read from the origin by a call of the same agent.
AgentsAreIsolated ==
    \A c \in Calls : Answered(c) => answer[c].by = call[c].agent

\* A page is never older than the time to live plus one exchange with the
\* origin: serving a page from a snapshot, or repeating a cached page, does not
\* start a new time to live.
AnswersAreFresh ==
    \A c \in Calls : Answered(c) => answer[c].age <= TTL + Timeout

\* Whichever way a page was produced, now or by an earlier call, it is the page
\* of the whole document at the offset asked for.
PagesAreRight ==
    \A c \in Calls : Answered(c) =>
        LET d == Body(answer[c].readAt)
        IN  answer[c].page = PageFrom(d, Len(d), call[c].offset, MaxPage)

\* "a snapshot must be the whole document, not a prefix, or a later page would
\* silently serve shifted bytes".
SnapshotsAreWhole ==
    \A k \in DOMAIN snapshots.items :
        LET v == snapshots.items[k].value IN v.size = Len(Body(v.readAt))

\* "an identical repeat within that window is served from memory": when an
\* agent's call succeeds, the snapshot or the page is in its cache.
SuccessIsCached ==
    [][\A c \in Calls :
          answer'[c].status = "ok" /\ answer[c] = Pending /\ call[c].agent # NoAgent =>
              \/ ResultKey(call[c]) \in DOMAIN results'.items
              \/ SnapKey(call[c]) \in DOMAIN snapshots'.items]_vars
=============================================================================
