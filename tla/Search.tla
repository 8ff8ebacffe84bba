------------------------------- MODULE Search -------------------------------
(***************************************************************************)
(* Searcher of internal/tools/search: searches of one query by several     *)
(* agents share a results cache, here MemoryCache itself, whose lock a Put *)
(* holds through its eviction loop.  The searches supply the keys, values  *)
(* and sizes of the cache and are its whole environment.                   *)
(*                                                                         *)
(* A result is the number of bytes of its three fields; an answer of       *)
(* SearXNG is a sequence of results.                                       *)
(***************************************************************************)
EXTENDS MemoryCache

CONSTANTS
    Agents,
    NoAgent,        \* the empty cacheKey: no caching
    Limits,         \* the limits callers ask for
    DefaultLimit, MaxLimit,     \* DefaultMaxResults, MaxResultsLimit
    Answers,        \* what SearXNG may answer at any time
    Searches        \* searches under way at one time

ASSUME SearchAssumption ==
    /\ NoAgent \notin Agents
    /\ Limits \subseteq Int
    /\ DefaultLimit \in 1 .. MaxLimit /\ MaxLimit \in Nat

VARIABLE search     \* search[s]: where search s stands

searchVars == <<vars, search>>

\* The clamps at the top of Search.
Normalized(limit) ==
    CASE limit <= 0 -> DefaultLimit
      [] limit > MaxLimit -> MaxLimit
      [] OTHER -> limit

\* A key without the limit, and one without the agent (mutants).
KeyOfAgent(agent, limit) == <<agent, DefaultLimit>>
KeyOfLimit(agent, limit) == <<CHOOSE a \in Agents : TRUE, Normalized(limit)>>

\* The cache key: the caller and the normalized limit, next to the one query.
Key(agent, limit) == <<agent, Normalized(limit)>>

\* payload.Results[:limit]
Truncated(answer, limit) == SubSeq(answer, 1, IF Len(answer) < limit THEN Len(answer) ELSE limit)

\* The size given to Put.
Size(results) == FoldLeft(LAMBDA sum, bytes : sum + bytes, 0, results)

\* What a search stores: the answer cut to a limit, and for the properties who
\* asked and when SearXNG answered.
Stored(agent, answer, limit, at) ==
    [results |-> Truncated(answer, limit), by |-> agent, at |-> at]

\* The cache is made for what searches put into it.
ASSUME CacheAssumption ==
    \A agent \in Agents, limit \in Limits :
        /\ Key(agent, limit) \in Keys
        /\ \A answer \in Answers :
              /\ \A at \in 0 .. MaxTime : Stored(agent, answer, Normalized(limit), at) \in Values
              /\ Size(Truncated(answer, Normalized(limit))) \in Sizes

Idle == [pc |-> "idle"]

SearchInit ==
    /\ Init
    /\ search = [s \in Searches |-> Idle]

At(s, pc) == search[s].pc = pc
KeyOf(s) == Key(search[s].agent, search[s].limit)

\* The value is returned; for the properties, how old SearXNG's answer is by now.
Return(s, value) ==
    search' = [search EXCEPT ![s] = [pc |-> "done", agent |-> @.agent, limit |-> @.limit,
                                     value |-> value, age |-> now - value.at]]

\* The handler's call with the agent of its context.
Start(s, agent, limit) ==
    /\ At(s, "idle")
    /\ search' = [search EXCEPT ![s] =
          [pc |-> IF agent = NoAgent THEN "ask" ELSE "lookup", agent |-> agent, limit |-> limit]]
    /\ UNCHANGED vars

\* s.results.Get: a hit is the answer.
LookupHits(s) ==
    /\ At(s, "lookup")
    /\ GetHit(KeyOf(s))
    /\ Return(s, cache.items[KeyOf(s)].value)

\* A miss, or an entry past its time to live.
LookupMisses(s) ==
    /\ At(s, "lookup")
    /\ GetMiss(KeyOf(s)) \/ GetExpired(KeyOf(s))
    /\ search' = [search EXCEPT ![s].pc = "ask"]

\* SearXNG answers with status 200 and a decodable body.
Ask(s, answer) ==
    /\ At(s, "ask")
    /\ LET value == Stored(search[s].agent, answer, Normalized(search[s].limit), now)
       IN  IF search[s].agent = NoAgent
           THEN Return(s, value)
           ELSE search' = [search EXCEPT ![s] = [pc |-> "store", agent |-> @.agent,
                                                 limit |-> @.limit, value |-> value]]
    /\ UNCHANGED vars

\* It cannot be reached, answers otherwise or too late: nothing is cached.
AskFails(s) ==
    /\ At(s, "ask")
    /\ search' = [search EXCEPT ![s] = Idle]
    /\ UNCHANGED vars

\* s.results.Put, up to its eviction loop, under c.mu.
Store(s) ==
    /\ At(s, "store")
    /\ PutInsert(KeyOf(s), search[s].value, Size(search[s].value.results))
    /\ search' = [search EXCEPT ![s].pc = "storing"]

\* One turn of the loop of Put; deleting the entry just put ends it.
Evict(s) ==
    /\ At(s, "storing")
    /\ PutEvict
    /\ IF Last(cache.order) = KeyOf(s)
       THEN Return(s, search[s].value)
       ELSE UNCHANGED search

\* Put is done, and Search returns what it has put.
Stop(s) ==
    /\ At(s, "storing")
    /\ PutReturn
    /\ Return(s, search[s].value)

\* The caller has its answer; another search begins.
Over(s) ==
    /\ At(s, "done")
    /\ search' = [search EXCEPT ![s] = Idle]
    /\ UNCHANGED vars

\* From the answer of SearXNG to the stored entry only local work happens, which
\* takes no time here.
TimePasses ==
    /\ \A s \in Searches : search[s].pc \notin {"store", "storing"}
    /\ Tick
    /\ UNCHANGED search

SearchNext ==
    \/ \E s \in Searches, agent \in Agents \cup {NoAgent}, limit \in Limits :
          Start(s, agent, limit)
    \/ \E s \in Searches :
          \/ LookupHits(s)
          \/ LookupMisses(s)
          \/ \E answer \in Answers : Ask(s, answer)
          \/ AskFails(s)
          \/ Store(s)
          \/ Evict(s)
          \/ Stop(s)
          \/ Over(s)
    \/ TimePasses

SearchSpec == SearchInit /\ [][SearchNext]_searchVars

-----------------------------------------------------------------------------
(* Properties.                                                             *)

\* "Search(q, 0) and Search(q, 10) share one entry", and nothing else does: a
\* search gets what SearXNG answered this agent, cut to the limit it asked for,
\* whoever searched, stored and evicted meanwhile.
AnswersAreOwn ==
    \A s \in Searches : At(s, "done") =>
        \E answer \in Answers, at \in 0 .. now :
            search[s].value = Stored(search[s].agent, answer, Normalized(search[s].limit), at)

\* "how long a completed search stays trusted before the query runs again": when
\* a search returns, SearXNG gave its answer no longer ago than the time to live,
\* however often that answer was found, moved to the front and served before.
AnswersAreRecent == \A s \in Searches : At(s, "done") => search[s].age <= TTL
=============================================================================
