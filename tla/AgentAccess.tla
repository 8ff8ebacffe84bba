---------------------------- MODULE AgentAccess ----------------------------
(***************************************************************************)
(* How an agent's MCP request becomes a tool call and a row of history:    *)
(* RequireBearer (internal/auth) authenticates the bearer token with three *)
(* separate statements (internal/storage/actor_repo.go), Recorded          *)
(* (internal/recorder) runs the tool and inserts the row.  Meanwhile       *)
(* administrators create agents and issue and revoke tokens through the    *)
(* REST API, clients disconnect, statements fail and the process restarts. *)
(***************************************************************************)
EXTENDS Integers, FiniteSets

CONSTANTS
    Agents,     \* ids that CreateAgent may give out
    Humans,     \* ids of the actors of people, who share the table
    Stranger,   \* an id of no actor: a path parameter is not checked
    Creds,      \* credential rows; a raw token and its hash belong to one
    BadToken,   \* a missing, malformed or never issued token
    Requests,   \* the requests made
    MaxTime     \* bound on the clock, for TLC

Actors == Agents \cup Humans

ASSUME HumansAssumption == Agents \cap Humans = {}
ASSUME StrangerAssumption == Stranger \notin Actors
ASSUME BadTokenAssumption == BadToken \notin Creds
ASSUME MaxTimeAssumption == MaxTime \in Nat \ {0}

VARIABLES
    now,
    actors,     \* the ids in the actors table
    creds,      \* creds[c]: the credential row, or Unissued
    request,    \* request[r]: where the request stands
    rows        \* the tool_calls rows: a set of [call, actor, isError]

vars == <<now, actors, creds, request, rows>>

\* revoked_at and last_used_at are NULL.
Null == 0
Unissued == [actor |-> Stranger, revokedAt |-> Null, lastUsed |-> Null, issued |-> FALSE]

\* A request not yet made.
NoRequest == [pc |-> "new", cred |-> BadToken, actor |-> Stranger, late |-> FALSE,
              gone |-> FALSE, failed |-> FALSE, isError |-> FALSE]

Init ==
    /\ now = 1
    /\ actors = Humans
    /\ creds = [c \in Creds |-> Unissued]
    /\ request = [r \in Requests |-> NoRequest]
    /\ rows = {}

Revoked(c) == creds[c].revokedAt # Null

Tick ==
    /\ now < MaxTime
    /\ now' = now + 1
    /\ UNCHANGED <<actors, creds, request, rows>>

-----------------------------------------------------------------------------
(* The REST API's agent administration; a statement that fails changes     *)
(* nothing and is answered with an error.                                  *)

CreateAgent(a) ==
    /\ a \notin actors
    /\ actors' = actors \cup {a}
    /\ UNCHANGED <<now, creds, request, rows>>

\* The ids a path may name; the kind of actor is checked nowhere.
PathIds == actors \cup {Stranger}

\* IssueAgentToken takes the actor id of the path as it is.
IssueAgentToken(c, a) ==
    /\ ~creds[c].issued
    /\ creds' = [creds EXCEPT ![c] =
          [actor |-> a, revokedAt |-> Null, lastUsed |-> Null, issued |-> TRUE]]
    /\ UNCHANGED <<now, actors, request, rows>>

\* Sets revoked_at on the rows of C where it is still NULL.
Revoke(C) ==
    creds' = [c \in Creds |-> IF c \in C /\ ~Revoked(c)
                              THEN [creds[c] EXCEPT !.revokedAt = now]
                              ELSE creds[c]]

RevokeAgentToken(c) ==
    /\ creds[c].issued
    /\ Revoke({c})
    /\ UNCHANGED <<now, actors, request, rows>>

\* DELETE /agents/{id} revokes the id's credentials and keeps the actor, if there
\* is one.
RevokeAllAgentCredentials(a) ==
    /\ Revoke({c \in Creds : creds[c].issued /\ creds[c].actor = a})
    /\ UNCHANGED <<now, actors, request, rows>>

-----------------------------------------------------------------------------
(* A request to /mcp.                                                      *)

Goto(r, pc) == request' = [request EXCEPT ![r].pc = pc]

Refuse(r) == Goto(r, "refused")

\* A statement of the request failed, and the request with it.
RefuseFailed(r) == request' = [request EXCEPT ![r].pc = "refused", ![r].failed = TRUE]

\* A request arrives with the token of a credential, or with none that exists.
Arrive(r, c) ==
    /\ request[r] = NoRequest
    /\ c # BadToken => creds[c].issued
    /\ request' = [request EXCEPT ![r] =
          [NoRequest EXCEPT !.pc = "credential", !.cred = c,
                            !.late = (c # BadToken /\ Revoked(c))]]
    /\ UNCHANGED <<now, actors, creds, rows>>

\* The credential query without its "revoked_at IS NULL" (mutant).
LiveAny(r) == request[r].cred # BadToken

\* The credential query of AuthenticateAgentToken finds a row.
Live(r) == request[r].cred # BadToken /\ ~Revoked(request[r].cred)

FindCredential(r) ==
    /\ request[r].pc = "credential"
    /\ IF Live(r) THEN Goto(r, "touch") ELSE Refuse(r)
    /\ UNCHANGED <<now, actors, creds, rows>>

\* The update of last_used_at that writes back the whole row as it was read
\* (mutant).
TouchSavesRow(c) ==
    creds' = [creds EXCEPT ![c].lastUsed = now, ![c].revokedAt = Null]

\* last_used_at is the only column written.
Touch(c) == creds' = [creds EXCEPT ![c].lastUsed = now]

TouchCredential(r) ==
    /\ request[r].pc = "touch"
    /\ Touch(request[r].cred)
    /\ Goto(r, "actor")
    /\ UNCHANGED <<now, actors, rows>>

\* The failed update that is passed on as a refusal (mutant).
TouchFailsRefusing(r) ==
    /\ request[r].pc = "touch"
    /\ Refuse(r)
    /\ UNCHANGED <<now, actors, creds, rows>>

\* A failed update of last_used_at is logged and otherwise ignored.
TouchFails(r) ==
    /\ request[r].pc = "touch"
    /\ Goto(r, "actor")
    /\ UNCHANGED <<now, actors, creds, rows>>

\* The actor query that takes the credential's id on trust (mutant).
LoadActorUnchecked(r) ==
    LET a == creds[request[r].cred].actor
    IN  /\ request[r].pc = "actor"
        /\ request' = [request EXCEPT ![r].pc = "tool", ![r].actor = a]
        /\ UNCHANGED <<now, actors, creds, rows>>

\* The actor query; the tool runs with the actor in its context.
LoadActor(r) ==
    LET a == creds[request[r].cred].actor
    IN  /\ request[r].pc = "actor"
        /\ IF a \in actors
           THEN request' = [request EXCEPT ![r].pc = "tool", ![r].actor = a]
           ELSE Refuse(r)
        /\ UNCHANGED <<now, actors, creds, rows>>

\* The credential or the actor query fails: 401, like an unknown token.
QueryFails(r) ==
    /\ request[r].pc \in {"credential", "actor"}
    /\ RefuseFailed(r)
    /\ UNCHANGED <<now, actors, creds, rows>>

\* The client goes away; the request's context is cancelled.
Disconnect(r) ==
    /\ request[r].pc \in {"credential", "touch", "actor", "tool", "record"}
    /\ ~request[r].gone
    /\ request' = [request EXCEPT ![r].gone = TRUE]
    /\ UNCHANGED <<now, actors, creds, rows>>

\* The tool's handler returns.  A cancelled context makes it fail, unless it
\* had its answer already.
RunTool(r, isError) ==
    /\ request[r].pc = "tool"
    /\ request' = [request EXCEPT ![r].pc = "record", ![r].isError = isError]
    /\ UNCHANGED <<now, actors, creds, rows>>

\* The insert that uses the request's context and so is lost with the client
\* (mutant).
RecordWithContext(r) ==
    /\ request[r].pc = "record"
    /\ rows' = IF request[r].gone THEN rows
               ELSE rows \cup {[call |-> r, actor |-> request[r].actor,
                                isError |-> request[r].isError]}
    /\ Goto(r, "answered")
    /\ UNCHANGED <<now, actors, creds>>

\* record inserts the row, whether or not the client is still there.
Record(r) ==
    /\ request[r].pc = "record"
    /\ rows' = rows \cup {[call |-> r, actor |-> request[r].actor,
                           isError |-> request[r].isError]}
    /\ Goto(r, "answered")
    /\ UNCHANGED <<now, actors, creds>>

\* The insert fails; the agent still gets its answer.
RecordFails(r) ==
    /\ request[r].pc = "record"
    /\ request' = [request EXCEPT ![r].pc = "answered", ![r].failed = TRUE]
    /\ UNCHANGED <<now, actors, creds, rows>>

Over == {"new", "refused", "answered", "cut"}

\* The process stops and starts again: requests under way are cut off.
Restart ==
    /\ \E r \in Requests : request[r].pc \notin Over
    /\ request' = [r \in Requests |->
          IF request[r].pc \in Over THEN request[r] ELSE [request[r] EXCEPT !.pc = "cut"]]
    /\ UNCHANGED <<now, actors, creds, rows>>

Step(r) ==
    \/ FindCredential(r)
    \/ TouchCredential(r)
    \/ TouchFails(r)
    \/ LoadActor(r)
    \/ QueryFails(r)
    \/ Disconnect(r)
    \/ \E isError \in BOOLEAN : RunTool(r, isError)
    \/ Record(r)
    \/ RecordFails(r)

Next ==
    \/ Tick
    \/ \E a \in Agents : CreateAgent(a)
    \/ \E c \in Creds, a \in PathIds : IssueAgentToken(c, a)
    \/ \E c \in Creds : RevokeAgentToken(c)
    \/ \E a \in PathIds : RevokeAllAgentCredentials(a)
    \/ \E r \in Requests, c \in Creds \cup {BadToken} : Arrive(r, c)
    \/ \E r \in Requests : Step(r)
    \/ Restart

Spec == Init /\ [][Next]_vars

-----------------------------------------------------------------------------
(* Properties.                                                             *)

CredRows == [actor : Actors \cup {Stranger}, revokedAt : Nat, lastUsed : Nat,
             issued : BOOLEAN]

RequestStates ==
    [pc : {"new", "credential", "touch", "actor", "tool", "record",
           "answered", "refused", "cut"},
     cred : Creds \cup {BadToken}, actor : Actors \cup {Stranger},
     late : BOOLEAN, gone : BOOLEAN, failed : BOOLEAN, isError : BOOLEAN]

\* Types.
TypeOK ==
    /\ now \in Nat \ {0}
    /\ actors \subseteq Actors
    /\ creds \in [Creds -> CredRows]
    /\ request \in [Requests -> RequestStates]
    /\ rows \subseteq [call : Requests, actor : Actors, isError : BOOLEAN]

Passed == {"tool", "record", "answered"}

\* "invalid or revoked token": a request made after its token was revoked runs
\* no tool, whatever happens between the statements that authenticate it.
RevokedTokensAreRefused ==
    \A r \in Requests : request[r].pc \in Passed => ~request[r].late

\* "Revoking a credential that's already revoked ... is a no-op": nothing, not
\* even the last_used_at of a request authenticated before, changes or clears
\* the time of a revocation.
RevocationIsPermanent ==
    [][\A c \in Creds : Revoked(c) => creds'[c].revokedAt = creds[c].revokedAt]_vars

\* History "keeps a named owner": every row names the owner of the token its
\* call was made with, and that actor exists, also once the agent is deleted.
RowsNameTheOwner ==
    \A x \in rows : /\ x.actor \in actors
                    /\ x.actor = creds[request[x.call].cred].actor

\* "every call - successful or not - is persisted": an agent that has its
\* answer left exactly one row, with the same outcome, unless the insert itself
\* failed; a refused request left none.
AnswersAreRecorded ==
    \A r \in Requests :
        LET mine == {x \in rows : x.call = r}
        IN  /\ request[r].pc = "refused" => mine = {}
            /\ request[r].pc = "answered" =>
                  \/ request[r].failed /\ mine = {}
                  \/ \E x \in mine : mine = {x} /\ x.isError = request[r].isError

\* A request is refused for a reason: its token is bad or revoked, or belongs
\* to no actor, or a query failed.  Not keeping last_used_at is no reason.
RefusalsAreJustified ==
    \A r \in Requests : request[r].pc = "refused" =>
        \/ request[r].failed
        \/ request[r].cred = BadToken
        \/ Revoked(request[r].cred)
        \/ creds[request[r].cred].actor \notin actors
=============================================================================
