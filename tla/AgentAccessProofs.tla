-------------------------- MODULE AgentAccessProofs --------------------------
(***************************************************************************)
(* Proofs about AgentAccess, for every set of agents, credentials and      *)
(* requests: revoked tokens are refused and stay revoked, every row names  *)
(* the owner of its token, every answer is recorded and every refusal has  *)
(* a reason.                                                               *)
(***************************************************************************)
EXTENDS AgentAccess, TLAPS

\* A row not issued yet is not revoked, and an issued one belongs to an actor
\* that exists or to nobody, ever: actors are never deleted, and a stranger's id
\* is never given out.
CredsSound ==
    \A c \in Creds :
        /\ Revoked(c) => creds[c].issued
        /\ creds[c].issued => creds[c].actor \in actors \cup {Stranger}

\* A request that arrived late still finds its token revoked; one past the
\* credential query was not late; one past the actor query acts as the owner of
\* its token.
TokensSound ==
    \A r \in Requests :
        /\ request[r].cred # BadToken => creds[request[r].cred].issued
        /\ request[r].late => request[r].cred # BadToken /\ Revoked(request[r].cred)
        /\ request[r].pc \in {"touch", "actor"} \cup Passed =>
              request[r].cred # BadToken /\ ~request[r].late
        /\ request[r].pc \in Passed =>
              /\ request[r].actor \in actors
              /\ request[r].actor = creds[request[r].cred].actor

\* A row belongs to an answered request and repeats what that request knows.
RowsSound ==
    \A x \in rows :
        /\ request[x.call].pc = "answered"
        /\ ~request[x.call].failed
        /\ x.actor = request[x.call].actor
        /\ x.isError = request[x.call].isError

\* A request is marked failed only when it is over, and an answered one that is
\* not has its row.
OutcomesSound ==
    \A r \in Requests :
        /\ request[r].failed => request[r].pc \in {"refused", "answered"}
        /\ request[r].pc = "answered" /\ ~request[r].failed =>
              \E x \in rows : x.call = r

\* The inductive invariant.
IInv ==
    /\ TypeOK
    /\ CredsSound
    /\ TokensSound
    /\ RowsSound
    /\ OutcomesSound
    /\ RefusalsAreJustified

\* What every step leaves of a credential row.
CredKept(c) ==
    /\ creds[c].issued => creds'[c].issued /\ creds'[c].actor = creds[c].actor
    /\ Revoked(c) => Revoked(c)' /\ creds'[c].revokedAt = creds[c].revokedAt
    /\ Revoked(c)' => creds'[c].issued
    /\ creds'[c].issued => creds'[c].actor \in actors' \cup {Stranger}

-----------------------------------------------------------------------------

\* The initial state satisfies the invariant: no credential, request or row.
LEMMA InitIInv == Init => IInv
<1> SUFFICES ASSUME Init PROVE IInv
  OBVIOUS
<1> USE StrangerAssumption, BadTokenAssumption
<1>1. TypeOK
  BY DEF Init, TypeOK, Unissued, Null, NoRequest, CredRows, RequestStates, Actors
<1>2. CredsSound
  BY DEF Init, CredsSound, Revoked, Unissued, Null
<1>3. TokensSound
  BY DEF Init, TokensSound, NoRequest, Passed
<1>4. RowsSound
  BY DEF Init, RowsSound
<1>5. OutcomesSound
  BY DEF Init, OutcomesSound, NoRequest
<1>6. RefusalsAreJustified
  BY DEF Init, RefusalsAreJustified, NoRequest
<1> QED
  BY <1>1, <1>2, <1>3, <1>4, <1>5, <1>6 DEF IInv

\* The clock and the administration of agents and tokens touch no request and
\* no row; a revocation is never undone.
LEMMA AdministrationKeepsIInv ==
    ASSUME IInv,
           \/ Tick
           \/ \E a \in Agents : CreateAgent(a)
           \/ \E c \in Creds, a \in PathIds : IssueAgentToken(c, a)
           \/ \E c \in Creds : RevokeAgentToken(c)
           \/ \E a \in PathIds : RevokeAllAgentCredentials(a)
    PROVE  IInv'
<1> USE StrangerAssumption, BadTokenAssumption, MaxTimeAssumption
<1>1. request' = request /\ rows' = rows
  BY DEF Tick, CreateAgent, IssueAgentToken, RevokeAgentToken, RevokeAllAgentCredentials
<1>2. TypeOK /\ TypeOK'
  <2>1. TypeOK
    BY DEF IInv
  <2>2. now' \in Nat \ {0}
    <3>1. now \in Nat \ {0}
      BY <2>1 DEF TypeOK
    <3>2. now' = now \/ now' = now + 1
      BY DEF Tick, CreateAgent, IssueAgentToken, RevokeAgentToken, RevokeAllAgentCredentials
    <3> QED
      BY <3>1, <3>2
  <2>3. actors' \subseteq Actors
    <3>1. actors \subseteq Actors
      BY <2>1 DEF TypeOK
    <3>2. actors' = actors \/ \E a \in Agents : actors' = actors \cup {a}
      BY DEF Tick, CreateAgent, IssueAgentToken, RevokeAgentToken, RevokeAllAgentCredentials
    <3> QED
      BY <3>1, <3>2 DEF Actors
  <2>4. creds' \in [Creds -> CredRows]
    <3>1. CASE creds' = creds
      BY <2>1, <3>1 DEF TypeOK
    <3>2. ASSUME NEW c \in Creds, NEW a \in PathIds, IssueAgentToken(c, a)
          PROVE  creds' \in [Creds -> CredRows]
      BY <2>1, <3>2 DEF TypeOK, PathIds, IssueAgentToken, CredRows, Null
    <3>3. ASSUME NEW C, Revoke(C) PROVE creds' \in [Creds -> CredRows]
      BY <2>1, <3>3 DEF TypeOK, Revoke, CredRows
    <3> QED
      BY <3>1, <3>2, <3>3
      DEF Tick, CreateAgent, RevokeAgentToken, RevokeAllAgentCredentials
  <2> QED
    BY <1>1, <2>1, <2>2, <2>3, <2>4 DEF TypeOK
<1>3. actors \subseteq actors'
  BY DEF Tick, CreateAgent, IssueAgentToken, RevokeAgentToken, RevokeAllAgentCredentials
<1>4. \A c \in Creds : CredKept(c)
  <2> USE <1>2
  <2>0. CredsSound
    BY DEF IInv
  <2>1. CASE creds' = creds
    BY <2>0, <2>1, <1>3 DEF CredKept, CredsSound, Revoked
  <2>2. ASSUME NEW d \in Creds, NEW a \in PathIds, IssueAgentToken(d, a)
        PROVE  \A c \in Creds : CredKept(c)
    BY <2>0, <2>2, <1>3 DEF CredKept, CredsSound, Revoked, IssueAgentToken, PathIds, TypeOK, CredRows, Null
  <2>3. ASSUME NEW C, Revoke(C), \A c \in C \cap Creds : creds[c].issued
        PROVE  \A c \in Creds : CredKept(c)
    BY <2>0, <2>3, <1>3 DEF CredKept, CredsSound, Revoked, Revoke, TypeOK, CredRows, Null
  <2> QED
    BY <2>1, <2>2, <2>3 DEF Tick, CreateAgent, RevokeAgentToken, RevokeAllAgentCredentials
<1>5. CredsSound'
  BY <1>4 DEF CredKept, CredsSound
<1>6. TokensSound'
  BY <1>1, <1>2, <1>3, <1>4 DEF IInv, CredKept, TokensSound, TypeOK, RequestStates
<1>7. RowsSound' /\ OutcomesSound'
  BY <1>1 DEF IInv, RowsSound, OutcomesSound
<1>8. RefusalsAreJustified'
  <2> SUFFICES ASSUME NEW r \in Requests, request[r].pc = "refused",
                      ~request[r].failed, request[r].cred # BadToken
               PROVE  \/ creds'[request[r].cred].revokedAt # Null
                      \/ creds'[request[r].cred].actor \notin actors'
    BY <1>1 DEF RefusalsAreJustified, Revoked
  <2> DEFINE c == request[r].cred
  <2>1. c \in Creds /\ creds[c].issued
    BY <1>2 DEF IInv, TokensSound, TypeOK, RequestStates
  <2>2. Revoked(c) \/ creds[c].actor \notin actors
    BY DEF IInv, RefusalsAreJustified
  <2>3. creds[c].actor \notin actors => creds'[c].actor = Stranger
    BY <1>4, <2>1 DEF CredKept, IInv, CredsSound
  <2>4. Stranger \notin actors'
    BY <1>2 DEF TypeOK
  <2> QED
    BY <1>4, <2>1, <2>2, <2>3, <2>4 DEF CredKept, Revoked
<1> QED
  BY <1>2, <1>5, <1>6, <1>7, <1>8 DEF IInv

-----------------------------------------------------------------------------
(* The steps of a request.  Each changes one request and at most adds to   *)
(* the rows or to last_used_at of a credential.                            *)

\* What a step of request r to the state q leaves alone.
Moves(r, q) ==
    /\ q \in RequestStates
    /\ request' = [request EXCEPT ![r] = q]
    /\ now' = now /\ actors' = actors

\* The credentials as every reader but last_used_at sees them.
CredsAlike ==
    /\ creds' \in [Creds -> CredRows]
    /\ \A c \in Creds : /\ creds'[c].actor = creds[c].actor
                        /\ creds'[c].revokedAt = creds[c].revokedAt
                        /\ creds'[c].issued = creds[c].issued

\* A request that moves without leaving a row.
LEMMA MoveKeepsIInv ==
    ASSUME IInv, NEW r \in Requests, NEW q, Moves(r, q), CredsAlike, rows' = rows,
           request[r].pc # "answered",
           q.cred # BadToken => creds[q.cred].issued,
           q.late => q.cred # BadToken /\ Revoked(q.cred),
           q.pc \in {"touch", "actor"} \cup Passed => q.cred # BadToken /\ ~q.late,
           q.pc \in Passed => q.actor \in actors /\ q.actor = creds[q.cred].actor,
           q.failed => q.pc \in {"refused", "answered"},
           q.pc = "answered" => q.failed,
           q.pc = "refused" => \/ q.failed
                               \/ q.cred = BadToken
                               \/ Revoked(q.cred)
                               \/ creds[q.cred].actor \notin actors
    PROVE  IInv'
<1> USE BadTokenAssumption
<1>1. request \in [Requests -> RequestStates] /\ creds \in [Creds -> CredRows]
  BY DEF IInv, TypeOK
<1>2. request'[r] = q /\ \A s \in Requests \ {r} : request'[s] = request[s]
  BY <1>1 DEF Moves
<1>3. request' \in [Requests -> RequestStates]
  BY <1>1 DEF Moves
<1>4. \A s \in Requests : request'[s].cred \in Creds \cup {BadToken}
  BY <1>3 DEF RequestStates
<1>5. TypeOK'
  BY <1>3 DEF IInv, TypeOK, CredsAlike, Moves
<1>6. CredsSound'
  BY DEF IInv, CredsSound, Revoked, CredsAlike, Moves
<1>7. TokensSound'
  <2> SUFFICES ASSUME NEW s \in Requests
               PROVE  /\ request'[s].cred # BadToken => creds[request'[s].cred].issued
                      /\ request'[s].late =>
                            request'[s].cred # BadToken /\ creds[request'[s].cred].revokedAt # Null
                      /\ request'[s].pc \in {"touch", "actor"} \cup Passed =>
                            request'[s].cred # BadToken /\ ~request'[s].late
                      /\ request'[s].pc \in Passed =>
                            /\ request'[s].actor \in actors
                            /\ request'[s].actor = creds[request'[s].cred].actor
    BY <1>4 DEF TokensSound, Revoked, CredsAlike, Moves, Passed
  <2>1. CASE s = r
    BY <1>2, <2>1 DEF Revoked
  <2>2. CASE s # r
    BY <1>2, <2>2 DEF IInv, TokensSound, Revoked
  <2> QED
    BY <2>1, <2>2
<1>8. RowsSound'
  BY <1>2 DEF IInv, RowsSound, TypeOK
<1>9. OutcomesSound'
  BY <1>2 DEF IInv, OutcomesSound
<1>10. RefusalsAreJustified'
  <2> SUFFICES ASSUME NEW s \in Requests, request'[s].pc = "refused"
               PROVE  \/ request'[s].failed
                      \/ request'[s].cred = BadToken
                      \/ creds[request'[s].cred].revokedAt # Null
                      \/ creds[request'[s].cred].actor \notin actors
    BY <1>4 DEF RefusalsAreJustified, Revoked, CredsAlike, Moves
  <2>1. CASE s = r
    BY <1>2, <2>1 DEF Revoked
  <2>2. CASE s # r
    BY <1>2, <2>2 DEF IInv, RefusalsAreJustified, Revoked
  <2> QED
    BY <2>1, <2>2
<1> QED
  BY <1>5, <1>6, <1>7, <1>8, <1>9, <1>10 DEF IInv

\* A new request.
LEMMA ArriveKeepsIInv ==
    ASSUME IInv, NEW r \in Requests, NEW c \in Creds \cup {BadToken}, Arrive(r, c)
    PROVE  IInv'
<1> USE StrangerAssumption, BadTokenAssumption
<1> DEFINE q == [NoRequest EXCEPT !.pc = "credential", !.cred = c,
                                  !.late = (c # BadToken /\ Revoked(c))]
<1>1. /\ q.pc = "credential" /\ q.cred = c /\ q.failed = FALSE
      /\ q.late = (c # BadToken /\ Revoked(c))
  BY DEF NoRequest
<1>2. q \in RequestStates
  BY DEF NoRequest, RequestStates
<1>3. request[r].pc = "new"
  BY DEF Arrive, NoRequest
<1>4. Moves(r, q) /\ rows' = rows /\ CredsAlike
  BY <1>2 DEF Arrive, Moves, CredsAlike, IInv, TypeOK
<1>5. q.cred # BadToken => creds[q.cred].issued
  BY <1>1 DEF Arrive
<1> HIDE DEF q
<1> QED
  BY <1>1, <1>3, <1>4, <1>5, MoveKeepsIInv DEF Passed

\* The steps of a request that leave no row.
LEMMA StepKeepsIInv ==
    ASSUME IInv, NEW r \in Requests,
           \/ FindCredential(r) \/ TouchCredential(r) \/ TouchFails(r)
           \/ LoadActor(r) \/ QueryFails(r) \/ Disconnect(r)
           \/ \E isError \in BOOLEAN : RunTool(r, isError)
           \/ RecordFails(r)
    PROVE  IInv'
<1> USE StrangerAssumption, BadTokenAssumption
<1> DEFINE p == request[r]
<1>1. p \in RequestStates /\ creds \in [Creds -> CredRows] /\ actors \subseteq Actors
  BY DEF IInv, TypeOK
<1>2. /\ p.cred # BadToken => creds[p.cred].issued
      /\ p.late => p.cred # BadToken /\ Revoked(p.cred)
      /\ p.pc \in {"touch", "actor"} \cup Passed => p.cred # BadToken /\ ~p.late
      /\ p.pc \in Passed => p.actor \in actors /\ p.actor = creds[p.cred].actor
      /\ p.failed => p.pc \in {"refused", "answered"}
  BY DEF IInv, TokensSound, OutcomesSound
<1>3. p.cred \in Creds \cup {BadToken}
  BY <1>1 DEF RequestStates
<1>4. rows' = rows /\ now' = now /\ actors' = actors /\ CredsAlike
  <2>1. rows' = rows /\ now' = now /\ actors' = actors
    BY DEF FindCredential, TouchCredential, TouchFails, LoadActor, QueryFails,
           Disconnect, RunTool, RecordFails
  <2>2. CASE creds' = creds
    BY <1>1, <2>1, <2>2 DEF CredsAlike
  <2>3. CASE TouchCredential(r)
    <3>1. p.cred \in Creds /\ now \in Nat
      BY <1>2, <1>3, <2>3 DEF TouchCredential, IInv, TypeOK
    <3>2. creds' = [creds EXCEPT ![p.cred].lastUsed = now]
      BY <2>3 DEF TouchCredential, Touch
    <3> QED
      BY <1>1, <2>1, <3>1, <3>2 DEF CredsAlike, CredRows
  <2> QED
    BY <2>1, <2>2, <2>3 DEF FindCredential, TouchFails, LoadActor, QueryFails,
                            Disconnect, RunTool, RecordFails
<1>5. ASSUME NEW q, q \in RequestStates, request' = [request EXCEPT ![r] = q],
             p.pc # "answered",
             q.cred = p.cred, q.late = p.late,
             q.pc \in {"touch", "actor"} \cup Passed => p.cred # BadToken /\ ~p.late,
             q.pc \in Passed => q.actor \in actors /\ q.actor = creds[p.cred].actor,
             q.failed => q.pc \in {"refused", "answered"},
             q.pc = "answered" => q.failed,
             q.pc = "refused" => \/ q.failed
                                 \/ p.cred = BadToken
                                 \/ Revoked(p.cred)
                                 \/ creds[p.cred].actor \notin actors
      PROVE  IInv'
  <2>1. Moves(r, q)
    BY <1>4, <1>5 DEF Moves
  <2> HIDE DEF p
  <2>2. request[r].pc # "answered"
    BY <1>5 DEF p
  <2> QED
    BY <1>2, <1>4, <1>5, <2>1, <2>2, MoveKeepsIInv
<1>6. CASE FindCredential(r)
  <2>1. CASE Live(r)
    <3> DEFINE q == [p EXCEPT !.pc = "touch"]
    <3>1. q \in RequestStates /\ q.cred = p.cred /\ q.late = p.late /\ q.pc = "touch"
          /\ q.failed = p.failed
      BY <1>1 DEF RequestStates
    <3>2. request' = [request EXCEPT ![r] = q]
      BY <1>6, <2>1 DEF FindCredential, Goto
    <3>3. p.pc = "credential"
      BY <1>6 DEF FindCredential
    <3>4. p.cred # BadToken /\ ~p.late
      BY <1>2, <2>1 DEF Live
    <3> HIDE DEF q
    <3> QED
      BY <1>2, <1>5, <3>1, <3>2, <3>3, <3>4 DEF Passed
  <2>2. CASE ~Live(r)
    <3> DEFINE q == [p EXCEPT !.pc = "refused"]
    <3>1. q \in RequestStates /\ q.cred = p.cred /\ q.late = p.late /\ q.pc = "refused"
          /\ q.failed = p.failed
      BY <1>1 DEF RequestStates
    <3>2. request' = [request EXCEPT ![r] = q]
      BY <1>6, <2>2 DEF FindCredential, Refuse, Goto
    <3>3. p.pc = "credential"
      BY <1>6 DEF FindCredential
    <3>4. p.cred = BadToken \/ Revoked(p.cred)
      BY <2>2 DEF Live
    <3> HIDE DEF q
    <3> QED
      BY <1>2, <1>5, <3>1, <3>2, <3>3, <3>4 DEF Passed
  <2> QED
    BY <2>1, <2>2
<1>7. CASE TouchCredential(r) \/ TouchFails(r)
  <2> DEFINE q == [p EXCEPT !.pc = "actor"]
  <2>1. q \in RequestStates /\ q.cred = p.cred /\ q.late = p.late /\ q.pc = "actor"
        /\ q.failed = p.failed
    BY <1>1 DEF RequestStates
  <2>2. request' = [request EXCEPT ![r] = q] /\ p.pc = "touch"
    BY <1>7 DEF TouchCredential, TouchFails, Goto
  <2> HIDE DEF q
  <2> QED
    BY <1>2, <1>5, <2>1, <2>2 DEF Passed
<1>8. CASE LoadActor(r)
  <2> DEFINE a == creds[p.cred].actor
  <2>0. p.pc = "actor"
    BY <1>8 DEF LoadActor
  <2>1. CASE a \in actors
    <3> DEFINE q == [p EXCEPT !.pc = "tool", !.actor = a]
    <3>1. q \in RequestStates /\ q.cred = p.cred /\ q.late = p.late /\ q.pc = "tool"
          /\ q.failed = p.failed /\ q.actor = a
      BY <1>1, <2>1 DEF RequestStates
    <3>2. request' = [request EXCEPT ![r] = q]
      BY <1>8, <2>1 DEF LoadActor
    <3> HIDE DEF q
    <3> QED
      BY <1>2, <1>5, <2>0, <2>1, <3>1, <3>2 DEF Passed
  <2>2. CASE a \notin actors
    <3> DEFINE q == [p EXCEPT !.pc = "refused"]
    <3>1. q \in RequestStates /\ q.cred = p.cred /\ q.late = p.late /\ q.pc = "refused"
          /\ q.failed = p.failed
      BY <1>1 DEF RequestStates
    <3>2. request' = [request EXCEPT ![r] = q]
      BY <1>8, <2>2 DEF LoadActor, Refuse, Goto
    <3> HIDE DEF q
    <3> QED
      BY <1>2, <1>5, <2>0, <2>2, <3>1, <3>2 DEF Passed
  <2> QED
    BY <2>1, <2>2
<1>9. CASE QueryFails(r)
  <2> DEFINE q == [p EXCEPT !.pc = "refused", !.failed = TRUE]
  <2>1. q \in RequestStates /\ q.cred = p.cred /\ q.late = p.late /\ q.pc = "refused"
        /\ q.failed = TRUE
    BY <1>1 DEF RequestStates
  <2>2. request' = [request EXCEPT ![r] = q] /\ p.pc \in {"credential", "actor"}
    BY <1>9 DEF QueryFails, RefuseFailed
  <2> HIDE DEF q
  <2> QED
    BY <1>2, <1>5, <2>1, <2>2 DEF Passed
<1>10. CASE Disconnect(r)
  <2> DEFINE q == [p EXCEPT !.gone = TRUE]
  <2>1. q \in RequestStates /\ q.cred = p.cred /\ q.late = p.late /\ q.pc = p.pc
        /\ q.failed = p.failed /\ q.actor = p.actor
    BY <1>1 DEF RequestStates
  <2>2. /\ request' = [request EXCEPT ![r] = q]
        /\ p.pc \in {"credential", "touch", "actor", "tool", "record"}
    BY <1>10 DEF Disconnect
  <2> HIDE DEF q
  <2> QED
    BY <1>2, <1>5, <2>1, <2>2
<1>11. ASSUME NEW isError \in BOOLEAN, RunTool(r, isError) PROVE IInv'
  <2> DEFINE q == [p EXCEPT !.pc = "record", !.isError = isError]
  <2>1. q \in RequestStates /\ q.cred = p.cred /\ q.late = p.late /\ q.pc = "record"
        /\ q.failed = p.failed /\ q.actor = p.actor
    BY <1>1 DEF RequestStates
  <2>2. request' = [request EXCEPT ![r] = q] /\ p.pc = "tool"
    BY <1>11 DEF RunTool
  <2> HIDE DEF q
  <2> QED
    BY <1>2, <1>5, <2>1, <2>2 DEF Passed
<1>12. CASE RecordFails(r)
  <2> DEFINE q == [p EXCEPT !.pc = "answered", !.failed = TRUE]
  <2>1. q \in RequestStates /\ q.cred = p.cred /\ q.late = p.late /\ q.pc = "answered"
        /\ q.failed = TRUE /\ q.actor = p.actor
    BY <1>1 DEF RequestStates
  <2>2. request' = [request EXCEPT ![r] = q] /\ p.pc = "record"
    BY <1>12 DEF RecordFails
  <2> HIDE DEF q
  <2> QED
    BY <1>2, <1>5, <2>1, <2>2 DEF Passed
<1> QED
  BY <1>6, <1>7, <1>8, <1>9, <1>10, <1>11, <1>12

\* The insert: the new row repeats the owner and the outcome of its request.
LEMMA RecordKeepsIInv ==
    ASSUME IInv, NEW r \in Requests, Record(r)
    PROVE  IInv'
<1> USE StrangerAssumption, BadTokenAssumption
<1> DEFINE p == request[r]
           q == [p EXCEPT !.pc = "answered"]
           x == [call |-> r, actor |-> p.actor, isError |-> p.isError]
<1>1. request \in [Requests -> RequestStates] /\ p \in RequestStates
  BY DEF IInv, TypeOK
<1>2. p.pc = "record" /\ p.pc \in Passed /\ ~p.failed
  BY DEF Record, IInv, OutcomesSound, Passed
<1>3. /\ q \in RequestStates
      /\ q.pc = "answered" /\ q.cred = p.cred /\ q.actor = p.actor /\ q.late = p.late
      /\ q.failed = p.failed /\ q.isError = p.isError
  BY <1>1 DEF RequestStates
<1>4. /\ request' = [request EXCEPT ![r] = q] /\ rows' = rows \cup {x}
      /\ now' = now /\ actors' = actors /\ creds' = creds
  BY DEF Record, Goto
<1>5. p.actor \in actors /\ p.actor \in Actors /\ p.isError \in BOOLEAN
  BY <1>1, <1>2 DEF IInv, TypeOK, TokensSound, RequestStates
<1>6. x.call = r /\ x.actor = p.actor /\ x.isError = p.isError
  OBVIOUS
<1>7. x \in [call : Requests, actor : Actors, isError : BOOLEAN]
  BY <1>5
<1> HIDE DEF q, x
<1>8. request'[r] = q /\ \A s \in Requests \ {r} : request'[s] = request[s]
  BY <1>1, <1>4
<1>9. TypeOK'
  BY <1>1, <1>3, <1>4, <1>7 DEF IInv, TypeOK
<1>10. CredsSound'
  BY <1>4 DEF IInv, CredsSound, Revoked
<1>11. TokensSound'
  BY <1>2, <1>3, <1>4, <1>8 DEF IInv, TokensSound, Revoked, Passed
<1>12. RowsSound'
  <2>1. \A y \in rows : y.call \in Requests /\ y.call # r
    BY <1>2 DEF IInv, RowsSound, TypeOK
  <2>2. \A y \in rows : request'[y.call] = request[y.call]
    BY <1>8, <2>1
  <2> QED
    BY <1>2, <1>3, <1>4, <1>6, <1>8, <2>2 DEF IInv, RowsSound
<1>13. OutcomesSound'
  BY <1>2, <1>3, <1>4, <1>6, <1>8 DEF IInv, OutcomesSound
<1>14. RefusalsAreJustified'
  BY <1>3, <1>4, <1>8 DEF IInv, RefusalsAreJustified, Revoked
<1> QED
  BY <1>9, <1>10, <1>11, <1>12, <1>13, <1>14 DEF IInv

\* A restart cuts requests under way off and leaves the database alone.
LEMMA RestartKeepsIInv ==
    ASSUME IInv, Restart
    PROVE  IInv'
<1>1. request \in [Requests -> RequestStates]
  BY DEF IInv, TypeOK
<1>2. now' = now /\ actors' = actors /\ creds' = creds /\ rows' = rows
  BY DEF Restart
<1>3. request' \in [Requests -> RequestStates]
  BY <1>1 DEF Restart, RequestStates
<1>4. ASSUME NEW s \in Requests
      PROVE  /\ request'[s].cred = request[s].cred /\ request'[s].late = request[s].late
             /\ request'[s].actor = request[s].actor
             /\ request'[s].failed = request[s].failed
             /\ request'[s].isError = request[s].isError
             /\ \/ request'[s].pc = request[s].pc
                \/ request'[s].pc = "cut" /\ request[s].pc \notin Over
  BY <1>1 DEF Restart, RequestStates
<1>5. TypeOK'
  BY <1>2, <1>3 DEF IInv, TypeOK
<1>6. CredsSound'
  BY <1>2 DEF IInv, CredsSound, Revoked
<1>7. TokensSound'
  BY <1>2, <1>4 DEF IInv, TokensSound, Revoked, Passed
<1>8. RowsSound'
  <2>1. \A y \in rows : y.call \in Requests
    BY DEF IInv, TypeOK
  <2> QED
    BY <1>2, <1>4, <2>1 DEF IInv, RowsSound, Over
<1>9. OutcomesSound'
  BY <1>2, <1>4 DEF IInv, OutcomesSound, Over
<1>10. RefusalsAreJustified'
  BY <1>2, <1>4 DEF IInv, RefusalsAreJustified, Revoked
<1> QED
  BY <1>5, <1>6, <1>7, <1>8, <1>9, <1>10 DEF IInv

\* Every step keeps the invariant.
LEMMA NextIInv == IInv /\ [Next]_vars => IInv'
<1> SUFFICES ASSUME IInv, [Next]_vars PROVE IInv'
  OBVIOUS
<1>1. CASE UNCHANGED vars
  BY <1>1 DEF vars, IInv, TypeOK, CredsSound, TokensSound, RowsSound, OutcomesSound,
              RefusalsAreJustified, Revoked
<1>2. CASE \/ Tick
           \/ \E a \in Agents : CreateAgent(a)
           \/ \E c \in Creds, a \in PathIds : IssueAgentToken(c, a)
           \/ \E c \in Creds : RevokeAgentToken(c)
           \/ \E a \in PathIds : RevokeAllAgentCredentials(a)
  BY <1>2, AdministrationKeepsIInv
<1>3. ASSUME NEW r \in Requests, NEW c \in Creds \cup {BadToken}, Arrive(r, c) PROVE IInv'
  BY <1>3, ArriveKeepsIInv
<1>4. ASSUME NEW r \in Requests, Step(r) PROVE IInv'
  <2>1. CASE Record(r)
    BY <2>1, RecordKeepsIInv
  <2>2. CASE ~Record(r)
    <3>1. \/ FindCredential(r) \/ TouchCredential(r) \/ TouchFails(r)
          \/ LoadActor(r) \/ QueryFails(r) \/ Disconnect(r)
          \/ \E isError \in BOOLEAN : RunTool(r, isError)
          \/ RecordFails(r)
      BY <1>4, <2>2 DEF Step
    <3> QED
      BY <3>1, StepKeepsIInv
  <2> QED
    BY <2>1, <2>2
<1>5. CASE Restart
  BY <1>5, RestartKeepsIInv
<1> QED
  BY <1>1, <1>2, <1>3, <1>4, <1>5 DEF Next

\* The invariant holds throughout.
LEMMA Invariance == Spec => []IInv
  BY InitIInv, NextIInv, PTL DEF Spec

-----------------------------------------------------------------------------

\* Tables and requests keep their types, for any number of agents and requests.
THEOREM TypeCorrect == Spec => []TypeOK
<1>1. IInv => TypeOK
  BY DEF IInv
<1> QED
  BY <1>1, Invariance, PTL

\* A request made after its token was revoked never reaches a tool, whatever
\* runs between the three statements of AuthenticateAgentToken.
THEOREM RevocationHolds == Spec => []RevokedTokensAreRefused
<1>1. IInv => RevokedTokensAreRefused
  BY DEF IInv, TokensSound, RevokedTokensAreRefused
<1> QED
  BY <1>1, Invariance, PTL

\* Every row of the history names the owner of the token it was made with.
THEOREM HistoryHasOwners == Spec => []RowsNameTheOwner
<1>1. IInv => RowsNameTheOwner
  <2> SUFFICES ASSUME IInv, NEW x \in rows
               PROVE  /\ x.actor \in actors
                      /\ x.actor = creds[request[x.call].cred].actor
    BY DEF RowsNameTheOwner
  <2>1. x.call \in Requests
    BY DEF IInv, TypeOK
  <2> QED
    BY <2>1 DEF IInv, RowsSound, TokensSound, Passed
<1> QED
  BY <1>1, Invariance, PTL

\* An answered request left exactly one row with its outcome, or failed to
\* insert it; a refused one left none.
THEOREM AnswersLeaveRows == Spec => []AnswersAreRecorded
<1>1. IInv => AnswersAreRecorded
  <2> SUFFICES ASSUME IInv, NEW r \in Requests
               PROVE  LET mine == {x \in rows : x.call = r}
                      IN  /\ request[r].pc = "refused" => mine = {}
                          /\ request[r].pc = "answered" =>
                                \/ request[r].failed /\ mine = {}
                                \/ \E x \in mine : mine = {x} /\ x.isError = request[r].isError
    BY DEF AnswersAreRecorded
  <2> DEFINE mine == {x \in rows : x.call = r}
  <2>1. \A x \in mine : /\ request[r].pc = "answered" /\ ~request[r].failed
                        /\ x = [call |-> r, actor |-> request[r].actor,
                                isError |-> request[r].isError]
    BY DEF IInv, RowsSound, TypeOK
  <2>2. request[r].pc = "refused" => mine = {}
    BY <2>1
  <2>3. request[r].failed => mine = {}
    BY <2>1
  <2>4. ASSUME request[r].pc = "answered", ~request[r].failed
        PROVE  \E x \in mine : mine = {x} /\ x.isError = request[r].isError
    <3>1. PICK x \in rows : x.call = r
      BY <2>4 DEF IInv, OutcomesSound
    <3>2. x \in mine
      BY <3>1
    <3>3. mine = {x} /\ x.isError = request[r].isError
      BY <2>1, <3>2
    <3> QED
      BY <3>2, <3>3
  <2> QED
    BY <2>2, <2>3, <2>4
<1> QED
  BY <1>1, Invariance, PTL

\* A request is refused only for its token, its owner or a failed query.
THEOREM RefusalsHaveReasons == Spec => []RefusalsAreJustified
<1>1. IInv => RefusalsAreJustified
  BY DEF IInv
<1> QED
  BY <1>1, Invariance, PTL

\* No step changes or clears the time of a revocation.
THEOREM RevocationStays == Spec => RevocationIsPermanent
<1> DEFINE Permanent ==
      \A c \in Creds : Revoked(c) => creds'[c].revokedAt = creds[c].revokedAt
<1>1. IInv /\ [Next]_vars => Permanent
  <2> SUFFICES ASSUME IInv, [Next]_vars, NEW c \in Creds, Revoked(c)
               PROVE  creds'[c].revokedAt = creds[c].revokedAt
    OBVIOUS
  <2>1. creds \in [Creds -> CredRows] /\ creds[c].issued
    BY DEF IInv, TypeOK, CredsSound
  <2>2. CASE creds' = creds
    BY <2>2
  <2>3. ASSUME NEW d \in Creds, NEW a, IssueAgentToken(d, a)
        PROVE  creds'[c].revokedAt = creds[c].revokedAt
    BY <2>1, <2>3 DEF IssueAgentToken
  <2>4. ASSUME NEW C, Revoke(C) PROVE creds'[c].revokedAt = creds[c].revokedAt
    BY <2>1, <2>4 DEF Revoke
  <2>5. ASSUME NEW r \in Requests, TouchCredential(r)
        PROVE  creds'[c].revokedAt = creds[c].revokedAt
    BY <2>1, <2>5 DEF TouchCredential, Touch, CredRows
  <2> QED
    BY <2>2, <2>3, <2>4, <2>5
    DEF Next, vars, Tick, CreateAgent, RevokeAgentToken, RevokeAllAgentCredentials,
        Arrive, Step, FindCredential, TouchFails, LoadActor, QueryFails, Disconnect,
        RunTool, Record, RecordFails, Restart
<1>2. IInv /\ [Next]_vars => [Permanent]_vars
  BY <1>1
<1> QED
  BY <1>2, Invariance, PTL DEF Spec, RevocationIsPermanent
=============================================================================
