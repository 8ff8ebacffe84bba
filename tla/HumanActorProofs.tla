--------------------------- MODULE HumanActorProofs ---------------------------
(***************************************************************************)
(* Proofs about HumanActor, for every set of subjects, names, roles and    *)
(* concurrent requests: identities and actors come in pairs, the requests  *)
(* of a subject act as one actor, no request fails for losing a race, and  *)
(* no identity is left with a role that a later request has changed.       *)
(***************************************************************************)
EXTENDS HumanActor, TLAPS

\* Where a request can stand once it has arrived.
Locations ==
    {"find", "update role", "identity insert", "actor insert", "commit",
     "find winner", "load", "granted", "created", "refused", "failed"}

Arrived ==
    [pc : Locations, subject : Subjects, name : Names, role : Roles, actor : Requests,
     cause : {"none", "name", "no winner", "no actor", "statement"},
     after : SUBSET Requests]

\* The types of the rows and of the requests.
TypeOK ==
    /\ identities \subseteq [subject : Subjects, actor : Requests, role : Roles]
    /\ actors \subseteq [id : Requests \cup Names, name : Names, kind : {"human", "agent"}]
    /\ request \in [Requests -> {NoRequest} \cup Arrived]

\* An identity was committed by the request whose id it carries, for the
\* subject of that request, and a subject has at most one.
IdentitiesSound ==
    /\ \A i \in identities :
          /\ request[i.actor].pc \in {"load", "granted", "created", "refused", "failed"}
          /\ request[i.actor].subject = i.subject
    /\ \A i, j \in identities : i.subject = j.subject => i = j

\* A transaction with an uncommitted identity is the only one of its subject,
\* which has no committed identity.
HoldersSound ==
    \A r \in Requests : request[r].pc \in {"actor insert", "commit"} =>
        /\ \A i \in identities : i.subject # request[r].subject
        /\ \A q \in Requests :
              /\ request[q].pc \in {"actor insert", "commit"}
              /\ request[q].subject = request[r].subject
              => q = r

\* Up to its commit a request keeps the id it generated; behind its lookup it
\* has the actor of its subject's identity; a loser has a winner to look up.
RequestSound(r) ==
    /\ request[r].pc \in {"find", "identity insert", "actor insert", "commit"} =>
          request[r].actor = r
    /\ request[r].pc \in {"update role", "load", "granted", "created", "refused"} =>
          \E i \in identities :
             i.subject = request[r].subject /\ i.actor = request[r].actor
    /\ request[r].pc = "find winner" =>
          \E i \in identities : i.subject = request[r].subject

RequestsSound == \A r \in Requests : RequestSound(r)

\* FailuresAreGenuine, spelt out: the actor with the name is not the one of the
\* subject.
FailuresSound ==
    \A r \in Requests : request[r].pc = "failed" =>
        \/ request[r].cause = "statement"
        \/ /\ request[r].cause = "name"
           /\ \E a \in actors :
                 /\ a.name = request[r].name
                 /\ \A i \in identities : i.subject = request[r].subject => i.actor # a.id

\* An agent's id is no id of a human.
AgentsSound == \A a \in actors : a.kind = "agent" => a.id \in Names

\* The inductive invariant.
IInv ==
    /\ TypeOK
    /\ IdentitiesSound
    /\ HoldersSound
    /\ RequestsSound
    /\ AgentsSound
    /\ IdentitiesAndActorsPair
    /\ FailuresSound

\* A step of request r that changes no row: the others stay, and its claims do.
Moves(r) ==
    /\ identities' = identities
    /\ actors' = actors
    /\ \A q \in Requests : q # r => request'[q] = request[q]
    /\ request[r].pc # "new" =>
          /\ request'[r].subject = request[r].subject
          /\ request'[r].name = request[r].name
          /\ request'[r].role = request[r].role
          /\ request'[r].after = request[r].after

-----------------------------------------------------------------------------

\* The initial state satisfies the invariant: no row and no request.
LEMMA InitIInv == Init => IInv
<1> SUFFICES ASSUME Init PROVE IInv
  OBVIOUS
<1>1. TypeOK
  BY DEF Init, TypeOK
<1>2. \A r \in Requests : request[r].pc = "new"
  BY DEF Init, NoRequest
<1>3. IdentitiesSound /\ HoldersSound /\ RequestsSound /\ AgentsSound
  BY <1>2 DEF Init, IdentitiesSound, HoldersSound, RequestsSound, RequestSound, AgentsSound
<1>4. IdentitiesAndActorsPair /\ FailuresSound
  BY <1>2 DEF Init, IdentitiesAndActorsPair, FailuresSound
<1> QED
  BY <1>1, <1>3, <1>4 DEF IInv

\* A request record once it has arrived.
LEMMA ArrivedRequest ==
    ASSUME TypeOK, NEW r \in Requests, request[r].pc # "new"
    PROVE  request[r] \in Arrived
BY DEF TypeOK, NoRequest

\* What a step that changes no row must respect: it does not leave the end of
\* a committed request, does not begin to hold its subject while that is held or
\* known, and fails for a reason.
EndKept(r) ==
    /\ request[r].pc \notin {"created", "failed"}
    /\ request[r].pc \in {"load", "granted", "refused"} =>
          request'[r].pc \in {"load", "granted", "refused", "failed"}

HoldsAlone(r) ==
    request'[r].pc \in {"actor insert", "commit"} =>
        \/ request[r].pc \in {"actor insert", "commit"}
        \/ /\ request[r].pc # "new"
           /\ \A i \in identities : i.subject # request[r].subject
           /\ \A q \in Requests : ~HoldsSubject(q, request[r].subject)

FailsGenuinely(r) ==
    request'[r].pc = "failed" =>
        \/ request'[r].cause = "statement"
        \/ /\ request'[r].cause = "name"
           /\ \E a \in actors : a.name = request'[r].name
           /\ \A i \in identities : i.subject # request'[r].subject

\* A request that stands still stays sound while identities keep their subjects
\* and actors.
LEMMA StillRequestSound ==
    ASSUME NEW p \in Requests, RequestSound(p), request'[p] = request[p],
           \A i \in identities : \E j \in identities' : j.subject = i.subject /\ j.actor = i.actor
    PROVE  RequestSound(p)'
<1>1. request'[p].pc \in {"find", "identity insert", "actor insert", "commit"} =>
         request'[p].actor = p
  BY DEF RequestSound
<1>2. ASSUME request'[p].pc \in {"update role", "load", "granted", "created", "refused"}
      PROVE  \E i \in identities' :
                i.subject = request'[p].subject /\ i.actor = request'[p].actor
  <2>1. PICK i \in identities : i.subject = request[p].subject /\ i.actor = request[p].actor
    BY <1>2 DEF RequestSound
  <2> QED
    BY <2>1
<1>3. ASSUME request'[p].pc = "find winner"
      PROVE  \E i \in identities' : i.subject = request'[p].subject
  <2>1. PICK i \in identities : i.subject = request[p].subject
    BY <1>3 DEF RequestSound
  <2> QED
    BY <2>1
<1> QED
  BY <1>1, <1>2, <1>3 DEF RequestSound

\* Transactions stay alone when no request begins to hold its subject and no
\* identity of a held subject appears.
LEMMA HoldersStay ==
    ASSUME HoldersSound,
           \A p \in Requests : request'[p].pc \in {"actor insert", "commit"} =>
              /\ request[p].pc \in {"actor insert", "commit"}
              /\ request'[p].subject = request[p].subject
              /\ \A j \in identities' : j.subject # request[p].subject
    PROVE  HoldersSound'
<1>1. ASSUME NEW p \in Requests, request'[p].pc \in {"actor insert", "commit"}
      PROVE  \A i \in identities' : i.subject # request'[p].subject
  BY <1>1
<1>2. ASSUME NEW p \in Requests, request'[p].pc \in {"actor insert", "commit"},
             NEW q \in Requests, request'[q].pc \in {"actor insert", "commit"},
             request'[q].subject = request'[p].subject
      PROVE  q = p
  BY <1>2 DEF HoldersSound
<1> QED
  BY <1>1, <1>2 DEF HoldersSound

\* Such a step keeps the invariant.
LEMMA MovesKeepIInv ==
    ASSUME IInv, NEW r \in Requests, Moves(r), TypeOK',
           EndKept(r), HoldsAlone(r), RequestSound(r)', FailsGenuinely(r)
    PROVE  IInv'
<1>1. IdentitiesSound'
  BY DEF IInv, TypeOK, IdentitiesSound, Moves, EndKept
<1>2. HoldersSound'
  <2>1. /\ identities' = identities
        /\ \A q \in Requests : q # r => request'[q] = request[q]
        /\ request'[r].pc \in {"actor insert", "commit"} =>
              request'[r].subject = request[r].subject
    BY DEF Moves, HoldsAlone
  <2>2. \A q \in Requests : request[q].pc \in {"actor insert", "commit"} =>
                             HoldsSubject(q, request[q].subject)
    BY DEF HoldsSubject, At
  <2>3. HoldersSound
    BY DEF IInv
  <2> SUFFICES ASSUME NEW p \in Requests, request'[p].pc \in {"actor insert", "commit"}
               PROVE  /\ \A i \in identities : i.subject # request'[p].subject
                      /\ \A q \in Requests :
                            /\ request'[q].pc \in {"actor insert", "commit"}
                            /\ request'[q].subject = request'[p].subject
                            => q = p
    BY <2>1 DEF HoldersSound
  <2>4. \A i \in identities : i.subject # request'[p].subject
    BY <2>1, <2>3 DEF HoldsAlone, HoldersSound
  <2>5. ASSUME NEW q \in Requests, request'[q].pc \in {"actor insert", "commit"},
               request'[q].subject = request'[p].subject
        PROVE  q = p
    <3>1. CASE p # r /\ q # r
      BY <2>1, <2>3, <2>5, <3>1 DEF HoldersSound
    <3>2. CASE request[r].pc \in {"actor insert", "commit"}
      BY <2>1, <2>3, <2>5, <3>2 DEF HoldersSound
    <3>3. CASE /\ p = r \/ q = r
               /\ \A o \in Requests : ~HoldsSubject(o, request[r].subject)
      BY <2>1, <2>2, <2>5, <3>3
    <3> QED
      BY <3>1, <3>2, <3>3, <2>5 DEF HoldsAlone
  <2> QED
    BY <2>4, <2>5
<1>3. RequestsSound'
  <2>1. RequestsSound
    BY DEF IInv
  <2> SUFFICES ASSUME NEW p \in Requests PROVE RequestSound(p)'
    BY DEF RequestsSound
  <2>2. CASE p = r
    BY <2>2 DEF RequestSound
  <2>3. CASE p # r
    <3>1. RequestSound(p) /\ request'[p] = request[p] /\ identities' = identities
      BY <2>1, <2>3 DEF RequestsSound, Moves
    <3> QED
      BY <3>1, StillRequestSound
  <2> QED
    BY <2>2, <2>3
<1>4. AgentsSound' /\ IdentitiesAndActorsPair'
  BY DEF IInv, AgentsSound, IdentitiesAndActorsPair, Moves
<1>5. FailuresSound'
  <2>1. FailuresSound
    BY DEF IInv
  <2> QED
    BY <2>1 DEF FailuresSound, Moves, FailsGenuinely
<1> QED
  BY <1>1, <1>2, <1>3, <1>4, <1>5 DEF IInv

\* A request that arrives only looks up its identity.
LEMMA ArriveKeepsIInv ==
    ASSUME IInv, NEW r \in Requests, NEW s \in Subjects, NEW n \in Names, NEW role \in Roles,
           Arrive(r, s, n, role)
    PROVE  IInv'
<1>1. TypeOK'
  BY DEF IInv, TypeOK, Arrive, Arrived, Locations
<1>2. request[r].pc = "new" /\ request'[r].pc = "find" /\ request'[r].actor = r
  BY DEF IInv, TypeOK, Arrive, At
<1>3. Moves(r)
  BY <1>2 DEF IInv, TypeOK, Arrive, Moves
<1>4. EndKept(r) /\ HoldsAlone(r) /\ RequestSound(r)' /\ FailsGenuinely(r)
  BY <1>2 DEF EndKept, HoldsAlone, RequestSound, FailsGenuinely
<1> QED
  BY <1>1, <1>3, <1>4, MovesKeepIInv

\* The lookup takes the actor of an identity of the subject, if there is one.
LEMMA FindIdentityKeepsIInv ==
    ASSUME IInv, NEW r \in Requests, FindIdentity(r)
    PROVE  IInv'
<1>1. TypeOK /\ request[r].pc = "find" /\ request[r] \in Arrived
  BY ArrivedRequest DEF IInv, FindIdentity, At
<1>2. CASE IdentitiesOf(request[r].subject) = {}
  <2>1. request' = [request EXCEPT ![r].pc = "identity insert"]
    BY <1>2 DEF FindIdentity, Goto
  <2>2. TypeOK'
    BY <1>1, <2>1 DEF FindIdentity, TypeOK, Arrived, Locations
  <2>3. /\ Moves(r)
        /\ request'[r].pc = "identity insert"
        /\ request'[r].actor = request[r].actor
    BY <1>1, <2>1 DEF TypeOK, FindIdentity, Moves, Arrived
  <2>4. EndKept(r) /\ HoldsAlone(r) /\ RequestSound(r)' /\ FailsGenuinely(r)
    BY <1>1, <2>3 DEF IInv, EndKept, HoldsAlone, RequestsSound, RequestSound, FailsGenuinely
  <2> QED
    BY <2>2, <2>3, <2>4, MovesKeepIInv
<1>3. CASE IdentitiesOf(request[r].subject) # {}
  <2>1. PICK i \in identities :
           /\ i.subject = request[r].subject
           /\ request' = [request EXCEPT
                  ![r].pc = IF i.role = request[r].role THEN "load" ELSE "update role",
                  ![r].actor = i.actor]
    BY <1>3 DEF FindIdentity, IdentitiesOf
  <2>2. i.actor \in Requests
    BY <1>1 DEF TypeOK
  <2>3. TypeOK'
    BY <1>1, <2>1, <2>2 DEF FindIdentity, TypeOK, Arrived, Locations
  <2>4. /\ Moves(r)
        /\ request'[r].pc \in {"load", "update role"}
        /\ request'[r].actor = i.actor
    BY <1>1, <2>1 DEF TypeOK, FindIdentity, Moves, Arrived
  <2>5. RequestSound(r)'
    BY <1>1, <2>1, <2>4 DEF Moves, RequestSound
  <2>6. EndKept(r) /\ HoldsAlone(r) /\ FailsGenuinely(r)
    BY <1>1, <2>4 DEF EndKept, HoldsAlone, FailsGenuinely
  <2> QED
    BY <2>3, <2>4, <2>5, <2>6, MovesKeepIInv
<1> QED
  BY <1>2, <1>3

\* The insert of the identity waits for a transaction that holds the subject,
\* so the one that goes on is alone.
LEMMA InsertIdentityKeepsIInv ==
    ASSUME IInv, NEW r \in Requests, InsertIdentity(r)
    PROVE  IInv'
<1>1. TypeOK /\ request[r].pc = "identity insert" /\ request[r] \in Arrived
  BY ArrivedRequest DEF IInv, InsertIdentity, At
<1>2. \A q \in Requests : ~HoldsSubject(q, request[r].subject)
  BY DEF InsertIdentity
<1> DEFINE pc == IF IdentitiesOf(request[r].subject) = {} THEN "actor insert" ELSE "find winner"
<1>3. request' = [request EXCEPT ![r].pc = pc]
  BY DEF InsertIdentity, Goto
<1>4. /\ pc \in {"actor insert", "find winner"}
      /\ pc = "actor insert" => \A i \in identities : i.subject # request[r].subject
      /\ pc = "find winner" => \E i \in identities : i.subject = request[r].subject
  BY DEF IdentitiesOf
<1> HIDE DEF pc
<1>5. TypeOK'
  BY <1>1, <1>3, <1>4 DEF InsertIdentity, TypeOK, Arrived, Locations
<1>6. /\ Moves(r)
      /\ request'[r].pc = pc
      /\ request'[r].actor = request[r].actor
  BY <1>1, <1>3 DEF TypeOK, InsertIdentity, Moves, Arrived
<1>7. RequestSound(r)'
  BY <1>1, <1>4, <1>6 DEF IInv, RequestsSound, RequestSound, Moves
<1>8. EndKept(r) /\ HoldsAlone(r) /\ FailsGenuinely(r)
  BY <1>1, <1>2, <1>4, <1>6 DEF EndKept, HoldsAlone, FailsGenuinely
<1> QED
  BY <1>5, <1>6, <1>7, <1>8, MovesKeepIInv

\* The insert of the actor goes on to the commit or fails for the name, while
\* its subject has no identity.
LEMMA InsertActorKeepsIInv ==
    ASSUME IInv, NEW r \in Requests, InsertActor(r)
    PROVE  IInv'
<1>1. TypeOK /\ request[r].pc = "actor insert" /\ request[r] \in Arrived
  BY ArrivedRequest DEF IInv, InsertActor, At
<1>2. \A i \in identities : i.subject # request[r].subject
  BY <1>1 DEF IInv, HoldersSound
<1>3. request[r].actor = r
  BY <1>1 DEF IInv, RequestsSound, RequestSound
<1>4. CASE ActorsNamed(request[r].name) = {}
  <2>1. request' = [request EXCEPT ![r].pc = "commit"]
    BY <1>4 DEF InsertActor, Goto
  <2>2. TypeOK'
    BY <1>1, <2>1 DEF InsertActor, TypeOK, Arrived, Locations
  <2>3. Moves(r) /\ request'[r].pc = "commit" /\ request'[r].actor = r
    BY <1>1, <1>3, <2>1 DEF TypeOK, InsertActor, Moves, Arrived
  <2>4. EndKept(r) /\ HoldsAlone(r) /\ RequestSound(r)' /\ FailsGenuinely(r)
    BY <1>1, <2>3 DEF EndKept, HoldsAlone, RequestSound, FailsGenuinely
  <2> QED
    BY <2>2, <2>3, <2>4, MovesKeepIInv
<1>5. CASE ActorsNamed(request[r].name) # {}
  <2>1. request' = [request EXCEPT ![r].pc = "failed", ![r].cause = "name"]
    BY <1>5 DEF InsertActor, FailWith
  <2>2. TypeOK'
    BY <1>1, <2>1 DEF InsertActor, TypeOK, Arrived, Locations
  <2>3. Moves(r) /\ request'[r].pc = "failed" /\ request'[r].cause = "name"
    BY <1>1, <2>1 DEF TypeOK, InsertActor, Moves, Arrived
  <2>4. FailsGenuinely(r)
    BY <1>1, <1>2, <1>5, <2>3 DEF ActorsNamed, Moves, FailsGenuinely
  <2>5. EndKept(r) /\ HoldsAlone(r) /\ RequestSound(r)'
    BY <1>1, <2>3 DEF EndKept, HoldsAlone, RequestSound
  <2> QED
    BY <2>2, <2>3, <2>4, <2>5, MovesKeepIInv
<1> QED
  BY <1>4, <1>5

\* The loser always finds the identity that won.
LEMMA FindWinnerKeepsIInv ==
    ASSUME IInv, NEW r \in Requests, FindWinner(r)
    PROVE  IInv'
<1>1. TypeOK /\ request[r].pc = "find winner" /\ request[r] \in Arrived
  BY ArrivedRequest DEF IInv, FindWinner, At
<1>2. IdentitiesOf(request[r].subject) # {}
  BY <1>1 DEF IInv, RequestsSound, RequestSound, IdentitiesOf
<1>3. PICK i \in identities :
         /\ i.subject = request[r].subject
         /\ request' = [request EXCEPT ![r].pc = "load", ![r].actor = i.actor]
  BY <1>2 DEF FindWinner, IdentitiesOf
<1>4. i.actor \in Requests
  BY <1>1 DEF TypeOK
<1>5. TypeOK'
  BY <1>1, <1>3, <1>4 DEF FindWinner, TypeOK, Arrived, Locations
<1>6. Moves(r) /\ request'[r].pc = "load" /\ request'[r].actor = i.actor
  BY <1>1, <1>3 DEF TypeOK, FindWinner, Moves, Arrived
<1>7. RequestSound(r)'
  BY <1>1, <1>3, <1>6 DEF Moves, RequestSound
<1>8. EndKept(r) /\ HoldsAlone(r) /\ FailsGenuinely(r)
  BY <1>1, <1>6 DEF EndKept, HoldsAlone, FailsGenuinely
<1> QED
  BY <1>5, <1>6, <1>7, <1>8, MovesKeepIInv

\* The actor behind an identity is always there to be loaded.
LEMMA LoadActorKeepsIInv ==
    ASSUME IInv, NEW r \in Requests, LoadActor(r)
    PROVE  IInv'
<1>1. TypeOK /\ request[r].pc = "load" /\ request[r] \in Arrived
  BY ArrivedRequest DEF IInv, LoadActor, At
<1>2. RequestSound(r)
  BY DEF IInv, RequestsSound
<1>3. \E a \in actors : a.id = request[r].actor
  BY <1>1, <1>2 DEF IInv, RequestSound, IdentitiesAndActorsPair
<1>4. request' = [request EXCEPT ![r].pc = "granted"]
  BY <1>3 DEF LoadActor, Goto
<1>5. TypeOK'
  BY <1>1, <1>4 DEF LoadActor, TypeOK, Arrived, Locations
<1>6. Moves(r) /\ request'[r].pc = "granted" /\ request'[r].actor = request[r].actor
  BY <1>1, <1>4 DEF TypeOK, LoadActor, Moves, Arrived
<1>7. RequestSound(r)'
  BY <1>1, <1>2, <1>6 DEF Moves, RequestSound
<1>8. EndKept(r) /\ HoldsAlone(r) /\ FailsGenuinely(r)
  BY <1>1, <1>6 DEF EndKept, HoldsAlone, FailsGenuinely
<1> QED
  BY <1>5, <1>6, <1>7, <1>8, MovesKeepIInv

\* A statement that fails is a genuine failure.
LEMMA StatementFailsKeepsIInv ==
    ASSUME IInv, NEW r \in Requests, StatementFails(r)
    PROVE  IInv'
<1>1. TypeOK /\ request[r].pc \notin {"new", "granted", "created", "refused", "failed"}
  BY DEF IInv, StatementFails, Done, Served, At
<1>2. request[r] \in Arrived
  BY <1>1, ArrivedRequest
<1>3. request' = [request EXCEPT ![r].pc = "failed", ![r].cause = "statement"]
  BY DEF StatementFails, FailWith
<1>4. TypeOK'
  BY <1>1, <1>2, <1>3 DEF StatementFails, TypeOK, Arrived, Locations
<1>5. Moves(r) /\ request'[r].pc = "failed" /\ request'[r].cause = "statement"
  BY <1>1, <1>2, <1>3 DEF TypeOK, StatementFails, Moves, Arrived
<1>6. EndKept(r) /\ HoldsAlone(r) /\ RequestSound(r)' /\ FailsGenuinely(r)
  BY <1>1, <1>5 DEF EndKept, HoldsAlone, RequestSound, FailsGenuinely
<1> QED
  BY <1>4, <1>5, <1>6, MovesKeepIInv

\* A request without the role is refused.
LEMMA ForbidKeepsIInv ==
    ASSUME IInv, NEW r \in Requests, Forbid(r)
    PROVE  IInv'
<1>1. TypeOK /\ request[r].pc = "granted" /\ request[r] \in Arrived
  BY ArrivedRequest DEF IInv, Forbid, At
<1>2. request' = [request EXCEPT ![r].pc = "refused"]
  BY DEF Forbid, Goto
<1>3. TypeOK'
  BY <1>1, <1>2 DEF Forbid, TypeOK, Arrived, Locations
<1>4. Moves(r) /\ request'[r].pc = "refused" /\ request'[r].actor = request[r].actor
  BY <1>1, <1>2 DEF TypeOK, Forbid, Moves, Arrived
<1>5. RequestSound(r)'
  BY <1>1, <1>4 DEF IInv, RequestsSound, Moves, RequestSound
<1>6. EndKept(r) /\ HoldsAlone(r) /\ FailsGenuinely(r)
  BY <1>1, <1>4 DEF EndKept, HoldsAlone, FailsGenuinely
<1> QED
  BY <1>3, <1>4, <1>5, <1>6, MovesKeepIInv

\* The update of the role column leaves subject and actor of every identity.
LEMMA UpdateRoleKeepsIInv ==
    ASSUME IInv, NEW r \in Requests, UpdateRole(r)
    PROVE  IInv'
<1> DEFINE new(i) == IF i.actor = request[r].actor THEN [i EXCEPT !.role = request[r].role] ELSE i
<1>1. TypeOK /\ request[r].pc = "update role" /\ request[r] \in Arrived
  BY ArrivedRequest DEF IInv, UpdateRole, At
<1>2. /\ identities' = {new(i) : i \in identities}
      /\ actors' = actors
      /\ request' = [request EXCEPT ![r].pc = "load"]
  BY DEF UpdateRole, Goto
<1>3. \A i \in identities :
         /\ new(i) \in [subject : Subjects, actor : Requests, role : Roles]
         /\ new(i).subject = i.subject /\ new(i).actor = i.actor
  BY <1>1 DEF TypeOK, Arrived
<1> HIDE DEF new
<1>4. /\ \A i \in identities : \E j \in identities' : j.subject = i.subject /\ j.actor = i.actor
      /\ \A j \in identities' : \E i \in identities : j.subject = i.subject /\ j.actor = i.actor
  BY <1>2, <1>3
<1>5. TypeOK'
  <2>1. identities' \subseteq [subject : Subjects, actor : Requests, role : Roles]
    BY <1>2, <1>3
  <2>2. request' \in [Requests -> {NoRequest} \cup Arrived]
    BY <1>1, <1>2 DEF TypeOK, Arrived, Locations
  <2> QED
    BY <1>1, <1>2, <2>1, <2>2 DEF TypeOK
<1>6. /\ \A q \in Requests : q # r => request'[q] = request[q]
      /\ request'[r].pc = "load"
      /\ request'[r].subject = request[r].subject
      /\ request'[r].actor = request[r].actor
  BY <1>1, <1>2 DEF TypeOK, Arrived
<1>7. IdentitiesSound'
  <2>1. IdentitiesSound
    BY DEF IInv
  <2>2. \A i \in identities : i.actor # r
    BY <1>1, <2>1 DEF IdentitiesSound
  <2>3. ASSUME NEW i \in identities'
        PROVE  /\ request'[i.actor].pc \in {"load", "granted", "created", "refused", "failed"}
               /\ request'[i.actor].subject = i.subject
    <3>1. PICK j \in identities : i.subject = j.subject /\ i.actor = j.actor
      BY <1>4
    <3>2. j.actor \in Requests
      BY <1>1 DEF TypeOK
    <3> QED
      BY <1>6, <2>1, <2>2, <3>1, <3>2 DEF IdentitiesSound
  <2>4. ASSUME NEW i \in identities', NEW j \in identities', i.subject = j.subject
        PROVE  i = j
    <3>1. PICK k \in identities, l \in identities : i = new(k) /\ j = new(l)
      BY <1>2
    <3>2. k = l
      BY <1>3, <2>1, <2>4, <3>1 DEF IdentitiesSound
    <3> QED
      BY <3>1, <3>2
  <2> QED
    BY <2>3, <2>4 DEF IdentitiesSound
<1>8. HoldersSound'
  <2>1. HoldersSound
    BY DEF IInv
  <2> QED
    <3>1. ASSUME NEW p \in Requests, request'[p].pc \in {"actor insert", "commit"}
          PROVE  /\ request[p].pc \in {"actor insert", "commit"}
                 /\ request'[p].subject = request[p].subject
                 /\ \A j \in identities' : j.subject # request[p].subject
      <4>1. request'[p] = request[p]
        BY <1>6, <3>1
      <4>2. \A i \in identities : i.subject # request[p].subject
        BY <2>1, <3>1, <4>1 DEF HoldersSound
      <4>3. \A j \in identities' : j.subject # request[p].subject
        BY <1>4, <4>2
      <4> QED
        BY <3>1, <4>1, <4>3
    <3> QED
      BY <2>1, <3>1, HoldersStay
<1>9. RequestsSound'
  <2>1. RequestsSound
    BY DEF IInv
  <2> SUFFICES ASSUME NEW p \in Requests PROVE RequestSound(p)'
    BY DEF RequestsSound
  <2>2. CASE p = r
    <3>1. PICK i \in identities : i.subject = request[r].subject /\ i.actor = request[r].actor
      BY <1>1, <2>1 DEF RequestsSound, RequestSound
    <3>2. \E j \in identities' : j.subject = request'[r].subject /\ j.actor = request'[r].actor
      BY <1>4, <1>6, <3>1
    <3> QED
      BY <1>6, <2>2, <3>2 DEF RequestSound
  <2>3. CASE p # r
    <3>1. RequestSound(p) /\ request'[p] = request[p]
      BY <1>6, <2>1, <2>3 DEF RequestsSound
    <3> QED
      BY <1>4, <3>1, StillRequestSound
  <2> QED
    BY <2>2, <2>3
<1>10. AgentsSound' /\ IdentitiesAndActorsPair'
  <2>1. AgentsSound /\ IdentitiesAndActorsPair
    BY DEF IInv
  <2>2. AgentsSound'
    BY <1>2, <2>1 DEF AgentsSound
  <2>3. \A i \in identities' : \E a \in actors' : a.id = i.actor /\ a.kind = "human"
    <3> TAKE j \in identities'
    <3>1. PICK i \in identities : j.subject = i.subject /\ j.actor = i.actor
      BY <1>4
    <3>2. PICK a \in actors : a.id = i.actor /\ a.kind = "human"
      BY <2>1 DEF IdentitiesAndActorsPair
    <3> QED
      BY <1>2, <3>1, <3>2
  <2>4. \A a \in actors' : a.kind = "human" => \E j \in identities' : j.actor = a.id
    <3> SUFFICES ASSUME NEW a \in actors, a.kind = "human"
                 PROVE  \E j \in identities' : j.actor = a.id
      BY <1>2
    <3>1. PICK i \in identities : i.actor = a.id
      BY <2>1 DEF IdentitiesAndActorsPair
    <3> QED
      BY <1>4, <3>1
  <2> QED
    BY <2>2, <2>3, <2>4 DEF IdentitiesAndActorsPair
<1>11. FailuresSound'
  <2>1. FailuresSound
    BY DEF IInv
  <2> SUFFICES ASSUME NEW p \in Requests, request'[p].pc = "failed"
               PROVE  \/ request'[p].cause = "statement"
                      \/ /\ request'[p].cause = "name"
                         /\ \E a \in actors' :
                               /\ a.name = request'[p].name
                               /\ \A j \in identities' :
                                     j.subject = request'[p].subject => j.actor # a.id
    BY DEF FailuresSound
  <2>2. request'[p] = request[p]
    BY <1>6
  <2>3. CASE request[p].cause = "statement"
    BY <2>2, <2>3
  <2>4. CASE request[p].cause # "statement"
    <3>1. PICK a \in actors :
             /\ request[p].cause = "name" /\ a.name = request[p].name
             /\ \A i \in identities : i.subject = request[p].subject => i.actor # a.id
      BY <2>1, <2>2, <2>4 DEF FailuresSound
    <3>2. \A j \in identities' : j.subject = request[p].subject => j.actor # a.id
      BY <1>4, <3>1
    <3> QED
      BY <1>2, <2>2, <3>1, <3>2
  <2> QED
    BY <2>3, <2>4
<1> QED
  BY <1>5, <1>7, <1>8, <1>9, <1>10, <1>11 DEF IInv

\* The commit makes a new pair of rows visible: nobody else holds the subject,
\* the subject had no identity, and no row had the id of this request.
LEMMA CommitKeepsIInv ==
    ASSUME IInv, NEW r \in Requests, Commit(r)
    PROVE  IInv'
<1> USE IdsAssumption
<1> DEFINE i0 == NewIdentity(r)
           a0 == NewActor(r)
<1>1. TypeOK /\ request[r].pc = "commit" /\ request[r] \in Arrived
  BY ArrivedRequest DEF IInv, Commit, At
<1>2. /\ identities' = identities \cup {i0}
      /\ actors' = actors \cup {a0}
      /\ request' = [request EXCEPT ![r].pc = "load"]
  BY DEF Commit, Goto
<1>3. /\ i0 \in [subject : Subjects, actor : Requests, role : Roles]
      /\ i0.subject = request[r].subject /\ i0.actor = r
      /\ a0 \in [id : Requests \cup Names, name : Names, kind : {"human", "agent"}]
      /\ a0.id = r /\ a0.kind = "human"
  BY <1>1 DEF NewIdentity, NewActor, Arrived
<1> HIDE DEF i0, a0
<1>4. TypeOK'
  BY <1>1, <1>2, <1>3 DEF TypeOK, Arrived, Locations
<1>5. /\ \A q \in Requests : q # r => request'[q] = request[q]
      /\ request'[r].pc = "load"
      /\ request'[r].subject = request[r].subject
      /\ request'[r].actor = r
  BY <1>1, <1>2 DEF IInv, RequestsSound, RequestSound, TypeOK, Arrived
<1>6. /\ \A i \in identities : i.subject # request[r].subject
      /\ \A q \in Requests : /\ request[q].pc \in {"actor insert", "commit"}
                             /\ request[q].subject = request[r].subject
                             => q = r
  BY <1>1 DEF IInv, HoldersSound
<1>7. \A i \in identities : i.actor \in Requests /\ i.actor # r
  BY <1>1 DEF IInv, IdentitiesSound, TypeOK
<1>8. IdentitiesSound'
  <2>1. IdentitiesSound
    BY DEF IInv
  <2> QED
    <3>1. ASSUME NEW i \in identities'
          PROVE  /\ request'[i.actor].pc \in {"load", "granted", "created", "refused", "failed"}
                 /\ request'[i.actor].subject = i.subject
      BY <1>2, <1>3, <1>5, <1>7, <2>1, <3>1 DEF IdentitiesSound
    <3>2. ASSUME NEW i \in identities', NEW j \in identities', i.subject = j.subject
          PROVE  i = j
      <4>1. CASE i \in identities /\ j \in identities
        BY <2>1, <3>2, <4>1 DEF IdentitiesSound
      <4>2. CASE i = i0 \/ j = i0
        BY <1>2, <1>3, <1>6, <3>2, <4>2
      <4> QED
        BY <1>2, <4>1, <4>2
    <3> QED
      BY <3>1, <3>2 DEF IdentitiesSound
<1>9. HoldersSound'
  <2>1. HoldersSound
    BY DEF IInv
  <2> QED
    <3>1. ASSUME NEW p \in Requests, request'[p].pc \in {"actor insert", "commit"}
          PROVE  /\ request[p].pc \in {"actor insert", "commit"}
                 /\ request'[p].subject = request[p].subject
                 /\ \A j \in identities' : j.subject # request[p].subject
      <4>1. p # r /\ request'[p] = request[p]
        BY <1>5, <3>1
      <4>2. \A i \in identities : i.subject # request[p].subject
        BY <2>1, <3>1, <4>1 DEF HoldersSound
      <4>3. request[p].subject # request[r].subject
        BY <1>6, <3>1, <4>1
      <4> QED
        BY <1>2, <1>3, <3>1, <4>1, <4>2, <4>3
    <3> QED
      BY <2>1, <3>1, HoldersStay
<1>10. RequestsSound'
  <2>1. RequestsSound
    BY DEF IInv
  <2> SUFFICES ASSUME NEW p \in Requests PROVE RequestSound(p)'
    BY DEF RequestsSound
  <2>2. CASE p = r
    BY <1>2, <1>3, <1>5, <2>2 DEF RequestSound
  <2>3. CASE p # r
    <3>1. RequestSound(p) /\ request'[p] = request[p]
      BY <1>5, <2>1, <2>3 DEF RequestsSound
    <3> QED
      BY <1>2, <3>1, StillRequestSound
  <2> QED
    BY <2>2, <2>3
<1>11. AgentsSound' /\ IdentitiesAndActorsPair'
  BY <1>2, <1>3 DEF IInv, AgentsSound, IdentitiesAndActorsPair
<1>12. \A a \in actors : a.id # r
  <2>1. ASSUME NEW a \in actors, a.kind = "human" PROVE a.id # r
    BY <1>7, <2>1 DEF IInv, IdentitiesAndActorsPair
  <2>2. ASSUME NEW a \in actors, a.kind = "agent" PROVE a.id # r
    BY <2>2 DEF IInv, AgentsSound
  <2> QED
    BY <1>1, <2>1, <2>2 DEF TypeOK
<1>13. FailuresSound'
  <2>1. FailuresSound
    BY DEF IInv
  <2> QED
    BY <1>2, <1>3, <1>5, <1>12, <2>1 DEF FailuresSound
<1> QED
  BY <1>4, <1>8, <1>9, <1>10, <1>11, <1>13 DEF IInv

\* An administrator's new agent has a name that no actor has; an error changes
\* nothing.
LEMMA CreateAgentKeepsIInv ==
    ASSUME IInv, NEW r \in Requests, NEW n \in Names, CreateAgent(r, n)
    PROVE  IInv'
<1>1. TypeOK /\ request[r].pc = "granted" /\ request[r] \in Arrived
  BY ArrivedRequest DEF IInv, CreateAgent, At
<1>2. CASE ActorsNamed(n) # {}
  <2>1. /\ request' = [request EXCEPT ![r].pc = "refused"]
        /\ identities' = identities
        /\ actors' = actors
    BY <1>2 DEF CreateAgent, Goto
  <2>2. TypeOK'
    BY <1>1, <2>1 DEF TypeOK, Arrived, Locations
  <2>3. Moves(r) /\ request'[r].pc = "refused" /\ request'[r].actor = request[r].actor
    BY <1>1, <2>1 DEF TypeOK, Moves, Arrived
  <2>4. RequestSound(r)'
    BY <1>1, <2>3 DEF IInv, RequestsSound, Moves, RequestSound
  <2>5. EndKept(r) /\ HoldsAlone(r) /\ FailsGenuinely(r)
    BY <1>1, <2>3 DEF EndKept, HoldsAlone, FailsGenuinely
  <2> QED
    BY <2>2, <2>3, <2>4, <2>5, MovesKeepIInv
<1>3. CASE ActorsNamed(n) = {}
  <2> DEFINE a0 == [id |-> n, name |-> n, kind |-> "agent"]
  <2>1. /\ request' = [request EXCEPT ![r].pc = "created"]
        /\ identities' = identities
        /\ actors' = actors \cup {a0}
    BY <1>3 DEF CreateAgent, Goto
  <2>2. /\ a0 \in [id : Requests \cup Names, name : Names, kind : {"human", "agent"}]
        /\ a0.id = n /\ a0.kind = "agent"
    OBVIOUS
  <2> HIDE DEF a0
  <2>3. TypeOK'
    BY <1>1, <2>1, <2>2 DEF TypeOK, Arrived, Locations
  <2>4. /\ \A q \in Requests : q # r => request'[q] = request[q]
        /\ request'[r].pc = "created"
        /\ request'[r].subject = request[r].subject
        /\ request'[r].actor = request[r].actor
    BY <1>1, <2>1 DEF TypeOK, Arrived
  <2>5. IdentitiesSound'
    BY <1>1, <2>1, <2>4 DEF IInv, IdentitiesSound, TypeOK
  <2>6. HoldersSound'
    <3>1. HoldersSound
      BY DEF IInv
    <3>2. \A p \in Requests : request'[p].pc \in {"actor insert", "commit"} =>
             request'[p] = request[p]
      BY <2>4
    <3> QED
      BY <2>1, <3>1, <3>2 DEF HoldersSound
  <2>7. RequestsSound'
    <3>1. RequestsSound
      BY DEF IInv
    <3> SUFFICES ASSUME NEW p \in Requests PROVE RequestSound(p)'
      BY DEF RequestsSound
    <3>2. CASE p = r
      <4>1. \E i \in identities : i.subject = request[r].subject /\ i.actor = request[r].actor
        BY <1>1, <3>1 DEF RequestsSound, RequestSound
      <4>2. \E i \in identities' :
               i.subject = request'[r].subject /\ i.actor = request'[r].actor
        BY <2>1, <2>4, <4>1
      <4> QED
        BY <2>4, <3>2, <4>2 DEF RequestSound
    <3>3. CASE p # r
      <4>1. RequestSound(p) /\ request'[p] = request[p] /\ identities' = identities
        BY <2>1, <2>4, <3>1, <3>3 DEF RequestsSound
      <4> QED
        BY <4>1, StillRequestSound
    <3> QED
      BY <3>2, <3>3
  <2>8. AgentsSound' /\ IdentitiesAndActorsPair'
    BY <2>1, <2>2 DEF IInv, AgentsSound, IdentitiesAndActorsPair
  <2>9. FailuresSound'
    <3>1. FailuresSound
      BY DEF IInv
    <3>2. \A q \in Requests : request'[q].pc = "failed" => request'[q] = request[q]
      BY <2>4
    <3>3. identities' = identities /\ actors \subseteq actors'
      BY <2>1
    <3> SUFFICES ASSUME NEW q \in Requests, request'[q].pc = "failed", request[q].cause # "statement"
                 PROVE  /\ request[q].cause = "name"
                        /\ \E a \in actors' :
                              /\ a.name = request[q].name
                              /\ \A i \in identities :
                                    i.subject = request[q].subject => i.actor # a.id
      BY <3>2, <3>3 DEF FailuresSound
    <3> QED
      BY <3>1, <3>2, <3>3 DEF FailuresSound
  <2> QED
    BY <2>3, <2>5, <2>6, <2>7, <2>8, <2>9 DEF IInv
<1> QED
  BY <1>2, <1>3

\* Every step of the system keeps the invariant.
LEMMA NextIInv == IInv /\ [Next]_vars => IInv'
<1> SUFFICES ASSUME IInv, [Next]_vars PROVE IInv'
  OBVIOUS
<1>1. CASE UNCHANGED vars
  <2>1. identities' = identities /\ actors' = actors /\ request' = request
    BY <1>1 DEF vars
  <2>2. TypeOK' /\ IdentitiesSound' /\ HoldersSound'
    BY <2>1 DEF IInv, TypeOK, IdentitiesSound, HoldersSound
  <2>3. RequestsSound' /\ AgentsSound' /\ FailuresSound'
    BY <2>1 DEF IInv, RequestsSound, RequestSound, AgentsSound, FailuresSound
  <2>4. IdentitiesAndActorsPair'
    BY <2>1 DEF IInv, IdentitiesAndActorsPair
  <2> QED
    BY <2>2, <2>3, <2>4 DEF IInv
<1>2. CASE \E r \in Requests, s \in Subjects, n \in Names, role \in Roles : Arrive(r, s, n, role)
  BY <1>2, ArriveKeepsIInv
<1>3. CASE \E r \in Requests : Step(r)
  BY <1>3, FindIdentityKeepsIInv, UpdateRoleKeepsIInv, InsertIdentityKeepsIInv,
     InsertActorKeepsIInv, CommitKeepsIInv, FindWinnerKeepsIInv, LoadActorKeepsIInv,
     StatementFailsKeepsIInv DEF Step
<1>4. CASE \E r \in Requests, n \in Names : CreateAgent(r, n)
  BY <1>4, CreateAgentKeepsIInv
<1>5. CASE \E r \in Requests : Forbid(r)
  BY <1>5, ForbidKeepsIInv
<1>6. CASE Finished
  BY <1>1, <1>6 DEF Finished
<1> QED
  BY <1>1, <1>2, <1>3, <1>4, <1>5, <1>6 DEF Next

\* The invariant holds throughout.
THEOREM Invariance == Spec => []IInv
BY InitIInv, NextIInv, PTL DEF Spec

-----------------------------------------------------------------------------

\* Whichever statement of GetOrCreateHumanActor fails, and whoever runs it at
\* the same time, no identity is ever without its human actor and no human
\* actor without its identity.
THEOREM PairsStayWhole == Spec => []IdentitiesAndActorsPair
<1>1. IInv => IdentitiesAndActorsPair
  BY DEF IInv
<1> QED
  BY <1>1, Invariance, PTL

\* Requests that reach a handler act as the same actor exactly when Keycloak
\* gave them the same subject, for any number of concurrent first requests.
THEOREM SubjectsHaveOneActor == Spec => []OneActorPerSubject
<1>1. IInv => OneActorPerSubject
  <2> SUFFICES ASSUME IInv, NEW r \in Requests, NEW q \in Requests, Served(r), Served(q)
               PROVE  request[r].subject = request[q].subject <=>
                      request[r].actor = request[q].actor
    BY DEF OneActorPerSubject
  <2>1. PICK i \in identities : i.subject = request[r].subject /\ i.actor = request[r].actor
    BY DEF IInv, RequestsSound, RequestSound, Served
  <2>2. PICK j \in identities : j.subject = request[q].subject /\ j.actor = request[q].actor
    BY DEF IInv, RequestsSound, RequestSound, Served
  <2> QED
    BY <2>1, <2>2 DEF IInv, IdentitiesSound
<1> QED
  BY <1>1, Invariance, PTL

\* Losing the race of GetOrCreateHumanActor is never an error: a request fails
\* because a statement does, or because its display name is somebody else's,
\* and stays somebody else's.
THEOREM RacesAreNoFailures == Spec => []FailuresAreGenuine
<1>1. IInv => FailuresAreGenuine
  <2> SUFFICES ASSUME IInv, NEW r \in Requests, At(r, "failed"),
                      request[r].cause # "statement"
               PROVE  /\ request[r].cause = "name"
                      /\ \E a \in ActorsNamed(request[r].name) :
                            \A i \in IdentitiesOf(request[r].subject) : i.actor # a.id
    BY DEF FailuresAreGenuine
  <2>1. /\ request[r].cause = "name"
        /\ \E a \in actors :
              /\ a.name = request[r].name
              /\ \A i \in identities : i.subject = request[r].subject => i.actor # a.id
    BY DEF IInv, FailuresSound, At
  <2> QED
    BY <2>1 DEF ActorsNamed, IdentitiesOf
<1> QED
  BY <1>1, Invariance, PTL

-----------------------------------------------------------------------------

\* What a request that came after another one keeps: that one had its actor, or
\* had failed, and stays so.
AfterSound ==
    \A r, q \in Requests : request[r].pc # "new" /\ q \in request[r].after => Done(q)

\* A request has yet to look at its identity's role, or has seen or written its
\* own there.
Settled(r, role) ==
    \/ request[r].pc \in {"find", "update role", "failed"}
    \/ /\ request[r].pc \in {"load", "granted", "created", "refused"}
       /\ request[r].role = role

\* Some request of its human wrote an identity's role, and all that came after
\* that request are settled with it.
Wrote(w, i) ==
    /\ request[w].pc # "new" /\ request[w].subject = i.subject /\ request[w].role = i.role
    /\ \A r \in Requests :
          request[r].pc # "new" /\ request[r].subject = i.subject /\ w \in request[r].after
              => Settled(r, i.role)

RolesSound == \A i \in identities : \E w \in Requests : Wrote(w, i)

RoleInv == AfterSound /\ RolesSound

\* A step of request r as the roles see it.
RoleMoves(r) ==
    /\ \A q \in Requests : q # r => request'[q] = request[q]
    /\ request'[r].pc # "new"
    /\ request[r].pc # "new" =>
          /\ request'[r].subject = request[r].subject
          /\ request'[r].role = request[r].role
          /\ request'[r].after = request[r].after
    /\ request[r].pc = "new" => request'[r].after = {q \in Requests : Done(q)}
    /\ Done(r) => Done(r)'

\* Such a step leaves what came after what.
LEMMA RoleMovesKeepAfter ==
    ASSUME AfterSound, NEW r \in Requests, RoleMoves(r)
    PROVE  AfterSound'
<1>1. \A q \in Requests : Done(q) => Done(q)'
  BY DEF RoleMoves, Done, Served, At
<1> QED
  BY <1>1 DEF AfterSound, RoleMoves

\* The writer of an identity stays its writer while the identity stays and the
\* stepping request remains settled with it.
LEMMA WriterStays ==
    ASSUME NEW r \in Requests, RoleMoves(r), NEW i, NEW w \in Requests, Wrote(w, i),
           request'[r].subject = i.subject /\ w \in request'[r].after => Settled(r, i.role)'
    PROVE  Wrote(w, i)'
<1>1. /\ request'[w].pc # "new"
      /\ request'[w].subject = i.subject
      /\ request'[w].role = i.role
  BY DEF Wrote, RoleMoves
<1>2. ASSUME NEW p \in Requests, request'[p].pc # "new", request'[p].subject = i.subject,
             w \in request'[p].after
      PROVE  Settled(p, i.role)'
  <2>1. CASE p = r
    BY <1>2, <2>1
  <2>2. CASE p # r
    BY <1>2, <2>2 DEF RoleMoves, Wrote, Settled
  <2> QED
    BY <2>1, <2>2
<1> QED
  BY <1>1, <1>2 DEF Wrote

\* A request that is still under way when it writes its role is in nobody's
\* past, so it may stand as the writer.
LEMMA NewWriter ==
    ASSUME AfterSound', NEW r \in Requests, request'[r].pc = "load", NEW i,
           request'[r].subject = i.subject, request'[r].role = i.role
    PROVE  Wrote(r, i)'
<1>1. \A p \in Requests : request'[p].pc # "new" => r \notin request'[p].after
  BY DEF AfterSound, Done, Served, At
<1> QED
  BY <1>1 DEF Wrote

\* A step that writes no identity keeps the roles sound when it leaves its
\* request settled.
LEMMA MovesKeepRoles ==
    ASSUME RoleInv, NEW r \in Requests, RoleMoves(r), identities' = identities,
           \A i \in identities :
              /\ request'[r].subject = i.subject
              /\ request[r].pc # "new" => Settled(r, i.role)
              => Settled(r, i.role)'
    PROVE  RoleInv'
<1>1. AfterSound'
  BY RoleMovesKeepAfter DEF RoleInv
<1>2. ASSUME NEW i \in identities PROVE \E w \in Requests : Wrote(w, i)'
  <2>1. PICK w \in Requests : Wrote(w, i)
    BY DEF RoleInv, RolesSound
  <2>2. ASSUME request'[r].subject = i.subject, w \in request'[r].after
        PROVE  Settled(r, i.role)'
    <3>1. request[r].pc # "new" => Settled(r, i.role)
      BY <2>1, <2>2 DEF Wrote, RoleMoves
    <3> QED
      BY <2>2, <3>1
  <2> QED
    BY <2>1, <2>2, WriterStays
<1> QED
  BY <1>1, <1>2 DEF RoleInv, RolesSound

\* Arriving, a request has yet to look at its identity.
LEMMA ArriveKeepsRoles ==
    ASSUME IInv, RoleInv, NEW r \in Requests, NEW s \in Subjects, NEW n \in Names,
           NEW role \in Roles, Arrive(r, s, n, role)
    PROVE  RoleInv'
<1>1. request[r].pc = "new" /\ request \in [Requests -> {NoRequest} \cup Arrived]
  BY DEF IInv, TypeOK, Arrive, At
<1>2. /\ RoleMoves(r)
      /\ request'[r].pc = "find"
      /\ identities' = identities
  BY <1>1 DEF Arrive, RoleMoves, Done, Served, At
<1>3. \A i \in identities : Settled(r, i.role)'
  BY <1>2 DEF Settled
<1> QED
  BY <1>2, <1>3, MovesKeepRoles

\* The lookup settles a request whose role is the identity's; there is no other
\* identity of its subject.
LEMMA FindIdentityKeepsRoles ==
    ASSUME IInv, RoleInv, NEW r \in Requests, FindIdentity(r)
    PROVE  RoleInv'
<1>1. TypeOK /\ request[r].pc = "find" /\ request[r] \in Arrived
  BY ArrivedRequest DEF IInv, FindIdentity, At
<1>2. CASE IdentitiesOf(request[r].subject) = {}
  <2>1. /\ request' = [request EXCEPT ![r].pc = "identity insert"]
        /\ identities' = identities
    BY <1>2 DEF FindIdentity, Goto
  <2>2. RoleMoves(r) /\ request'[r].subject = request[r].subject
    BY <1>1, <2>1 DEF TypeOK, RoleMoves, Arrived, Done, Served, At
  <2>3. \A i \in identities : i.subject # request'[r].subject
    BY <1>2, <2>2 DEF IdentitiesOf
  <2> QED
    BY <1>1, <2>1, <2>2, <2>3, MovesKeepRoles
<1>3. CASE IdentitiesOf(request[r].subject) # {}
  <2>1. PICK i \in identities :
           /\ i.subject = request[r].subject
           /\ request' = [request EXCEPT
                  ![r].pc = IF i.role = request[r].role THEN "load" ELSE "update role",
                  ![r].actor = i.actor]
    BY <1>3 DEF FindIdentity, IdentitiesOf
  <2>2. /\ RoleMoves(r)
        /\ request'[r].subject = request[r].subject
        /\ request'[r].role = request[r].role
        /\ request'[r].pc = IF i.role = request[r].role THEN "load" ELSE "update role"
    BY <1>1, <2>1 DEF TypeOK, RoleMoves, Arrived, Done, Served, At
  <2>3. identities' = identities
    BY DEF FindIdentity
  <2>4. \A j \in identities : j.subject = request'[r].subject => j = i
    <3>1. \A j, k \in identities : j.subject = k.subject => j = k
      BY DEF IInv, IdentitiesSound
    <3> QED
      BY <2>1, <2>2, <3>1
  <2>5. Settled(r, i.role)'
    BY <2>2 DEF Settled
  <2> QED
    BY <2>2, <2>3, <2>4, <2>5, MovesKeepRoles
<1> QED
  BY <1>2, <1>3

\* A request before its two inserts, or a loser before its lookup, is settled
\* with no identity: it takes no role as the current one.
LEMMA InsertsKeepRoles ==
    ASSUME IInv, RoleInv, NEW r \in Requests,
           InsertIdentity(r) \/ InsertActor(r) \/ FindWinner(r)
    PROVE  RoleInv'
<1>1. TypeOK /\ request[r].pc \in {"identity insert", "actor insert", "find winner"}
  BY DEF IInv, InsertIdentity, InsertActor, FindWinner, At
<1>2. request[r] \in Arrived
  BY <1>1, ArrivedRequest
<1>3. /\ \A q \in Requests : q # r => request'[q] = request[q]
      /\ request'[r].pc # "new"
      /\ request'[r].subject = request[r].subject
      /\ request'[r].role = request[r].role
      /\ request'[r].after = request[r].after
  <2>1. CASE InsertIdentity(r)
    BY <1>1, <1>2, <2>1 DEF InsertIdentity, Goto, TypeOK, Arrived
  <2>2. CASE InsertActor(r)
    <3>1. CASE request' = [request EXCEPT ![r].pc = "commit"]
      BY <1>1, <1>2, <3>1 DEF TypeOK, Arrived
    <3>2. CASE request' = [request EXCEPT ![r].pc = "failed", ![r].cause = "name"]
      BY <1>1, <1>2, <3>2 DEF TypeOK, Arrived
    <3> QED
      BY <3>1, <3>2, <2>2 DEF InsertActor, Goto, FailWith
  <2>3. CASE FindWinner(r)
    <3>1. CASE request' = [request EXCEPT ![r].pc = "failed", ![r].cause = "no winner"]
      BY <1>1, <1>2, <3>1 DEF TypeOK, Arrived
    <3>2. CASE \E i \in identities :
                  request' = [request EXCEPT ![r].pc = "load", ![r].actor = i.actor]
      <4>1. PICK i \in identities :
               request' = [request EXCEPT ![r].pc = "load", ![r].actor = i.actor]
        BY <3>2
      <4> QED
        BY <1>1, <1>2, <4>1 DEF TypeOK, Arrived
    <3> QED
      BY <2>3, <3>1, <3>2 DEF FindWinner, FailWith, IdentitiesOf
  <2> QED
    BY <2>1, <2>2, <2>3
<1>4. identities' = identities
  BY DEF InsertIdentity, InsertActor, FindWinner
<1>5. RoleMoves(r) /\ \A i \in identities : ~Settled(r, i.role)
  BY <1>1, <1>3 DEF RoleMoves, Settled, Done, Served, At
<1> QED
  BY <1>1, <1>4, <1>5, MovesKeepRoles

\* Behind its lookup a request goes on with the role it has.
LEMMA EndsKeepRoles ==
    ASSUME IInv, RoleInv, NEW r \in Requests, NEW n \in Names,
           LoadActor(r) \/ StatementFails(r) \/ CreateAgent(r, n) \/ Forbid(r)
    PROVE  RoleInv'
<1>1. TypeOK /\ request[r].pc \notin {"new", "created", "refused", "failed"}
  BY DEF IInv, LoadActor, StatementFails, CreateAgent, Forbid, Done, Served, At
<1>2. request[r] \in Arrived
  BY <1>1, ArrivedRequest
<1>3. /\ \A q \in Requests : q # r => request'[q] = request[q]
      /\ request'[r].subject = request[r].subject
      /\ request'[r].role = request[r].role
      /\ request'[r].after = request[r].after
      /\ \/ request[r].pc \in {"load", "granted"}
            /\ request'[r].pc \in {"granted", "created", "refused"}
         \/ request[r].pc # "granted" /\ request'[r].pc = "failed"
  <2>1. CASE LoadActor(r)
    <3>1. request[r].pc = "load"
      BY <2>1 DEF LoadActor, At
    <3>2. CASE request' = [request EXCEPT ![r].pc = "granted"]
      BY <1>1, <1>2, <3>1, <3>2 DEF TypeOK, Arrived
    <3>3. CASE request' = [request EXCEPT ![r].pc = "failed", ![r].cause = "no actor"]
      BY <1>1, <1>2, <3>1, <3>3 DEF TypeOK, Arrived
    <3> QED
      BY <3>2, <3>3, <2>1 DEF LoadActor, Goto, FailWith
  <2>2. CASE StatementFails(r)
    <3>1. request[r].pc # "granted"
      BY <2>2 DEF StatementFails, Done, Served
    <3> QED
      BY <1>1, <1>2, <2>2, <3>1 DEF StatementFails, FailWith, TypeOK, Arrived
  <2>3. CASE CreateAgent(r, n)
    <3>1. request[r].pc = "granted"
      BY <2>3 DEF CreateAgent, At
    <3>2. CASE request' = [request EXCEPT ![r].pc = "created"]
      BY <1>1, <1>2, <3>1, <3>2 DEF TypeOK, Arrived
    <3>3. CASE request' = [request EXCEPT ![r].pc = "refused"]
      BY <1>1, <1>2, <3>1, <3>3 DEF TypeOK, Arrived
    <3> QED
      BY <3>2, <3>3, <2>3 DEF CreateAgent, Goto
  <2>4. CASE Forbid(r)
    BY <1>1, <1>2, <2>4 DEF Forbid, Goto, TypeOK, Arrived, At
  <2> QED
    BY <2>1, <2>2, <2>3, <2>4
<1>4. RoleMoves(r)
  BY <1>1, <1>3 DEF RoleMoves, Done, Served, At
<1>5. identities' = identities
  BY DEF LoadActor, StatementFails, CreateAgent, Forbid
<1>6. \A i \in identities : Settled(r, i.role) => Settled(r, i.role)'
  BY <1>3 DEF Settled
<1> QED
  BY <1>1, <1>4, <1>5, <1>6, MovesKeepRoles

\* The update makes its request the writer of the one identity it changes.
LEMMA UpdateRoleKeepsRoles ==
    ASSUME IInv, RoleInv, NEW r \in Requests, UpdateRole(r)
    PROVE  RoleInv'
<1> DEFINE new(i) == IF i.actor = request[r].actor THEN [i EXCEPT !.role = request[r].role] ELSE i
<1>1. TypeOK /\ request[r].pc = "update role" /\ request[r] \in Arrived
  BY ArrivedRequest DEF IInv, UpdateRole, At
<1>2. /\ identities' = {new(i) : i \in identities}
      /\ request' = [request EXCEPT ![r].pc = "load"]
  BY DEF UpdateRole, Goto
<1>3. /\ RoleMoves(r)
      /\ request'[r].pc = "load"
      /\ request'[r].subject = request[r].subject
      /\ request'[r].role = request[r].role
  BY <1>1, <1>2 DEF TypeOK, RoleMoves, Arrived, Done, Served, At
<1>4. AfterSound'
  BY <1>3, RoleMovesKeepAfter DEF RoleInv
<1>5. PICK k \in identities : k.subject = request[r].subject /\ k.actor = request[r].actor
  BY <1>1 DEF IInv, RequestsSound, RequestSound
<1>6. RolesSound'
  <2> SUFFICES ASSUME NEW j \in identities' PROVE \E w \in Requests : Wrote(w, j)'
    BY DEF RolesSound
  <2>1. PICK i \in identities : j = new(i)
    BY <1>2
  <2>2. CASE i.actor = request[r].actor
    <3>1. i.subject = k.subject
      BY <1>5, <2>2 DEF IInv, IdentitiesSound
    <3>2. j.subject = request[r].subject /\ j.role = request[r].role
      BY <1>1, <1>5, <2>1, <2>2, <3>1 DEF TypeOK
    <3> QED
      BY <1>3, <1>4, <3>2, NewWriter
  <2>3. CASE i.actor # request[r].actor
    <3>1. i.subject # request'[r].subject
      BY <1>3, <1>5, <2>3 DEF IInv, IdentitiesSound
    <3>2. PICK w \in Requests : Wrote(w, i)
      BY DEF RoleInv, RolesSound
    <3>3. Wrote(w, i)'
      BY <1>3, <3>1, <3>2, WriterStays
    <3> QED
      BY <2>1, <2>3, <3>3
  <2> QED
    BY <2>2, <2>3
<1> QED
  BY <1>4, <1>6 DEF RoleInv

\* The commit makes its request the writer of a new identity; no other identity
\* has its subject.
LEMMA CommitKeepsRoles ==
    ASSUME IInv, RoleInv, NEW r \in Requests, Commit(r)
    PROVE  RoleInv'
<1> DEFINE i0 == NewIdentity(r)
<1>1. TypeOK /\ request[r].pc = "commit" /\ request[r] \in Arrived
  BY ArrivedRequest DEF IInv, Commit, At
<1>2. /\ identities' = identities \cup {i0}
      /\ request' = [request EXCEPT ![r].pc = "load"]
  BY DEF Commit, Goto
<1>3. /\ RoleMoves(r)
      /\ request'[r].pc = "load"
      /\ request'[r].subject = request[r].subject
      /\ request'[r].role = request[r].role
  BY <1>1, <1>2 DEF TypeOK, RoleMoves, Arrived, Done, Served, At
<1>4. AfterSound'
  BY <1>3, RoleMovesKeepAfter DEF RoleInv
<1>5. RolesSound'
  <2> SUFFICES ASSUME NEW j \in identities' PROVE \E w \in Requests : Wrote(w, j)'
    BY DEF RolesSound
  <2>1. CASE j = i0
    <3>1. j.subject = request[r].subject /\ j.role = request[r].role
      BY <2>1 DEF NewIdentity
    <3> QED
      BY <1>3, <1>4, <3>1, NewWriter
  <2>2. CASE j \in identities
    <3>1. j.subject # request'[r].subject
      BY <1>1, <1>3, <2>2 DEF IInv, HoldersSound
    <3>2. PICK w \in Requests : Wrote(w, j)
      BY <2>2 DEF RoleInv, RolesSound
    <3> QED
      BY <1>3, <3>1, <3>2, WriterStays
  <2> QED
    BY <1>2, <2>1, <2>2
<1> QED
  BY <1>4, <1>5 DEF RoleInv

\* Every step keeps the roles sound.
LEMMA NextRoleInv == IInv /\ RoleInv /\ [Next]_vars => RoleInv'
<1> SUFFICES ASSUME IInv, RoleInv, [Next]_vars PROVE RoleInv'
  OBVIOUS
<1>1. CASE UNCHANGED vars
  <2>1. identities' = identities /\ request' = request
    BY <1>1 DEF vars
  <2>2. AfterSound'
    BY <2>1 DEF RoleInv, AfterSound, Done, Served, At
  <2>3. \A w \in Requests, i \in identities : Wrote(w, i) => Wrote(w, i)'
    BY <2>1 DEF Wrote, Settled
  <2> QED
    BY <2>1, <2>2, <2>3 DEF RoleInv, RolesSound
<1>2. CASE \E r \in Requests, s \in Subjects, n \in Names, role \in Roles : Arrive(r, s, n, role)
  BY <1>2, ArriveKeepsRoles
<1>3. CASE \E r \in Requests : Step(r)
  <2>1. PICK r \in Requests : Step(r)
    BY <1>3
  <2>2. CASE LoadActor(r) \/ StatementFails(r)
    <3>1. request[r] \in Arrived
      BY <2>2, ArrivedRequest DEF IInv, LoadActor, StatementFails, At
    <3>2. request[r].name \in Names
      BY <3>1 DEF Arrived
    <3> QED
      BY <2>2, <3>2, EndsKeepRoles
  <2> QED
    BY <2>1, <2>2, FindIdentityKeepsRoles, UpdateRoleKeepsRoles, InsertsKeepRoles,
       CommitKeepsRoles DEF Step
<1>4. CASE \E r \in Requests, n \in Names : CreateAgent(r, n)
  BY <1>4, EndsKeepRoles
<1>5. CASE \E r \in Requests : Forbid(r)
  <2>1. PICK r \in Requests : Forbid(r)
    BY <1>5
  <2>2. request[r] \in Arrived
    BY <2>1, ArrivedRequest DEF IInv, Forbid, At
  <2>3. request[r].name \in Names
    BY <2>2 DEF Arrived
  <2> QED
    BY <2>1, <2>3, EndsKeepRoles
<1>6. CASE Finished
  BY <1>1, <1>6 DEF Finished
<1> QED
  BY <1>1, <1>2, <1>3, <1>4, <1>5, <1>6 DEF Next

\* "a role change from the auth provider ... takes effect on the next request":
\* whatever overlaps, no identity keeps a role that a request which came after
\* its writer has replaced.
THEOREM RolesTakeEffect == Spec => []RoleChangesTakeEffect
<1>1. Init => RoleInv
  BY DEF Init, NoRequest, RoleInv, AfterSound, RolesSound
<1>2. RoleInv => RoleChangesTakeEffect
  <2> SUFFICES ASSUME RoleInv, NEW i \in identities, NEW w \in Requests, Wrote(w, i),
                      NEW r \in Requests, Served(r), request[r].subject = i.subject,
                      w \in request[r].after
               PROVE  request[r].role = i.role
    BY DEF RoleInv, RolesSound, Wrote, RoleChangesTakeEffect, At
  <2>1. request[r].pc \in {"granted", "created", "refused"}
    BY DEF Served
  <2>2. Settled(r, i.role)
    BY <2>1 DEF Wrote
  <2> QED
    BY <2>1, <2>2 DEF Settled
<1> QED
  BY <1>1, <1>2, Invariance, NextRoleInv, PTL DEF Spec
=============================================================================
