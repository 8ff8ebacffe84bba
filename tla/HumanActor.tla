----------------------------- MODULE HumanActor -----------------------------
(***************************************************************************)
(* GetOrCreateHumanActor of internal/storage/human_repo.go: every request  *)
(* of a logged-in human finds the actor of its Keycloak subject, or        *)
(* creates identity and actor in one transaction.  First requests of one   *)
(* subject, of subjects with one display name, and of an administrator who *)
(* gives an agent that name run concurrently.  Among the handlers    *)
(* behind it POST /api/actors is the one that meets the names of humans.   *)
(*                                                                         *)
(* Rows a transaction has inserted and not committed are visible to nobody *)
(* but make inserts of the same key wait; they are kept in the state of    *)
(* the request: from "actor insert" on it holds its subject, at "commit"   *)
(* its display name too.  The request stands for the id it generates.      *)
(***************************************************************************)

CONSTANTS
    Subjects,   \* Keycloak subjects
    Names,      \* display names; actors.display_name is unique
    Roles,
    Admin,      \* the role "admin"
    Requests

ASSUME AdminAssumption == Admin \in Roles

\* Ids are fresh UUIDs: no agent, which stands for itself by its name, has the
\* id that a request generates for its human.
ASSUME IdsAssumption == Names \cap Requests = {}

VARIABLES
    identities, \* user_identities: a set of [subject, actor, role]
    actors,     \* actors: a set of [id, name, kind]
    request     \* request[r]: its claims and where it stands

vars == <<identities, actors, request>>

NoRequest == [pc |-> "new"]

Init ==
    /\ identities = {}
    /\ actors = {}
    /\ request = [r \in Requests |-> NoRequest]

IdentitiesOf(s) == {i \in identities : i.subject = s}
ActorsNamed(n) == {a \in actors : a.name = n}
At(r, pc) == request[r].pc = pc

\* The handler is reached, or has answered.
Served(r) == request[r].pc \in {"granted", "created", "refused"}

\* GetOrCreateHumanActor has returned.
Done(r) == Served(r) \/ At(r, "failed")

Goto(r, pc) == request' = [request EXCEPT ![r].pc = pc]

\* The request is answered with an error, which has a cause.
FailWith(r, cause) ==
    request' = [request EXCEPT ![r].pc = "failed", ![r].cause = cause]

\* The uncommitted rows of a transaction.
HoldsSubject(r, s) == ~At(r, "new") /\ request[r].subject = s
                      /\ request[r].pc \in {"actor insert", "commit"}
HoldsName(r, n) == At(r, "commit") /\ request[r].name = n

\* RequireHumanAuth has authenticated a request with these claims.  For the
\* properties it keeps the requests that had their actor before it came.
Arrive(r, s, n, role) ==
    /\ At(r, "new")
    /\ request' = [request EXCEPT ![r] =
          [pc |-> "find", subject |-> s, name |-> n, role |-> role,
           actor |-> r, cause |-> "none", after |-> {q \in Requests : Done(q)}]]
    /\ UNCHANGED <<identities, actors>>

\* The query behind which a stored role is taken as it is (mutant).
FindIdentityOnly(r) ==
    /\ At(r, "find")
    /\ IF IdentitiesOf(request[r].subject) = {}
       THEN Goto(r, "identity insert")
       ELSE \E i \in IdentitiesOf(request[r].subject) :
              request' = [request EXCEPT ![r].pc = "load", ![r].actor = i.actor]
    /\ UNCHANGED <<identities, actors>>

\* The query for the subject's identity.
FindIdentity(r) ==
    /\ At(r, "find")
    /\ IF IdentitiesOf(request[r].subject) = {}
       THEN Goto(r, "identity insert")
       ELSE \E i \in IdentitiesOf(request[r].subject) :
              request' = [request EXCEPT
                  ![r].pc = IF i.role = request[r].role THEN "load" ELSE "update role",
                  ![r].actor = i.actor]
    /\ UNCHANGED <<identities, actors>>

\* The update of the role column alone.
UpdateRole(r) ==
    /\ At(r, "update role")
    /\ identities' = {IF i.actor = request[r].actor
                      THEN [i EXCEPT !.role = request[r].role] ELSE i : i \in identities}
    /\ Goto(r, "load")
    /\ UNCHANGED actors

\* The transaction's first insert without OnConflict (mutant).
InsertIdentityOrFail(r) ==
    /\ At(r, "identity insert")
    /\ \A q \in Requests : ~HoldsSubject(q, request[r].subject)
    /\ IF IdentitiesOf(request[r].subject) = {}
       THEN Goto(r, "actor insert")
       ELSE FailWith(r, "conflict")
    /\ UNCHANGED <<identities, actors>>

\* The transaction's first insert, OnConflict{DoNothing}: it waits for an
\* uncommitted identity of the subject; a committed one means the race is lost,
\* and the transaction ends without a change.
InsertIdentity(r) ==
    /\ At(r, "identity insert")
    /\ \A q \in Requests : ~HoldsSubject(q, request[r].subject)
    /\ Goto(r, IF IdentitiesOf(request[r].subject) = {} THEN "actor insert" ELSE "find winner")
    /\ UNCHANGED <<identities, actors>>

\* The winner's second insert: a taken display name rolls everything back.
InsertActor(r) ==
    /\ At(r, "actor insert")
    /\ \A q \in Requests : ~HoldsName(q, request[r].name)
    /\ IF ActorsNamed(request[r].name) = {} THEN Goto(r, "commit") ELSE FailWith(r, "name")
    /\ UNCHANGED <<identities, actors>>

NewIdentity(r) == [subject |-> request[r].subject, actor |-> r, role |-> request[r].role]
NewActor(r) == [id |-> r, name |-> request[r].name, kind |-> "human"]

\* The two inserts outside a transaction: the second one may be lost (mutant).
CommitOneByOne(r) ==
    /\ At(r, "commit")
    /\ identities' = identities \cup {NewIdentity(r)}
    /\ actors' \in {actors, actors \cup {NewActor(r)}}
    /\ Goto(r, "load")

\* Both rows become visible at once; the winner reads its actor back.
Commit(r) ==
    /\ At(r, "commit")
    /\ identities' = identities \cup {NewIdentity(r)}
    /\ actors' = actors \cup {NewActor(r)}
    /\ Goto(r, "load")

\* The loser that keeps the id it generated itself (mutant).
FindWinnerSelf(r) ==
    /\ At(r, "find winner")
    /\ request' = [request EXCEPT ![r].pc = "granted"]
    /\ UNCHANGED <<identities, actors>>

\* The loser looks up the identity that won.
FindWinner(r) ==
    /\ At(r, "find winner")
    /\ IF IdentitiesOf(request[r].subject) = {}
       THEN FailWith(r, "no winner")
       ELSE \E i \in IdentitiesOf(request[r].subject) :
              request' = [request EXCEPT ![r].pc = "load", ![r].actor = i.actor]
    /\ UNCHANGED <<identities, actors>>

\* The actor query that ends all three branches; the handler runs as it.
LoadActor(r) ==
    /\ At(r, "load")
    /\ IF \E a \in actors : a.id = request[r].actor
       THEN Goto(r, "granted")
       ELSE FailWith(r, "no actor")
    /\ UNCHANGED <<identities, actors>>

\* A statement or the commit fails; an open transaction is rolled back.
StatementFails(r) ==
    /\ ~At(r, "new") /\ ~Done(r)
    /\ FailWith(r, "statement")
    /\ UNCHANGED <<identities, actors>>

\* RequireAdmin: the role of the request's own claims.
IsAdmin(r) == request[r].role = Admin

\* POST /api/actors: an administrator creates an agent of that name, in one
\* statement; a taken name is an error that changes nothing.
CreateAgent(r, n) ==
    /\ At(r, "granted") /\ IsAdmin(r)
    /\ \A q \in Requests : ~HoldsName(q, n)
    /\ IF ActorsNamed(n) = {}
       THEN /\ actors' = actors \cup {[id |-> n, name |-> n, kind |-> "agent"]}
            /\ Goto(r, "created")
       ELSE Goto(r, "refused") /\ UNCHANGED actors
    /\ UNCHANGED identities

\* The same route for anybody else: 403.
Forbid(r) ==
    /\ At(r, "granted") /\ ~IsAdmin(r)
    /\ Goto(r, "refused")
    /\ UNCHANGED <<identities, actors>>

\* Every request has been answered; TLC's deadlock check finds any that waits
\* for ever on another's transaction.
Finished == (\A r \in Requests : Done(r)) /\ UNCHANGED vars

Step(r) ==
    \/ FindIdentity(r)
    \/ UpdateRole(r)
    \/ InsertIdentity(r)
    \/ InsertActor(r)
    \/ Commit(r)
    \/ FindWinner(r)
    \/ LoadActor(r)
    \/ StatementFails(r)

Next ==
    \/ \E r \in Requests, s \in Subjects, n \in Names, role \in Roles : Arrive(r, s, n, role)
    \/ \E r \in Requests : Step(r)
    \/ \E r \in Requests, n \in Names : CreateAgent(r, n)
    \/ \E r \in Requests : Forbid(r)
    \/ Finished

Spec == Init /\ [][Next]_vars

-----------------------------------------------------------------------------
(* Properties.                                                             *)

\* Identities and human actors come in pairs at every moment, whichever
\* statement fails: no identity without its actor (its human could never log in
\* again) and no actor without its identity (its name would stay taken).
IdentitiesAndActorsPair ==
    /\ \A i \in identities : \E a \in actors : a.id = i.actor /\ a.kind = "human"
    /\ \A a \in actors : a.kind = "human" => \E i \in identities : i.actor = a.id

\* "two concurrent first-calls for the SAME subject": all requests of a subject
\* act as one actor, and no two subjects share one.
OneActorPerSubject ==
    \A r, q \in Requests : Served(r) /\ Served(q) =>
        (request[r].subject = request[q].subject <=> request[r].actor = request[q].actor)

\* "so they never collide on Actor.DisplayName's uniqueIndex": losing a race is
\* no error.  A request fails only with a statement, or because its display
\* name belongs to somebody else.
FailuresAreGenuine ==
    \A r \in Requests : At(r, "failed") =>
        \/ request[r].cause = "statement"
        \/ /\ request[r].cause = "name"
           /\ \E a \in ActorsNamed(request[r].name) :
                 \A i \in IdentitiesOf(request[r].subject) : i.actor # a.id

\* "so a role change from the auth provider ... takes effect on the next
\* request": requests of one human that overlap write their roles in any order,
\* but no identity keeps the role of a request when one that came only after it,
\* with another role, has got its actor.
RoleChangesTakeEffect ==
    \A i \in identities : \E q \in Requests :
        /\ ~At(q, "new") /\ request[q].subject = i.subject /\ request[q].role = i.role
        /\ \A r \in Requests :
              Served(r) /\ request[r].subject = i.subject /\ q \in request[r].after
                  => request[r].role = i.role
=============================================================================
