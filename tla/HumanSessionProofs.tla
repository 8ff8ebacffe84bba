-------------------------- MODULE HumanSessionProofs --------------------------
(***************************************************************************)
(* Proofs about HumanSession, for any number of sessions and concurrent    *)
(* requests, any refresh interval and any slack: nobody acts on old        *)
(* claims, logging out holds, and Keycloak refuses a refresh only for the  *)
(* reasons that RefusedMeansRevoked lists.                                 *)
(***************************************************************************)
EXTENDS HumanSession, TLAPS

Rows == [readAt : Nat, token : Nat, expiresAt : Nat]

Logins == [pc : {"none", "exchanged", "in", "out"}, readAt : Nat]

Arrived ==
    [pc : {"load", "refresh", "drop", "save", "granted", "refused"}, session : Sessions,
     late : BOOLEAN, token : Nat, readAt : Nat, age : Int, refused : BOOLEAN,
     lost : BOOLEAN, rival : BOOLEAN]

\* The types of the variables.
TypeOK ==
    /\ now \in Nat
    /\ enabled \in BOOLEAN /\ rotates \in BOOLEAN
    /\ current \in [Sessions -> Nat]
    /\ login \in [Sessions -> Logins]
    /\ row \in [Sessions -> Rows]
    /\ request \in [Requests -> {NoRequest} \cup Arrived]
    /\ excused \in [Sessions -> BOOLEAN]

\* Some request lost the rotated token of the session.
Lost(s) == \E q \in Requests : Of(q, s) /\ request[q].lost

\* Some request has refreshed the session and not stored it yet.
Unsaved(s) == \E q \in Requests : Of(q, s) /\ request[q].pc = "save"

\* A session that has not been stored, or that was ended without an excuse, has
\* no row; claims of a row or a login on its way are fresh; and a row holds the
\* token Keycloak accepts, unless a newer one is about to be stored or lost.
SessionSound(s) ==
    /\ login[s].pc \in {"none", "exchanged"} => row[s] = NoRow
    /\ login[s].pc = "out" => excused[s] \/ row[s] = NoRow
    /\ login[s].pc = "exchanged" => login[s].readAt <= now /\ now - login[s].readAt <= Slack
    /\ row[s].expiresAt <= row[s].readAt + Interval + Slack
    /\ row[s].token <= current[s]
    /\ \/ row[s] = NoRow
       \/ row[s].token = current[s]
       \/ Unsaved(s)
       \/ Lost(s)

SessionsSound == \A s \in Sessions : SessionSound(s)

\* What a request knows of its session while it runs.
RequestSound(r, s) ==
    Of(r, s) =>
        /\ login[s].pc \in {"in", "out"}
        /\ request[r].late => login[s].pc = "out"
        /\ request[r].pc \in {"load", "refresh", "save"} => ~request[r].refused
        /\ request[r].pc \in {"refresh", "save"} /\ login[s].pc = "out" => excused[s]
        /\ request[r].pc = "granted" =>
              /\ request[r].age <= Interval + Slack
              /\ request[r].late => excused[s]
        /\ request[r].pc = "save" =>
              /\ request[r].readAt <= now
              /\ now - request[r].readAt <= Slack
              /\ request[r].token = current[s]
        /\ request[r].pc = "refresh" =>
              /\ request[r].token <= current[s]
              /\ request[r].token = current[s] \/ request[r].rival \/ Lost(s)
        /\ request[r].pc = "drop" /\ request[r].refused =>
              request[r].rival \/ Lost(s) \/ ~enabled

RequestsSound == \A r \in Requests, s \in Sessions : RequestSound(r, s)

\* A rotated token that is not stored yet is known to one request alone: the
\* row and everybody else have older ones, so nobody rotates it again.
SaveIsAlone(q, s) ==
    rotates /\ Of(q, s) /\ request[q].pc = "save" =>
        /\ row[s].token < current[s]
        /\ \A p \in Requests :
              /\ p # q /\ Of(p, s)
              /\ request[p].pc \in {"refresh", "save"}
              => request[p].token < current[s]

SavesAreAlone == \A q \in Requests, s \in Sessions : SaveIsAlone(q, s)

\* The inductive invariant.
IInv ==
    /\ TypeOK
    /\ SessionsSound
    /\ RequestsSound
    /\ SavesAreAlone

-----------------------------------------------------------------------------

\* The initial state satisfies the invariant: nobody is logged in.
LEMMA InitIInv == Init => IInv
<1> SUFFICES ASSUME Init PROVE IInv
  OBVIOUS
<1> USE TimesAssumption
<1>1. TypeOK
  <2>1. NoLogin \in Logins /\ NoRow \in Rows
    BY DEF NoLogin, NoRow, Logins, Rows
  <2> QED
    BY <2>1 DEF Init, TypeOK
<1>2. SessionsSound
  <2> SUFFICES ASSUME NEW s \in Sessions PROVE SessionSound(s)
    BY DEF SessionsSound
  <2>1. row[s] = NoRow /\ login[s].pc = "none" /\ current[s] = 0
    BY DEF Init, NoLogin
  <2>2. NoRow.expiresAt = 0 /\ NoRow.readAt = 0 /\ NoRow.token = 0
    BY DEF NoRow
  <2> QED
    BY <2>1, <2>2 DEF SessionSound
<1>3. \A r \in Requests, s \in Sessions : ~Of(r, s)
  BY DEF Init, Of, NoRequest
<1>4. RequestsSound /\ SavesAreAlone
  BY <1>3 DEF RequestsSound, RequestSound, SavesAreAlone, SaveIsAlone
<1> QED
  BY <1>1, <1>2, <1>4 DEF IInv

\* A request record once it has arrived.
LEMMA ArrivedRequest ==
    ASSUME TypeOK, NEW r \in Requests, request[r].pc # "new"
    PROVE  request[r] \in Arrived
BY DEF TypeOK, NoRequest

\* Requests never forget their session, nor that they lost a token.
Remembered ==
    \A q \in Requests : request[q].pc # "new" =>
        /\ request'[q].pc # "new"
        /\ request'[q].session = request[q].session
        /\ request[q].lost => request'[q].lost

\* A lost token stays lost.
LEMMA LostStays ==
    ASSUME Remembered, NEW s, Lost(s)
    PROVE  Lost(s)'
<1>1. PICK q \in Requests : Of(q, s) /\ request[q].lost
  BY DEF Lost
<1>2. request'[q].pc # "new" /\ request'[q].session = s /\ request'[q].lost
  BY <1>1 DEF Remembered, Of
<1> QED
  BY <1>2 DEF Lost, Of

\* The parts of the state that belong to session s stand still.
SessionStill(s) ==
    /\ login'[s] = login[s]
    /\ row'[s] = row[s]
    /\ current'[s] = current[s]
    /\ excused'[s] = excused[s]

\* A session whose parts stand still stays sound, unless its unsaved token is
\* forgotten.
LEMMA StillSession ==
    ASSUME NEW s, SessionSound(s), SessionStill(s), now' = now,
           Lost(s) => Lost(s)', Unsaved(s) => Unsaved(s)' \/ Lost(s)'
    PROVE  SessionSound(s)'
BY DEF SessionSound, SessionStill, NoRow

\* So does what a request knows of a session, while the request stands still.
LEMMA StillRequest ==
    ASSUME NEW r, NEW s, RequestSound(r, s), request'[r] = request[r],
           Of(r, s) =>
              /\ login'[s] = login[s] /\ current'[s] = current[s] /\ excused'[s] = excused[s],
           now' = now, enabled' => enabled, Lost(s) => Lost(s)'
    PROVE  RequestSound(r, s)'
BY DEF RequestSound, Of

\* And the request that is alone with a new token stays so, while nobody else
\* comes by a token of the session.
LEMMA StillAlone ==
    ASSUME NEW q \in Requests, NEW s, SaveIsAlone(q, s), rotates' = rotates,
           Of(q, s)' /\ request'[q].pc = "save" =>
              /\ Of(q, s) /\ request[q].pc = "save"
              /\ row'[s].token = row[s].token \/ row'[s].token < current[s]
              /\ current'[s] = current[s],
           \A p \in Requests : Of(p, s)' /\ request'[p].pc \in {"refresh", "save"} =>
              \/ request'[p].token < current[s]
              \/ /\ Of(p, s) /\ request[p].pc \in {"refresh", "save"}
                 /\ request'[p].token = request[p].token
    PROVE  SaveIsAlone(q, s)'
<1> SUFFICES ASSUME rotates', Of(q, s)', request'[q].pc = "save"
             PROVE  /\ row'[s].token < current'[s]
                    /\ \A p \in Requests :
                          /\ p # q /\ Of(p, s)'
                          /\ request'[p].pc \in {"refresh", "save"}
                          => request'[p].token < current'[s]
  BY DEF SaveIsAlone
<1>1. /\ row[s].token < current[s]
      /\ \A p \in Requests :
            /\ p # q /\ Of(p, s)
            /\ request[p].pc \in {"refresh", "save"}
            => request[p].token < current[s]
  BY DEF SaveIsAlone
<1> QED
  BY <1>1

\* Time passes, and Keycloak stops honouring the user.
LEMMA EnvironmentKeepsIInv ==
    ASSUME IInv, Disable \/ Tick
    PROVE  IInv'
<1> USE TimesAssumption
<1>1. /\ rotates' = rotates /\ current' = current /\ login' = login /\ row' = row
      /\ request' = request /\ excused' = excused
      /\ enabled' => enabled
  BY DEF Disable, Tick
<1>2. TypeOK /\ TypeOK'
  <2>1. TypeOK
    BY DEF IInv
  <2>2. now' \in Nat
    BY <2>1 DEF TypeOK, Disable, Tick
  <2>3. enabled' \in BOOLEAN
    BY <2>1, Zenon DEF TypeOK, Disable, Tick
  <2> QED
    BY <1>1, <2>1, <2>2, <2>3, Zenon DEF TypeOK
<1>3. Remembered
  BY <1>1 DEF Remembered
<1>4. ASSUME NEW s PROVE (Lost(s) => Lost(s)') /\ (Unsaved(s) => Unsaved(s)')
  BY <1>1 DEF Lost, Unsaved, Of
<1>5. SessionsSound'
  <2> SUFFICES ASSUME NEW s \in Sessions PROVE SessionSound(s)'
    BY DEF SessionsSound
  <2>1. SessionSound(s)
    BY DEF IInv, SessionsSound
  <2>2. login[s].pc = "exchanged" => login[s].readAt <= now' /\ now' - login[s].readAt <= Slack
    BY <1>2, <2>1 DEF TypeOK, Logins, SessionSound, Disable, Tick
  <2> QED
    BY <1>1, <1>4, <2>1, <2>2 DEF SessionSound
<1>6. RequestsSound'
  <2> SUFFICES ASSUME NEW r \in Requests, NEW s \in Sessions PROVE RequestSound(r, s)'
    BY DEF RequestsSound
  <2>1. RequestSound(r, s)
    BY DEF IInv, RequestsSound
  <2>2. Of(r, s) /\ request[r].pc = "save" =>
           request[r].readAt <= now' /\ now' - request[r].readAt <= Slack
    BY <1>2, <2>1, ArrivedRequest DEF TypeOK, Arrived, Of, RequestSound, Disable, Tick
  <2> QED
    BY <1>1, <1>4, <2>1, <2>2 DEF RequestSound, Of
<1>7. SavesAreAlone'
  BY <1>1 DEF IInv, SavesAreAlone, SaveIsAlone, Of
<1> QED
  BY <1>2, <1>5, <1>6, <1>7 DEF IInv

\* Login and logout of one session leave the requests and the other sessions.
OneSession(s) ==
    /\ request' = request /\ now' = now /\ enabled' = enabled /\ rotates' = rotates
    /\ \A t \in Sessions : t # s => SessionStill(t)

\* So only the session itself, and what its requests know of it, has to be
\* looked at.
LEMMA OneSessionKeepsIInv ==
    ASSUME IInv, NEW s \in Sessions, OneSession(s), TypeOK', SessionSound(s)',
           \A r \in Requests : RequestSound(r, s)' /\ SaveIsAlone(r, s)'
    PROVE  IInv'
<1>1. ASSUME NEW t PROVE (Lost(t) => Lost(t)') /\ (Unsaved(t) => Unsaved(t)')
  BY DEF OneSession, Lost, Unsaved, Of
<1>2. SessionsSound'
  <2> SUFFICES ASSUME NEW t \in Sessions, t # s PROVE SessionSound(t)'
    BY DEF SessionsSound, SessionSound
  <2>1. SessionSound(t) /\ SessionStill(t) /\ now' = now
    BY DEF IInv, SessionsSound, OneSession
  <2> QED
    BY <1>1, <2>1, StillSession
<1>3. RequestsSound'
  <2> SUFFICES ASSUME NEW r \in Requests, NEW t \in Sessions PROVE RequestSound(r, t)'
    BY DEF RequestsSound
  <2>1. CASE t = s
    BY <2>1 DEF RequestSound
  <2>2. CASE t # s
    <3>1. RequestSound(r, t) /\ request'[r] = request[r] /\ now' = now /\ (enabled' => enabled)
      BY DEF IInv, RequestsSound, OneSession
    <3>2. login'[t] = login[t] /\ current'[t] = current[t] /\ excused'[t] = excused[t]
      BY <2>2 DEF OneSession, SessionStill
    <3> QED
      BY <1>1, <3>1, <3>2, StillRequest
  <2> QED
    BY <2>1, <2>2
<1>4. SavesAreAlone'
  <2> SUFFICES ASSUME NEW q \in Requests, NEW t \in Sessions PROVE SaveIsAlone(q, t)'
    BY DEF SavesAreAlone
  <2>1. CASE t = s
    BY <2>1 DEF SaveIsAlone
  <2>2. CASE t # s
    <3>1. SaveIsAlone(q, t) /\ SessionStill(t) /\ rotates' = rotates /\ request' = request
      BY <2>2 DEF IInv, SavesAreAlone, OneSession
    <3> QED
      BY <3>1 DEF SaveIsAlone, SessionStill, Of
  <2> QED
    BY <2>1, <2>2
<1> QED
  BY <1>2, <1>3, <1>4 DEF IInv

\* A login on its way has no requests yet.
LEMMA LoginKeepsIInv ==
    ASSUME IInv, NEW s \in Sessions, Exchange(s) \/ CreateSession(s) \/ CreateFails(s)
    PROVE  IInv'
<1> USE TimesAssumption
<1>1. TypeOK /\ SessionSound(s)
  BY DEF IInv, SessionsSound
<1>2. login[s].pc \in {"none", "exchanged"}
  BY DEF Exchange, CreateSession, CreateFails, NoLogin
<1>3. \A r \in Requests : ~Of(r, s)
  BY <1>2 DEF IInv, RequestsSound, RequestSound
<1>4. request' = request
  BY DEF Exchange, CreateSession, CreateFails
<1>5. \A r \in Requests : ~Of(r, s)'
  BY <1>3, <1>4 DEF Of
<1>6. \A r \in Requests : RequestSound(r, s)' /\ SaveIsAlone(r, s)'
  BY <1>5 DEF RequestSound, SaveIsAlone
<1>7. CASE Exchange(s)
  <2>1. TypeOK'
    BY <1>1, <1>7 DEF TypeOK, Exchange, Logins
  <2>2. OneSession(s)
    BY <1>1, <1>7 DEF TypeOK, OneSession, SessionStill, Exchange
  <2>3. /\ row'[s] = row[s] /\ current'[s] = 1 /\ now' = now
        /\ login'[s] = [pc |-> "exchanged", readAt |-> now]
    BY <1>1, <1>7 DEF TypeOK, Exchange
  <2>4. row[s] = NoRow /\ NoRow.token = 0 /\ NoRow.expiresAt = 0 /\ NoRow.readAt = 0
    BY <1>1, <1>2 DEF SessionSound, NoRow
  <2>5. now \in Nat
    BY <1>1 DEF TypeOK
  <2>6. SessionSound(s)'
    BY <2>3, <2>4, <2>5 DEF SessionSound
  <2> QED
    BY <1>6, <2>1, <2>2, <2>6, OneSessionKeepsIInv
<1>8. CASE CreateSession(s)
  <2>1. TypeOK'
    BY <1>1, <1>8 DEF TypeOK, CreateSession, Logins, Rows
  <2>2. OneSession(s)
    BY <1>1, <1>8 DEF TypeOK, OneSession, SessionStill, CreateSession
  <2>3. /\ row'[s] = [readAt |-> login[s].readAt, token |-> current[s], expiresAt |-> now + Interval]
        /\ current'[s] = current[s] /\ login'[s].pc = "in"
    BY <1>1, <1>8 DEF TypeOK, CreateSession, Logins
  <2>4. login[s].pc = "exchanged" /\ login[s].readAt \in Nat /\ now \in Nat /\ current[s] \in Nat
    BY <1>1, <1>8 DEF TypeOK, CreateSession, Logins
  <2>5. /\ row'[s].expiresAt <= row'[s].readAt + Interval + Slack
        /\ row'[s].token <= current'[s]
        /\ row'[s].token = current'[s]
    BY <1>1, <2>3, <2>4 DEF SessionSound
  <2>6. SessionSound(s)'
    BY <2>3, <2>5 DEF SessionSound
  <2> QED
    BY <1>6, <2>1, <2>2, <2>6, OneSessionKeepsIInv
<1>9. CASE CreateFails(s)
  <2>1. TypeOK'
    BY <1>1, <1>9 DEF TypeOK, CreateFails, Logins, NoLogin
  <2>2. OneSession(s)
    BY <1>1, <1>9 DEF TypeOK, OneSession, SessionStill, CreateFails
  <2>3. row'[s] = row[s] /\ current'[s] = current[s] /\ login'[s].pc = "none"
    BY <1>1, <1>9 DEF TypeOK, CreateFails, NoLogin
  <2>4. SessionSound(s)'
    BY <1>1, <1>2, <2>3 DEF SessionSound
  <2> QED
    BY <1>6, <2>1, <2>2, <2>4, OneSessionKeepsIInv
<1> QED
  BY <1>7, <1>8, <1>9

\* Logout deletes the row, unless that fails, and excuses the requests that may
\* write it back.
LEMMA LogoutKeepsIInv ==
    ASSUME IInv, NEW s \in Sessions, Logout(s) \/ LogoutFails(s)
    PROVE  IInv'
<1> USE TimesAssumption
<1>1. TypeOK /\ SessionSound(s)
  BY DEF IInv, SessionsSound
<1>2. /\ login[s].pc = "in" /\ login' = [login EXCEPT ![s].pc = "out"]
      /\ request' = request /\ current' = current /\ now' = now
      /\ rotates' = rotates /\ enabled' = enabled
  BY DEF Logout, LogoutFails
<1>3. login'[s].pc = "out"
  BY <1>1, <1>2 DEF TypeOK, Logins
<1>4. \/ /\ row' = [row EXCEPT ![s] = NoRow]
         /\ excused' = [excused EXCEPT ![s] = Refreshing(s)]
      \/ /\ row' = row
         /\ excused' = [excused EXCEPT ![s] = TRUE]
  BY DEF Logout, LogoutFails, RowAfterLogout
<1>5. /\ NoRow \in Rows
      /\ NoRow.token = 0 /\ NoRow.expiresAt = 0 /\ NoRow.readAt = 0
  BY DEF NoRow, Rows
<1>6. TypeOK'
  <2>1. login' \in [Sessions -> Logins] /\ row' \in [Sessions -> Rows]
    BY <1>1, <1>2, <1>4, <1>5 DEF TypeOK, Logins
  <2>2. excused' \in [Sessions -> BOOLEAN]
    BY <1>1, <1>4 DEF TypeOK, Refreshing
  <2> QED
    BY <1>1, <1>2, <2>1, <2>2 DEF TypeOK
<1>7. OneSession(s)
  BY <1>1, <1>2, <1>4 DEF TypeOK, OneSession, SessionStill
<1>8. excused'[s] \/ row'[s] = NoRow
  BY <1>1, <1>4 DEF TypeOK
<1>9. row'[s] = row[s] \/ row'[s] = NoRow
  BY <1>1, <1>4 DEF TypeOK
<1>10. SessionSound(s)'
  <2>1. (Lost(s) => Lost(s)') /\ (Unsaved(s) => Unsaved(s)')
    BY <1>2 DEF Lost, Unsaved, Of
  <2>2. row'[s].expiresAt <= row'[s].readAt + Interval + Slack
    BY <1>1, <1>5, <1>9 DEF SessionSound
  <2>3. row'[s].token <= current'[s]
    BY <1>1, <1>2, <1>5, <1>9 DEF SessionSound, TypeOK
  <2> QED
    BY <1>1, <1>2, <1>3, <1>8, <1>9, <2>1, <2>2, <2>3 DEF SessionSound
<1>11. ASSUME NEW r \in Requests PROVE RequestSound(r, s)'
  <2>1. RequestSound(r, s)
    BY DEF IInv, RequestsSound
  <2>2. Of(r, s) /\ request[r].pc \in {"refresh", "save"} => excused'[s]
    BY <1>1, <1>4 DEF TypeOK, Refreshing, Of
  <2>3. Lost(s) => Lost(s)'
    BY <1>2 DEF Lost, Of
  <2> QED
    BY <1>2, <1>3, <2>1, <2>2, <2>3 DEF RequestSound, Of
<1>12. ASSUME NEW r \in Requests PROVE SaveIsAlone(r, s)'
  <2>1. SaveIsAlone(r, s)
    BY DEF IInv, SavesAreAlone
  <2>2. row[s].token \in Nat /\ current[s] \in Nat
    BY <1>1 DEF TypeOK, Rows
  <2> QED
    BY <1>2, <1>5, <1>9, <2>1, <2>2 DEF SaveIsAlone, Of
<1> QED
  BY <1>6, <1>7, <1>10, <1>11, <1>12, OneSessionKeepsIInv

\* A step of a request of session s leaves the other sessions and what their
\* requests hold.
OneRequest(r, s) ==
    /\ Of(r, s) \/ request[r].pc = "new"
    /\ Of(r, s)'
    /\ login' = login /\ excused' = excused
    /\ now' = now /\ enabled' = enabled /\ rotates' = rotates
    /\ \A t \in Sessions : t # s => row'[t] = row[t] /\ current'[t] = current[t]
    /\ \A q \in Requests : q # r /\ ~Of(q, s) => request'[q] = request[q]
    /\ Remembered

\* So only that session has to be looked at.
LEMMA OneRequestKeepsIInv ==
    ASSUME IInv, NEW r \in Requests, NEW s \in Sessions, OneRequest(r, s), TypeOK', SessionSound(s)',
           \A q \in Requests : RequestSound(q, s)' /\ SaveIsAlone(q, s)'
    PROVE  IInv'
<1>1. ASSUME NEW t \in Sessions, t # s, NEW q \in Requests
      PROVE  /\ Of(q, t)' <=> Of(q, t)
             /\ Of(q, t) => request'[q] = request[q]
  BY <1>1 DEF OneRequest, Of, Remembered
<1>2. SessionsSound'
  <2> SUFFICES ASSUME NEW t \in Sessions, t # s PROVE SessionSound(t)'
    BY DEF SessionsSound, SessionSound
  <2>1. SessionSound(t) /\ SessionStill(t) /\ now' = now
    BY DEF IInv, SessionsSound, OneRequest, SessionStill
  <2>2. Lost(t) => Lost(t)'
    BY LostStays DEF OneRequest
  <2>3. Unsaved(t) => Unsaved(t)'
    BY <1>1 DEF Unsaved
  <2> QED
    BY <2>1, <2>2, <2>3, StillSession
<1>3. RequestsSound'
  <2> SUFFICES ASSUME NEW q \in Requests, NEW t \in Sessions PROVE RequestSound(q, t)'
    BY DEF RequestsSound
  <2>1. CASE t = s
    BY <2>1 DEF RequestSound
  <2>2. CASE t # s
    <3>1. CASE ~Of(q, t)
      BY <1>1, <2>2, <3>1 DEF RequestSound
    <3>2. CASE Of(q, t)
      <4>1. RequestSound(q, t) /\ request'[q] = request[q] /\ now' = now /\ (enabled' => enabled)
        BY <1>1, <2>2, <3>2 DEF IInv, RequestsSound, OneRequest
      <4>2. login'[t] = login[t] /\ current'[t] = current[t] /\ excused'[t] = excused[t]
        BY <2>2 DEF OneRequest
      <4>3. Lost(t) => Lost(t)'
        BY LostStays DEF OneRequest
      <4> QED
        BY <4>1, <4>2, <4>3, StillRequest
    <3> QED
      BY <3>1, <3>2
  <2> QED
    BY <2>1, <2>2
<1>4. SavesAreAlone'
  <2> SUFFICES ASSUME NEW q \in Requests, NEW t \in Sessions PROVE SaveIsAlone(q, t)'
    BY DEF SavesAreAlone
  <2>1. CASE t = s
    BY <2>1 DEF SaveIsAlone
  <2>2. CASE t # s
    <3>1. SaveIsAlone(q, t) /\ rotates' = rotates /\ row'[t] = row[t] /\ current'[t] = current[t]
      BY <2>2 DEF IInv, SavesAreAlone, OneRequest
    <3>2. \A p \in Requests : Of(p, t)' => Of(p, t) /\ request'[p] = request[p]
      BY <1>1, <2>2
    <3> QED
      BY <3>1, <3>2, StillAlone
  <2> QED
    BY <2>1, <2>2
<1> QED
  BY <1>2, <1>3, <1>4 DEF IInv

\* A step that writes neither a row nor a token of Keycloak: nobody else is
\* touched, and a token it reads comes from the row.
Quiet(r, s) ==
    /\ UNCHANGED <<rotates, now, enabled, current, login, row, excused>>
    /\ \A q \in Requests : q # r => request'[q] = request[q]
    /\ Of(r, s) \/ request[r].pc = "new"
    /\ Of(r, s)'
    /\ Of(r, s) /\ request[r].lost => request'[r].lost
    /\ request[r].pc = "save" => request'[r].lost
    /\ request'[r].pc # "save"
    /\ request'[r].pc = "refresh" => request'[r].token = row[s].token

\* Such a step keeps the invariant if the request stays sound.
LEMMA QuietKeepsIInv ==
    ASSUME IInv, NEW r \in Requests, NEW s \in Sessions, Quiet(r, s), TypeOK', RequestSound(r, s)'
    PROVE  IInv'
<1>1. Remembered
  BY DEF Quiet, Remembered, Of
<1>2. OneRequest(r, s)
  BY <1>1 DEF Quiet, OneRequest
<1>3. Lost(s) => Lost(s)'
  BY <1>1, LostStays
<1>4. Unsaved(s) => Unsaved(s)' \/ Lost(s)'
  <2> SUFFICES ASSUME NEW q \in Requests, Of(q, s), request[q].pc = "save"
               PROVE  Unsaved(s)' \/ Lost(s)'
    BY DEF Unsaved
  <2>1. CASE q = r
    BY <2>1 DEF Quiet, Lost
  <2>2. CASE q # r
    BY <2>2 DEF Quiet, Unsaved, Of
  <2> QED
    BY <2>1, <2>2
<1>5. SessionSound(s)'
  <2>1. SessionSound(s) /\ SessionStill(s) /\ now' = now
    BY DEF IInv, SessionsSound, Quiet, SessionStill
  <2> QED
    BY <1>3, <1>4, <2>1, StillSession
<1>6. ASSUME NEW q \in Requests PROVE RequestSound(q, s)'
  <2>1. CASE q = r
    BY <2>1 DEF RequestSound
  <2>2. CASE q # r
    <3>1. /\ RequestSound(q, s) /\ request'[q] = request[q] /\ now' = now /\ (enabled' => enabled)
          /\ login'[s] = login[s] /\ current'[s] = current[s] /\ excused'[s] = excused[s]
      BY <2>2 DEF IInv, RequestsSound, Quiet
    <3> QED
      BY <1>3, <3>1, StillRequest
  <2> QED
    BY <2>1, <2>2
<1>7. ASSUME NEW q \in Requests PROVE SaveIsAlone(q, s)'
  <2> SUFFICES ASSUME rotates', Of(q, s)', request'[q].pc = "save"
               PROVE  /\ row'[s].token < current'[s]
                      /\ \A p \in Requests :
                            /\ p # q /\ Of(p, s)'
                            /\ request'[p].pc \in {"refresh", "save"}
                            => request'[p].token < current'[s]
    BY DEF SaveIsAlone
  <2>1. q # r /\ Of(q, s) /\ request[q].pc = "save" /\ rotates
    BY DEF Quiet, Of
  <2>2. /\ row[s].token < current[s]
        /\ \A p \in Requests :
              /\ p # q /\ Of(p, s)
              /\ request[p].pc \in {"refresh", "save"}
              => request[p].token < current[s]
    BY <2>1 DEF IInv, SavesAreAlone, SaveIsAlone
  <2>3. row'[s] = row[s] /\ current'[s] = current[s]
    BY DEF Quiet
  <2>4. ASSUME NEW p \in Requests, p # q, Of(p, s)', request'[p].pc \in {"refresh", "save"}
        PROVE  request'[p].token < current[s]
    <3>1. CASE p = r
      BY <2>2, <2>4, <3>1 DEF Quiet
    <3>2. CASE p # r
      BY <2>2, <2>4, <3>2 DEF Quiet, Of
    <3> QED
      BY <3>1, <3>2
  <2> QED
    BY <2>2, <2>3, <2>4
<1> QED
  BY <1>2, <1>5, <1>6, <1>7, OneRequestKeepsIInv

\* A request arrives with the cookie of a session that was stored.
LEMMA ArriveKeepsIInv ==
    ASSUME IInv, NEW r \in Requests, NEW s \in Sessions, Arrive(r, s)
    PROVE  IInv'
<1> DEFINE new == [pc |-> "load", session |-> s, late |-> login[s].pc = "out",
                   token |-> 0, readAt |-> 0, age |-> 0, refused |-> FALSE, lost |-> FALSE,
                   rival |-> FALSE]
<1>1. /\ TypeOK /\ request[r].pc = "new" /\ login[s].pc \in {"in", "out"}
      /\ request' = [request EXCEPT ![r] = new]
      /\ UNCHANGED <<rotates, now, enabled, current, login, row, excused>>
  BY DEF IInv, Arrive
<1>2. /\ new \in Arrived /\ new.pc = "load" /\ new.session = s
      /\ new.late => login[s].pc = "out"
      /\ ~new.refused
  <2>1. ASSUME NEW b \in BOOLEAN
        PROVE  [pc |-> "load", session |-> s, late |-> b, token |-> 0, readAt |-> 0, age |-> 0,
                refused |-> FALSE, lost |-> FALSE, rival |-> FALSE] \in Arrived
    BY DEF Arrived
  <2>2. (login[s].pc = "out") \in BOOLEAN
    OBVIOUS
  <2>3. new \in Arrived
    BY <2>1, <2>2, Zenon
  <2>4. new.pc = "load" /\ new.session = s
    OBVIOUS
  <2>5. (new.late => login[s].pc = "out") /\ ~new.refused
    OBVIOUS
  <2> QED
    BY <2>3, <2>4, <2>5
<1> HIDE DEF new
<1>3. TypeOK'
  BY <1>1, <1>2 DEF TypeOK
<1>4. request'[r] = new /\ \A q \in Requests : q # r => request'[q] = request[q]
  BY <1>1 DEF TypeOK
<1>5. Quiet(r, s)
  BY <1>1, <1>2, <1>4 DEF Quiet, Of
<1>6. RequestSound(r, s)'
  BY <1>1, <1>2, <1>4 DEF RequestSound, Of
<1> QED
  BY <1>3, <1>5, <1>6, QuietKeepsIInv

\* Loading the session refuses, grants with the age of the claims, or goes on to
\* refresh with the token of the row.
LEMMA LoadKeepsIInv ==
    ASSUME IInv, NEW r \in Requests, LoadSession(r) \/ LoadFails(r)
    PROVE  IInv'
<1> USE TimesAssumption
<1>1. TypeOK /\ request[r].pc = "load" /\ request[r] \in Arrived
  BY ArrivedRequest DEF IInv, LoadSession, LoadFails
<1>0. PICK s \in Sessions : request[r].session = s
  BY <1>1 DEF Arrived
<1> DEFINE x == row[s]
<1>2. /\ Of(r, s) /\ x \in Rows /\ now \in Nat
      /\ UNCHANGED <<rotates, now, enabled, current, login, row, excused>>
  BY <1>0, <1>1 DEF TypeOK, Of, LoadSession, LoadFails
<1>3. SessionSound(s) /\ RequestSound(r, s)
  BY <1>2 DEF IInv, SessionsSound, RequestsSound
<1>4. /\ request[r].late => login[s].pc = "out"
      /\ login[s].pc \in {"in", "out"}
      /\ ~request[r].refused
  BY <1>1, <1>2, <1>3 DEF RequestSound
<1>5. CASE request' = [request EXCEPT ![r].pc = "refused"]
  <2>1. TypeOK'
    BY <1>1, <1>2, <1>5 DEF TypeOK, Arrived
  <2>2. /\ \A q \in Requests : q # r => request'[q] = request[q]
        /\ request'[r].pc = "refused" /\ request'[r].session = s
        /\ request'[r].late = request[r].late /\ request'[r].lost = request[r].lost
    BY <1>0, <1>1, <1>5 DEF TypeOK, Arrived
  <2>3. Quiet(r, s)
    BY <1>1, <1>2, <2>2 DEF Quiet, Of
  <2>4. RequestSound(r, s)'
    BY <1>2, <1>4, <2>2 DEF RequestSound
  <2> QED
    BY <1>2, <2>1, <2>3, <2>4, QuietKeepsIInv
<1>6. CASE /\ x # NoRow /\ Trusted(x)
           /\ request' = [request EXCEPT ![r].pc = "granted", ![r].readAt = x.readAt,
                                         ![r].age = now - x.readAt]
  <2>1. x.readAt \in Nat /\ x.expiresAt \in Nat /\ now - x.readAt \in Int
    BY <1>2 DEF Rows
  <2>2. TypeOK'
    BY <1>1, <1>2, <1>6, <2>1 DEF TypeOK, Arrived
  <2>3. /\ \A q \in Requests : q # r => request'[q] = request[q]
        /\ request'[r].pc = "granted" /\ request'[r].session = s
        /\ request'[r].age = now - x.readAt
        /\ request'[r].late = request[r].late /\ request'[r].lost = request[r].lost
    BY <1>0, <1>1, <1>6 DEF TypeOK, Arrived
  <2>4. Quiet(r, s)
    BY <1>1, <1>2, <2>3 DEF Quiet, Of
  <2>5. now - x.readAt <= Interval + Slack
    BY <1>2, <1>3, <1>6, <2>1 DEF SessionSound, Trusted
  <2>6. request[r].late => excused[s]
    BY <1>3, <1>4, <1>6 DEF SessionSound
  <2>7. RequestSound(r, s)'
    BY <1>2, <1>4, <2>3, <2>5, <2>6 DEF RequestSound
  <2> QED
    BY <1>2, <2>2, <2>4, <2>7, QuietKeepsIInv
<1>7. CASE /\ x # NoRow
           /\ request' = [request EXCEPT ![r].pc = "refresh", ![r].readAt = x.readAt,
                                         ![r].token = x.token, ![r].rival = Saving(r)]
  <2>1. x.readAt \in Nat /\ x.token \in Nat
    BY <1>2 DEF Rows
  <2>2. TypeOK'
    <3>1. ASSUME NEW b \in BOOLEAN
          PROVE  [request EXCEPT ![r].pc = "refresh", ![r].readAt = x.readAt,
                                 ![r].token = x.token, ![r].rival = b]
                     \in [Requests -> {NoRequest} \cup Arrived]
      BY <1>1, <2>1 DEF TypeOK, Arrived
    <3>2. Saving(r) \in BOOLEAN
      BY DEF Saving
    <3>3. request' \in [Requests -> {NoRequest} \cup Arrived]
      BY <1>7, <3>1, <3>2, Zenon
    <3> QED
      BY <1>1, <1>2, <3>3 DEF TypeOK
  <2>3. /\ \A q \in Requests : q # r => request'[q] = request[q]
        /\ request'[r].pc = "refresh" /\ request'[r].session = s
        /\ request'[r].token = x.token /\ request'[r].refused = request[r].refused
        /\ request'[r].late = request[r].late /\ request'[r].lost = request[r].lost
    BY <1>0, <1>1, <1>7 DEF TypeOK, Arrived
  <2>4. request'[r].rival = Saving(r)
    BY <1>0, <1>1, <1>7 DEF TypeOK, Arrived
  <2>5. Quiet(r, s)
    BY <1>1, <1>2, <2>3 DEF Quiet, Of
  <2>6. Unsaved(s) => request'[r].rival
    BY <1>0, <2>4 DEF Unsaved, Saving, Of
  <2>7. Lost(s) => Lost(s)'
    <3>1. Remembered
      BY <1>0, <1>1, <2>3 DEF Remembered
    <3> QED
      BY <3>1, LostStays
  <2>8. x.token <= current[s] /\ (x.token = current[s] \/ request'[r].rival \/ Lost(s)')
    BY <1>3, <1>7, <2>6, <2>7 DEF SessionSound
  <2>9. login[s].pc = "out" => excused[s]
    BY <1>3, <1>7 DEF SessionSound
  <2>10. RequestSound(r, s)'
    BY <1>2, <1>4, <2>3, <2>8, <2>9 DEF RequestSound
  <2> QED
    BY <1>2, <2>2, <2>5, <2>10, QuietKeepsIInv
<1> QED
  BY <1>0, <1>5, <1>6, <1>7 DEF LoadSession, LoadFails, Refuse

\* Keycloak refuses, cannot be reached, or the row cannot be written: the
\* request goes on to drop the session, or is refused.
LEMMA RefusalsKeepIInv ==
    ASSUME IInv, NEW r \in Requests,
           \/ RefreshRefused(r)
           \/ RefreshFails(r) /\ UNCHANGED current
           \/ SaveFails(r)
    PROVE  IInv'
<1>1. TypeOK /\ request[r].pc \in {"refresh", "save"} /\ request[r] \in Arrived
  BY ArrivedRequest DEF IInv, RefreshRefused, RefreshFails, SaveFails
<1>2. PICK s \in Sessions : request[r].session = s
  BY <1>1 DEF Arrived
<1>3. Of(r, s) /\ UNCHANGED <<rotates, now, enabled, current, login, row, excused>>
  BY <1>1, <1>2 DEF Of, RefreshRefused, RefreshFails, SaveFails
<1>4. RequestSound(r, s)
  BY DEF IInv, RequestsSound
<1>5. /\ request[r].late => login[s].pc = "out"
      /\ login[s].pc \in {"in", "out"}
  BY <1>3, <1>4 DEF RequestSound
<1>6. CASE RefreshRefused(r)
  <2>1. request' = [request EXCEPT ![r].pc = "drop", ![r].refused = TRUE]
    BY <1>6 DEF RefreshRefused
  <2>2. TypeOK'
    BY <1>1, <1>3, <2>1 DEF TypeOK, Arrived
  <2>3. /\ \A q \in Requests : q # r => request'[q] = request[q]
        /\ request'[r].pc = "drop" /\ request'[r].session = s
        /\ request'[r].late = request[r].late /\ request'[r].lost = request[r].lost
        /\ request'[r].rival = request[r].rival
    BY <1>1, <1>2, <2>1 DEF TypeOK, Arrived
  <2>4. Quiet(r, s)
    BY <1>3, <1>6, <2>3 DEF Quiet, Of, RefreshRefused
  <2>5. Lost(s) => Lost(s)'
    <3>1. Remembered
      BY <1>2, <2>3 DEF Remembered
    <3> QED
      BY <3>1, LostStays
  <2>6. request[r].rival \/ Lost(s) \/ ~enabled
    <3>1. request[r].pc = "refresh" /\ (~enabled \/ request[r].token # current[s])
      BY <1>2, <1>6 DEF RefreshRefused, Honoured
    <3> QED
      BY <1>3, <1>4, <3>1 DEF RequestSound
  <2>7. RequestSound(r, s)'
    BY <1>3, <1>5, <2>3, <2>5, <2>6 DEF RequestSound
  <2> QED
    BY <2>2, <2>4, <2>7, QuietKeepsIInv
<1>7. CASE RefreshFails(r) /\ UNCHANGED current
  <2>1. \/ request' = [request EXCEPT ![r].pc = "drop"]
        \/ request' = [request EXCEPT ![r].pc = "drop", ![r].lost = TRUE]
    BY <1>7 DEF RefreshFails
  <2>2. TypeOK'
    BY <1>1, <1>3, <2>1 DEF TypeOK, Arrived
  <2>3. /\ \A q \in Requests : q # r => request'[q] = request[q]
        /\ request'[r].pc = "drop" /\ request'[r].session = s
        /\ request'[r].late = request[r].late /\ (request[r].lost => request'[r].lost)
        /\ request'[r].refused = request[r].refused
    BY <1>1, <1>2, <2>1 DEF TypeOK, Arrived
  <2>4. Quiet(r, s)
    BY <1>3, <1>7, <2>3 DEF Quiet, Of, RefreshFails
  <2>5. ~request[r].refused
    BY <1>1, <1>3, <1>4 DEF RequestSound
  <2>6. RequestSound(r, s)'
    BY <1>3, <1>5, <2>3, <2>5 DEF RequestSound
  <2> QED
    BY <2>2, <2>4, <2>6, QuietKeepsIInv
<1>8. CASE SaveFails(r)
  <2>1. request' = [request EXCEPT ![r].pc = "refused", ![r].lost = TRUE]
    BY <1>8 DEF SaveFails
  <2>2. TypeOK'
    BY <1>1, <1>3, <2>1 DEF TypeOK, Arrived
  <2>3. /\ \A q \in Requests : q # r => request'[q] = request[q]
        /\ request'[r].pc = "refused" /\ request'[r].session = s
        /\ request'[r].late = request[r].late /\ request'[r].lost
    BY <1>1, <1>2, <2>1 DEF TypeOK, Arrived
  <2>4. Quiet(r, s)
    BY <1>3, <2>3 DEF Quiet, Of
  <2>5. RequestSound(r, s)'
    BY <1>3, <1>5, <2>3 DEF RequestSound
  <2> QED
    BY <2>2, <2>4, <2>5, QuietKeepsIInv
<1> QED
  BY <1>6, <1>7, <1>8

\* While a request has the token that Keycloak accepts and rotates, no other
\* request of the session is about to store one.
LEMMA HonouredIsAlone ==
    ASSUME IInv, NEW r \in Requests, NEW s \in Sessions, Of(r, s), request[r].pc = "refresh",
           request[r].token = current[s], rotates
    PROVE  \A q \in Requests : Of(q, s) => request[q].pc # "save"
<1> SUFFICES ASSUME NEW q \in Requests, Of(q, s), request[q].pc = "save" PROVE FALSE
  OBVIOUS
<1>1. request[r].token < current[s]
  BY DEF IInv, SavesAreAlone, SaveIsAlone
<1>2. current[s] \in Nat
  BY DEF IInv, TypeOK
<1> QED
  BY <1>1, <1>2

\* A rotation whose answer gets lost: the token is out of step for good, and the
\* request says so.
LEMMA LostAnswerKeepsIInv ==
    ASSUME IInv, NEW r \in Requests, RefreshFails(r), current' # current
    PROVE  IInv'
<1>1. TypeOK /\ request[r].pc = "refresh" /\ request[r] \in Arrived
  BY ArrivedRequest DEF IInv, RefreshFails
<1>2. PICK s \in Sessions : request[r].session = s
  BY <1>1 DEF Arrived
<1>3. /\ Of(r, s)
      /\ request[r].token = current[s] /\ rotates
      /\ current' = [current EXCEPT ![s] = @ + 1]
      /\ request' = [request EXCEPT ![r].pc = "drop", ![r].lost = TRUE]
      /\ UNCHANGED <<rotates, now, enabled, login, row, excused>>
  BY <1>1, <1>2 DEF Of, RefreshFails, Honoured
<1>4. TypeOK'
  <2>1. request' \in [Requests -> {NoRequest} \cup Arrived]
    BY <1>1, <1>3 DEF TypeOK, Arrived
  <2>2. current' \in [Sessions -> Nat]
    BY <1>1, <1>3 DEF TypeOK
  <2> QED
    BY <1>1, <1>3, <2>1, <2>2 DEF TypeOK
<1>5. /\ \A q \in Requests : q # r => request'[q] = request[q]
      /\ request'[r].pc = "drop" /\ request'[r].session = s
      /\ request'[r].late = request[r].late /\ request'[r].lost
      /\ request'[r].refused = request[r].refused
  BY <1>1, <1>2, <1>3 DEF TypeOK, Arrived
<1>6. /\ current[s] \in Nat /\ current'[s] = current[s] + 1
      /\ \A t \in Sessions : t # s => current'[t] = current[t]
  BY <1>1, <1>3 DEF TypeOK
<1>7. Remembered
  BY <1>2, <1>5 DEF Remembered
<1>8. OneRequest(r, s)
  BY <1>3, <1>5, <1>6, <1>7 DEF OneRequest, Of
<1>9. Lost(s)'
  BY <1>5 DEF Lost, Of
<1>10. SessionSound(s)'
  <2>1. SessionSound(s) /\ row[s].token \in Nat
    BY <1>1 DEF IInv, SessionsSound, TypeOK, Rows
  <2> QED
    BY <1>3, <1>6, <1>9, <2>1 DEF SessionSound
<1>11. \A q \in Requests : Of(q, s) => request[q].pc # "save"
  BY <1>1, <1>3, HonouredIsAlone
<1>12. ASSUME NEW q \in Requests PROVE RequestSound(q, s)'
  <2>1. RequestSound(q, s)
    BY DEF IInv, RequestsSound
  <2>2. CASE q = r
    BY <1>1, <1>3, <1>5, <2>1, <2>2 DEF RequestSound
  <2>3. CASE q # r /\ Of(q, s)
    <3>1. request'[q] = request[q] /\ request[q].pc # "save" /\ request[q].token \in Nat
      BY <1>1, <1>5, <1>11, <2>3, ArrivedRequest DEF Of, Arrived
    <3> QED
      BY <1>3, <1>6, <1>9, <2>1, <2>3, <3>1 DEF RequestSound, Of
  <2>4. CASE q # r /\ ~Of(q, s)
    BY <1>5, <2>4 DEF RequestSound, Of
  <2> QED
    BY <2>2, <2>3, <2>4
<1>13. ASSUME NEW q \in Requests PROVE SaveIsAlone(q, s)'
  BY <1>5, <1>11 DEF SaveIsAlone, Of
<1> QED
  BY <1>4, <1>8, <1>10, <1>12, <1>13, OneRequestKeepsIInv

\* A refresh leaves the request alone with the new token, and makes rivals of
\* those that are about to send the old one.
LEMMA RefreshKeepsIInv ==
    ASSUME IInv, NEW r \in Requests, Refresh(r)
    PROVE  IInv'
<1> USE TimesAssumption
<1>1. TypeOK /\ request[r].pc = "refresh" /\ request[r] \in Arrived
  BY ArrivedRequest DEF IInv, Refresh
<1>2. PICK s \in Sessions : request[r].session = s
  BY <1>1 DEF Arrived
<1>3. /\ Of(r, s) /\ request[r].token = current[s]
      /\ UNCHANGED <<rotates, now, enabled, login, row, excused>>
  BY <1>1, <1>2 DEF Of, Refresh, Honoured
<1>4. /\ current' \in [Sessions -> Nat] /\ current[s] \in Nat
      /\ rotates => current'[s] = current[s] + 1
      /\ ~rotates => current'[s] = current[s]
      /\ \A t \in Sessions : t # s => current'[t] = current[t]
  BY <1>1, <1>2 DEF TypeOK, Refresh
<1>5. /\ request'[r] \in Arrived
      /\ request'[r].pc = "save" /\ request'[r].session = s
      /\ request'[r].readAt = now /\ request'[r].token = current'[s]
      /\ request'[r].late = request[r].late /\ request'[r].lost = request[r].lost
      /\ request'[r].refused = request[r].refused
  <2> DEFINE new == [request[r] EXCEPT !.pc = "save", !.readAt = now, !.token = RefreshedToken(r)]
  <2>1. request'[r] = new
    <3>1. r \notin Rivals(r)
      BY DEF Rivals
    <3> QED
      BY <3>1 DEF Refresh
  <2>2. RefreshedToken(r) = current'[s] /\ current'[s] \in Nat
    BY <1>3, <1>4 DEF RefreshedToken
  <2>3. now \in Nat
    BY <1>1 DEF TypeOK
  <2> QED
    BY <1>1, <1>2, <2>1, <2>2, <2>3 DEF Arrived
<1>6. ASSUME NEW q \in Requests, q # r, Of(q, s)
      PROVE  /\ request'[q] \in Arrived
             /\ request'[q].pc = request[q].pc /\ request'[q].session = s
             /\ request'[q].token = request[q].token /\ request'[q].readAt = request[q].readAt
             /\ request'[q].late = request[q].late /\ request'[q].age = request[q].age
             /\ request'[q].lost = request[q].lost /\ request'[q].refused = request[q].refused
             /\ request[q].rival => request'[q].rival
             /\ request[q].pc = "refresh" => request'[q].rival
  <2>1. request[q] \in Arrived
    BY <1>1, <1>6, ArrivedRequest DEF Of
  <2>2. CASE request[q].pc = "refresh"
    <3>1. q \in Rivals(r)
      BY <1>2, <1>6, <2>2 DEF Rivals, Of
    <3>2. request'[q] = [request[q] EXCEPT !.rival = TRUE]
      BY <1>6, <3>1 DEF Refresh
    <3> QED
      BY <1>6, <2>1, <3>2 DEF Arrived, Of
  <2>3. CASE request[q].pc # "refresh"
    <3>1. q \notin Rivals(r)
      BY <2>3 DEF Rivals
    <3>2. request'[q] = request[q]
      BY <1>6, <3>1 DEF Refresh
    <3> QED
      BY <1>6, <2>1, <2>3, <3>2 DEF Of
  <2> QED
    BY <2>2, <2>3
<1>7. ASSUME NEW q \in Requests, q # r, ~Of(q, s) PROVE request'[q] = request[q]
  <2>1. q \notin Rivals(r)
    BY <1>2, <1>7 DEF Rivals, Of
  <2> QED
    BY <1>7, <2>1 DEF Refresh
<1>8. TypeOK'
  <2>1. \A q \in Requests : request'[q] \in {NoRequest} \cup Arrived
    BY <1>1, <1>5, <1>6, <1>7 DEF TypeOK
  <2>2. request' = [q \in Requests |-> request'[q]]
    BY DEF Refresh
  <2> QED
    BY <1>1, <1>3, <1>4, <2>1, <2>2 DEF TypeOK
<1>9. Remembered
  BY <1>2, <1>5, <1>6, <1>7 DEF Remembered, Of
<1>10. OneRequest(r, s)
  BY <1>3, <1>4, <1>5, <1>7, <1>9 DEF OneRequest, Of
<1>11. Lost(s) => Lost(s)'
  BY <1>9, LostStays
<1>12. SessionSound(s)'
  <2>1. SessionSound(s) /\ row[s].token \in Nat
    BY <1>1 DEF IInv, SessionsSound, TypeOK, Rows
  <2>2. Unsaved(s)'
    BY <1>5 DEF Unsaved, Of
  <2>3. row[s].token <= current'[s]
    BY <1>4, <2>1 DEF SessionSound
  <2> QED
    BY <1>3, <2>1, <2>2, <2>3 DEF SessionSound
<1>13. rotates => \A q \in Requests : Of(q, s) => request[q].pc # "save"
  BY <1>1, <1>3, HonouredIsAlone
<1>14. ASSUME NEW q \in Requests PROVE RequestSound(q, s)'
  <2>1. RequestSound(q, s)
    BY DEF IInv, RequestsSound
  <2>2. CASE q = r
    <3>1. now \in Nat
      BY <1>1 DEF TypeOK
    <3> QED
      BY <1>1, <1>3, <1>5, <2>1, <2>2, <3>1 DEF RequestSound
  <2>3. CASE q # r /\ Of(q, s)
    <3>1. request[q].token \in Nat
      BY <1>1, <2>3, ArrivedRequest DEF Of, Arrived
    <3>2. request[q].pc = "save" => current'[s] = current[s]
      BY <1>4, <1>13, <2>3
    <3>3. request[q].pc = "refresh" => request[q].token <= current'[s]
      BY <1>4, <2>1, <2>3, <3>1 DEF RequestSound
    <3> QED
      BY <1>3, <1>6, <1>11, <2>1, <2>3, <3>2, <3>3 DEF RequestSound
  <2>4. CASE q # r /\ ~Of(q, s)
    BY <1>7, <2>4 DEF RequestSound, Of
  <2> QED
    BY <2>2, <2>3, <2>4
<1>15. ASSUME NEW q \in Requests PROVE SaveIsAlone(q, s)'
  <2> SUFFICES ASSUME rotates, Of(q, s)', request'[q].pc = "save"
               PROVE  /\ row[s].token < current'[s]
                      /\ \A p \in Requests :
                            /\ p # q /\ Of(p, s)'
                            /\ request'[p].pc \in {"refresh", "save"}
                            => request'[p].token < current'[s]
    BY <1>3 DEF SaveIsAlone
  <2>1. q = r
    BY <1>6, <1>7, <1>13 DEF Of
  <2>2. row[s].token \in Nat /\ row[s].token <= current[s]
    BY <1>1 DEF IInv, SessionsSound, SessionSound, TypeOK, Rows
  <2>3. ASSUME NEW p \in Requests, p # q, Of(p, s)', request'[p].pc \in {"refresh", "save"}
        PROVE  request'[p].token < current'[s]
    <3>1. Of(p, s)
      BY <1>7, <2>1, <2>3 DEF Of
    <3>2. request'[p].token = request[p].token /\ request[p].pc = "refresh"
      BY <1>6, <1>13, <2>1, <2>3, <3>1
    <3>3. request[p].token \in Nat /\ request[p].token <= current[s]
      BY <1>1, <3>1, <3>2, ArrivedRequest DEF IInv, RequestsSound, RequestSound, Arrived
    <3> QED
      BY <1>4, <3>2, <3>3
  <2> QED
    BY <1>4, <2>2, <2>3
<1> QED
  BY <1>8, <1>10, <1>12, <1>14, <1>15, OneRequestKeepsIInv

\* A row that disappears, or that takes the token Keycloak accepts, is sound.
LEMMA DropKeepsIInv ==
    ASSUME IInv, NEW r \in Requests, Drop(r)
    PROVE  IInv'
<1> USE TimesAssumption
<1>1. TypeOK /\ request[r].pc = "drop" /\ request[r] \in Arrived
  BY ArrivedRequest DEF IInv, Drop
<1>2. PICK s \in Sessions : request[r].session = s
  BY <1>1 DEF Arrived
<1>3. /\ Of(r, s)
      /\ request' = [request EXCEPT ![r].pc = "refused"]
      /\ row' = [row EXCEPT ![s] = NoRow] \/ row' = row
      /\ UNCHANGED <<rotates, now, enabled, current, login, excused>>
  BY <1>1, <1>2 DEF Of, Drop, Refuse
<1>4. NoRow \in Rows /\ NoRow.token = 0 /\ NoRow.expiresAt = 0 /\ NoRow.readAt = 0
  BY DEF NoRow, Rows
<1>5. /\ row' \in [Sessions -> Rows]
      /\ row'[s] = row[s] \/ row'[s] = NoRow
      /\ \A t \in Sessions : t # s => row'[t] = row[t]
  BY <1>1, <1>3, <1>4 DEF TypeOK
<1>6. TypeOK'
  <2>1. request' \in [Requests -> {NoRequest} \cup Arrived]
    BY <1>1, <1>3 DEF TypeOK, Arrived
  <2> QED
    BY <1>1, <1>3, <1>5, <2>1 DEF TypeOK
<1>7. /\ \A q \in Requests : q # r => request'[q] = request[q]
      /\ request'[r].pc = "refused" /\ request'[r].session = s
      /\ request'[r].late = request[r].late /\ request'[r].lost = request[r].lost
  BY <1>1, <1>2, <1>3 DEF TypeOK, Arrived
<1>8. Remembered
  BY <1>2, <1>7 DEF Remembered
<1>9. OneRequest(r, s)
  BY <1>3, <1>5, <1>7, <1>8 DEF OneRequest, Of
<1>10. Lost(s) => Lost(s)'
  BY <1>8, LostStays
<1>11. SessionSound(s)'
  <2>1. SessionSound(s) /\ current[s] \in Nat
    BY <1>1 DEF IInv, SessionsSound, TypeOK
  <2>2. Unsaved(s) => Unsaved(s)'
    BY <1>1, <1>7 DEF Unsaved, Of
  <2>3. row'[s].expiresAt <= row'[s].readAt + Interval + Slack /\ row'[s].token <= current[s]
    BY <1>4, <1>5, <2>1 DEF SessionSound
  <2> QED
    BY <1>3, <1>5, <1>10, <2>1, <2>2, <2>3 DEF SessionSound
<1>12. ASSUME NEW q \in Requests PROVE RequestSound(q, s)'
  <2>1. RequestSound(q, s)
    BY DEF IInv, RequestsSound
  <2>2. CASE q = r
    BY <1>3, <1>7, <2>1, <2>2 DEF RequestSound
  <2>3. CASE q # r
    <3>1. /\ request'[q] = request[q] /\ now' = now /\ (enabled' => enabled)
          /\ login'[s] = login[s] /\ current'[s] = current[s] /\ excused'[s] = excused[s]
      BY <1>3, <1>7, <2>3
    <3> QED
      BY <1>10, <2>1, <3>1, StillRequest
  <2> QED
    BY <2>2, <2>3
<1>13. ASSUME NEW q \in Requests PROVE SaveIsAlone(q, s)'
  <2>1. SaveIsAlone(q, s) /\ rotates' = rotates /\ current'[s] = current[s]
    BY <1>3 DEF IInv, SavesAreAlone
  <2>2. \A p \in Requests : Of(p, s)' /\ request'[p].pc \in {"refresh", "save"} =>
           Of(p, s) /\ request'[p] = request[p]
    BY <1>7 DEF Of
  <2>3. Of(q, s) /\ request[q].pc = "save" /\ rotates => row'[s].token < current[s]
    <3>1. row[s].token \in Nat /\ current[s] \in Nat
      BY <1>1 DEF TypeOK, Rows
    <3> QED
      BY <1>4, <1>5, <2>1, <3>1 DEF SaveIsAlone
  <2> QED
    BY <2>1, <2>2, <2>3 DEF SaveIsAlone
<1> QED
  BY <1>6, <1>9, <1>11, <1>12, <1>13, OneRequestKeepsIInv

\* Save writes the token that Keycloak accepts, and claims as old as the slack.
LEMMA SaveKeepsIInv ==
    ASSUME IInv, NEW r \in Requests, Save(r)
    PROVE  IInv'
<1> USE TimesAssumption
<1>1. TypeOK /\ request[r].pc = "save" /\ request[r] \in Arrived
  BY ArrivedRequest DEF IInv, Save
<1>2. PICK s \in Sessions : request[r].session = s
  BY <1>1 DEF Arrived
<1>3. /\ Of(r, s)
      /\ request' = [request EXCEPT ![r].pc = "granted", ![r].age = now - request[r].readAt]
      /\ row' = [row EXCEPT ![s] = [readAt |-> request[r].readAt, token |-> request[r].token,
                                    expiresAt |-> now + Interval]]
      /\ UNCHANGED <<rotates, now, enabled, current, login, excused>>
  BY <1>1, <1>2 DEF Of, Save
<1>4. now \in Nat /\ current[s] \in Nat /\ request[r].readAt \in Nat /\ request[r].token \in Nat
  BY <1>1 DEF TypeOK, Arrived
<1>5. RequestSound(r, s) /\ SessionSound(s)
  BY DEF IInv, RequestsSound, SessionsSound
<1>6. /\ request[r].token = current[s] /\ request[r].readAt <= now
      /\ now - request[r].readAt <= Slack
      /\ login[s].pc \in {"in", "out"}
      /\ login[s].pc = "out" => excused[s]
      /\ request[r].late => login[s].pc = "out"
  BY <1>1, <1>3, <1>5 DEF RequestSound
<1>7. /\ row' \in [Sessions -> Rows]
      /\ row'[s].readAt = request[r].readAt /\ row'[s].token = current[s]
      /\ row'[s].expiresAt = now + Interval
      /\ \A t \in Sessions : t # s => row'[t] = row[t]
  BY <1>1, <1>3, <1>4, <1>6 DEF TypeOK, Rows
<1>8. TypeOK'
  <2>1. now - request[r].readAt \in Int
    BY <1>4
  <2>2. request' \in [Requests -> {NoRequest} \cup Arrived]
    BY <1>1, <1>3, <2>1 DEF TypeOK, Arrived
  <2> QED
    BY <1>1, <1>3, <1>7, <2>2 DEF TypeOK
<1>9. /\ \A q \in Requests : q # r => request'[q] = request[q]
      /\ request'[r].pc = "granted" /\ request'[r].session = s
      /\ request'[r].age = now - request[r].readAt
      /\ request'[r].late = request[r].late /\ request'[r].lost = request[r].lost
  BY <1>1, <1>2, <1>3 DEF TypeOK, Arrived
<1>10. Remembered
  BY <1>2, <1>9 DEF Remembered
<1>11. OneRequest(r, s)
  BY <1>3, <1>7, <1>9, <1>10 DEF OneRequest, Of
<1>12. Lost(s) => Lost(s)'
  BY <1>10, LostStays
<1>13. SessionSound(s)'
  <2>1. row'[s].expiresAt <= row'[s].readAt + Interval + Slack /\ row'[s].token <= current[s]
    BY <1>4, <1>6, <1>7
  <2> QED
    BY <1>3, <1>6, <1>7, <2>1 DEF SessionSound
<1>14. ASSUME NEW q \in Requests PROVE RequestSound(q, s)'
  <2>1. RequestSound(q, s)
    BY DEF IInv, RequestsSound
  <2>2. CASE q = r
    <3>1. request'[r].age <= Interval + Slack
      BY <1>4, <1>6, <1>9
    <3> QED
      BY <1>3, <1>6, <1>9, <2>2, <3>1 DEF RequestSound
  <2>3. CASE q # r
    <3>1. /\ request'[q] = request[q] /\ now' = now /\ (enabled' => enabled)
          /\ login'[s] = login[s] /\ current'[s] = current[s] /\ excused'[s] = excused[s]
      BY <1>3, <1>9, <2>3
    <3> QED
      BY <1>12, <2>1, <3>1, StillRequest
  <2> QED
    BY <2>2, <2>3
<1>15. ASSUME NEW q \in Requests PROVE SaveIsAlone(q, s)'
  <2> SUFFICES ASSUME rotates, Of(q, s)', request'[q].pc = "save" PROVE FALSE
    BY <1>3 DEF SaveIsAlone
  <2>1. q # r /\ Of(q, s) /\ request[q].pc = "save"
    BY <1>9 DEF Of
  <2>2. request[r].token < current[s]
    BY <1>1, <1>3, <2>1 DEF IInv, SavesAreAlone, SaveIsAlone
  <2> QED
    BY <1>4, <1>6, <2>2
<1> QED
  BY <1>8, <1>11, <1>13, <1>14, <1>15, OneRequestKeepsIInv

\* Every step of the system keeps the invariant.
LEMMA NextIInv == IInv /\ [Next]_vars => IInv'
<1> SUFFICES ASSUME IInv, [Next]_vars PROVE IInv'
  OBVIOUS
<1>1. CASE UNCHANGED vars
  <2>1. UNCHANGED <<now, enabled, rotates, current, login, row, request, excused>>
    BY <1>1 DEF vars
  <2>2. TypeOK'
    BY <2>1 DEF IInv, TypeOK
  <2>3. SessionsSound'
    BY <2>1 DEF IInv, SessionsSound, SessionSound, Unsaved, Lost, Of
  <2>4. RequestsSound'
    BY <2>1 DEF IInv, RequestsSound, RequestSound, Lost, Of
  <2>5. SavesAreAlone'
    BY <2>1 DEF IInv, SavesAreAlone, SaveIsAlone, Of
  <2> QED
    BY <2>2, <2>3, <2>4, <2>5 DEF IInv
<1>2. CASE Disable \/ Tick
  BY <1>2, EnvironmentKeepsIInv
<1>3. ASSUME NEW s \in Sessions,
             Exchange(s) \/ CreateSession(s) \/ CreateFails(s) \/ Logout(s) \/ LogoutFails(s)
      PROVE  IInv'
  BY <1>3, LoginKeepsIInv, LogoutKeepsIInv
<1>4. CASE \E r \in Requests, s \in Sessions : Arrive(r, s)
  BY <1>4, ArriveKeepsIInv
<1>5. ASSUME NEW r \in Requests, Step(r) PROVE IInv'
  <2>1. CASE LoadSession(r) \/ LoadFails(r)
    BY <2>1, LoadKeepsIInv
  <2>2. CASE Refresh(r)
    BY <2>2, RefreshKeepsIInv
  <2>3. CASE RefreshRefused(r) \/ SaveFails(r)
    BY <2>3, RefusalsKeepIInv
  <2>4. CASE RefreshFails(r)
    BY <2>4, RefusalsKeepIInv, LostAnswerKeepsIInv
  <2>5. CASE Drop(r) \/ Save(r)
    BY <2>5, DropKeepsIInv, SaveKeepsIInv
  <2> QED
    BY <1>5, <2>1, <2>2, <2>3, <2>4, <2>5 DEF Step
<1> QED
  BY <1>1, <1>2, <1>3, <1>4, <1>5 DEF Next

\* The invariant holds throughout.
THEOREM Invariance == Spec => []IInv
BY InitIInv, NextIInv, PTL DEF Spec

-----------------------------------------------------------------------------

\* Authenticate of internal/humanauth never lets a request act on claims older
\* than sessionRefreshInterval and the time it took to store them, however many
\* refreshes of the session overlap and in whatever order they write.
THEOREM ClaimsAreFresh == Spec => []GrantsAreFresh
<1>1. IInv => GrantsAreFresh
  <2> SUFFICES ASSUME IInv, NEW r \in Requests, request[r].pc = "granted"
               PROVE  request[r].age <= Interval + Slack
    BY DEF GrantsAreFresh
  <2>1. PICK s \in Sessions : request[r].session = s
    BY ArrivedRequest DEF IInv, Arrived
  <2> QED
    BY <2>1 DEF IInv, RequestsSound, RequestSound, Of
<1> QED
  BY <1>1, Invariance, PTL

\* After logout a later request with the cookie is refused, unless the delete
\* failed or a refresh had read the row before.
THEOREM LogoutEndsSession == Spec => []LogoutHolds
<1>1. IInv => LogoutHolds
  <2> SUFFICES ASSUME IInv, NEW r \in Requests, request[r].pc = "granted", request[r].late
               PROVE  excused[request[r].session]
    BY DEF LogoutHolds
  <2>1. PICK s \in Sessions : request[r].session = s
    BY ArrivedRequest DEF IInv, Arrived
  <2> QED
    BY <2>1 DEF IInv, RequestsSound, RequestSound, Of
<1> QED
  BY <1>1, Invariance, PTL

\* A session of a user whom Keycloak honours is refused a refresh only after
\* another request of the session sent the same token, or a rotated token was
\* lost: a session used by one request at a time is never ended by refreshing.
THEOREM RefusalsAreDeserved == Spec => []RefusedMeansRevoked
<1>1. IInv => RefusedMeansRevoked
  <2> SUFFICES ASSUME IInv, NEW r \in Requests,
                      request[r].pc = "drop", request[r].refused, ~request[r].rival,
                      ~\E q \in Requests : Of(q, request[r].session) /\ request[q].lost
               PROVE  ~enabled
    BY DEF RefusedMeansRevoked
  <2>1. PICK s \in Sessions : request[r].session = s
    BY ArrivedRequest DEF IInv, Arrived
  <2>2. ~Lost(s)
    BY <2>1 DEF Lost
  <2> QED
    BY <2>1, <2>2 DEF IInv, RequestsSound, RequestSound, Of
<1> QED
  BY <1>1, Invariance, PTL
=============================================================================
