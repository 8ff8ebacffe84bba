---------------------------- MODULE HumanSession ----------------------------
(***************************************************************************)
(* The browser sessions of internal/humanauth: the login callback stores a *)
(* session row with the claims it read and a refresh token, Authenticate   *)
(* trusts those claims for sessionRefreshInterval and then exchanges the   *)
(* refresh token for new ones, logout deletes the row.  Requests of one    *)
(* session run concurrently, and nothing locks the row between the read,   *)
(* the exchange with Keycloak and the write.                               *)
(*                                                                         *)
(* Claims (subject, name, role) are represented by the time they were read *)
(* from Keycloak, the session id and its hash by the session itself, and   *)
(* an encrypted token by the token.                                        *)
(***************************************************************************)
EXTENDS Integers

CONSTANTS
    Sessions, Requests,
    Interval,   \* sessionRefreshInterval
    Slack,      \* bound on the time from Keycloak's answer to the stored row
    MaxTokens,  \* bound on rotations, for TLC
    MaxTime     \* bound on the clock, for TLC

ASSUME TimesAssumption ==
    Interval \in Nat \ {0} /\ Slack \in Nat /\ MaxTokens \in Nat /\ MaxTime \in Nat

VARIABLES
    now,
    enabled,    \* Keycloak honours the user's logins
    rotates,    \* the realm rotates refresh tokens
    current,    \* current[s]: the refresh token Keycloak accepts for s
    login,      \* login[s]: where the login of s stands
    row,        \* row[s]: the session row, or NoRow
    request,
    excused     \* excused[s]: logout met a refresh under way, or its delete failed

vars == <<now, enabled, rotates, current, login, row, request, excused>>

NoRow == [readAt |-> 0, token |-> 0, expiresAt |-> 0]
NoLogin == [pc |-> "none", readAt |-> 0]
NoRequest == [pc |-> "new"]

Init ==
    /\ now = 1
    /\ enabled = TRUE
    /\ rotates \in BOOLEAN
    /\ current = [s \in Sessions |-> 0]
    /\ login = [s \in Sessions |-> NoLogin]
    /\ row = [s \in Sessions |-> NoRow]
    /\ request = [r \in Requests |-> NoRequest]
    /\ excused = [s \in Sessions |-> FALSE]

\* Keycloak stops honouring the user.
Disable ==
    /\ enabled
    /\ enabled' = FALSE
    /\ UNCHANGED <<rotates, now, current, login, row, request, excused>>

\* Between Keycloak's answer and the stored row only local work happens.
Tick ==
    /\ now < MaxTime
    /\ \A s \in Sessions : login[s].pc = "exchanged" => now - login[s].readAt < Slack
    /\ \A r \in Requests : request[r].pc = "save" => now - request[r].readAt < Slack
    /\ now' = now + 1
    /\ UNCHANGED <<rotates, enabled, current, login, row, request, excused>>

-----------------------------------------------------------------------------
(* Login and logout.                                                       *)

\* The callback has a matching state and exchanges its code.
Exchange(s) ==
    /\ login[s] = NoLogin /\ enabled
    /\ current' = [current EXCEPT ![s] = 1]
    /\ login' = [login EXCEPT ![s] = [pc |-> "exchanged", readAt |-> now]]
    /\ UNCHANGED <<rotates, now, enabled, row, request, excused>>

\* The callback stores the session and sets the cookie.
CreateSession(s) ==
    /\ login[s].pc = "exchanged"
    /\ row' = [row EXCEPT ![s] = [readAt |-> login[s].readAt, token |-> current[s],
                                  expiresAt |-> now + Interval]]
    /\ login' = [login EXCEPT ![s].pc = "in"]
    /\ UNCHANGED <<rotates, now, enabled, current, request, excused>>

\* ... or cannot: 500, and the user logs in again.
CreateFails(s) ==
    /\ login[s].pc = "exchanged"
    /\ login' = [login EXCEPT ![s] = NoLogin]
    /\ UNCHANGED <<rotates, now, enabled, current, row, request, excused>>

\* A request holds a copy of the row that it may still write back.
Refreshing(s) ==
    \E r \in Requests : request[r].pc \in {"refresh", "save"} /\ request[r].session = s

\* The delete of logout left out (mutant).
RowAfterLogoutKept(s) == row[s]

RowAfterLogout(s) == NoRow

Logout(s) ==
    /\ login[s].pc = "in"
    /\ row' = [row EXCEPT ![s] = RowAfterLogout(s)]
    /\ login' = [login EXCEPT ![s].pc = "out"]
    /\ excused' = [excused EXCEPT ![s] = Refreshing(s)]
    /\ UNCHANGED <<rotates, now, enabled, current, request>>

\* The error of the delete is not looked at; the cookie is cleared all the same.
LogoutFails(s) ==
    /\ login[s].pc = "in"
    /\ login' = [login EXCEPT ![s].pc = "out"]
    /\ excused' = [excused EXCEPT ![s] = TRUE]
    /\ UNCHANGED <<rotates, now, enabled, current, row, request>>

-----------------------------------------------------------------------------
(* Authenticate.                                                           *)

Refuse(r) == request' = [request EXCEPT ![r].pc = "refused"]

\* A request with the cookie of s; late when the user has logged out.
Arrive(r, s) ==
    /\ request[r].pc = "new"
    /\ login[s].pc \in {"in", "out"}
    /\ request' = [request EXCEPT ![r] =
          [pc |-> "load", session |-> s, late |-> login[s].pc = "out",
           token |-> 0, readAt |-> 0, age |-> 0, refused |-> FALSE, lost |-> FALSE,
           rival |-> FALSE]]
    /\ UNCHANGED <<rotates, now, enabled, current, login, row, excused>>

\* The checkpoint ignored (mutant).
TrustedForever(x) == TRUE

\* The claims of a row are trusted until its checkpoint.
Trusted(x) == now < x.expiresAt

\* Another request has refreshed the session of r and not stored it yet.
Saving(r) ==
    \E q \in Requests : request[q].pc = "save" /\ request[q].session = request[r].session

\* The session row is read; trusted claims are the answer.
LoadSession(r) ==
    LET x == row[request[r].session]
    IN  /\ request[r].pc = "load"
        /\ CASE x = NoRow -> Refuse(r)
             [] x # NoRow /\ Trusted(x) ->
                  request' = [request EXCEPT ![r].pc = "granted", ![r].readAt = x.readAt,
                                             ![r].age = now - x.readAt]
             [] x # NoRow /\ ~Trusted(x) ->
                  request' = [request EXCEPT ![r].pc = "refresh", ![r].readAt = x.readAt,
                                             ![r].token = x.token, ![r].rival = Saving(r)]
        /\ UNCHANGED <<rotates, now, enabled, current, login, row, excused>>

\* The query fails.
LoadFails(r) ==
    /\ request[r].pc = "load"
    /\ Refuse(r)
    /\ UNCHANGED <<rotates, now, enabled, current, login, row, excused>>

Honoured(r) == enabled /\ request[r].token = current[request[r].session]

\* Refresh keeping the token it was given although it was rotated (mutant).
RefreshedTokenOld(r) == request[r].token

\* The refresh token to store: the rotated one, or the same again.
RefreshedToken(r) == IF rotates THEN request[r].token + 1 ELSE request[r].token

\* The requests that are about to send the token r sends.
Rivals(r) ==
    {q \in Requests \ {r} : request[q].pc = "refresh" /\ request[q].session = request[r].session}

\* Keycloak accepts the refresh token and answers with the claims of now.
Refresh(r) ==
    /\ request[r].pc = "refresh"
    /\ Honoured(r)
    /\ rotates => current[request[r].session] < MaxTokens
    /\ current' = IF rotates THEN [current EXCEPT ![request[r].session] = @ + 1] ELSE current
    /\ request' = [q \in Requests |->
          CASE q = r -> [request[r] EXCEPT !.pc = "save", !.readAt = now,
                                           !.token = RefreshedToken(r)]
            [] q \in Rivals(r) -> [request[q] EXCEPT !.rival = TRUE]
            [] OTHER -> request[q]]
    /\ UNCHANGED <<rotates, now, enabled, login, row, excused>>

\* Keycloak refuses it.
RefreshRefused(r) ==
    /\ request[r].pc = "refresh"
    /\ ~Honoured(r)
    /\ request' = [request EXCEPT ![r].pc = "drop", ![r].refused = TRUE]
    /\ UNCHANGED <<rotates, now, enabled, current, login, row, excused>>

\* Keycloak cannot be reached, its ID token does not verify, or the stored
\* token cannot be decrypted: treated alike.  Keycloak may have rotated the
\* token all the same, when it was its answer that got lost.
RefreshFails(r) ==
    /\ request[r].pc = "refresh"
    /\ \/ /\ Honoured(r) /\ rotates /\ current[request[r].session] < MaxTokens
          /\ current' = [current EXCEPT ![request[r].session] = @ + 1]
          /\ request' = [request EXCEPT ![r].pc = "drop", ![r].lost = TRUE]
       \/ /\ request' = [request EXCEPT ![r].pc = "drop"]
          /\ UNCHANGED current
    /\ UNCHANGED <<rotates, now, enabled, login, row, excused>>

\* A failed refresh deletes the row, by its key; the delete's error is ignored.
Drop(r) ==
    /\ request[r].pc = "drop"
    /\ row' \in {[row EXCEPT ![request[r].session] = NoRow], row}
    /\ Refuse(r)
    /\ UNCHANGED <<rotates, now, enabled, current, login, excused>>

\* Save writes the row of the copy, whether or not it is still there.
Save(r) ==
    /\ request[r].pc = "save"
    /\ row' = [row EXCEPT ![request[r].session] =
                 [readAt |-> request[r].readAt, token |-> request[r].token,
                  expiresAt |-> now + Interval]]
    /\ request' = [request EXCEPT ![r].pc = "granted", ![r].age = now - request[r].readAt]
    /\ UNCHANGED <<rotates, now, enabled, current, login, excused>>

\* The write fails: 401, and a rotated token is lost.
SaveFails(r) ==
    /\ request[r].pc = "save"
    /\ request' = [request EXCEPT ![r].pc = "refused", ![r].lost = TRUE]
    /\ UNCHANGED <<rotates, now, enabled, current, login, row, excused>>

Step(r) ==
    \/ LoadSession(r)
    \/ LoadFails(r)
    \/ Refresh(r)
    \/ RefreshRefused(r)
    \/ RefreshFails(r)
    \/ Drop(r)
    \/ Save(r)
    \/ SaveFails(r)

Next ==
    \/ Disable
    \/ Tick
    \/ \E s \in Sessions :
          Exchange(s) \/ CreateSession(s) \/ CreateFails(s) \/ Logout(s) \/ LogoutFails(s)
    \/ \E r \in Requests, s \in Sessions : Arrive(r, s)
    \/ \E r \in Requests : Step(r)

Spec == Init /\ [][Next]_vars

-----------------------------------------------------------------------------
(* Properties.                                                             *)

Of(r, s) == request[r].pc # "new" /\ request[r].session = s

\* "moving them out of the admin group takes effect promptly": nobody acts on
\* claims older than the refresh interval and the time it took to store them,
\* however refreshes of one session overlap, write back in another order than
\* they were answered, or bring a deleted row back.
GrantsAreFresh ==
    \A r \in Requests : request[r].pc = "granted" => request[r].age <= Interval + Slack

\* Logging out ends the session for every later request, unless the delete
\* failed or a refresh that had read the row before was under way: its Save
\* brings the row back.
LogoutHolds ==
    \A r \in Requests :
        request[r].pc = "granted" /\ request[r].late => excused[request[r].session]

\* "A refresh failure means Keycloak no longer honors the session": Keycloak
\* refuses the refresh of a user it honours only when another request of the
\* session rotated the token after this one read it or before it was stored,
\* or the rotated token got lost.  A session used by one request at a time is
\* never ended by its own refreshes.
RefusedMeansRevoked ==
    \A r \in Requests :
        /\ request[r].pc = "drop" /\ request[r].refused
        /\ ~request[r].rival
        /\ ~\E q \in Requests : Of(q, request[r].session) /\ request[q].lost
        => ~enabled
=============================================================================
