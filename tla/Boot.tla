-------------------------------- MODULE Boot --------------------------------
(***************************************************************************)
(* The life of the process, cmd/webtools/main.go: it starts ready when the *)
(* database opens, and otherwise listens at once, retries in the           *)
(* background and swaps the real routes in on the same listener.  SIGTERM  *)
(* starts a graceful stop.  Kubernetes probes /readyz and agents make      *)
(* calls throughout.                                                       *)
(***************************************************************************)
EXTENDS Integers, FiniteSets

CONSTANTS
    Calls,      \* requests agents make
    MaxCall,    \* the longest a tool call takes (fetch and search timeouts)
    Grace,      \* how long shutdown waits for requests under way
    MaxBackoff  \* the cap of the retry's backoff, in seconds

ASSUME DurationAssumption == MaxCall \in Nat /\ Grace \in Nat \ {0}
ASSUME BackoffAssumption == MaxBackoff \in Nat \ {0}

VARIABLES
    dbUp,       \* the database can be opened and pinged
    locked,     \* another session holds the migration's advisory lock
    term,       \* SIGTERM came: ctx is done
    main,       \* the main goroutine; "loop" is its select
    retry,      \* retryOpenUntilReady: "off", "sleeping", "opening" or "done"
    backoff,
    dbReady,    \* the opened database waits in the channel
    handler,    \* appHandler holds the real routes
    checker,    \* what /readyz consults
    listener,   \* "none", "binding", "open" or "closed"
    probe,      \* the last /readyz request: the checker it copied, its answer
    call,       \* call[c]: a request and for how long it has been running
    waited      \* how long shutdown has been waiting

vars == <<dbUp, locked, term, main, retry, backoff, dbReady, handler, checker, listener,
          probe, call, waited>>

\* The checker of the degraded start, and the one buildAppHandler returns.
NotReady == [migrations |-> FALSE, oidc |-> FALSE, ping |-> "error"]
AppReady == [migrations |-> TRUE, oidc |-> TRUE, ping |-> "database"]

Init ==
    /\ dbUp \in BOOLEAN
    /\ locked \in BOOLEAN
    /\ term = FALSE
    /\ main = "boot"
    /\ retry = "off"
    /\ backoff = 1
    /\ dbReady = FALSE
    /\ handler = FALSE
    /\ checker = NotReady
    /\ listener = "none"
    /\ probe = [status |-> "none", copy |-> NotReady]
    /\ call = [c \in Calls |-> [status |-> "none", age |-> 0]]
    /\ waited = 0

Alive == main \notin {"exited", "failed"}

-----------------------------------------------------------------------------
(* The environment.                                                        *)

DatabaseFlips ==
    /\ dbUp' = ~dbUp
    /\ UNCHANGED <<locked, term, main, retry, backoff, dbReady, handler, checker, listener,
                   probe, call, waited>>

\* Another replica takes the migration lock or gives it back; nothing says that
\* it ever does the latter.
LockFlips ==
    /\ locked' = ~locked
    /\ UNCHANGED <<dbUp, term, main, retry, backoff, dbReady, handler, checker,
                   listener, probe, call, waited>>

Signal ==
    /\ Alive /\ ~term
    /\ term' = TRUE
    /\ UNCHANGED <<dbUp, locked, main, retry, backoff, dbReady, handler, checker, listener,
                   probe, call, waited>>

Running(c) == call[c].status = "running"

\* Time passes: no call outlasts its timeout, no shutdown its grace.
Tick ==
    /\ \A c \in Calls : Running(c) => call[c].age < MaxCall
    /\ main = "draining" => waited < Grace
    /\ call' = [c \in Calls |-> IF Running(c) THEN [call[c] EXCEPT !.age = @ + 1] ELSE call[c]]
    /\ waited' = IF main = "draining" THEN waited + 1 ELSE waited
    /\ UNCHANGED <<dbUp, locked, term, main, retry, backoff, dbReady, handler, checker,
                   listener, probe>>

-----------------------------------------------------------------------------
(* The main goroutine.                                                     *)

\* storage.Open, at boot and in the retry, waits for the migration lock without a
\* context: while another session holds it, Open returns only with an error of
\* the connection, and SIGTERM, which NotifyContext takes, does not end the wait.
OpenSucceeds == dbUp /\ ~locked
OpenFails == ~dbUp

\* storage.Open succeeds at boot and the routes can be built: serveReady.
ServeReady ==
    /\ main = "boot" /\ OpenSucceeds
    /\ main' = "loop"
    /\ handler' = TRUE
    /\ checker' = AppReady
    /\ listener' = "binding"
    /\ UNCHANGED <<dbUp, locked, term, retry, backoff, dbReady, probe, call, waited>>

\* buildAppHandler fails at boot (a bad flag, OIDC discovery): the process ends.
BuildFailsAtBoot ==
    /\ main = "boot" /\ OpenSucceeds
    /\ main' = "failed"
    /\ UNCHANGED <<dbUp, locked, term, retry, backoff, dbReady, handler, checker, listener,
                   probe, call, waited>>

\* storage.Open fails at boot: serveDegradedUntilReady.
ServeDegraded ==
    /\ main = "boot" /\ OpenFails
    /\ main' = "loop"
    /\ listener' = "binding"
    /\ retry' = "sleeping"
    /\ UNCHANGED <<dbUp, locked, term, backoff, dbReady, handler, checker, probe, call, waited>>

\* The listening goroutine binds the address.
Listen ==
    /\ Alive /\ listener = "binding"
    /\ listener' = "open"
    /\ UNCHANGED <<dbUp, locked, term, main, retry, backoff, dbReady, handler, checker,
                   probe, call, waited>>

\* What becomes of the calls when the process ends.
Cut == call' = [c \in Calls |->
                  IF Running(c) THEN [call[c] EXCEPT !.status = "cut"] ELSE call[c]]

\* ListenAndServe fails and main returns its error without a shutdown.
ServeFails ==
    /\ main = "loop" /\ listener \in {"binding", "open"}
    /\ main' = "failed"
    /\ listener' = "closed"
    /\ Cut
    /\ UNCHANGED <<dbUp, locked, term, retry, backoff, dbReady, handler, checker, probe, waited>>

\* The opened database comes out of the channel and the routes are built.
BuildRoutes ==
    /\ main = "loop" /\ dbReady
    /\ dbReady' = FALSE
    /\ main' = "built"
    /\ UNCHANGED <<dbUp, locked, term, retry, backoff, handler, checker, listener, probe,
                   call, waited>>

\* ... or cannot be built, which shuts the server down.
BuildFails ==
    /\ main = "loop" /\ dbReady
    /\ dbReady' = FALSE
    /\ main' = "draining"
    /\ listener' = "closed"
    /\ UNCHANGED <<dbUp, locked, term, retry, backoff, handler, checker, probe, call, waited>>

\* The checker published before the routes (mutant).
PublishCheckerFirst ==
    /\ main = "built"
    /\ checker' = AppReady
    /\ main' = "stored"
    /\ UNCHANGED <<dbUp, locked, term, retry, backoff, dbReady, handler, listener, probe,
                   call, waited>>

\* appHandler.Store: requests get the real routes.
StoreHandler ==
    /\ main = "built"
    /\ handler' = TRUE
    /\ main' = "stored"
    /\ UNCHANGED <<dbUp, locked, term, retry, backoff, dbReady, checker, listener, probe,
                   call, waited>>

\* checker = readyChecker under the lock, and back to the select.
PublishChecker ==
    /\ main = "stored"
    /\ checker' = AppReady
    /\ main' = "loop"
    /\ UNCHANGED <<dbUp, locked, term, retry, backoff, dbReady, handler, listener, probe,
                   call, waited>>

\* A select that looks at ctx only once the routes are there (mutant).
StoppingWhenReady == term /\ handler

\* The case <-ctx.Done() of the select is ready.
Stopping == term

\* ctx.Done: shutdown closes the listener and waits for the requests under way.
StartShutdown ==
    /\ main = "loop" /\ Stopping
    /\ main' = "draining"
    /\ listener' = "closed"
    /\ UNCHANGED <<dbUp, locked, term, retry, backoff, dbReady, handler, checker, probe,
                   call, waited>>

\* Close instead of Shutdown: nobody waits (mutant).
AtOnce == TRUE

\* The five seconds are over.
GraceIsOver == waited = Grace

\* Shutdown returns, when nothing runs any more or the grace is over, and the
\* process ends.
Exit ==
    /\ main = "draining"
    /\ (\A c \in Calls : ~Running(c)) \/ GraceIsOver
    /\ main' = "exited"
    /\ Cut
    /\ UNCHANGED <<dbUp, locked, term, retry, backoff, dbReady, handler, checker, listener,
                   probe, waited>>

-----------------------------------------------------------------------------
(* retryOpenUntilReady.                                                    *)

\* The backoff has passed: storage.Open is called.
RetryWakes ==
    /\ Alive /\ retry = "sleeping"
    /\ retry' = "opening"
    /\ UNCHANGED <<dbUp, locked, term, main, backoff, dbReady, handler, checker,
                   listener, probe, call, waited>>

\* ctx.Done, which only the sleeping goroutine looks at.
RetryStops ==
    /\ Alive /\ retry = "sleeping" /\ term
    /\ retry' = "done"
    /\ UNCHANGED <<dbUp, locked, term, main, backoff, dbReady, handler, checker,
                   listener, probe, call, waited>>

\* The retry that ends with the first failure (mutant).
RetryGivesUp ==
    /\ Alive /\ retry = "opening" /\ OpenFails
    /\ retry' = "done"
    /\ UNCHANGED <<dbUp, locked, term, main, backoff, dbReady, handler, checker,
                   listener, probe, call, waited>>

NextBackoff == IF 2 * backoff < MaxBackoff THEN 2 * backoff ELSE MaxBackoff

\* storage.Open fails again.
RetryFails ==
    /\ Alive /\ retry = "opening" /\ OpenFails
    /\ checker' = [checker EXCEPT !.ping = "error"]
    /\ backoff' = NextBackoff
    /\ retry' = "sleeping"
    /\ UNCHANGED <<dbUp, locked, term, main, dbReady, handler, listener, probe, call,
                   waited>>

\* The retry that goes on after a success (mutant).
RetryGoesOn ==
    /\ Alive /\ retry = "opening" /\ OpenSucceeds
    /\ dbReady' = TRUE
    /\ retry' = "sleeping"
    /\ UNCHANGED <<dbUp, locked, term, main, backoff, handler, checker, listener,
                   probe, call, waited>>

\* storage.Open succeeds: the database is sent and the goroutine returns.
RetryOpens ==
    /\ Alive /\ retry = "opening" /\ OpenSucceeds
    /\ dbReady' = TRUE
    /\ retry' = "done"
    /\ UNCHANGED <<dbUp, locked, term, main, backoff, handler, checker, listener,
                   probe, call, waited>>

-----------------------------------------------------------------------------
(* Requests.                                                               *)

Accepts == Alive /\ listener = "open"

\* /readyz copies the checker under the read lock ...
ProbeReads ==
    /\ Accepts
    /\ probe' = [status |-> "copied", copy |-> checker]
    /\ UNCHANGED <<dbUp, locked, term, main, retry, backoff, dbReady, handler, checker,
                   listener, call, waited>>

\* ... and answers from the copy and from a ping.
ProbeAnswers ==
    /\ Alive /\ probe.status = "copied"
    /\ LET ok == probe.copy.migrations /\ probe.copy.oidc
                 /\ probe.copy.ping = "database" /\ dbUp
       IN  probe' = [probe EXCEPT !.status = IF ok THEN "ready" ELSE "not ready"]
    /\ UNCHANGED <<dbUp, locked, term, main, retry, backoff, dbReady, handler, checker,
                   listener, call, waited>>

\* A call: 503 while there are no routes.
Arrive(c) ==
    /\ Accepts /\ call[c].status = "none"
    /\ call' = [call EXCEPT ![c].status = IF handler THEN "running" ELSE "starting up"]
    /\ UNCHANGED <<dbUp, locked, term, main, retry, backoff, dbReady, handler, checker,
                   listener, probe, waited>>

Finish(c) ==
    /\ Alive /\ Running(c)
    /\ call' = [call EXCEPT ![c].status = "answered"]
    /\ UNCHANGED <<dbUp, locked, term, main, retry, backoff, dbReady, handler, checker,
                   listener, probe, waited>>

MainStep ==
    \/ ServeReady
    \/ BuildFailsAtBoot
    \/ ServeDegraded
    \/ ServeFails
    \/ BuildRoutes
    \/ BuildFails
    \/ StoreHandler
    \/ PublishChecker
    \/ StartShutdown
    \/ Exit

RetryStep == RetryWakes \/ RetryStops \/ RetryFails \/ RetryOpens

Next ==
    \/ DatabaseFlips
    \/ LockFlips
    \/ Signal
    \/ Tick
    \/ MainStep
    \/ Listen
    \/ RetryStep
    \/ ProbeReads
    \/ ProbeAnswers
    \/ \E c \in Calls : Arrive(c) \/ Finish(c)

\* A goroutine that can go on does: time passes, the main goroutine leaves its
\* select when a case is ready, and the backoff timer fires.  storage.Open
\* returns while the database is down, or up with the lock free; that the lock
\* is ever given back is not assumed, nor anything of the database, of signals,
\* of the listener's failures or of requests.  BuildRoutes \/ BuildFails takes
\* the identity provider to answer or to refuse the discovery request.
Fairness ==
    /\ WF_vars(Tick)
    /\ WF_vars(ServeReady \/ ServeDegraded)
    /\ WF_vars(BuildRoutes \/ BuildFails)
    /\ WF_vars(StoreHandler)
    /\ WF_vars(PublishChecker)
    /\ WF_vars(StartShutdown)
    /\ WF_vars(Exit)
    /\ WF_vars(RetryWakes \/ RetryStops)
    /\ WF_vars(RetryFails \/ RetryOpens)
    /\ \A c \in Calls : WF_vars(Finish(c))

Spec == Init /\ [][Next]_vars /\ Fairness

-----------------------------------------------------------------------------
(* Properties.                                                             *)

\* Once /readyz has said ready, and traffic is sent here, no call is turned away
\* with "starting up: database not yet available".
ReadyMeansRoutes ==
    [][probe.status = "ready" =>
          \A c \in Calls : call'[c].status = "starting up" => call[c].status = "starting up"]_vars

\* "it never retries again after a success": a failure that the retry reports
\* late never replaces the checker of the running application.
ReadinessIsKept == [][checker = AppReady => checker' = AppReady]_vars

\* A shutdown cuts only calls that it has waited the whole grace for.
CutOnlyAfterGrace ==
    main = "exited" => \A c \in Calls : call[c].status = "cut" => call[c].age >= Grace

Ended == main \in {"exited", "failed"}

\* A database that comes back for good, its migration lock free, makes the
\* process ready, without a restart, unless it is stopped or ends with an error.
Recovers ==
    <>[]OpenSucceeds => <>(checker = AppReady \/ term \/ main = "draining" \/ Ended)

\* After SIGTERM the process ends, in every phase but the first: while the first
\* storage.Open waits for the migration lock nothing hears the signal, and the
\* process ends then only if the lock is given back for good.
StopsOnSignal ==
    /\ (term /\ main # "boot") ~> Ended
    /\ <>[]~locked => (term ~> Ended)
=============================================================================
