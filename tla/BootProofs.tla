----------------------------- MODULE BootProofs -----------------------------
(***************************************************************************)
(* Proofs about Boot: for any number of calls and any durations, readiness *)
(* is never taken back, a process that said it is ready has its routes,    *)
(* and a shutdown cuts no call before the grace is over.                   *)
(***************************************************************************)
EXTENDS Boot, TLAPS

CallType == [status : {"none", "running", "starting up", "answered", "cut"}, age : Nat]
ProbeType == [status : {"none", "copied", "ready", "not ready"}, copy : {NotReady, AppReady}]

TypeOK ==
    /\ main \in {"boot", "loop", "built", "stored", "draining", "exited", "failed"}
    /\ retry \in {"off", "sleeping", "opening", "done"}
    /\ dbReady \in BOOLEAN
    /\ handler \in BOOLEAN
    /\ checker \in {NotReady, AppReady}
    /\ listener \in {"none", "binding", "open", "closed"}
    /\ probe \in ProbeType
    /\ call \in [Calls -> CallType]
    /\ waited \in Nat

\* The retry of a degraded start is over before its database is used, and it
\* never runs beside a checker that is ready.
RetrySound ==
    /\ main = "boot" => retry = "off" /\ checker = NotReady
    /\ dbReady \/ main \in {"built", "stored"} => retry = "done"
    /\ retry \in {"sleeping", "opening"} => checker = NotReady

\* Whoever has seen a checker that is ready finds the routes.
RoutesSound ==
    /\ checker = AppReady => handler
    /\ main = "stored" => handler
    /\ probe.copy = AppReady => handler
    /\ probe.status = "ready" => probe.copy = AppReady

\* A call under way during a shutdown has run at least as long as the shutdown
\* has waited: nothing is accepted any more.
GraceSound ==
    /\ main = "boot" => listener = "none" /\ \A c \in Calls : ~Running(c)
    /\ main \in {"draining", "exited"} => listener = "closed"
    /\ main \notin {"draining", "exited"} => waited = 0
    /\ main = "draining" =>
          waited <= Grace /\ \A c \in Calls : Running(c) => call[c].age >= waited
    /\ Alive => \A c \in Calls : call[c].status # "cut"
    /\ CutOnlyAfterGrace
    /\ ~Alive => \A c \in Calls : ~Running(c)

\* The inductive invariant.
IInv == TypeOK /\ RetrySound /\ RoutesSound /\ GraceSound

-----------------------------------------------------------------------------
(* The two checkers.                                                       *)

LEMMA TheCheckers ==
    /\ NotReady # AppReady
    /\ [NotReady EXCEPT !.ping = "error"] = NotReady
    /\ ~(NotReady.migrations /\ NotReady.oidc /\ NotReady.ping = "database")
<1>1. NotReady.ping = "error" /\ AppReady.ping = "database"
    BY DEF NotReady, AppReady
<1>2. [NotReady EXCEPT !.ping = "error"] = NotReady
    BY DEF NotReady
<1> QED
    BY <1>1, <1>2

\* What the steps outside shutdown leave of the calls.
LEMMA CutCalls ==
    ASSUME call \in [Calls -> CallType], Cut
    PROVE  /\ call' \in [Calls -> CallType]
           /\ \A c \in Calls : /\ call'[c].age = call[c].age
                               /\ call'[c].status = IF Running(c) THEN "cut" ELSE call[c].status
<1> SUFFICES ASSUME NEW c \in Calls
             PROVE  /\ call'[c] \in CallType
                    /\ call'[c].age = call[c].age
                    /\ call'[c].status = IF Running(c) THEN "cut" ELSE call[c].status
    BY DEF Cut
<1>1. call[c] \in CallType
    OBVIOUS
<1>2. CASE Running(c)
    <2>1. call'[c] = [call[c] EXCEPT !.status = "cut"]
        BY <1>2 DEF Cut
    <2> QED
        BY <1>1, <1>2, <2>1 DEF CallType
<1>3. CASE ~Running(c)
    <2>1. call'[c] = call[c]
        BY <1>3 DEF Cut
    <2> QED
        BY <1>1, <1>3, <2>1
<1> QED
    BY <1>2, <1>3

LEMMA TickedCalls ==
    ASSUME call \in [Calls -> CallType], Tick
    PROVE  /\ call' \in [Calls -> CallType]
           /\ \A c \in Calls : /\ call'[c].status = call[c].status
                               /\ call'[c].age = IF Running(c) THEN call[c].age + 1 ELSE call[c].age
<1> SUFFICES ASSUME NEW c \in Calls
             PROVE  /\ call'[c] \in CallType
                    /\ call'[c].status = call[c].status
                    /\ call'[c].age = IF Running(c) THEN call[c].age + 1 ELSE call[c].age
    BY DEF Tick
<1>1. call[c] \in CallType
    OBVIOUS
<1>2. CASE Running(c)
    <2> DEFINE older == call[c].age + 1
    <2>0. call[c].age \in Nat
        BY <1>1 DEF CallType
    <2>1. call'[c] = [call[c] EXCEPT !.age = older]
        BY <1>2 DEF Tick
    <2>2. older \in Nat
        BY <2>0
    <2>3. older = call[c].age + 1
        OBVIOUS
    <2> HIDE DEF older
    <2>4. call'[c] \in CallType /\ call'[c].status = call[c].status /\ call'[c].age = older
        BY <1>1, <2>1, <2>2 DEF CallType
    <2> QED
        BY <1>2, <2>3, <2>4
<1>3. CASE ~Running(c)
    <2>1. call'[c] = call[c]
        BY <1>3 DEF Tick
    <2> QED
        BY <1>1, <1>3, <2>1
<1> QED
    BY <1>2, <1>3

\* A call arrives or is answered; the others are left alone.
LEMMA OneCall ==
    ASSUME call \in [Calls -> CallType], NEW c \in Calls, Arrive(c) \/ Finish(c)
    PROVE  /\ call' \in [Calls -> CallType]
           /\ \A d \in Calls \ {c} : call'[d] = call[d]
           /\ call'[c].age = call[c].age
           /\ Arrive(c) => call'[c].status = IF handler THEN "running" ELSE "starting up"
           /\ Finish(c) => call'[c].status = "answered"
<1>1. call[c] \in CallType
    OBVIOUS
<1>2. CASE Arrive(c)
    <2> DEFINE st == IF handler THEN "running" ELSE "starting up"
    <2>0. st \in {"running", "starting up"}
        OBVIOUS
    <2>1. call' = [call EXCEPT ![c] = [call[c] EXCEPT !.status = st]]
        BY <1>2 DEF Arrive
    <2> HIDE DEF st
    <2>2. [call[c] EXCEPT !.status = st] \in CallType
        BY <1>1, <2>0 DEF CallType
    <2>3. call' \in [Calls -> CallType] /\ (\A d \in Calls \ {c} : call'[d] = call[d])
          /\ call'[c].age = call[c].age /\ call'[c].status = st
        BY <1>1, <2>1, <2>2 DEF CallType
    <2>4. ~Finish(c)
        BY <1>2 DEF Arrive, Finish, Running
    <2> QED
        BY <2>3, <2>4 DEF st
<1>3. CASE Finish(c)
    <2>1. call' = [call EXCEPT ![c] = [call[c] EXCEPT !.status = "answered"]]
        BY <1>3 DEF Finish
    <2>2. [call[c] EXCEPT !.status = "answered"] \in CallType
        BY <1>1 DEF CallType
    <2>3. Arrive(c) => call[c].status = "running" /\ call[c].status = "none"
        BY <1>3 DEF Arrive, Finish, Running
    <2> QED
        BY <1>1, <2>1, <2>2, <2>3 DEF CallType
<1> QED
    BY <1>2, <1>3

-----------------------------------------------------------------------------
(* The retry and the routes.                                               *)

\* Requests and the clock, which the checker and the routes do not depend on.
Outside ==
    DatabaseFlips \/ LockFlips \/ Signal \/ Tick \/ Listen \/ UNCHANGED vars
        \/ \E c \in Calls : Arrive(c) \/ Finish(c)

LEMMA OutsideKeeps ==
    ASSUME Outside
    PROVE  UNCHANGED <<main, retry, dbReady, handler, checker, probe>>
BY DEF Outside, DatabaseFlips, LockFlips, Signal, Tick, Listen, Arrive, Finish, vars

LEMMA NextRetry ==
    ASSUME TypeOK, RetrySound, [Next]_vars
    PROVE  RetrySound'
<1>1. CASE Outside
    BY <1>1, OutsideKeeps DEF RetrySound
<1>2. CASE MainStep
    <2>1. CASE ServeReady
        BY <2>1 DEF ServeReady, RetrySound
    <2>2. CASE BuildFailsAtBoot \/ ServeDegraded \/ ServeFails \/ BuildFails \/ StartShutdown \/ Exit
        BY <2>2 DEF BuildFailsAtBoot, ServeDegraded, ServeFails, BuildFails, StartShutdown, Exit, RetrySound
    <2>3. CASE BuildRoutes
        BY <2>3 DEF BuildRoutes, RetrySound
    <2>4. CASE StoreHandler
        BY <2>4 DEF StoreHandler, RetrySound
    <2>5. CASE PublishChecker
        BY <2>5 DEF PublishChecker, RetrySound
    <2> QED
        BY <1>2, <2>1, <2>2, <2>3, <2>4, <2>5 DEF MainStep
<1>3. CASE RetryFails
    BY <1>3, TheCheckers DEF RetryFails, RetrySound
<1>4. CASE RetryWakes \/ RetryStops \/ RetryOpens
    BY <1>4 DEF RetryWakes, RetryStops, RetryOpens, RetrySound
<1>5. CASE ProbeReads \/ ProbeAnswers
    <2>1. UNCHANGED <<main, retry, dbReady, checker>>
        BY <1>5 DEF ProbeReads, ProbeAnswers
    <2> QED
        BY <2>1 DEF RetrySound
<1> QED
    BY <1>1, <1>2, <1>3, <1>4, <1>5 DEF Next, RetryStep, Outside

LEMMA NextRoutes ==
    ASSUME TypeOK, RetrySound, RoutesSound, [Next]_vars
    PROVE  RoutesSound'
<1>1. CASE Outside
    BY <1>1, OutsideKeeps DEF RoutesSound
<1>2. CASE MainStep
    <2>1. UNCHANGED probe
        BY <1>2 DEF MainStep, ServeReady, BuildFailsAtBoot, ServeDegraded,
           ServeFails, BuildRoutes, BuildFails, StoreHandler, PublishChecker, StartShutdown, Exit
    <2>2. handler => handler'
        BY <1>2 DEF MainStep, ServeReady, BuildFailsAtBoot, ServeDegraded,
           ServeFails, BuildRoutes, BuildFails, StoreHandler, PublishChecker, StartShutdown, Exit
    <2>3. (checker' = checker \/ handler') /\ (main' = "stored" => handler')
        BY <1>2 DEF RoutesSound, MainStep, ServeReady, BuildFailsAtBoot, ServeDegraded,
           ServeFails, BuildRoutes, BuildFails, StoreHandler, PublishChecker, StartShutdown, Exit
    <2> QED
        BY <2>1, <2>2, <2>3 DEF RoutesSound
<1>3. CASE RetryFails
    BY <1>3, TheCheckers DEF RetryFails, RetrySound, RoutesSound
<1>4. CASE RetryWakes \/ RetryStops \/ RetryOpens
    BY <1>4 DEF RetryWakes, RetryStops, RetryOpens, RoutesSound
<1>5. CASE ProbeReads
    BY <1>5 DEF ProbeReads, RoutesSound
<1>6. CASE ProbeAnswers
    <2> DEFINE ok == probe.copy.migrations /\ probe.copy.oidc
                     /\ probe.copy.ping = "database" /\ dbUp
    <2>1. probe' = [probe EXCEPT !.status = IF ok THEN "ready" ELSE "not ready"]
          /\ UNCHANGED <<handler, checker, main>>
        BY <1>6 DEF ProbeAnswers
    <2>2. ok => probe.copy = AppReady
        BY TheCheckers DEF TypeOK, ProbeType
    <2> HIDE DEF ok
    <2>3. probe'.copy = probe.copy /\ (probe'.status = "ready" => ok)
        BY <2>1 DEF TypeOK, ProbeType
    <2> QED
        BY <2>1, <2>2, <2>3 DEF RoutesSound
<1> QED
    BY <1>1, <1>2, <1>3, <1>4, <1>5, <1>6 DEF Next, RetryStep, Outside

-----------------------------------------------------------------------------
(* Shutdown.                                                               *)

\* Steps that neither the calls nor the clock of the shutdown take part in.
LEMMA QuietSteps ==
    ASSUME GraceSound, UNCHANGED <<call, waited>>,
           listener' = listener \/ main \notin {"draining", "exited"},
           main' = "boot" => main = "boot" /\ listener' = listener,
           \/ main' = main
           \/ /\ main \notin {"draining", "exited", "failed"}
              /\ main' \in {"loop", "built", "stored"}
    PROVE  GraceSound'
BY DEF GraceSound, Alive, Running, CutOnlyAfterGrace

LEMMA NextGrace ==
    ASSUME TypeOK, GraceSound, [Next]_vars
    PROVE  GraceSound'
<1>0. call \in [Calls -> CallType] /\ waited \in Nat /\ Grace \in Nat /\ 0 <= Grace
    BY DurationAssumption DEF TypeOK
<1>1. CASE \/ UNCHANGED vars \/ DatabaseFlips \/ LockFlips \/ Signal \/ Listen \/ ProbeReads \/ ProbeAnswers
           \/ RetryStep \/ ServeReady \/ ServeDegraded \/ BuildRoutes \/ StoreHandler \/ PublishChecker
    <2>1. /\ UNCHANGED <<call, waited>>
          /\ listener' = listener \/ main \notin {"draining", "exited"}
          /\ main' = "boot" => main = "boot" /\ listener' = listener
        BY <1>1 DEF vars, DatabaseFlips, LockFlips, Signal, Listen, ProbeReads, ProbeAnswers, RetryStep,
           RetryFails, RetryWakes, RetryStops, RetryOpens, ServeReady, ServeDegraded, BuildRoutes,
           StoreHandler, PublishChecker, GraceSound
    <2>2. \/ main' = main
          \/ /\ main \notin {"draining", "exited", "failed"}
             /\ main' \in {"loop", "built", "stored"}
        BY <1>1 DEF vars, DatabaseFlips, LockFlips, Signal, Listen, ProbeReads, ProbeAnswers, RetryStep,
           RetryFails, RetryWakes, RetryStops, RetryOpens, ServeReady, ServeDegraded, BuildRoutes,
           StoreHandler, PublishChecker
    <2> QED
        BY <2>1, <2>2, QuietSteps
<1>2. CASE Tick
    <2>1. \A c \in Calls : /\ call'[c].status = call[c].status
                          /\ call'[c].age = IF Running(c) THEN call[c].age + 1 ELSE call[c].age
        BY <1>0, <1>2, TickedCalls
    <2>2. /\ UNCHANGED <<main, listener>>
          /\ waited' = IF main = "draining" THEN waited + 1 ELSE waited
          /\ main = "draining" => waited < Grace
        BY <1>2 DEF Tick
    <2>3. \A c \in Calls : call[c].age \in Nat
        BY <1>0 DEF CallType
    <2>4. main = "draining" =>
             waited' <= Grace /\ \A c \in Calls : Running(c)' => call'[c].age >= waited'
        BY <1>0, <2>1, <2>2, <2>3 DEF GraceSound, Running
    <2>5. CutOnlyAfterGrace'
        BY <2>1, <2>2 DEF GraceSound, CutOnlyAfterGrace, Running
    <2> QED
        BY <2>1, <2>2, <2>4, <2>5 DEF GraceSound, Running, Alive
<1>3. CASE BuildFailsAtBoot
    <2>1. main = "boot" /\ main' = "failed" /\ UNCHANGED <<call, waited, listener>>
        BY <1>3 DEF BuildFailsAtBoot
    <2>2. \A c \in Calls : ~Running(c)
        BY <2>1 DEF GraceSound
    <2> QED
        BY <2>1, <2>2 DEF GraceSound, Alive, Running, CutOnlyAfterGrace
<1>4. CASE ServeFails
    <2>1. main = "loop" /\ main' = "failed" /\ Cut /\ UNCHANGED waited
        BY <1>4 DEF ServeFails
    <2>2. \A c \in Calls : call'[c].status = IF Running(c) THEN "cut" ELSE call[c].status
        BY <1>0, <2>1, CutCalls
    <2> QED
        BY <2>1, <2>2 DEF GraceSound, Alive, Running, CutOnlyAfterGrace
<1>5. CASE BuildFails \/ StartShutdown
    <2>1. /\ main = "loop" /\ main' = "draining" /\ listener' = "closed"
          /\ UNCHANGED <<call, waited>>
        BY <1>5 DEF BuildFails, StartShutdown
    <2>2. waited = 0
        BY <2>1 DEF GraceSound
    <2>3. \A c \in Calls : call[c].age \in Nat
        BY <1>0 DEF CallType
    <2> QED
        BY <1>0, <2>1, <2>2, <2>3 DEF GraceSound, Alive, Running, CutOnlyAfterGrace
<1>6. CASE Exit
    <2>1. /\ main = "draining" /\ main' = "exited" /\ Cut /\ UNCHANGED <<listener, waited>>
          /\ (\A c \in Calls : ~Running(c)) \/ waited = Grace
        BY <1>6 DEF Exit, GraceIsOver
    <2>2. \A c \in Calls : /\ call'[c].age = call[c].age
                          /\ call'[c].status = IF Running(c) THEN "cut" ELSE call[c].status
        BY <1>0, <2>1, CutCalls
    <2>3. \A c \in Calls : call[c].status # "cut" /\ (Running(c) => call[c].age >= waited)
        BY <2>1 DEF GraceSound, Alive
    <2>4. CutOnlyAfterGrace'
        BY <2>1, <2>2, <2>3 DEF CutOnlyAfterGrace
    <2> QED
        BY <2>1, <2>2, <2>4 DEF GraceSound, Alive, Running
<1>7. ASSUME NEW c \in Calls, Arrive(c) \/ Finish(c)
      PROVE  GraceSound'
    <2>1. /\ UNCHANGED <<main, listener, waited>> /\ Alive
          /\ Arrive(c) => listener = "open"
          /\ Finish(c) => Running(c)
        BY <1>7 DEF Arrive, Finish, Accepts
    <2>2. \A d \in Calls \ {c} : call'[d] = call[d]
        BY <1>0, <1>7, OneCall
    <2>3. /\ call'[c].age = call[c].age
          /\ Arrive(c) => call'[c].status \in {"running", "starting up"}
          /\ Finish(c) => call'[c].status = "answered"
        BY <1>0, <1>7, OneCall
    <2>4. \A d \in Calls : call'[d].status # "cut"
        BY <1>7, <2>1, <2>2, <2>3 DEF GraceSound
    <2>5. main = "draining" => \A d \in Calls : Running(d)' => call'[d].age >= waited
        BY <1>7, <2>1, <2>2, <2>3 DEF GraceSound, Running
    <2>6. main # "boot"
        BY <1>7, <2>1 DEF GraceSound
    <2> QED
        BY <2>1, <2>4, <2>5, <2>6 DEF GraceSound, Alive, CutOnlyAfterGrace
<1> QED
    BY <1>1, <1>2, <1>3, <1>4, <1>5, <1>6, <1>7 DEF Next, MainStep

-----------------------------------------------------------------------------
(* Types.                                                                  *)

LEMMA NextTypes ==
    ASSUME TypeOK, RetrySound, [Next]_vars
    PROVE  TypeOK'
<1>1. call' \in [Calls -> CallType]
    <2>0. call \in [Calls -> CallType]
        BY DEF TypeOK
    <2>1. CASE Tick
        BY <2>0, <2>1, TickedCalls
    <2>2. CASE ServeFails \/ Exit
        BY <2>0, <2>2, CutCalls DEF ServeFails, Exit
    <2>3. CASE \E c \in Calls : Arrive(c) \/ Finish(c)
        BY <2>0, <2>3, OneCall
    <2>4. CASE UNCHANGED call
        BY <2>0, <2>4
    <2> QED
        BY <2>1, <2>2, <2>3, <2>4 DEF Next, vars, DatabaseFlips, LockFlips, Signal, Listen, ProbeReads,
           ProbeAnswers, RetryStep, RetryFails, RetryWakes, RetryStops, RetryOpens, MainStep, ServeReady,
           BuildFailsAtBoot, ServeDegraded, BuildRoutes, BuildFails, StoreHandler,
           PublishChecker, StartShutdown
<1>2. probe' \in ProbeType
    <2>1. CASE ProbeReads
        BY <2>1 DEF ProbeReads, TypeOK, ProbeType
    <2>2. CASE ProbeAnswers
        <3> DEFINE ok == probe.copy.migrations /\ probe.copy.oidc
                         /\ probe.copy.ping = "database" /\ dbUp
                   st == IF ok THEN "ready" ELSE "not ready"
        <3>1. st \in {"ready", "not ready"} /\ probe' = [probe EXCEPT !.status = st]
            BY <2>2 DEF ProbeAnswers
        <3> HIDE DEF st
        <3> QED
            BY <3>1 DEF TypeOK, ProbeType
    <2>3. CASE UNCHANGED probe
        BY <2>3 DEF TypeOK
    <2> QED
        BY <2>1, <2>2, <2>3, OutsideKeeps DEF Outside, Next, RetryStep, RetryFails, RetryWakes,
           RetryStops, RetryOpens, MainStep, ServeReady, BuildFailsAtBoot, ServeDegraded, ServeFails,
           BuildRoutes, BuildFails, StoreHandler, PublishChecker, StartShutdown, Exit
<1>3. waited' \in Nat
    <2>1. CASE Tick
        BY <2>1 DEF Tick, TypeOK
    <2> QED
        BY <2>1 DEF TypeOK, Next, vars, DatabaseFlips, LockFlips, Signal, Listen, ProbeReads,
           ProbeAnswers, RetryStep, RetryFails, RetryWakes, RetryStops, RetryOpens, MainStep, ServeReady,
           BuildFailsAtBoot, ServeDegraded, ServeFails, BuildRoutes, BuildFails, StoreHandler,
           PublishChecker, StartShutdown, Exit, Arrive, Finish
<1>4. checker' \in {NotReady, AppReady}
    <2>1. CASE RetryFails
        BY <2>1, TheCheckers DEF RetryFails, RetrySound
    <2> QED
        BY <2>1, OutsideKeeps DEF TypeOK, Outside, Next, ProbeReads, ProbeAnswers, RetryStep,
           RetryWakes, RetryStops, RetryOpens, MainStep, ServeReady, BuildFailsAtBoot, ServeDegraded, ServeFails,
           BuildRoutes, BuildFails, StoreHandler, PublishChecker, StartShutdown, Exit
<1>5. CASE \/ DatabaseFlips \/ LockFlips \/ Signal \/ Tick \/ Listen \/ RetryStep \/ ProbeReads \/ ProbeAnswers
           \/ UNCHANGED vars \/ \E c \in Calls : Arrive(c) \/ Finish(c)
    BY <1>1, <1>2, <1>3, <1>4, <1>5 DEF TypeOK, DatabaseFlips, LockFlips, Signal, Tick, Listen, RetryStep,
       RetryFails, RetryWakes, RetryStops, RetryOpens, ProbeReads, ProbeAnswers, vars, Arrive, Finish
<1>6. CASE MainStep
    BY <1>1, <1>2, <1>3, <1>4, <1>6 DEF TypeOK, MainStep, ServeReady, BuildFailsAtBoot,
       ServeDegraded, ServeFails, BuildRoutes, BuildFails, StoreHandler, PublishChecker,
       StartShutdown, Exit
<1> QED
    BY <1>5, <1>6 DEF Next

-----------------------------------------------------------------------------
(* The theorems.                                                           *)

LEMMA InitIInv ==
    ASSUME Init PROVE IInv
<1>1. TypeOK
    BY DEF Init, TypeOK, CallType, ProbeType
<1>2. RetrySound /\ RoutesSound
    BY TheCheckers DEF Init, RetrySound, RoutesSound
<1>3. GraceSound
    BY DurationAssumption DEF Init, GraceSound, CutOnlyAfterGrace, Running, Alive
<1> QED
    BY <1>1, <1>2, <1>3 DEF IInv

\* The retry is over before its database is used, who sees a checker that is
\* ready finds the routes, and calls under way are as old as the shutdown.
THEOREM Invariance == Spec => []IInv
<1>1. Init => IInv
    BY InitIInv
<1>2. IInv /\ [Next]_vars => IInv'
    BY NextTypes, NextRetry, NextRoutes, NextGrace DEF IInv
<1> QED
    BY <1>1, <1>2, PTL DEF Spec

\* retryOpenUntilReady "never retries again after a success": no failure that it
\* reports replaces the checker of the running application.
THEOREM ReadinessStays == Spec => ReadinessIsKept
<1>1. IInv /\ [Next]_vars => [checker = AppReady => checker' = AppReady]_vars
    <2> SUFFICES ASSUME IInv, [Next]_vars, checker = AppReady PROVE checker' = AppReady
        BY DEF vars
    <2>1. retry # "opening" /\ main # "boot"
        BY TheCheckers DEF IInv, RetrySound
    <2> QED
        BY <2>1, OutsideKeeps DEF Outside, Next, ProbeReads, ProbeAnswers, RetryStep, RetryFails,
           RetryWakes, RetryStops, RetryOpens, MainStep, ServeReady, BuildFailsAtBoot, ServeDegraded, ServeFails,
           BuildRoutes, BuildFails, StoreHandler, PublishChecker, StartShutdown, Exit
<1> QED
    BY <1>1, Invariance, PTL DEF Spec, ReadinessIsKept

\* serveDegradedUntilReady stores the routes before it publishes the checker, so
\* a call that follows a ready /readyz is never answered with 503.
THEOREM ReadyHasRoutes == Spec => ReadyMeansRoutes
<1> DEFINE A == probe.status = "ready" =>
                   \A c \in Calls : call'[c].status = "starting up" => call[c].status = "starting up"
<1>1. IInv /\ [Next]_vars => [A]_vars
    <2> SUFFICES ASSUME IInv, [Next]_vars, probe.status = "ready", NEW c \in Calls,
                        call'[c].status = "starting up"
                 PROVE  call[c].status = "starting up"
        OBVIOUS
    <2>0. handler /\ call \in [Calls -> CallType]
        BY DEF IInv, RoutesSound, TypeOK
    <2>1. CASE Tick
        BY <2>0, <2>1, TickedCalls
    <2>2. CASE ServeFails \/ Exit
        BY <2>0, <2>2, CutCalls DEF ServeFails, Exit
    <2>3. ASSUME NEW d \in Calls, Arrive(d) \/ Finish(d)
          PROVE  call[c].status = "starting up"
        <3>1. d # c
            BY <2>0, <2>3, OneCall
        <3> QED
            BY <2>0, <2>3, <3>1, OneCall
    <2>4. CASE UNCHANGED call
        BY <2>4
    <2> QED
        BY <2>1, <2>2, <2>3, <2>4 DEF Next, vars, DatabaseFlips, LockFlips, Signal, Listen, ProbeReads,
           ProbeAnswers, RetryStep, RetryFails, RetryWakes, RetryStops, RetryOpens, MainStep, ServeReady,
           BuildFailsAtBoot, ServeDegraded, BuildRoutes, BuildFails, StoreHandler,
           PublishChecker, StartShutdown
<1> QED
    BY <1>1, Invariance, PTL DEF Spec, ReadyMeansRoutes

\* shutdown cuts only calls that it has waited its whole grace for.
THEOREM ShutdownWaits == Spec => []CutOnlyAfterGrace
<1>1. IInv => CutOnlyAfterGrace
    BY DEF IInv, GraceSound
<1> QED
    BY <1>1, Invariance, PTL
=============================================================================
