------------------------------ MODULE Monitor -------------------------------
(***************************************************************************)
(* The daemon's ticks (internal/tracker/daemon.go) as the circuit breaker  *)
(* sees them: which call to the Darwin API a tick makes for which route,   *)
(* which outcome it reports to the breaker, and what an outage does to the *)
(* ticks.  The breaker is CircuitBreaker with the daemon as its caller, so *)
(* that a tick waits while the breaker trips and announces the outage.     *)
(*                                                                         *)
(* Of a route only the kind of train cached for it counts; the time of day *)
(* is left open, so a route may be in the live range, or departed, at any  *)
(* turn.  Tracker models what a turn does with the answers.                *)
(***************************************************************************)
EXTENDS CircuitBreaker

CONSTANTS
    Routes,  \* the active routes of the day
    Daemon   \* the goroutine of the daemon

ASSUME DaemonAssumption == Callers = {Daemon}
ASSUME NobodyAssumption == "nobody" \notin Routes

VARIABLES
    service,  \* the train cached for a route: none, from the timetable, live and
              \* near the route's time, or live and further from it
    left,     \* the routes the running tick still has to visit
    turn,     \* the route it is visiting, or "nobody"
    call,     \* the API call it makes for that route, or "none"
    failed    \* ghost: Darwin calls that failed in a row, outside the cooldown

tickVars == <<service, left, turn, call>>
monitorVars == <<vars, tickVars, failed>>

\* Types; and the second search is made only for a train far from the route's time.
MonitorTypeOK ==
    /\ service \in [Routes -> {"none", "timetable", "near", "far"}]
    /\ left \subseteq Routes
    /\ turn \in Routes \cup {"nobody"}
    /\ call \in {"none", "details", "better", "plan", "nearest"}
    /\ failed \in 0..FailureThreshold
    /\ (call = "none") <=> (turn = "nobody")
    /\ call = "better" => service[turn] = "far"
    /\ call \in {"plan", "nearest"} => service[turn] \in {"none", "timetable"}

MonitorInit ==
    /\ Init
    /\ service = [r \in Routes |-> "none"]
    /\ left = {}
    /\ turn = "nobody"
    /\ call = "none"
    /\ failed = 0

\* The daemon's goroutine is in the tick and not inside the breaker.
Ready == caller[Daemon] = "idle"

\* An API call is answered, or fails.  It may fail whatever the state of the API:
\* the service may be unknown to it.  Requests of a cancelled context fail.
Answered == healthy /\ ~cancelled /\ failed' = 0
Failed ==
    failed' = IF state = "UP" /\ ~InCooldown /\ failed < FailureThreshold
              THEN failed + 1 ELSE failed

Live(r) == service[r] \in {"near", "far"}

-----------------------------------------------------------------------------
(* The tick                                                                *)

\* A tick begins by looking at the breaker, and never looks again.
StartTick ==
    /\ Ready /\ left = {} /\ turn = "nobody"
    /\ ~cancelled
    /\ state = "UP"
    /\ left' = Routes
    /\ UNCHANGED <<vars, service, turn, call, failed>>

\* A turn that makes no call to Darwin: the route has departed and its keys are
\* cleared, or it has no live train and is out of the live range, where at most the
\* timetable is fetched, from another API.
PassOver(r) ==
    /\ Ready /\ turn = "nobody"
    /\ r \in left
    /\ left' = left \ {r}
    /\ \/ service' = [service EXCEPT ![r] = "none"]
       \/ ~Live(r) /\ UNCHANGED service
       \/ /\ service[r] = "none"
          /\ service' = [service EXCEPT ![r] = "timetable"]
    /\ UNCHANGED <<vars, turn, call, failed>>

Visit(r) ==
    /\ Ready /\ turn = "nobody"
    /\ r \in left
    /\ left' = left \ {r}
    /\ turn' = r
    /\ call' = IF Live(r) THEN "details" ELSE "plan"
    /\ UNCHANGED <<vars, service, failed>>

\* mutant: a failed check ends the tick, not only the route's turn
StopTick == turn' = "nobody" /\ call' = "none" /\ left' = {}
NextRoute == turn' = "nobody" /\ call' = "none" /\ UNCHANGED left

Then(next) == call' = next /\ UNCHANGED <<turn, left>>

\* mutant: the outcome of the check is dropped
Unreported == UNCHANGED vars
ReportFailure == RecordFailure(Daemon)

\* mutant: the second search is made for every train
AlwaysSearchBetter == Then("better")

\* checkRoute.  Whatever its outcome, checkBetterTrain comes next.
AfterDetails == IF service[turn] = "far" THEN Then("better") ELSE NextRoute

CheckRoute ==
    /\ Ready /\ call = "details"
    /\ \/ Answered /\ RecordSuccess(Daemon)
       \/ Failed /\ ReportFailure
    /\ AfterDetails
    /\ UNCHANGED service

\* checkBetterTrain reports a failure, and no success.
CheckBetterTrain ==
    /\ Ready /\ call = "better"
    /\ \/ Answered /\ service' = [service EXCEPT ![turn] = "near"] /\ UNCHANGED vars
       \/ Answered /\ UNCHANGED <<service, vars>>
       \/ Failed /\ RecordFailure(Daemon) /\ UNCHANGED service
    /\ NextRoute

\* PlanRoute, in tryPlanRoute and in tryTransitionToLive: neither outcome is
\* reported.  Without a match, or without an answer, the former may go on to search
\* for the nearest trains.
PlanRoute ==
    /\ Ready /\ call = "plan"
    /\ \/ /\ Answered
          /\ service' = [service EXCEPT ![turn] = "near"]
          /\ NextRoute
       \/ /\ Answered \/ Failed
          /\ UNCHANGED service
          /\ NextRoute \/ (service[turn] = "none" /\ Then("nearest"))
    /\ UNCHANGED vars

\* trySendTrainChoice: a train not far off is selected at once.
FindNearestTrains ==
    /\ Ready /\ call = "nearest"
    /\ \/ Answered /\ service' = [service EXCEPT ![turn] = "far"]
       \/ (Answered \/ Failed) /\ UNCHANGED service
    /\ NextRoute
    /\ UNCHANGED vars

Tick ==
    \/ StartTick
    \/ \E r \in Routes : PassOver(r) \/ Visit(r)
    \/ CheckRoute \/ CheckBetterTrain \/ PlanRoute \/ FindNearestTrains

-----------------------------------------------------------------------------

\* The breaker's own steps; a recovery ends the run of failures.
BreakerStep ==
    /\ \/ TransitionToDown(Daemon)
       \/ AnnounceDown(Daemon)
       \/ \E h \in Checkers : CheckerStep(h)
       \/ Elapse
       \/ ApiChanges
       \/ Cancel
    /\ failed' = IF state = "DOWN" /\ state' = "UP" THEN 0 ELSE failed
    /\ UNCHANGED tickVars

MonitorNext == Tick \/ BreakerStep

MonitorSpec == MonitorInit /\ [][MonitorNext]_monitorVars

\* The ticker keeps firing, a tick goes on, a pending request ends (the client has a
\* timeout), and time passes.  Nothing is asked of the API or of the shutdown.
MonitorFairness ==
    /\ WF_monitorVars(Tick)
    /\ WF_monitorVars(BreakerStep /\ (TransitionToDown(Daemon) \/ AnnounceDown(Daemon)))
    /\ \A h \in Checkers : WF_monitorVars(BreakerStep /\ CheckerStep(h))
    /\ WF_monitorVars(BreakerStep /\ Elapse)

FairMonitorSpec == MonitorSpec /\ MonitorFairness

-----------------------------------------------------------------------------
(* Properties                                                              *)

\* An outage that lasts while some route has a live train is declared, and stays
\* declared as long as it lasts.  (checkRoute's report, the streak, the cooldown)
OutageNoticed ==
    <>[](~healthy /\ \E r \in Routes : Live(r)) => <>[](state = "DOWN" \/ cancelled)

\* Once the API stays healthy every route gets its turn again and again, even though
\* single checks may go on failing and trip the breaker.
MonitoringResumes ==
    <>[]healthy /\ []~cancelled =>
        \A r \in Routes : []<><<PassOver(r) \/ Visit(r)>>_monitorVars

\* As the README has it: when as many Darwin calls in a row have failed as the
\* threshold says, the API is taken for down.
FailuresTrip == failed >= FailureThreshold /\ Ready => state = "DOWN" \/ cancelled
=============================================================================
