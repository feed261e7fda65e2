---------------------------- MODULE MonitorProofs ----------------------------
(***************************************************************************)
(* Theorems about Monitor: the daemon uses the breaker as a caller may,    *)
(* so what is proved of the breaker holds of the daemon's outages, for any *)
(* number of routes, any threshold and any cooldown.                       *)
(***************************************************************************)
EXTENDS Monitor, CircuitBreakerProofs

\* A step of a tick is a report of the daemon, or leaves the breaker alone.
LEMMA TickIsCaller == Tick => [Next]_vars
<1>0. Daemon \in Callers
  BY DaemonAssumption
<1>1. StartTick => UNCHANGED vars
  BY DEF StartTick
<1>2. ASSUME NEW r \in Routes, PassOver(r) \/ Visit(r) PROVE UNCHANGED vars
  BY <1>2 DEF PassOver, Visit
<1>3. CheckRoute => Next
  BY <1>0 DEF CheckRoute, ReportFailure, Next, CallerStep
<1>4. CheckBetterTrain => [Next]_vars
  BY <1>0 DEF CheckBetterTrain, Next, CallerStep
<1>5. PlanRoute \/ FindNearestTrains => UNCHANGED vars
  BY DEF PlanRoute, FindNearestTrains
<1> QED
  BY <1>1, <1>2, <1>3, <1>4, <1>5 DEF Tick

\* So is every step of the composition.
LEMMA MonitorStep == [MonitorNext]_monitorVars => [Next]_vars
<1>1. BreakerStep => Next
  <2>1. Daemon \in Callers
    BY DaemonAssumption
  <2> QED
    BY <2>1 DEF BreakerStep, Next, CallerStep
<1>2. UNCHANGED monitorVars => UNCHANGED vars
  BY DEF monitorVars
<1> QED
  BY <1>1, <1>2, TickIsCaller DEF MonitorNext

\* The composition of daemon and breaker behaves, as far as the breaker goes, as the
\* breaker's specification allows: the daemon reports outcomes only when it is not
\* inside the breaker.
THEOREM MonitorUsesBreaker == MonitorSpec => Spec
<1>1. MonitorInit => Init
  BY DEF MonitorInit
<1> QED
  BY <1>1, MonitorStep, PTL DEF MonitorSpec, Spec

LEMMA OnlyTheDaemonCalls == SingleCaller
BY DaemonAssumption DEF SingleCaller

\* In the program, an outage is never declared within the cooldown of the last
\* recovery: the assumption of a single caller is discharged by the daemon.
THEOREM MonitorNoFlapping == MonitorSpec => NoFlapping
BY MonitorUsesBreaker, CooldownHolds, OnlyTheDaemonCalls, PTL

\* Nor without a full streak of failures of the calls the daemon reports.
THEOREM MonitorTripsOnStreak == MonitorSpec => TripsOnStreak
BY MonitorUsesBreaker, StreakNeeded, OnlyTheDaemonCalls, PTL

\* In the program an outage, in which every tick is skipped, is always watched by
\* the health check that ends it, or about to be.
THEOREM MonitorNeverOrphaned == MonitorSpec => []NoOrphanOutage
BY MonitorUsesBreaker, OutageIsWatched, PTL

\* In the program the last outage message the users hold is true, whenever broadcasts
\* are delivered and the recovery is followed by a cooldown (five minutes).
THEOREM MonitorLastWord ==
  ASSUME RecoveryCooldown > 0
  PROVE  MonitorSpec => []LastWordIsTrue
<1>1. Spec => []LastWordIsTrue
  BY LastWordHolds, OnlyTheDaemonCalls
<1> QED
  BY MonitorUsesBreaker, <1>1, PTL

-----------------------------------------------------------------------------
(* Types of the tick                                                       *)

LEMMA FailedType ==
  ASSUME MonitorTypeOK, Failed
  PROVE  failed' \in 0..FailureThreshold
BY ThresholdAssumption DEF MonitorTypeOK, Failed

LEMMA MonitorInitType == MonitorInit => MonitorTypeOK
BY ThresholdAssumption DEF MonitorInit, MonitorTypeOK

LEMMA MonitorNextType == MonitorTypeOK /\ [MonitorNext]_monitorVars => MonitorTypeOK'
<1> SUFFICES ASSUME MonitorTypeOK, [MonitorNext]_monitorVars PROVE MonitorTypeOK'
  OBVIOUS
<1> USE ThresholdAssumption, NobodyAssumption DEF MonitorTypeOK, Live
<1>1. CASE StartTick
  BY <1>1 DEF StartTick
<1>2. ASSUME NEW r \in Routes, PassOver(r) PROVE MonitorTypeOK'
  BY <1>2 DEF PassOver
<1>3. ASSUME NEW r \in Routes, Visit(r) PROVE MonitorTypeOK'
  BY <1>3 DEF Visit
<1>4. CASE CheckRoute
  <2>1. failed' \in 0..FailureThreshold
    BY <1>4, FailedType DEF CheckRoute, Answered
  <2> QED
    BY <1>4, <2>1 DEF CheckRoute, AfterDetails, Then, NextRoute
<1>5. CASE CheckBetterTrain
  <2>1. failed' \in 0..FailureThreshold
    BY <1>5, FailedType DEF CheckBetterTrain, Answered
  <2>2. service' \in [Routes -> {"none", "timetable", "near", "far"}]
    BY <1>5 DEF CheckBetterTrain
  <2> QED
    BY <1>5, <2>1, <2>2 DEF CheckBetterTrain, NextRoute
<1>6. CASE PlanRoute
  <2>1. failed' \in 0..FailureThreshold
    BY <1>6, FailedType DEF PlanRoute, Answered
  <2>2. service' \in [Routes -> {"none", "timetable", "near", "far"}]
    BY <1>6 DEF PlanRoute
  <2> QED
    BY <1>6, <2>1, <2>2 DEF PlanRoute, NextRoute, Then
<1>7. CASE FindNearestTrains
  <2>1. failed' \in 0..FailureThreshold
    BY <1>7, FailedType DEF FindNearestTrains, Answered
  <2>2. service' \in [Routes -> {"none", "timetable", "near", "far"}]
    BY <1>7 DEF FindNearestTrains
  <2> QED
    BY <1>7, <2>1, <2>2 DEF FindNearestTrains, NextRoute
<1>8. CASE BreakerStep
  BY <1>8 DEF BreakerStep, tickVars
<1>9. CASE UNCHANGED monitorVars
  BY <1>9 DEF monitorVars, tickVars
<1> QED
  BY <1>1, <1>2, <1>3, <1>4, <1>5, <1>6, <1>7, <1>8, <1>9 DEF MonitorNext, Tick

\* Type correctness of the tick, with the fact that a better train is searched for
\* only when the one tracked is far from the route's time.
THEOREM MonitorTypeCorrect == MonitorSpec => []MonitorTypeOK
BY MonitorInitType, MonitorNextType, PTL DEF MonitorSpec
=============================================================================
