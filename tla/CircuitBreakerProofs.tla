------------------------ MODULE CircuitBreakerProofs ------------------------
(***************************************************************************)
(* Theorems about CircuitBreaker, for any sets of callers and health-check *)
(* slots, any threshold and any cooldown.                                  *)
(***************************************************************************)
EXTENDS CircuitBreaker, TLAPS

\* What ties a caller to the breaker when it is the only one: a decision to trip
\* is still valid when it is carried out, and an idle caller sees a counter that
\* is below the threshold unless the API is down.
SoleCallerInv ==
    \A c \in Callers :
        /\ caller[c] = "tripping" => /\ state = "UP"
                                     /\ ~InCooldown
                                     /\ consecutiveFails >= FailureThreshold
        /\ caller[c] = "idle" /\ state = "UP" => consecutiveFails < FailureThreshold

\* The counter counts no failure that the caller did not report.
CounterInv == SingleCaller => consecutiveFails <= streak

IndInv ==
    /\ TypeOK
    /\ NoOrphanOutage
    /\ OneWatcher
    /\ SingleCaller => SoleCallerInv
    /\ CounterInv

USE DEF Watched, Watcher, Watching

\* The breaker starts in the invariant.
LEMMA InitIndInv == Init => IndInv
<1> SUFFICES ASSUME Init PROVE IndInv
  OBVIOUS
<1>1. TypeOK
  <2>1. /\ sinceRecovery \in 0..RecoveryCooldown
        /\ streak \in 0..FailureThreshold
        /\ consecutiveFails \in Nat
        /\ consecutiveFails <= FailureThreshold
    BY ThresholdAssumption, CooldownAssumption DEF Init
  <2> QED
    BY <2>1 DEF Init, TypeOK
<1>2. NoOrphanOutage /\ OneWatcher
  <2>1. \A c \in Callers : ~Watcher(c)
    BY DEF Init
  <2>2. \A h \in Checkers : ~Watching(h)
    BY DEF Init
  <2> QED
    BY <2>1, <2>2 DEF Init, NoOrphanOutage, OneWatcher
<1>3. SoleCallerInv /\ CounterInv
  BY ThresholdAssumption DEF Init, SoleCallerInv, CounterInv
<1> QED
  BY <1>1, <1>2, <1>3 DEF IndInv

\* Every step keeps the types: shown apart, as the other steps rely on it.
LEMMA NextTypeOK == IndInv /\ [Next]_vars => TypeOK'
<1> SUFFICES ASSUME IndInv, [Next]_vars PROVE TypeOK'
  OBVIOUS
<1> USE ThresholdAssumption, CooldownAssumption DEF IndInv, TypeOK
<1>1. ASSUME NEW c \in Callers, RecordSuccess(c) PROVE TypeOK'
  BY <1>1 DEF RecordSuccess
<1>2. ASSUME NEW c \in Callers, IgnoreFailure(c) PROVE TypeOK'
  BY <1>2 DEF IgnoreFailure, ExtendStreak
<1>3. ASSUME NEW c \in Callers, CountFailure(c) PROVE TypeOK'
  BY <1>3 DEF CountFailure, ExtendStreak, ShouldTrip, SoleCallerInv, SingleCaller
<1>4. ASSUME NEW c \in Callers, TransitionToDown(c) PROVE TypeOK'
  BY <1>4 DEF TransitionToDown
<1>5. ASSUME NEW c \in Callers, AnnounceDown(c) PROVE TypeOK'
  BY <1>5 DEF AnnounceDown, BroadcastSilent, Spawn
<1>6. ASSUME NEW h \in Checkers, HealthPing(h) PROVE TypeOK'
  BY <1>6 DEF HealthPing
<1>7. ASSUME NEW h \in Checkers, TransitionToUp(h) PROVE TypeOK'
  BY <1>7 DEF TransitionToUp, FailsAfterRecovery
<1>8. ASSUME NEW h \in Checkers, AnnounceUp(h) PROVE TypeOK'
  BY <1>8 DEF AnnounceUp, BroadcastSilent
<1>9. ASSUME NEW h \in Checkers, StopHealthCheck(h) PROVE TypeOK'
  BY <1>9 DEF StopHealthCheck
<1>10. CASE Elapse
  BY <1>10 DEF Elapse
<1>11. CASE ApiChanges
  BY <1>11 DEF ApiChanges
<1>12. CASE Cancel
  BY <1>12 DEF Cancel
<1>13. CASE UNCHANGED vars
  BY <1>13 DEF vars
<1> QED
  BY <1>1, <1>2, <1>3, <1>4, <1>5, <1>6, <1>7, <1>8, <1>9, <1>10, <1>11, <1>12, <1>13
     DEF Next, CallerStep, CheckerStep, RecordFailure

\* Every step keeps the watch over an outage: somebody watches it, and only one does.
LEMMA NextWatch == IndInv /\ [Next]_vars => (NoOrphanOutage /\ OneWatcher)'
<1> SUFFICES ASSUME IndInv, [Next]_vars PROVE (NoOrphanOutage /\ OneWatcher)'
  OBVIOUS
<1> USE DEF IndInv, TypeOK, NoOrphanOutage, OneWatcher
<1>1. ASSUME NEW c \in Callers, RecordSuccess(c) PROVE (NoOrphanOutage /\ OneWatcher)'
  BY <1>1 DEF RecordSuccess
<1>2. ASSUME NEW c \in Callers, IgnoreFailure(c) PROVE (NoOrphanOutage /\ OneWatcher)'
  BY <1>2 DEF IgnoreFailure
<1>3. ASSUME NEW c \in Callers, CountFailure(c) PROVE (NoOrphanOutage /\ OneWatcher)'
  BY <1>3 DEF CountFailure
<1>4. ASSUME NEW c \in Callers, TransitionToDown(c) PROVE (NoOrphanOutage /\ OneWatcher)'
  BY <1>4 DEF TransitionToDown, AlreadyDown
<1>5. ASSUME NEW c \in Callers, AnnounceDown(c) PROVE (NoOrphanOutage /\ OneWatcher)'
  BY <1>5 DEF AnnounceDown, Spawn
<1>6. ASSUME NEW h \in Checkers, HealthPing(h) PROVE (NoOrphanOutage /\ OneWatcher)'
  BY <1>6 DEF HealthPing
<1>7. ASSUME NEW h \in Checkers, TransitionToUp(h) PROVE (NoOrphanOutage /\ OneWatcher)'
  BY <1>7 DEF TransitionToUp
<1>8. ASSUME NEW h \in Checkers, AnnounceUp(h) PROVE (NoOrphanOutage /\ OneWatcher)'
  BY <1>8 DEF AnnounceUp
<1>9. ASSUME NEW h \in Checkers, StopHealthCheck(h) PROVE (NoOrphanOutage /\ OneWatcher)'
  BY <1>9 DEF StopHealthCheck
<1>10. CASE Elapse
  BY <1>10 DEF Elapse
<1>11. CASE ApiChanges
  BY <1>11 DEF ApiChanges
<1>12. CASE Cancel
  BY <1>12 DEF Cancel
<1>13. CASE UNCHANGED vars
  BY <1>13 DEF vars
<1> QED
  BY <1>1, <1>2, <1>3, <1>4, <1>5, <1>6, <1>7, <1>8, <1>9, <1>10, <1>11, <1>12, <1>13
     DEF Next, CallerStep, CheckerStep, RecordFailure

\* Every step keeps what a single caller relies on.
LEMMA NextSoleCaller == IndInv /\ [Next]_vars /\ SingleCaller => (SoleCallerInv /\ CounterInv)'
<1> SUFFICES ASSUME IndInv, [Next]_vars, SingleCaller PROVE (SoleCallerInv /\ CounterInv)'
  OBVIOUS
<1> USE ThresholdAssumption, CooldownAssumption
    DEF IndInv, TypeOK, SoleCallerInv, CounterInv, InCooldown, SingleCaller
<1>1. ASSUME NEW c \in Callers, RecordSuccess(c) PROVE (SoleCallerInv /\ CounterInv)'
  BY <1>1 DEF RecordSuccess
<1>2. ASSUME NEW c \in Callers, IgnoreFailure(c) PROVE (SoleCallerInv /\ CounterInv)'
  BY <1>2 DEF IgnoreFailure, ExtendStreak
<1>3. ASSUME NEW c \in Callers, CountFailure(c) PROVE (SoleCallerInv /\ CounterInv)'
  BY <1>3 DEF CountFailure, ExtendStreak, ShouldTrip
<1>4. ASSUME NEW c \in Callers, TransitionToDown(c) PROVE (SoleCallerInv /\ CounterInv)'
  BY <1>4 DEF TransitionToDown, AlreadyDown
<1>5. ASSUME NEW c \in Callers, AnnounceDown(c) PROVE (SoleCallerInv /\ CounterInv)'
  BY <1>5 DEF AnnounceDown, OneWatcher
<1>6. ASSUME NEW h \in Checkers, HealthPing(h) PROVE (SoleCallerInv /\ CounterInv)'
  BY <1>6 DEF HealthPing
<1>7. ASSUME NEW h \in Checkers, TransitionToUp(h) PROVE (SoleCallerInv /\ CounterInv)'
  BY <1>7 DEF TransitionToUp, FailsAfterRecovery, OneWatcher
<1>8. ASSUME NEW h \in Checkers, AnnounceUp(h) PROVE (SoleCallerInv /\ CounterInv)'
  BY <1>8 DEF AnnounceUp
<1>9. ASSUME NEW h \in Checkers, StopHealthCheck(h) PROVE (SoleCallerInv /\ CounterInv)'
  BY <1>9 DEF StopHealthCheck
<1>10. CASE Elapse
  BY <1>10 DEF Elapse
<1>11. CASE ApiChanges
  BY <1>11 DEF ApiChanges
<1>12. CASE Cancel
  BY <1>12 DEF Cancel
<1>13. CASE UNCHANGED vars
  BY <1>13 DEF vars
<1> QED
  BY <1>1, <1>2, <1>3, <1>4, <1>5, <1>6, <1>7, <1>8, <1>9, <1>10, <1>11, <1>12, <1>13
     DEF Next, CallerStep, CheckerStep, RecordFailure

\* The invariant is inductive.
LEMMA NextIndInv == IndInv /\ [Next]_vars => IndInv'
  BY NextTypeOK, NextWatch, NextSoleCaller DEF IndInv, CounterInv

THEOREM Invariance == Spec => []IndInv
<1>1. Init => IndInv
  BY InitIndInv
<1>2. IndInv /\ [Next]_vars => IndInv'
  BY NextIndInv
<1> QED
  BY <1>1, <1>2, PTL DEF Spec

\* The breaker's fields keep their types, and a single caller's counter never exceeds
\* the threshold.
THEOREM TypeCorrect == Spec => []TypeOK
<1>1. IndInv => TypeOK
  BY DEF IndInv
<1> QED
  BY Invariance, <1>1, PTL

\* No outage is left without somebody who will end it, whatever the number of callers
\* and however their steps interleave with the health check's.
THEOREM OutageIsWatched == Spec => []NoOrphanOutage
<1>1. IndInv => NoOrphanOutage
  BY DEF IndInv
<1> QED
  BY Invariance, <1>1, PTL

\* No outage has two health checks, and none runs while the API is up.
THEOREM OutageHasOneWatcher == Spec => []OneWatcher
<1>1. IndInv => OneWatcher
  BY DEF IndInv
<1> QED
  BY Invariance, <1>1, PTL

\* Under one caller a step that declares an outage is that caller's transition.
LEMMA TripStep ==
  ASSUME IndInv, [Next]_vars, state = "UP", state' = "DOWN"
  PROVE  \E c \in Callers : caller[c] = "tripping"
<1>1. \A c \in Callers : CallerStep(c) => TransitionToDown(c)
  BY DEF CallerStep, RecordSuccess, RecordFailure, IgnoreFailure, CountFailure, AnnounceDown
<1>2. \A h \in Checkers : ~CheckerStep(h)
  BY DEF CheckerStep, HealthPing, TransitionToUp, AnnounceUp, StopHealthCheck
<1>3. ~Elapse /\ ~ApiChanges /\ ~Cancel /\ ~UNCHANGED vars
  BY DEF Elapse, ApiChanges, Cancel, vars
<1> QED
  BY <1>1, <1>2, <1>3 DEF Next, TransitionToDown

\* With one caller, as in the program, the cooldown holds at the moment of the
\* transition, although it was tested in an earlier step.
THEOREM CooldownHolds ==
  ASSUME SingleCaller
  PROVE  Spec => NoFlapping
<1>1. IndInv /\ [Next]_vars
          => (state = "UP" /\ state' = "DOWN" => sinceRecovery >= RecoveryCooldown)
  BY TripStep, CooldownAssumption DEF IndInv, SoleCallerInv, InCooldown, TypeOK
<1> QED
  BY Invariance, <1>1, PTL DEF Spec, NoFlapping

\* With one caller, an outage is declared only after a full streak of failures.
THEOREM StreakNeeded ==
  ASSUME SingleCaller
  PROVE  Spec => TripsOnStreak
<1>1. IndInv /\ [Next]_vars => (state = "UP" /\ state' = "DOWN" => streak >= FailureThreshold)
  BY TripStep, ThresholdAssumption DEF IndInv, SoleCallerInv, CounterInv, TypeOK
<1> QED
  BY Invariance, <1>1, PTL DEF Spec, TripsOnStreak

-----------------------------------------------------------------------------
(* What the users are told of an outage                                    *)

\* While a recovery is being announced the caller is idle, for the cooldown keeps
\* its failures from counting: the announcement cannot fall behind the next outage's.
QuietRecovery ==
    ReliableBroadcasts =>
        \A h \in Checkers : checker[h] = "announcing" =>
            /\ state = "UP"
            /\ sinceRecovery = 0
            /\ \A c \in Callers : caller[c] = "idle"

\* With it the last word is inductive.
WordInv == QuietRecovery /\ LastWordIsTrue

\* A broadcast to the end leaves its message with the users.
LEMMA Delivered ==
  ASSUME NEW message, BroadcastSilent(message), ReliableBroadcasts, ~cancelled
  PROVE  told' = message
BY DEF BroadcastSilent

\* Every step of a single caller and its health check keeps WordInv.
LEMMA NextWordInv ==
  ASSUME SingleCaller, RecoveryCooldown > 0
  PROVE  IndInv /\ IndInv' /\ WordInv /\ [Next]_vars => WordInv'
<1> SUFFICES ASSUME IndInv, IndInv', WordInv, [Next]_vars PROVE WordInv'
  OBVIOUS
<1>1. SoleCallerInv
  BY DEF IndInv
<1> USE CooldownAssumption, <1>1 DEF IndInv, TypeOK, WordInv, QuietRecovery, LastWordIsTrue
<1>2. ASSUME NEW c \in Callers, RecordSuccess(c) PROVE WordInv'
  BY <1>2 DEF RecordSuccess
<1>3. ASSUME NEW c \in Callers, IgnoreFailure(c) PROVE WordInv'
  BY <1>3 DEF IgnoreFailure
<1>4. ASSUME NEW c \in Callers, CountFailure(c) PROVE WordInv'
  <2>1. ReliableBroadcasts => \A h \in Checkers : checker[h] # "announcing"
    BY <1>4 DEF CountFailure, InCooldown
  <2> QED
    BY <1>4, <2>1 DEF CountFailure
<1>5. ASSUME NEW c \in Callers, TransitionToDown(c) PROVE WordInv'
  <2>1. state = "UP" /\ caller' = [caller EXCEPT ![c] = "announcing"]
    BY <1>5 DEF TransitionToDown, AlreadyDown, SoleCallerInv
  <2>2. ReliableBroadcasts => \A h \in Checkers : checker[h] # "announcing"
    BY <1>5 DEF TransitionToDown
  <2> QED
    BY <1>5, <2>1, <2>2 DEF TransitionToDown
<1>6. ASSUME NEW c \in Callers, AnnounceDown(c) PROVE WordInv'
  <2>1. state = "DOWN" /\ state' = "DOWN"
    BY <1>6 DEF AnnounceDown, OneWatcher
  <2>2. \A h \in Checkers : checker'[h] = "announcing" => checker[h] = "announcing"
    BY <1>6 DEF AnnounceDown, Spawn
  <2>3. ReliableBroadcasts /\ ~cancelled => told' = "DOWN"
    BY <1>6, Delivered DEF AnnounceDown
  <2> QED
    BY <1>6, <2>1, <2>2, <2>3 DEF AnnounceDown
<1>7. ASSUME NEW h \in Checkers, HealthPing(h) PROVE WordInv'
  BY <1>7 DEF HealthPing
<1>8. ASSUME NEW h \in Checkers, TransitionToUp(h) PROVE WordInv'
  <2>1. state = "DOWN"
    BY <1>8 DEF TransitionToUp, OneWatcher
  <2>2. \A c \in Callers : caller[c] = "idle"
    BY <1>8, <2>1 DEF OneWatcher, SoleCallerInv, TransitionToUp
  <2> QED
    BY <1>8, <2>2 DEF TransitionToUp
<1>9. ASSUME NEW h \in Checkers, AnnounceUp(h) PROVE WordInv'
  <2>1. ReliableBroadcasts => state' = "UP"
    BY <1>9 DEF AnnounceUp
  <2>2. ReliableBroadcasts /\ ~cancelled => told' = "UP"
    BY <1>9, Delivered DEF AnnounceUp
  <2> QED
    BY <1>9, <2>1, <2>2 DEF AnnounceUp
<1>10. ASSUME NEW h \in Checkers, StopHealthCheck(h) PROVE WordInv'
  BY <1>10 DEF StopHealthCheck
<1>11. CASE Elapse
  BY <1>11 DEF Elapse
<1>12. CASE ApiChanges
  BY <1>12 DEF ApiChanges
<1>13. CASE Cancel
  BY <1>13 DEF Cancel
<1>14. CASE UNCHANGED vars
  BY <1>14 DEF vars
<1> QED
  BY <1>2, <1>3, <1>4, <1>5, <1>6, <1>7, <1>8, <1>9, <1>10, <1>11, <1>12, <1>13, <1>14
     DEF Next, CallerStep, CheckerStep, RecordFailure

\* With one caller and a cooldown, the last word the users hold is true: no recovery
\* message overtakes the next outage's, nor the other way round.
THEOREM LastWordHolds ==
  ASSUME SingleCaller, RecoveryCooldown > 0
  PROVE  Spec => []LastWordIsTrue
<1>1. Init => WordInv
  BY DEF Init, WordInv, QuietRecovery, LastWordIsTrue
<1>2. IndInv /\ IndInv' /\ WordInv /\ [Next]_vars => WordInv'
  BY NextWordInv
<1>3. WordInv => LastWordIsTrue
  BY DEF WordInv
<1> QED
  BY <1>1, <1>2, <1>3, Invariance, PTL DEF Spec

-----------------------------------------------------------------------------
(* The abstract specification                                              *)

\* The breaker implements the abstract outage protocol: a transition is a Trip, a
\* recovery a Recover, a health check or caller that finds the context cancelled a
\* GiveUp, and every other step a stutter.
THEOREM Refinement == Spec => ImplementsOutage
<1> USE DEF OutageProtocol!vars, OutageProtocol!Next
<1>1. Init => OutageProtocol!Init
  <2> SUFFICES ASSUME Init PROVE OutageProtocol!Init
    OBVIOUS
  <2>1. ~Watched
    BY DEF Init
  <2> QED
    BY <2>1 DEF Init, OutageProtocol!Init
<1>2. IndInv /\ IndInv' /\ [Next]_vars => [OutageProtocol!Next]_(OutageProtocol!vars)
  <2> SUFFICES ASSUME IndInv, IndInv', [Next]_vars
               PROVE  OutageProtocol!Next \/ UNCHANGED OutageProtocol!vars
    OBVIOUS
  <2> USE DEF IndInv, TypeOK, NoOrphanOutage, OneWatcher
  <2>1. ASSUME NEW c \in Callers, RecordSuccess(c) PROVE UNCHANGED OutageProtocol!vars
    BY <2>1 DEF RecordSuccess
  <2>2. ASSUME NEW c \in Callers, IgnoreFailure(c) PROVE UNCHANGED OutageProtocol!vars
    BY <2>2 DEF IgnoreFailure
  <2>3. ASSUME NEW c \in Callers, CountFailure(c) PROVE UNCHANGED OutageProtocol!vars
    BY <2>3 DEF CountFailure
  <2>4. ASSUME NEW c \in Callers, TransitionToDown(c)
        PROVE  OutageProtocol!Next \/ UNCHANGED OutageProtocol!vars
    <3>1. CASE state = "UP"
      BY <2>4, <3>1 DEF TransitionToDown, AlreadyDown, OutageProtocol!Trip
    <3>2. CASE state = "DOWN"
      BY <2>4, <3>2 DEF TransitionToDown, AlreadyDown
    <3> QED
      BY <3>1, <3>2
  <2>5. ASSUME NEW c \in Callers, AnnounceDown(c)
        PROVE  OutageProtocol!Next \/ UNCHANGED OutageProtocol!vars
    <3>1. CASE cancelled
      BY <2>5, <3>1 DEF AnnounceDown, Spawn, OutageProtocol!GiveUp
    <3>2. CASE ~cancelled
      BY <2>5, <3>2 DEF AnnounceDown, Spawn
    <3> QED
      BY <3>1, <3>2
  <2>6. ASSUME NEW h \in Checkers, HealthPing(h) PROVE UNCHANGED OutageProtocol!vars
    BY <2>6 DEF HealthPing
  <2>7. ASSUME NEW h \in Checkers, TransitionToUp(h) PROVE OutageProtocol!Next
    BY <2>7 DEF TransitionToUp, OutageProtocol!Recover
  <2>8. ASSUME NEW h \in Checkers, AnnounceUp(h) PROVE UNCHANGED OutageProtocol!vars
    BY <2>8 DEF AnnounceUp
  <2>9. ASSUME NEW h \in Checkers, StopHealthCheck(h) PROVE OutageProtocol!Next
    BY <2>9 DEF StopHealthCheck, OutageProtocol!GiveUp
  <2>10. CASE Elapse
    BY <2>10 DEF Elapse
  <2>11. CASE ApiChanges
    BY <2>11 DEF ApiChanges
  <2>12. CASE Cancel
    BY <2>12 DEF Cancel, OutageProtocol!Stop
  <2>13. CASE UNCHANGED vars
    BY <2>13 DEF vars
  <2> QED
    BY <2>1, <2>2, <2>3, <2>4, <2>5, <2>6, <2>7, <2>8, <2>9, <2>10, <2>11, <2>12, <2>13
       DEF Next, CallerStep, CheckerStep, RecordFailure
<1> QED
  BY <1>1, <1>2, Invariance, PTL DEF Spec, ImplementsOutage, OutageProtocol!Spec
=============================================================================
