--------------------------- MODULE CircuitBreaker ---------------------------
(***************************************************************************)
(* internal/tracker/circuit.go.  Goroutines that use the train API report  *)
(* each outcome to the breaker (RecordSuccess, RecordFailure).  The        *)
(* mutex protects single reads and writes of its fields, not whole         *)
(* operations: the decision to trip, the transition, the broadcast and     *)
(* the start of the health check are separate steps of the caller, and     *)
(* the ping, the recovery and its broadcast separate steps of the health   *)
(* check.  One action below is one of these steps.                         *)
(*                                                                         *)
(* Time: only the distance from the last recovery matters, and only up to  *)
(* the cooldown, so the clock is sinceRecovery, saturated there.  The      *)
(* zero lastRecovery of a new breaker is the saturated value, as both      *)
(* let failures count.  When the health ticker fires is left open.         *)
(***************************************************************************)
EXTENDS Naturals

CONSTANTS
    Callers,            \* goroutines that report API outcomes
    Checkers,           \* slots for health-check goroutines alive at one time (a bound)
    FailureThreshold,   \* failureThreshold
    RecoveryCooldown,   \* recoveryCooldown, in clock units
    ReliableBroadcasts  \* every broadcast is delivered, and done before the cooldown ends

ASSUME ThresholdAssumption == FailureThreshold \in Nat \ {0}
ASSUME CooldownAssumption  == RecoveryCooldown \in Nat
ASSUME BroadcastAssumption == ReliableBroadcasts \in BOOLEAN

VARIABLES
    state,             \* "UP" or "DOWN"
    consecutiveFails,
    sinceRecovery,     \* time since lastRecovery, at most RecoveryCooldown
    caller,            \* what each caller is doing
    checker,           \* what each health-check goroutine is doing
    cancelled,         \* the root context is cancelled: shutdown has begun
    healthy,           \* environment: does a health ping succeed now?
    streak,            \* ghost: failures reported in a row, since any success or recovery
    told               \* ghost: the last outage message the users received

vars == <<state, consecutiveFails, sinceRecovery, caller, checker, cancelled,
          healthy, streak, told>>

SingleCaller == \A c, d \in Callers : c = d

\* Types; and with a single caller the counter never exceeds the threshold ("counter
\* frozen at 3" in TestRecordFailureWhileDown).
TypeOK ==
    /\ state \in {"UP", "DOWN"}
    /\ consecutiveFails \in Nat
    /\ SingleCaller => consecutiveFails <= FailureThreshold
    /\ sinceRecovery \in 0..RecoveryCooldown
    /\ caller \in [Callers -> {"idle", "tripping", "announcing"}]
    /\ checker \in [Checkers -> {"off", "waiting", "recovering", "announcing"}]
    /\ cancelled \in BOOLEAN
    /\ healthy \in BOOLEAN
    /\ streak \in 0..FailureThreshold
    /\ told \in {"UP", "DOWN"}

Init ==
    /\ state = "UP"
    /\ consecutiveFails = 0
    /\ sinceRecovery = RecoveryCooldown
    /\ caller = [c \in Callers |-> "idle"]
    /\ checker = [h \in Checkers |-> "off"]
    /\ cancelled = FALSE
    /\ healthy = TRUE
    /\ streak = 0
    /\ told = "UP"

-----------------------------------------------------------------------------
(* Reporting an outcome                                                    *)

RecordSuccess(c) ==
    /\ caller[c] = "idle"
    /\ consecutiveFails' = 0
    /\ streak' = 0
    /\ UNCHANGED <<state, sinceRecovery, caller, checker, cancelled, healthy, told>>

NoCooldown == FALSE   \* mutant: the cooldown is forgotten
InCooldown == sinceRecovery < RecoveryCooldown

TripOneEarly(fails) == fails + 1 >= FailureThreshold   \* mutant: off by one
ShouldTrip(fails) == fails >= FailureThreshold

\* The ghost of a reported failure, whatever the breaker makes of it.
ExtendStreak == streak' = IF streak < FailureThreshold THEN streak + 1 ELSE streak

\* The early returns: the API is already down, or it has only just recovered.
IgnoreFailure(c) ==
    /\ caller[c] = "idle"
    /\ state = "DOWN" \/ InCooldown
    /\ ExtendStreak
    /\ UNCHANGED <<state, consecutiveFails, sinceRecovery, caller, checker, cancelled,
                   healthy, told>>

\* The failure counts.  Whether to trip is decided under the lock; the
\* transition takes the lock again, in a later step.
CountFailure(c) ==
    /\ caller[c] = "idle"
    /\ state = "UP" /\ ~InCooldown
    /\ consecutiveFails' = consecutiveFails + 1
    /\ caller' = [caller EXCEPT ![c] = IF ShouldTrip(consecutiveFails + 1)
                                       THEN "tripping" ELSE "idle"]
    /\ ExtendStreak
    /\ UNCHANGED <<state, sinceRecovery, checker, cancelled, healthy, told>>

RecordFailure(c) == IgnoreFailure(c) \/ CountFailure(c)

-----------------------------------------------------------------------------
(* Going down                                                              *)

\* Another caller may have set the state since the decision was taken.
NoSecondCheck == FALSE   \* mutant: transitionToDown does not look again
AlreadyDown == state = "DOWN"

TransitionToDown(c) ==
    /\ caller[c] = "tripping"
    /\ state' = "DOWN"
    /\ caller' = [caller EXCEPT ![c] = IF AlreadyDown THEN "idle" ELSE "announcing"]
    /\ UNCHANGED <<consecutiveFails, sinceRecovery, checker, cancelled, healthy, streak, told>>

\* broadcastSilent: nobody is told when the chat ids cannot be read (as with a
\* cancelled context) or every send fails.
BroadcastSilent(message) ==
    \/ /\ ~cancelled
       /\ told' = message
    \/ /\ ReliableBroadcasts => cancelled
       /\ told' = told

\* A new health-check goroutine, unless the context is cancelled.
NoSpawn == UNCHANGED checker   \* mutant: the health check is never started
Spawn ==
    IF cancelled
    THEN UNCHANGED checker
    ELSE \E h \in Checkers :
            /\ checker[h] = "off"
            /\ checker' = [checker EXCEPT ![h] = "waiting"]

\* The caller's broadcast returns and it goes on to start the health check.
AnnounceDown(c) ==
    /\ caller[c] = "announcing"
    /\ BroadcastSilent("DOWN")
    /\ Spawn
    /\ caller' = [caller EXCEPT ![c] = "idle"]
    /\ UNCHANGED <<state, consecutiveFails, sinceRecovery, cancelled, healthy, streak>>

-----------------------------------------------------------------------------
(* The health check                                                        *)

\* A tick whose ping succeeds.  One whose ping fails changes nothing.
HealthPing(h) ==
    /\ checker[h] = "waiting"
    /\ healthy /\ ~cancelled
    /\ checker' = [checker EXCEPT ![h] = "recovering"]
    /\ UNCHANGED <<state, consecutiveFails, sinceRecovery, caller, cancelled, healthy,
                   streak, told>>

FailsKept == consecutiveFails   \* mutant: the counter survives the recovery
FailsAfterRecovery == 0

TransitionToUp(h) ==
    /\ checker[h] = "recovering"
    /\ state' = "UP"
    /\ consecutiveFails' = FailsAfterRecovery
    /\ sinceRecovery' = 0
    /\ streak' = 0
    /\ checker' = [checker EXCEPT ![h] = "announcing"]
    /\ UNCHANGED <<caller, cancelled, healthy, told>>

AnnounceUp(h) ==
    /\ checker[h] = "announcing"
    /\ BroadcastSilent("UP")
    /\ checker' = [checker EXCEPT ![h] = "off"]
    /\ UNCHANGED <<state, consecutiveFails, sinceRecovery, caller, cancelled, healthy, streak>>

\* case <-ctx.Done()
StopHealthCheck(h) ==
    /\ checker[h] = "waiting"
    /\ cancelled
    /\ checker' = [checker EXCEPT ![h] = "off"]
    /\ UNCHANGED <<state, consecutiveFails, sinceRecovery, caller, cancelled, healthy,
                   streak, told>>

-----------------------------------------------------------------------------
(* Environment                                                             *)

\* Time passes; under ReliableBroadcasts, not past a recovery broadcast under way.
Elapse ==
    /\ sinceRecovery < RecoveryCooldown
    /\ ReliableBroadcasts => \A h \in Checkers : checker[h] # "announcing"
    /\ sinceRecovery' = sinceRecovery + 1
    /\ UNCHANGED <<state, consecutiveFails, caller, checker, cancelled, healthy, streak, told>>

ApiChanges ==
    /\ healthy' = ~healthy
    /\ UNCHANGED <<state, consecutiveFails, sinceRecovery, caller, checker, cancelled,
                   streak, told>>

Cancel ==
    /\ ~cancelled
    /\ cancelled' = TRUE
    /\ UNCHANGED <<state, consecutiveFails, sinceRecovery, caller, checker, healthy,
                   streak, told>>

CallerStep(c) == RecordSuccess(c) \/ RecordFailure(c) \/ TransitionToDown(c) \/ AnnounceDown(c)
CheckerStep(h) == HealthPing(h) \/ TransitionToUp(h) \/ AnnounceUp(h) \/ StopHealthCheck(h)

Next ==
    \/ \E c \in Callers : CallerStep(c)
    \/ \E h \in Checkers : CheckerStep(h)
    \/ Elapse
    \/ ApiChanges
    \/ Cancel

Spec == Init /\ [][Next]_vars

\* A goroutine that can take its next step eventually takes it: a caller finishes
\* the transition it began, and the health ticker keeps firing.
Fairness ==
    /\ \A c \in Callers : WF_vars(TransitionToDown(c) \/ AnnounceDown(c))
    /\ \A h \in Checkers : WF_vars(CheckerStep(h))

FairSpec == Spec /\ Fairness

-----------------------------------------------------------------------------
(* Properties                                                              *)

Watcher(c) == caller[c] = "announcing"
Watching(h) == checker[h] \in {"waiting", "recovering"}

\* Somebody will end the current outage: the caller that is about to start the
\* health check, or the health check.
Watched == (\E c \in Callers : Watcher(c)) \/ (\E h \in Checkers : Watching(h))

\* No outage is left to itself: while the API is held down, the health check that
\* will end it runs or is about to be started by the caller that tripped.  The
\* daemon skips every tick while the API is down, so an orphaned outage would end
\* monitoring for good.  (RecordFailure ... startHealthCheck)
NoOrphanOutage == state = "DOWN" /\ ~cancelled => Watched

\* One outage has one watcher, and an API that is up has none: no two callers both
\* announce the outage, no two health checks both end it, and a recovery already
\* announced is not announced again.  (the second check of transitionToDown)
OneWatcher ==
    /\ Watched => state = "DOWN"
    /\ \A c, d \in Callers : Watcher(c) /\ Watcher(d) => c = d
    /\ \A h, k \in Checkers : Watching(h) /\ Watching(k) => h = k
    /\ ~((\E c \in Callers : Watcher(c)) /\ (\E h \in Checkers : Watching(h)))

\* With one caller, as in the program, an outage is never declared within the
\* cooldown of the last recovery, however the decision to trip, the clock and the
\* health check interleave.  (TestRecoveryCooldownPreventsFlapping)
NoFlapping == [][state = "UP" /\ state' = "DOWN" => sinceRecovery >= RecoveryCooldown]_vars

\* With one caller, an outage is declared only after FailureThreshold failures in a
\* row with no success and no recovery between them.
TripsOnStreak == [][state = "UP" /\ state' = "DOWN" => streak >= FailureThreshold]_vars

\* When no broadcast is under way, the last outage message the users hold agrees
\* with the breaker: no "back online" is left standing over an outage, and no
\* outage message over a recovered API.
LastWordIsTrue ==
    /\ ReliableBroadcasts /\ ~cancelled
    /\ \A c \in Callers : caller[c] # "announcing"
    /\ \A h \in Checkers : checker[h] # "announcing"
    => told = state

\* An API that stays healthy is found to be so: the outage ends, unless the process
\* is shut down first.
RecoversWhenHealthy == <>[]healthy => []<>(state = "UP" \/ cancelled)

\* The breaker implements the abstract outage protocol.
OutageProtocol == INSTANCE Outage WITH api <- state, watched <- Watched, stopped <- cancelled
ImplementsOutage == OutageProtocol!Spec
=============================================================================
