------------------------------ MODULE Tracker -------------------------------
(***************************************************************************)
(* The daemon, the bot's handlers and the clock on the shared store: the   *)
(* day of a route, from the first look at the timetable to its departure.  *)
(***************************************************************************)
EXTENDS Daemon, BotRoutes

CONSTANTS
    InitialRows,   \* the routes as the day begins
    MaxCrashes     \* how often the process may stop and start again (a bound)

ASSUME InitialRowsAssumption == InitialRows \in [Routes -> Row]
\* The counts of messages stop above all that the properties allow.
ASSUME BoundsAssumption == MaxCrashes \in Nat /\ MaxCount > MaxCrashes + 1

VARIABLES
    crashes    \* restarts so far

vars == <<storeVars, daemonVars, handler, crashes>>

TypeOK ==
    /\ StoreTypeOK
    /\ DaemonTypeOK
    /\ BotTypeOK
    /\ crashes \in 0..MaxCrashes

Init ==
    /\ StoreInit(InitialRows)
    /\ DaemonInit
    /\ BotInit
    /\ crashes = 0

DaemonActs ==
    /\ DaemonStep
    /\ UNCHANGED <<handler, crashes>>

BotActs ==
    /\ BotStep
    /\ UNCHANGED <<daemonVars, crashes>>

Clock ==
    /\ Advance
    /\ UNCHANGED <<daemonVars, handler, crashes>>

\* The process stops, or the shutdown's ten seconds run out; what is in PostgreSQL,
\* Redis and Telegram stays.
Crash ==
    /\ crashes < MaxCrashes
    /\ crashes' = crashes + 1
    /\ DaemonCrash
    /\ BotCrash
    /\ UNCHANGED storeVars

Next == DaemonActs \/ BotActs \/ Clock \/ Crash

Spec == Init /\ [][Next]_vars

\* A tick that has begun goes on.  Nothing is assumed of when ticks begin: those that
\* the breaker or PostgreSQL prevents are not made up for.
FairSpec == Spec /\ WF_vars(pc # "idle" /\ DaemonActs)

-----------------------------------------------------------------------------
(* Properties                                                              *)

\* Between two turns of the daemon, with no handler at work.
Settled == pc \in {"idle", "next"} /\ \A h \in Handlers : Idle(h)

\* Nothing was lost on the way to the user.
Delivered == crashes = 0 /\ ~SendsMayFail

\* The daemon keeps the baseline of the very train it tracks.
OnBaseline(r) ==
    redis[r].service # None /\ redis[r].last # None /\ redis[r].last.svc = redis[r].service.svc

\* What the user believes of the train the daemon tracks.
Believed(r) == BeliefOf(chat[r].told, redis[r].service.svc)

\* The train the user was last told about is the train that is tracked, after every
\* transition to live data, switch, selection and failed check of the daemon, while the
\* route is stopped, resumed, edited and deleted. It is about the trains that the daemon
\* picks: where a user picks one it fails, as a tick may put the service it had read
\* back in the picked one's place. (autoSwitchTrain, autoSelectTrain, updateServiceCache)
TrackedIsTold ==
    Settled /\ Delivered =>
        \A r \in Routes : chat[r].told # None /\ redis[r].service # None
                              => chat[r].told.svc = redis[r].service.svc

\* Once the daemon has checked a train, the user knows whether it is cancelled: no
\* cancellation and no reinstatement is swallowed by the comparison with the baseline.
CancellationKnown ==
    Settled /\ Delivered =>
        \A r \in Routes : OnBaseline(r) => Believed(r).cancelled = redis[r].service.cancelled

\* However the delay creeps in steps too small to report, a user who was told a delay is
\* never further from the one last observed than the threshold allows: once by what
\* the baseline hides, once more by what a reminder showed.
DelayKnown ==
    Settled /\ Delivered =>
        \A r \in Routes :
            OnBaseline(r) /\ ~redis[r].service.cancelled /\ Believed(r).delay # Unknown
                => AbsDiff(Believed(r).delay, redis[r].service.delay) <= 2 * (DelayThreshold - 1)

\* A user who was told a platform is never left with another one than the train has now,
\* through every sequence of platforms that disappear (TBC), come back and change: the
\* baseline keeps the platform confirmed last, whatever else it adopts.  A cancellation
\* voids what was told; a reinstatement does not repeat it.
PlatformKnown ==
    Settled /\ Delivered =>
        \A r \in Routes :
            OnBaseline(r) /\ ~redis[r].service.cancelled
                /\ Believed(r).platform # NoPlatform /\ redis[r].service.platform # NoPlatform
            => Believed(r).platform = redis[r].service.platform

\* A reminder is sent once per route and offset, whatever is edited, stopped and resumed
\* in between; a restart repeats at most one.
RemindedOnce ==
    \A r \in Routes, o \in Offsets : chat[r].reminded[o] <= 1 + crashes

\* One question at a time: the daemon does not ask again for a train before the last
\* question is answered; a restart repeats at most one.
AskedOnce == \A r \in Routes : chat[r].asked <= 1 + crashes

\* No edit silences a reminder still to come: a flag that was set without a reminder is
\* of an offset whose window has opened.  It needs trains that do not leave before the
\* route's time, as in the instance: the editor goes by the train's time, the daemon by
\* the route's.
NoReminderSilenced ==
    Delivered =>
        \A r \in Routes : \A o \in redis[r].alert_sent :
            chat[r].reminded[o] = 0 => AlertStart(r, o) <= now

\* "Push notifications for delays, cancellations, and platform changes": the first check
\* of a train the user has picked, while the baseline is still the train's before, tells
\* the user who was told that it runs when it does not. (handleRouteTrainCallback, then
\* checkRoute)
ToldToRun(r, picked) ==
    /\ redis[r].last # None /\ redis[r].last.svc # picked
    /\ chat[r].told # None /\ chat[r].told.svc = picked /\ ~chat[r].told.cancelled

CancellationAnnounced ==
    [][\A r \in Routes :
          /\ pc = "check" /\ pc' = "checkSave" /\ r = job.route
          /\ ToldToRun(r, job'.fresh.svc) /\ job'.fresh.cancelled
          /\ ~SendsMayFail
          => chat'[r].told.cancelled]_vars

\* No departure reminder is sent for a train that is cancelled.
NoReminderWhenCancelled ==
    [][\A r \in Routes, o \in Offsets :
          chat'[r].reminded[o] > chat[r].reminded[o] => ~chat'[r].told.cancelled]_vars

\* A tick that has begun within the window of a reminder, for a live train, sends it if
\* it was not sent before: whatever checks fail, whichever train it switches to, however
\* the clock runs on, and whatever the user does to the route during the tick. A
\* cancellation and a stop of the route excuse it, and a restart ends the tick. The handler
\* of a new route is through: it may put the timetable's train in place of the live one.
\* Ticks that never begin lose their reminders, see StartTick. (the loop over the offsets)
BeingPlanned(r) ==
    \E h \in Handlers : handler[h].route = r /\ handler[h].at \in {"plan", "nearest", "schedule"}

Due(r, o) ==
    /\ pc = "next" /\ r \in tick.todo
    /\ o \in tick.offsets[r] /\ IsWithinAlertWindow(r, tick.now, o)
    /\ db[r].status = "active" /\ ~BeingPlanned(r)
    /\ redis[r].service # None /\ ~redis[r].service.scheduleOnly /\ ~redis[r].service.cancelled

Excused(r) ==
    \/ db[r].status # "active"
    \/ redis[r].service # None /\ redis[r].service.cancelled

RemindersArrive ==
    \A r \in Routes, o \in Offsets : \A c \in 0..MaxCrashes :
        Due(r, o) /\ crashes = c ~> (chat[r].reminded[o] > 0 \/ Excused(r) \/ crashes > c)
=============================================================================
