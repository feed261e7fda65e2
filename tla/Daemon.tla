------------------------------- MODULE Daemon -------------------------------
(***************************************************************************)
(* internal/tracker/daemon.go: the goroutine that wakes up every two       *)
(* minutes, reads the active routes, and works through them one by one.    *)
(* A route's turn is cut where other processes can see or disturb it: at   *)
(* every call of the train APIs, of Telegram, and of Redis whose effect    *)
(* matters in between.  A process that stops at a cut loses its locals.    *)
(*                                                                         *)
(* A tick that finds the circuit breaker down (after three failed checks,  *)
(* say), or cannot read the routes, returns at once and changes nothing:   *)
(* it is a stuttering step here, and any number of ticks may be such.      *)
(***************************************************************************)
EXTENDS RouteStore

VARIABLES
    pc,     \* where the daemon is; "idle" between ticks
    tick,   \* locals of tick: its now, the routes still to do, their rows' offsets
    job     \* locals of one route's turn

daemonVars == <<pc, tick, job>>

Steps ==
    {"idle", "next", "transition", "transitionSave", "transitionTell", "check", "checkSave",
     "better", "adoptSave", "adoptTell", "remind", "mark", "plan", "miss", "nearest",
     "markChoice", "timetable"}

\* route: whose turn it is; cached: the service as read when the turn began; fresh:
\* the latest answer; left: offsets not yet considered; offset: the one being sent.
NoJob == [route |-> None, cached |-> None, fresh |-> None, left |-> {}, offset |-> None]
NoTick == [now |-> None, todo |-> {}, offsets |-> [r \in Routes |-> {}]]

Turns == Steps \ {"idle", "next"}
Checking == {"check", "checkSave", "better", "remind", "mark"}

\* Types; a turn has its route; and only live data is checked and reminded of.
DaemonTypeOK ==
    /\ pc \in Steps
    /\ pc \in Turns <=> job.route # None
    /\ pc \in Checking => job.cached # None /\ ~job.cached.scheduleOnly
    /\ tick \in [now : Instants \cup {None}, todo : SUBSET Routes,
                 offsets : [Routes -> SUBSET Offsets]]
    /\ job \in [route : Routes \cup {None}, cached : Status \cup {None},
                fresh : Status \cup {None}, left : SUBSET Offsets,
                offset : Offsets \cup {None}]

DaemonInit == pc = "idle" /\ tick = NoTick /\ job = NoJob

Goto(step) == pc' = step /\ UNCHANGED <<tick, job>>
NextRoute == pc' = "next" /\ job' = NoJob /\ UNCHANGED tick

-----------------------------------------------------------------------------
(* tick                                                                    *)

ActiveRoutes == {r \in Routes : db[r].status = "active"}

\* The breaker is up and the routes are read; otherwise nothing happens.  The breaker is
\* not in this module (see Monitor), so nothing may be assumed of when a tick begins.
StartTick ==
    /\ pc = "idle"
    /\ pc' = "next"
    /\ tick' = [now |-> now, todo |-> ActiveRoutes,
                offsets |-> [r \in Routes |-> IF r \in ActiveRoutes THEN db[r].offsets ELSE {}]]
    /\ UNCHANGED <<storeVars, job>>

EndTick ==
    /\ pc = "next"
    /\ tick.todo = {}
    /\ pc' = "idle"
    /\ tick' = NoTick
    /\ UNCHANGED <<storeVars, job>>

Done(r) == tick' = [tick EXCEPT !.todo = @ \ {r}]

ClearRouteCache(r) == redis' = [redis EXCEPT ![r] = NoKeys]

ClearDeparted(r) ==
    /\ pc = "next"
    /\ r \in tick.todo
    /\ IsDeparted(r, tick.now)
    /\ ClearRouteCache(r)
    /\ Done(r)
    /\ UNCHANGED <<now, db, chat, pc, job>>

\* mutant: timetable data is checked like live data
BranchOnCached(r, cached) ==
    IF cached # None THEN "check"
    ELSE IF IsWithinAPIRange(r, tick.now) THEN "plan" ELSE "timetable"

\* tick's branches on the cached service and the time.
Branch(r, cached) ==
    CASE cached = None /\ IsWithinAPIRange(r, tick.now)  -> "plan"
      [] cached = None /\ ~IsWithinAPIRange(r, tick.now) -> "timetable"
      [] cached # None /\ ~cached.scheduleOnly           -> "check"
      [] cached # None /\ cached.scheduleOnly /\ IsWithinAPIRange(r, tick.now) -> "transition"
      [] OTHER                                           -> "next"

BeginRoute(r) ==
    /\ pc = "next"
    /\ r \in tick.todo
    /\ ~IsDeparted(r, tick.now)
    /\ LET cached == redis[r].service
       IN /\ pc' = Branch(r, cached)
          /\ job' = IF pc' = "next" THEN NoJob
                    ELSE [route |-> r, cached |-> cached, fresh |-> None,
                          left |-> tick.offsets[r], offset |-> None]
    /\ Done(r)
    /\ UNCHANGED storeVars

-----------------------------------------------------------------------------
(* tryTransitionToLive                                                     *)

\* PlanRoute: the board answers and the service is cached.
TransitionPlan(r) ==
    /\ pc = "transition" /\ r = job.route
    /\ \E st \in BoardAnswers(Dep[r]) :
          \/ st = None /\ NextRoute /\ UNCHANGED redis
          \/ /\ st # None
             /\ redis' = [redis EXCEPT ![r].service = st]
             /\ job' = [job EXCEPT !.fresh = st]
             /\ pc' = "transitionSave"
             /\ UNCHANGED tick
    /\ UNCHANGED <<now, db, chat>>

TransitionSave(r) ==
    /\ pc = "transitionSave" /\ r = job.route
    /\ redis' = [redis EXCEPT ![r].last = job.fresh]
    /\ Goto("transitionTell")
    /\ UNCHANGED <<now, db, chat>>

\* Only a cancellation is announced.
NoTransitionNews(st) == FALSE   \* mutant: nothing is announced at the transition
TransitionNews(st) == st.cancelled

TransitionTell(r) ==
    /\ pc = "transitionTell" /\ r = job.route
    /\ IF TransitionNews(job.fresh) THEN Send(r, TellStatus(job.fresh)) ELSE UNCHANGED chat
    /\ NextRoute
    /\ UNCHANGED <<now, db, redis>>

-----------------------------------------------------------------------------
(* checkRoute                                                              *)

\* GetServiceDetails fails: the turn goes on with what was cached.
CheckFails(r) ==
    /\ ChecksMayFail
    /\ pc = "check" /\ r = job.route
    /\ Goto("better")
    /\ UNCHANGED storeVars

\* It answers: the change since the baseline, if worth it, is announced.
CheckAnswers(r) ==
    /\ pc = "check" /\ r = job.route
    /\ \E st \in {s \in LiveStatus : s.svc = job.cached.svc} :
          /\ job' = [job EXCEPT !.fresh = st]
          /\ IF Announces(redis[r].last, st)
             THEN Send(r, TellAlert(chat[r].told, redis[r].last, st))
             ELSE UNCHANGED chat
    /\ pc' = "checkSave"
    /\ UNCHANGED <<now, db, redis, tick>>

\* saveLastState and updateServiceCache: nobody looks between the two.
CheckSave(r) ==
    /\ pc = "checkSave" /\ r = job.route
    /\ redis' = [redis EXCEPT ![r].last = NewBaseline(@, job.fresh),
                              ![r].service = job.fresh]
    /\ Goto("better")
    /\ UNCHANGED <<now, db, chat>>

-----------------------------------------------------------------------------
(* checkBetterTrain, and the end of autoSwitchTrain and autoSelectTrain    *)

CheckBetter(r) ==
    /\ pc = "better" /\ r = job.route
    /\ \/ /\ Near(job.cached.svc, Dep[r])
          /\ Goto("remind")
          /\ UNCHANGED redis
       \/ /\ ~Near(job.cached.svc, Dep[r])
          /\ \E st \in BoardAnswers(Dep[r]) :
                IF st = None \/ st.svc = job.cached.svc
                THEN Goto("remind") /\ UNCHANGED redis
                ELSE /\ redis' = [redis EXCEPT ![r].service = st]
                     /\ job' = [job EXCEPT !.fresh = st]
                     /\ pc' = "adoptSave"
                     /\ UNCHANGED tick
    /\ UNCHANGED <<now, db, chat>>

\* mutant: the new train's status does not become the baseline
KeepBaseline(r) == UNCHANGED redis
AdoptBaseline(r) == redis' = [redis EXCEPT ![r].last = job.fresh]

AdoptSave(r) ==
    /\ pc = "adoptSave" /\ r = job.route
    /\ AdoptBaseline(r)
    /\ Goto("adoptTell")
    /\ UNCHANGED <<now, db, chat>>

\* mutant: the message is about the train that was tracked before
OldTrainNews(r) == Send(r, TellStatus(IF job.cached = None THEN job.fresh ELSE job.cached))
AdoptNews(r) == Send(r, TellStatus(job.fresh))

\* A switch goes on with the reminders; a selection ends the turn.
AdoptTell(r) ==
    /\ pc = "adoptTell" /\ r = job.route
    /\ AdoptNews(r)
    /\ IF job.cached = None THEN NextRoute ELSE Goto("remind")
    /\ UNCHANGED <<now, db, redis>>

-----------------------------------------------------------------------------
(* Departure reminders: the loop over the route's offsets                  *)

AlertSent(r, o) == o \in redis[r].alert_sent

\* mutant: the reminder is tied to the minute its window opens
OnTheMinute(r, o) ==
    /\ AlertStart(r, o) = tick.now
    /\ ~AlertSent(r, o)
    /\ ~job.cached.cancelled

\* The test is on the service as it was when the turn began.
ReminderDue(r, o) ==
    /\ IsWithinAlertWindow(r, tick.now, o)
    /\ ~AlertSent(r, o)
    /\ ~job.cached.cancelled

SkipReminder(r) ==
    /\ pc = "remind" /\ r = job.route
    /\ \E o \in job.left :
          /\ ~ReminderDue(r, o)
          /\ job' = [job EXCEPT !.left = @ \ {o}]
    /\ UNCHANGED <<storeVars, pc, tick>>

\* The message shows the service as cached now.
SendDepartureReminder(r) ==
    /\ pc = "remind" /\ r = job.route
    /\ \E o \in job.left :
          /\ ReminderDue(r, o)
          /\ LET shown == IF redis[r].service = None THEN job.cached ELSE redis[r].service
             IN \/ chat' = [chat EXCEPT ![r].told = TellStatus(shown),
                                        ![r].reminded[o] = OneMore(@)]
                \/ SendsMayFail /\ chat' = chat
          /\ job' = [job EXCEPT !.offset = o]
    /\ pc' = "mark"
    /\ UNCHANGED <<now, db, redis, tick>>

NoMark(r) == UNCHANGED redis   \* mutant: the flag is not set
MarkAlertSent(r) == redis' = [redis EXCEPT ![r].alert_sent = @ \cup {job.offset}]

MarkReminder(r) ==
    /\ pc = "mark" /\ r = job.route
    /\ MarkAlertSent(r)
    /\ job' = [job EXCEPT !.left = @ \ {job.offset}, !.offset = None]
    /\ pc' = "remind"
    /\ UNCHANGED <<now, db, chat, tick>>

EndReminders(r) ==
    /\ pc = "remind" /\ r = job.route
    /\ job.left = {}
    /\ NextRoute
    /\ UNCHANGED storeVars

-----------------------------------------------------------------------------
(* tryPlanRoute and trySendTrainChoice                                     *)

\* PlanRoute; a train that is found is tracked without a message.
PlanRoute(r) ==
    /\ pc = "plan" /\ r = job.route
    /\ \E st \in BoardAnswers(Dep[r]) :
          \/ st = None /\ Goto("miss") /\ UNCHANGED redis
          \/ /\ st # None
             /\ redis' = [redis EXCEPT ![r].service = st, ![r].first_miss = None]
             /\ NextRoute
    /\ UNCHANGED <<now, db, chat>>

GracePeriodExpired(r) ==
    /\ redis[r].first_miss # None
    /\ now - redis[r].first_miss >= GracePeriod

\* No match yet: the first miss is remembered, and after the grace period, close
\* enough to the departure, the user is asked, once.
Miss(r) ==
    /\ pc = "miss" /\ r = job.route
    /\ redis' = IF redis[r].choice_sent \/ redis[r].first_miss # None THEN redis
                ELSE [redis EXCEPT ![r].first_miss = now]
    /\ IF ~redis[r].choice_sent /\ GracePeriodExpired(r) /\ IsWithinChoiceRange(r, now)
       THEN Goto("nearest")
       ELSE NextRoute
    /\ UNCHANGED <<now, db, chat>>

\* FindNearestTrains, and its outcome: nothing, one close train, or a question.
FindNearest(r) ==
    /\ pc = "nearest" /\ r = job.route
    /\ \E options \in NearestAnswers(Dep[r]) :
          \/ options = {} /\ NextRoute /\ UNCHANGED <<redis, chat>>
          \/ /\ AutoSelects(options, Dep[r])
             /\ \E st \in options :
                   /\ redis' = [redis EXCEPT ![r].service = st]
                   /\ job' = [job EXCEPT !.fresh = st]
             /\ pc' = "adoptSave"
             /\ UNCHANGED <<chat, tick>>
          \/ /\ options # {} /\ ~AutoSelects(options, Dep[r])
             /\ \/ /\ chat' = [chat EXCEPT ![r].keyboards = @ \cup {ServicesOf(options)},
                                              ![r].asked = OneMore(@)]
                   /\ Goto("markChoice")
                \/ SendsMayFail /\ NextRoute /\ UNCHANGED chat
             /\ UNCHANGED redis
    /\ UNCHANGED <<now, db>>

NoChoiceMark(r) == UNCHANGED redis   \* mutant: the flag is not set
MarkChoiceSent(r) == redis' = [redis EXCEPT ![r].choice_sent = TRUE]

MarkChoice(r) ==
    /\ pc = "markChoice" /\ r = job.route
    /\ MarkChoiceSent(r)
    /\ NextRoute
    /\ UNCHANGED <<now, db, chat>>

-----------------------------------------------------------------------------
(* tryFetchTimetable                                                       *)

TimetableBackedOff(r) ==
    /\ redis[r].backoff # None
    /\ now - redis[r].backoff < TimetableRetry

FetchTimetable(r) ==
    /\ pc = "timetable" /\ r = job.route
    /\ \/ TimetableBackedOff(r) /\ UNCHANGED redis
       \/ /\ ~TimetableBackedOff(r)
          /\ \E st \in TimetableAnswers(Dep[r]) :
                redis' = IF st = None THEN [redis EXCEPT ![r].backoff = now]
                         ELSE [redis EXCEPT ![r].service = st]
    /\ NextRoute
    /\ UNCHANGED <<now, db, chat>>

-----------------------------------------------------------------------------

\* The process stops at any point of a tick.
DaemonCrash == pc' = "idle" /\ tick' = NoTick /\ job' = NoJob

Turn(r) ==
    \/ TransitionPlan(r) \/ TransitionSave(r) \/ TransitionTell(r)
    \/ CheckFails(r) \/ CheckAnswers(r) \/ CheckSave(r)
    \/ CheckBetter(r) \/ AdoptSave(r) \/ AdoptTell(r)
    \/ SkipReminder(r) \/ SendDepartureReminder(r) \/ MarkReminder(r) \/ EndReminders(r)
    \/ PlanRoute(r) \/ Miss(r) \/ FindNearest(r) \/ MarkChoice(r)
    \/ FetchTimetable(r)

DaemonStep ==
    \/ StartTick
    \/ EndTick
    \/ \E r \in Routes : ClearDeparted(r) \/ BeginRoute(r) \/ Turn(r)
=============================================================================
