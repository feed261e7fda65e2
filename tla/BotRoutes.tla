----------------------------- MODULE BotRoutes ------------------------------
(***************************************************************************)
(* The bot's handlers that work on the same routes as the daemon: stop,    *)
(* resume, delete, the choice of a train, the edit of the reminders, and   *)
(* the planning that follows the creation of a route                       *)
(* (internal/bot/handlers.go and edit.go).  Each update is handled in a    *)
(* goroutine of its own, so a handler's steps interleave with the          *)
(* daemon's and with other handlers'.                                      *)
(*                                                                         *)
(* A route has one owner, and its chat stands for that user's.  The dialog *)
(* that precedes a creation or an edit ends in the input of these actions. *)
(***************************************************************************)
EXTENDS RouteStore

CONSTANTS
    Handlers,   \* slots for handlers that run at one time (a bound)
    Uses        \* what the users do: a subset of the six uses below

ASSUME UsesAssumption ==
    Uses \subseteq {"stop", "resume", "delete", "choose", "edit", "create"}

VARIABLES
    handler     \* slot -> the handler's locals

\* at: where the handler is; train: the one chosen; old, new: the edited offsets.
NoHandler == [at |-> "idle", route |-> None, train |-> None, old |-> {}, new |-> {}]

BotTypeOK ==
    handler \in
      [Handlers ->
        [at : {"idle", "choose", "reconcile", "plan", "nearest", "schedule"},
         route : Routes \cup {None}, train : Trains \cup {None},
         old : SUBSET Offsets, new : SUBSET Offsets]]

BotInit == handler = [h \in Handlers |-> NoHandler]

\* parseAlertOffsets lets through one to three distinct values.
OffsetChoices == {os \in SUBSET Offsets : Cardinality(os) \in 1..3}

Idle(h) == handler[h].at = "idle"
Exists(r) == db[r].status \in {"active", "paused"}
Finish(h) == handler' = [handler EXCEPT ![h] = NoHandler]

-----------------------------------------------------------------------------
(* /stop and /resume change the user's routes one by one; /delete removes  *)
(* the row and leaves the Redis keys to expire.                            *)

StopRoute(r) ==
    /\ "stop" \in Uses
    /\ db[r].status = "active"
    /\ db' = [db EXCEPT ![r].status = "paused"]
    /\ UNCHANGED <<now, redis, chat, handler>>

ResumeRoute(r) ==
    /\ "resume" \in Uses
    /\ db[r].status = "paused"
    /\ db' = [db EXCEPT ![r].status = "active"]
    /\ UNCHANGED <<now, redis, chat, handler>>

DeleteRoute(r) ==
    /\ "delete" \in Uses
    /\ Exists(r)
    /\ db' = [db EXCEPT ![r].status = "deleted"]
    /\ UNCHANGED <<now, redis, chat, handler>>

-----------------------------------------------------------------------------
(* handleRouteTrainCallback: a button of a train choice                    *)

\* The keyboard goes, unless that fails or the user taps twice; if the route still exists
\* its choice_sent key goes too and the chosen train is planned.
PressTrain(h, r) ==
    /\ "choose" \in Uses
    /\ Idle(h)
    /\ \E k \in chat[r].keyboards : \E s \in k :
          /\ \E gone \in {{k}, {}} :
                chat' = [chat EXCEPT ![r].keyboards = @ \ gone, ![r].asked = 0]
          /\ IF Exists(r)
             THEN /\ redis' = [redis EXCEPT ![r].choice_sent = FALSE]
                  /\ handler' = [handler EXCEPT ![h].at = "choose", ![h].route = r,
                                                ![h].train = s]
             ELSE UNCHANGED <<redis, handler>>
    /\ UNCHANGED <<now, db>>

\* PlanRoute at the chosen train's time.  The baseline in last_state stays as it
\* was.  When no train is found the reply says that it is tracked all the same.
ChooseAnswered(h, r) ==
    /\ handler[h].at = "choose" /\ r = handler[h].route
    /\ \E st \in BoardAnswers(Sched[handler[h].train]) :
          \/ st = None /\ Send(r, Unaware(handler[h].train)) /\ UNCHANGED redis
          \/ /\ st # None
             /\ redis' = [redis EXCEPT ![r].service = st]
             /\ Send(r, TellStatus(st))
    /\ Finish(h)
    /\ UNCHANGED <<now, db>>

-----------------------------------------------------------------------------
(* handleAwaitingEditAlerts and reconcileAlertOffsets                      *)

EditAlerts(h, r) ==
    /\ "edit" \in Uses
    /\ Idle(h)
    /\ Exists(r)
    /\ \E new \in OffsetChoices :
          /\ db' = [db EXCEPT ![r].offsets = new]
          /\ handler' = [handler EXCEPT ![h].at = "reconcile", ![h].route = r,
                                        ![h].old = db[r].offsets, ![h].new = new]
    /\ UNCHANGED <<now, redis, chat>>

\* mutant: every new offset is taken for one already sent
AllOffsets(r, old, new) == new

\* The added offsets whose time has already come on the cached train, which need
\* not be the daemon's test, on the route's own time.
PassedOffsets(r, old, new) ==
    LET cached == redis[r].service
    IN IF cached = None THEN {}
       ELSE {o \in new \ old : now < Sched[cached.svc] /\ now + o >= Sched[cached.svc]}

Reconcile(h, r) ==
    /\ handler[h].at = "reconcile" /\ r = handler[h].route
    /\ redis' = [redis EXCEPT ![r].alert_sent =
                    @ \cup PassedOffsets(r, handler[h].old, handler[h].new)]
    /\ Finish(h)
    /\ UNCHANGED <<now, db, chat>>

-----------------------------------------------------------------------------
(* handleAwaitingLabel's last part and planRouteNow.  A confirmation that  *)
(* cannot be sent ends the handler before it plans.                        *)

CreateRoute(h, r) ==
    /\ "create" \in Uses
    /\ Idle(h)
    /\ db[r].status = "new"
    /\ \E os \in OffsetChoices : db' = [db EXCEPT ![r] = [status |-> "active", offsets |-> os]]
    /\ \/ handler' = [handler EXCEPT ![h].at = "plan", ![h].route = r]
       \/ SendsMayFail /\ UNCHANGED handler
    /\ UNCHANGED <<now, redis, chat>>

IsWithinDarwinRange(r) == Dep[r] + 120 >= now /\ Dep[r] <= now + 240

PlanNow(h, r) ==
    /\ handler[h].at = "plan" /\ r = handler[h].route
    /\ \E st \in BoardAnswers(Dep[r]) :
          \/ /\ st = None
             /\ handler' = [handler EXCEPT ![h].at =
                               IF IsWithinDarwinRange(r) THEN "nearest" ELSE "schedule"]
             /\ UNCHANGED <<redis, chat>>
          \/ /\ st # None
             /\ redis' = [redis EXCEPT ![r].service = st]
             /\ Send(r, TellStatus(st))
             /\ Finish(h)
    /\ UNCHANGED <<now, db>>

\* FindNearestTrains and sendRouteTrainChoice: choice_sent is not set here, nor
\* does a train that is selected become the baseline.
NearestNow(h, r) ==
    /\ handler[h].at = "nearest" /\ r = handler[h].route
    /\ \E options \in NearestAnswers(Dep[r]) :
          \/ /\ options = {}
             /\ handler' = [handler EXCEPT ![h].at = "schedule"]
             /\ UNCHANGED <<redis, chat>>
          \/ /\ AutoSelects(options, Dep[r])
             /\ \E st \in options :
                   /\ redis' = [redis EXCEPT ![r].service = st]
                   /\ Send(r, TellStatus(st))
             /\ Finish(h)
          \/ /\ options # {} /\ ~AutoSelects(options, Dep[r])
             /\ \/ chat' = [chat EXCEPT ![r].keyboards = @ \cup {ServicesOf(options)},
                                           ![r].asked = OneMore(@)]
                \/ SendsMayFail /\ UNCHANGED chat
             /\ Finish(h)
             /\ UNCHANGED redis
    /\ UNCHANGED <<now, db>>

\* PlanRouteFromSchedule: the reply names the scheduled train.
ScheduleNow(h, r) ==
    /\ handler[h].at = "schedule" /\ r = handler[h].route
    /\ \E st \in TimetableAnswers(Dep[r]) :
          \/ st = None /\ UNCHANGED <<redis, chat>>
          \/ /\ st # None
             /\ redis' = [redis EXCEPT ![r].service = st]
             /\ Send(r, Unaware(st.svc))
    /\ Finish(h)
    /\ UNCHANGED <<now, db>>

-----------------------------------------------------------------------------

BotCrash == handler' = [h \in Handlers |-> NoHandler]

HandlerStep(h, r) ==
    \/ PressTrain(h, r) \/ ChooseAnswered(h, r)
    \/ EditAlerts(h, r) \/ Reconcile(h, r)
    \/ CreateRoute(h, r) \/ PlanNow(h, r) \/ NearestNow(h, r) \/ ScheduleNow(h, r)

BotStep ==
    \E r \in Routes :
        \/ StopRoute(r) \/ ResumeRoute(r) \/ DeleteRoute(r)
        \/ \E h \in Handlers : HandlerStep(h, r)
=============================================================================
