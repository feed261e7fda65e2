----------------------------- MODULE RouteStore -----------------------------
(***************************************************************************)
(* What the daemon and the bot's handlers share, all of it outside their   *)
(* memory: the routes in PostgreSQL, the per-route keys in Redis, and the  *)
(* chat with the user.  The modules Daemon and BotRoutes add the processes *)
(* that work on it.                                                        *)
(*                                                                         *)
(* Redis keys expire at the end of the day; the model is of one day and    *)
(* ends before that.  Each Redis or SQL command is atomic.                 *)
(*                                                                         *)
(* Times are minutes of the day.  The clock jumps between the Instants.    *)
(***************************************************************************)
EXTENDS StatusDiff, FiniteSets, FiniteSetsExt

CONSTANTS
    Routes,
    Trains,          \* services that call at the route's two stations
    Dep,             \* route -> pgTimeToMinutes(departure_time)
    Sched,           \* train -> minute of its scheduled departure
    Delays,          \* delays that are observed
    Platforms,       \* platforms that are observed, NoPlatform among them
    Offsets,         \* alert offsets a user may choose
    Instants,        \* minutes at which the model looks at the clock (a bound)
    SendsMayFail,    \* BOOLEAN: may a Telegram send fail?
    ChecksMayFail,   \* BOOLEAN: may GetServiceDetails fail?
    MaxCount         \* where the ghost counts of messages stop (a bound)

ASSUME TimesAssumption ==
    /\ Dep \in [Routes -> Nat]
    /\ Sched \in [Trains -> Nat]
    /\ Instants \subseteq Nat /\ Instants # {}
    /\ Offsets \subseteq 1..180
    /\ Delays \subseteq Nat
ASSUME MarkersAssumption ==
    /\ NoPlatform \in Platforms
    /\ Unknown \notin Delays
    /\ None \notin Nat
ASSUME FaultsAssumption == SendsMayFail \in BOOLEAN /\ ChecksMayFail \in BOOLEAN
ASSUME CountAssumption == MaxCount \in Nat

MatchTolerance  == 5      \* matchToleranceMins
MaxAutoSelect   == 15     \* domain.MaxAutoSelectMins
MaxAPIRange     == 240    \* maxAPIRangeMins
MaxChoiceRange  == 90     \* maxChoiceRangeMins
GracePeriod     == 30     \* planGracePeriod
TimetableRetry  == 60     \* timetableRetryDelay

VARIABLES
    now,     \* ukNow()
    db,      \* route -> its row: [status, offsets]
    redis,   \* route -> its keys
    chat     \* route -> [told, keyboards, reminded]: what the user was sent about it

storeVars == <<now, db, redis, chat>>

Status ==
    [svc : Trains, cancelled : BOOLEAN, delay : Delays, platform : Platforms,
     scheduleOnly : BOOLEAN]

\* Darwin's answers, and the timetable's.
LiveStatus == {st \in Status : ~st.scheduleOnly}
TimetableStatus == {st \in Status : st.scheduleOnly /\ ~st.cancelled /\ st.delay = 0}

Belief ==
    [svc : Trains, cancelled : BOOLEAN, delay : Delays \cup {Unknown}, platform : Platforms]

\* nil is no route, and no record.
ASSUME NoneAssumption == None \notin Routes /\ None \notin Status /\ None \notin Belief

\* status: "new" until created, then as is_active says, then "deleted".
Row == [status : {"new", "active", "paused", "deleted"}, offsets : SUBSET Offsets]

\* service: route_service; the others by their prefixes.  first_miss and backoff
\* hold the time they were set.  The better_offered and better_declined keys are
\* left out: nothing in the program offers a better train any more.
Keys ==
    [service : Status \cup {None}, last : Status \cup {None}, choice_sent : BOOLEAN,
     first_miss : Instants \cup {None}, backoff : Instants \cup {None},
     alert_sent : SUBSET Offsets]

NoKeys ==
    [service |-> None, last |-> None, choice_sent |-> FALSE, first_miss |-> None,
     backoff |-> None, alert_sent |-> {}]

\* told: ghost, what the messages add up to; keyboards: train choices still showing
\* their buttons, each the set of trains offered; asked: ghost, choices sent since the
\* last answer; reminded: ghost, reminders received.  The counts stop at MaxCount.
OneMore(n) == IF n < MaxCount THEN n + 1 ELSE n

Chat ==
    [told : Belief \cup {None}, keyboards : SUBSET SUBSET Trains, asked : 0..MaxCount,
     reminded : [Offsets -> 0..MaxCount]]

NoChat ==
    [told |-> None, keyboards |-> {}, asked |-> 0, reminded |-> [o \in Offsets |-> 0]]

StoreTypeOK ==
    /\ now \in Instants
    /\ db \in [Routes -> Row]
    /\ redis \in [Routes -> Keys]
    /\ chat \in [Routes -> Chat]

StoreInit(rows) ==
    /\ now = Min(Instants)
    /\ db = rows
    /\ redis = [r \in Routes |-> NoKeys]
    /\ chat = [r \in Routes |-> NoChat]

-----------------------------------------------------------------------------
(* Time windows: the current minute and the route's                        *)

IsWithinAPIRange(r, t) == Dep[r] > t /\ Dep[r] - t <= MaxAPIRange
IsWithinChoiceRange(r, t) == Dep[r] > t /\ Dep[r] - t <= MaxChoiceRange
AlertStart(r, o) == IF Dep[r] < o THEN 0 ELSE Dep[r] - o
IsWithinAlertWindow(r, t, o) == AlertStart(r, o) <= t /\ t <= Dep[r]
IsDeparted(r, t) == t > Dep[r]

-----------------------------------------------------------------------------
(* Asking for trains.  The answer depends on a board the program does not  *)
(* control: any status of any train that could be the closest, or None for *)
(* an error or a board without a match.                                    *)

Near(s, target) == AbsDiff(Sched[s], target) <= MatchTolerance

\* PlanRoute and FindBetterTrain: findClosestService on the live board.
BoardAnswers(target) == {st \in LiveStatus : Near(st.svc, target)} \cup {None}

\* PlanRouteFromSchedule: findClosestService on the timetable.
TimetableAnswers(target) == {st \in TimetableStatus : Near(st.svc, target)} \cup {None}

\* FindNearestTrains without an exact match: at most one train before the target
\* and one after it.  {} for an error, an exact match or an empty board.
NearestAnswers(target) ==
    LET Before == {st \in LiveStatus : Sched[st.svc] < target /\ ~Near(st.svc, target)}
        After  == {st \in LiveStatus : Sched[st.svc] > target /\ ~Near(st.svc, target)}
    IN {{}} \cup {{b} : b \in Before} \cup {{a} : a \in After}
              \cup {{b, a} : b \in Before, a \in After}

\* A single option close enough is taken without asking.
AutoSelects(options, target) ==
    Cardinality(options) = 1 /\ \A st \in options : AbsDiff(Sched[st.svc], target) <= MaxAutoSelect

ServicesOf(options) == {st.svc : st \in options}

-----------------------------------------------------------------------------
(* Sending                                                                 *)

\* notifier.Send of a message that leaves the user with belief b; senders ignore errors.
Send(r, b) ==
    \/ chat' = [chat EXCEPT ![r].told = b]
    \/ SendsMayFail /\ chat' = chat

\* The clock moves to the next instant.
Advance ==
    /\ \E t \in Instants : t > now
    /\ now' = Min({t \in Instants : t > now})
    /\ UNCHANGED <<db, redis, chat>>
=============================================================================
