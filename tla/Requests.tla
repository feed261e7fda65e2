------------------------------ MODULE Requests ------------------------------
(***************************************************************************)
(* The way of an update through the bot to the timetable: the rate limiter *)
(* (RateLimit), the handler, and for a search of the timetable the token   *)
(* of the RTT client (TokenCache), which the handlers share with the       *)
(* daemon.  One clock drives both, and a stop of the process ends all that *)
(* is under way; the count of the limiter is in Redis and stays, the token *)
(* is lost.                                                                *)
(***************************************************************************)
EXTENDS RateLimit, TokenCache

CONSTANT Daemon  \* the daemon's goroutine, which no limiter stops

ASSUME CallersAssumption == Callers = Handlers \cup {Daemon} /\ Daemon \notin Handlers

requestVars == <<limiterVars, cacheVars>>

\* Types; and a handler in the middle of a search is one that the limiter let through.
RequestTypeOK ==
    /\ LimiterTypeOK
    /\ CacheTypeOK
    /\ \A h \in Handlers : call[h] # "idle" => update[h] = "running"

RequestInit == LimiterInit /\ CacheInit

\* A handler that was let through searches the timetable (handleAwaitingTime,
\* planRouteNow), any number of times; the daemon does (tryPlanRoute) when it likes.
Search(c) ==
    /\ c = Daemon \/ (c \in Handlers /\ update[c] = "running")
    /\ GetAccessToken(c)
    /\ UNCHANGED limiterVars

Limited(h) ==
    /\ Incr(h) \/ IncrFails(h) \/ Decide(h) \/ (call[h] = "idle" /\ Return(h))
    /\ UNCHANGED cacheVars

Progress(c) == CallerStep(c) /\ UNCHANGED limiterVars

Stop == LimiterStop /\ CacheStop

Tick == LimiterTick /\ CacheTick

RequestNext ==
    \/ \E h \in Handlers : Limited(h)
    \/ \E c \in Callers : Search(c) \/ Progress(c)
    \/ Stop
    \/ Tick

RequestSpec == RequestInit /\ [][RequestNext]_requestVars

\* Requests end, by their timeout at the latest, and the mutex, which Go hands to those
\* who wait for long, comes to everyone in the end.
RequestFairness ==
    \A c \in Callers :
        /\ WF_requestVars(Progress(c) /\ (Refreshed(c) \/ RefreshFails(c) \/ SearchDone(c)))
        /\ SF_requestVars(Progress(c) /\ LockToRefresh(c))

FairRequestSpec == RequestSpec /\ RequestFairness
=============================================================================
