----------------------------- MODULE RateLimit ------------------------------
(***************************************************************************)
(* The rate limiter in front of every handler (internal/bot/ratelimit.go), *)
(* for one chat.  An update is counted in Redis with INCR, the count then  *)
(* gets a minute to live with EXPIRE: two commands, between which other    *)
(* updates of the chat come in, the key expires, or the process stops.     *)
(* Time passes in ticks, of which Window make the minute; the commands of  *)
(* one update may be as slow as they like.                                 *)
(***************************************************************************)
EXTENDS Naturals, FiniteSets

CONSTANTS
    Handlers,  \* goroutines that serve updates of the chat
    Window,    \* rateLimitWindow, in ticks
    RateMax    \* rateLimitMax

ASSUME HandlersAssumption == IsFiniteSet(Handlers)
ASSUME WindowAssumption  == Window \in Nat \ {0}
ASSUME RateMaxAssumption == RateMax \in Nat \ {0}

VARIABLES
    hits,    \* value of the key ratelimit:<chat>, 0 without one; from RateMax + 1 on all alike
    ttl,     \* ticks it has to live, or Forever
    update,  \* where a handler is: "idle", "counted" (after INCR), "running"
    count,   \* what its INCR returned
    passed,  \* ghost: updates of the last Window ticks let through by their count,
             \* with their age and their number among those of one age
    wait     \* ghost: ticks until a refused user who sends nothing has waited a
             \* window, or Forever

limiterVars == <<hits, ttl, update, count, passed, wait>>

Forever == Window + 1

LimiterTypeOK ==
    /\ hits \in 0..(RateMax + 1)
    /\ ttl \in 1..Forever
    /\ update \in [Handlers -> {"idle", "counted", "running"}]
    /\ count \in [Handlers -> 0..(RateMax + 1)]
    /\ passed \subseteq [age : 0..(Window - 1), nr : Nat \ {0}]
    /\ wait \in 0..Forever
    /\ \A h \in Handlers : update[h] = "counted" => count[h] > 0
    /\ hits = 0 => ttl = Forever

LimiterInit ==
    /\ hits = 0
    /\ ttl = Forever
    /\ update = [h \in Handlers |-> "idle"]
    /\ count = [h \in Handlers |-> 0]
    /\ passed = {}
    /\ wait = Forever

\* INCR: a new key has no time to live.
Incr(h) ==
    /\ update[h] = "idle"
    /\ hits' = IF hits > RateMax THEN hits ELSE hits + 1
    /\ update' = [update EXCEPT ![h] = "counted"]
    /\ count' = [count EXCEPT ![h] = hits']
    /\ wait' = Forever
    /\ UNCHANGED <<ttl, passed>>

\* Redis does not answer: the update passes uncounted.  (An INCR that is executed although
\* its answer is lost is left out; it would count an update that passes unlimited.)
IncrFails(h) ==
    /\ update[h] = "idle"
    /\ update' = [update EXCEPT ![h] = "running"]
    /\ wait' = Forever
    /\ UNCHANGED <<hits, ttl, count, passed>>

\* mutant: the window is opened by the first update only
ExpireOnce(h) == ttl' = IF count[h] = 1 /\ hits > 0 THEN Window ELSE ttl
\* mutant: a key that has expired gets a time to live, as with SETEX
ExpireAnyway(h) == ttl' = Window
Expire(h) == ttl' = IF hits > 0 THEN Window ELSE ttl

Exceeded(h) == count[h] > RateMax

\* The ghost of an update let through by its count, and of a tick.
PassedNow == {p \in passed : p.age = 0}
Pass == passed' = passed \cup {[age |-> 0, nr |-> Cardinality(PassedNow) + 1]}
Age == passed' = {[p EXCEPT !.age = @ + 1] : p \in {q \in passed : q.age < Window - 1}}

\* EXPIRE, which does nothing to a key that has expired meanwhile, and the decision.
Decide(h) ==
    /\ update[h] = "counted"
    /\ Expire(h)
    /\ \/ /\ Exceeded(h)
          /\ update' = [update EXCEPT ![h] = "idle"]
          /\ wait' = Window
          /\ UNCHANGED passed
       \/ /\ ~Exceeded(h)
          /\ update' = [update EXCEPT ![h] = "running"]
          /\ Pass
          /\ wait' = Forever
    /\ UNCHANGED <<hits, count>>

\* The handler behind the limiter returns.
Return(h) ==
    /\ update[h] = "running"
    /\ update' = [update EXCEPT ![h] = "idle"]
    /\ UNCHANGED <<hits, ttl, count, passed, wait>>

\* The process stops; the key stays.
LimiterStop ==
    /\ update' = [h \in Handlers |-> "idle"]
    /\ wait' = IF \E h \in Handlers : update[h] = "counted" THEN Forever ELSE wait
    /\ UNCHANGED <<hits, ttl, count, passed>>

LimiterTick ==
    /\ hits' = IF ttl = 1 THEN 0 ELSE hits
    /\ ttl' = IF ttl \in 2..Window THEN ttl - 1 ELSE Forever
    /\ Age
    /\ wait' = IF wait \in 1..Window THEN wait - 1 ELSE wait
    /\ UNCHANGED <<update, count>>

LimiterNext ==
    \/ \E h \in Handlers : Incr(h) \/ IncrFails(h) \/ Decide(h) \/ Return(h)
    \/ LimiterStop
    \/ LimiterTick

LimiterSpec == LimiterInit /\ [][LimiterNext]_limiterVars

-----------------------------------------------------------------------------
(* Properties                                                              *)

\* No window, whenever it begins, sees more than the allowed updates pass, but for
\* those that were counted by a key which expired before they could prolong it.
BurstBound == Cardinality(passed) <= RateMax + Cardinality(Handlers)

\* A user who was refused and sends nothing for a window is not refused again: the
\* count is gone, whatever stopped between INCR and EXPIRE.
QuietReadmits == wait = 0 => hits = 0
=============================================================================
