------------------------------- MODULE Outage -------------------------------
(***************************************************************************)
(* What a circuit breaker promises, without goroutines, locks or messages: *)
(* the API is believed up or down; every outage is watched by exactly one  *)
(* recovery procedure until it ends; the watch is given up only because    *)
(* the process is shutting down.  CircuitBreaker implements this.          *)
(***************************************************************************)
VARIABLES
    api,       \* "UP" or "DOWN": what State() answers
    watched,   \* somebody is responsible for ending the current outage
    stopped    \* the process's root context is cancelled

vars == <<api, watched, stopped>>

Init ==
    /\ api = "UP"
    /\ watched = FALSE
    /\ stopped = FALSE

\* An outage starts, and with it the watch over it.
Trip ==
    /\ api = "UP"
    /\ api' = "DOWN"
    /\ watched' = TRUE
    /\ UNCHANGED stopped

\* The watcher ends the outage, and its own job.
Recover ==
    /\ api = "DOWN"
    /\ watched
    /\ api' = "UP"
    /\ watched' = FALSE
    /\ UNCHANGED stopped

\* The watcher leaves without ending the outage: only at shutdown.
GiveUp ==
    /\ stopped
    /\ watched
    /\ watched' = FALSE
    /\ UNCHANGED <<api, stopped>>

Stop ==
    /\ ~stopped
    /\ stopped' = TRUE
    /\ UNCHANGED <<api, watched>>

Next == Trip \/ Recover \/ GiveUp \/ Stop

Spec == Init /\ [][Next]_vars
=============================================================================
