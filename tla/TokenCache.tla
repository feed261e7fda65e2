----------------------------- MODULE TokenCache -----------------------------
(***************************************************************************)
(* The access token of the RTT client (internal/rtt/client.go), shared by  *)
(* the daemon and the bot's handlers.  getAccessToken looks at the token   *)
(* under the mutex and lets the mutex go; a caller who found none worth    *)
(* using takes it again, looks again, and keeps it over the request that   *)
(* fetches a new one, so that the others wait, whatever their deadlines.   *)
(*                                                                         *)
(* Time passes in ticks, of which Margin make the minute of grace.  The    *)
(* client gives a request ten seconds, so it sees one tick at most.        *)
(***************************************************************************)
EXTENDS Naturals

CONSTANTS
    Callers,    \* goroutines that search the timetable
    Nobody,     \* no goroutine
    Lifetimes,  \* how long a new token may be good for (external)
    Margin      \* the minute before tokenExpiry, in ticks

ASSUME NobodyAssumption    == Nobody \notin Callers
ASSUME MarginAssumption    == Margin \in Nat \ {0}
ASSUME LifetimesAssumption == \A l \in Lifetimes : l \in Nat /\ l > Margin

VARIABLES
    mu,      \* who holds the mutex, or Nobody
    expiry,  \* ticks until tokenExpiry, 0 also without a token
    call,    \* where a caller is: "idle", "stale" (between the two critical
             \* sections), "refreshing", "searching", "ending" (a tick later)
    hand     \* ticks until the token of a caller's search expires

cacheVars == <<mu, expiry, call, hand>>

Lives == {0} \cup UNION {0..l : l \in Lifetimes}

CacheTypeOK ==
    /\ mu \in Callers \cup {Nobody}
    /\ expiry \in Lives
    /\ call \in [Callers -> {"idle", "stale", "refreshing", "searching", "ending"}]
    /\ hand \in [Callers -> Lives]

CacheInit ==
    /\ mu = Nobody
    /\ expiry = 0
    /\ call = [c \in Callers |-> "idle"]
    /\ hand = [c \in Callers |-> 0]

\* mutant: the token is used to its last moment
ToTheEnd == expiry > 0
Usable == expiry > Margin

Go(c, step) == call' = [call EXCEPT ![c] = step]

SearchWith(c, life) ==
    /\ Go(c, "searching")
    /\ hand' = [hand EXCEPT ![c] = life]

\* GetScheduledDepartures and the first look of getAccessToken: lock, look, unlock.
GetAccessToken(c) ==
    /\ call[c] = "idle"
    /\ mu = Nobody
    /\ \/ Usable /\ SearchWith(c, expiry)
       \/ ~Usable /\ Go(c, "stale") /\ UNCHANGED hand
    /\ UNCHANGED <<mu, expiry>>

\* mutant: the token is not looked at again
NotAgain == FALSE
RefreshedMeanwhile == Usable

\* refreshAccessToken takes the mutex: another caller may have been here.
LockToRefresh(c) ==
    /\ call[c] = "stale"
    /\ mu = Nobody
    /\ \/ RefreshedMeanwhile /\ SearchWith(c, expiry) /\ UNCHANGED mu
       \/ ~RefreshedMeanwhile /\ Go(c, "refreshing") /\ mu' = c /\ UNCHANGED hand
    /\ UNCHANGED expiry

Refreshed(c) ==
    /\ call[c] = "refreshing"
    /\ \E l \in Lifetimes : expiry' = l /\ SearchWith(c, l)
    /\ mu' = Nobody

\* mutant: an early return forgets the mutex
KeepLock == UNCHANGED mu
Unlock == mu' = Nobody

\* No answer in time, or an answer that is no token: the search is given up, and the
\* token there was stays.
RefreshFails(c) ==
    /\ call[c] = "refreshing"
    /\ Go(c, "idle")
    /\ Unlock
    /\ UNCHANGED <<expiry, hand>>

\* The search ends, with trains or with an error: 401 leaves the token where it is.
SearchDone(c) ==
    /\ call[c] \in {"searching", "ending"}
    /\ Go(c, "idle")
    /\ hand' = [hand EXCEPT ![c] = 0]
    /\ UNCHANGED <<mu, expiry>>

CallerStep(c) == LockToRefresh(c) \/ Refreshed(c) \/ RefreshFails(c) \/ SearchDone(c)

\* The process stops; the token is kept in memory only.
CacheStop ==
    /\ mu' = Nobody
    /\ expiry' = 0
    /\ call' = [c \in Callers |-> "idle"]
    /\ hand' = [c \in Callers |-> 0]

Older(life) == IF life > 0 THEN life - 1 ELSE 0

CacheTick ==
    /\ \A c \in Callers : call[c] # "ending"
    /\ expiry' = Older(expiry)
    /\ hand' = [c \in Callers |-> Older(hand[c])]
    /\ call' = [c \in Callers |-> IF call[c] = "searching" THEN "ending" ELSE call[c]]
    /\ UNCHANGED mu

CacheNext ==
    \/ \E c \in Callers : GetAccessToken(c) \/ CallerStep(c)
    \/ CacheStop
    \/ CacheTick

CacheSpec == CacheInit /\ [][CacheNext]_cacheVars

-----------------------------------------------------------------------------
(* Properties                                                              *)

\* The mutex covers the whole refresh: one request for a token at a time, and the
\* holder of the mutex is making it.
OneRefresh == \A c \in Callers : call[c] = "refreshing" <=> mu = c

\* A token worth using is never replaced: callers who waited for a refresh use its token
\* and do not ask for another.
NoTokenWasted == [][expiry' > expiry => expiry <= Margin]_cacheVars

\* No search is made with an expired token, however long the caller waited for it.
TokenOutlivesSearch ==
    \A c \in Callers : call[c] \in {"searching", "ending"} => hand[c] > 0

\* A caller who found the token stale and waits to refresh it, or refreshes it, gets a
\* token or an error.  (One who still waits for the first look at it, getAccessToken's
\* Lock, has not begun here.)
EveryCallEnds ==
    \A c \in Callers : call[c] = "stale" ~> call[c] \in {"idle", "searching"}
=============================================================================
