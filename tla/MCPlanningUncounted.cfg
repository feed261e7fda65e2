\* Nothing is planned yet and the API does not answer.
SPECIFICATION MonitorSpec
CONSTANTS
    daemon = daemon
    h1 = h1
    h2 = h2
    r1 = r1
    r2 = r2
    Daemon = daemon
    Callers <- OneCaller
    Checkers <- TwoCheckers
    Routes <- OneRoute
    FailureThreshold = 3
    RecoveryCooldown = 2
    ReliableBroadcasts = TRUE
INVARIANT
    FailuresTrip
