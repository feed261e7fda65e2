\* The daemon's ticks over two routes and the breaker; broadcasts arrive and are done
\* within the cooldown.
SPECIFICATION FairMonitorSpec
CONSTANTS
    daemon = daemon
    h1 = h1
    h2 = h2
    r1 = r1
    r2 = r2
    Daemon = daemon
    Callers <- OneCaller
    Checkers <- TwoCheckers
    Routes <- TwoRoutes
    FailureThreshold = 3
    RecoveryCooldown = 2
    ReliableBroadcasts = TRUE
INVARIANTS
    TypeOK
    MonitorTypeOK
    LastWordIsTrue
PROPERTIES
    NoFlapping
    TripsOnStreak
    RecoversWhenHealthy
    OutageNoticed
    MonitoringResumes
