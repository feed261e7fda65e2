\* Two callers; broadcasts may be lost and may take any time.
SPECIFICATION Spec
CONSTANTS
    daemon = daemon
    other = other
    h1 = h1
    h2 = h2
    Callers <- TwoCallers
    Checkers <- TwoCheckers
    FailureThreshold = 3
    RecoveryCooldown = 2
    ReliableBroadcasts = FALSE
INVARIANTS
    NoOrphanOutage
    OneWatcher
PROPERTIES
    ImplementsOutage
