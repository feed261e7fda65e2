\* Two updates at a time, and the daemon; half a minute a tick.
SPECIFICATION FairRequestSpec
CONSTANTS
    h1 = h1
    h2 = h2
    daemon = daemon
    Handlers <- TwoHandlers
    Callers <- HandlersAndDaemon
    Daemon = daemon
    Nobody = nobody
    Window = 2
    RateMax = 3
    Lifetimes = {3, 4}
    Margin = 2
INVARIANTS
    RequestTypeOK
    BurstBound
    QuietReadmits
    OneRefresh
    TokenOutlivesSearch
PROPERTIES
    NoTokenWasted
    EveryCallEnds
