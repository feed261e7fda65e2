\* One train, with every change of status, checked again and again.
SPECIFICATION Spec
CONSTANTS
    r1 = r1  h1 = h1  exact = exact  soon = soon  late = late  p1 = p1  p2 = p2
    NoPlatform = NoPlatform
    Unknown = Unknown
    None = None
    DelayThreshold = 2
    Routes <- OneRoute
    Trains <- OneTrain
    Dep <- MCDep
    Sched <- MCSched
    Delays = {0, 1, 2, 3, 5}
    Platforms = {NoPlatform, p1, p2}
    Offsets <- OneOffset
    Instants <- InWindow
    SendsMayFail = FALSE
    ChecksMayFail = FALSE
    Handlers = {}
    Uses = {}
    InitialRows <- ActiveRows
    MaxCrashes = 0
    MaxCount = 3
INVARIANTS
    CancellationKnown
    DelayKnown
    PlatformKnown
