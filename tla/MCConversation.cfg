SPECIFICATION Spec
CONSTANTS
    MaxRoutesPerUser = 1
    Times <- TwoTimes
    MaxCreated = 2
    d1 = d1
    d2 = d2
    Dialogs <- TwoDialogs
    Missing = Missing
    MaxSearches = 1
    ChatMemory = 1
    MaxExtra = 1
    h1 = h1
    h2 = h2
    Handlers <- TwoHandlers
SYMMETRY Renamings
INVARIANTS
    TypeOK
    ExcessHasCause
    DeletesTheNamed
PROPERTIES
    
    ImplementsRouteBook
