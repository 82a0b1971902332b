CONSTANTS
    Desks = {d1}
    d1 = d1
    OldRows = 3
    ZonesPerPage = 2
    MaxClicks = 3
    Catalogue = {1, 2, 3}
    Filtered = {1}
    Matching = {1, 3}
    ItemsPerPage = 1
    MaxQueries = 3
    p1 = p1
    p2 = p2
    Pins = {p1, p2}
    Serviceable = {p1}
    Stored = 3
    FirstDefaults = {1}
    MaxTyped = 2
    MaxCalls = 2
    MaxMoves = 3
    MaxLogs = 7
    MaxSources = 2
    InitialLimit = 2
    Slice = 2
    MaxShown = 6
    MaxBacklog = 1
SPECIFICATION PagesSpec
INVARIANTS
    PagesTypeOK
    TableIsShown
    ShelfHidesNothing
    VerdictIsOfThePincode
    PageIsTheBook
    TerminalIsFaithful
CHECK_DEADLOCK FALSE
