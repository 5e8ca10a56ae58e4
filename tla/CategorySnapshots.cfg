SPECIFICATION Spec
CONSTANTS
    None = None
    Names <- MCNames
    Uncategorised = 2
    IgnoreCase <- MCIgnoreCase
    ExternalIds = {"x0", "x1", "x2", "x3"}
    Channels = {"x1", "x2", "x3"}
    Persisted <- MCPersisted
    MaxRecords = 4
    AllChannels = AllChannels
    Blank = Blank
    Collation <- MCCollation
    LowerCollation <- MCCollation
    DefaultLimit = 1
    MaxLimit = 2
CHECK_DEADLOCK FALSE
INVARIANTS
    SnapshotIsGrouping
    IdsAreExact
    OrderIsByName
    ViewIsOwnSnapshot
    ListsAreComplete
    PagesAreReadable
    PrototypeAgrees
