SPECIFICATION MCSpec
CONSTANTS
    Off = Off
    None = None
    Stores = {"s1", "s2", "s3"}
    Scopes = {"here", "there"}
    Releases = {"r1", "r2"}
    SchemaCollection = "meta"
    ScopeOf <- MCScopeOf
    ReleaseOf <- MCReleaseOf
    DataCollections <- MCDataCollections
    Validator <- MCValidators
    Wanted <- MCWanted
    InitialDatabases <- MCDatabases
    MaxFaults = 2
INVARIANTS BootstrapIsSound EncodingsAreExact
PROPERTY NothingAltered
CHECK_DEADLOCK FALSE
