\* Two processes open any volume with up to three datasources of two users.
SPECIFICATION FairSpec
CONSTANTS
    alice = alice
    bob = bob
    library = library
    own = own
    User = {alice, bob}
    Process = {api, worker}
    NumSources = 3
    Directory = {d1, d2}
    Endpoint = {"null", ""}
    Path <- Paths
    allowed <- Scopes
    Key = {k1}
    MaxTime = 1
    MaxCalls = 1
    MaxCrashes = 1
INVARIANTS
    TypeOK
    RowsFollow
    OneRowPerPlace
    FailsOnlyOnClash
    RegisteredIsInScope
    ScopeIsWalkable
PROPERTIES
    NothingIsForgotten
    ServingIsQuiet
    VolumeOpens
CHECK_DEADLOCK FALSE
