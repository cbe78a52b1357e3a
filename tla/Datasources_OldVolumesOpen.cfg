\* An old volume two of whose directories would become one.
SPECIFICATION Spec
CONSTANTS
    alice = alice
    bob = bob
    library = library
    own = own
    User = {alice, bob}
    Process = {api, worker}
    NumSources = 3
    Directory = {d1, d2}
    Endpoint = {"null", ""}
    Path <- Paths
    allowed <- Scopes
    Key = {k1}
    MaxTime = 1
    MaxCalls = 1
    MaxCrashes = 1
INVARIANTS
    OldVolumesOpen
CHECK_DEADLOCK FALSE
