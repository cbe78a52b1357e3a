\* One user's directory with two files; two removals racing the syncs and each other.
SPECIFICATION Spec
CONSTANTS
    alice = alice
    bob = bob
    d1 = d1
    d2 = d2
    d3 = d3
    b1 = b1
    b2 = b2
    None = None
    User = {alice}
    Directory = {d1}
    Owner <- AlicesOwner
    Under <- AllUnder
    NumKeys = 2
    Body = {b1, b2}
    Readable <- Supported
    Remover = {r1, r2}
    MaxPuts = 2
    MaxFaults = 1
SYMMETRY Symmetric
INVARIANTS
    IndexedIsSearchable
    PossessionIsAccounted
PROPERTIES
    ImplementsContent
CHECK_DEADLOCK FALSE
