\* Two users of one library, one of them through nested directories; a removal
\* racing the syncs.
SPECIFICATION Spec
CONSTANTS
    alice = alice
    bob = bob
    d1 = d1
    d2 = d2
    d3 = d3
    b1 = b1
    b2 = b2
    None = None
    User = {alice, bob}
    Directory = {d1, d2, d3}
    Owner <- SharedOwner
    Under <- AllUnder
    NumKeys = 1
    Body = {b1, b2}
    Readable <- Supported
    Remover = {r1}
    MaxPuts = 2
    MaxFaults = 1
SYMMETRY Symmetric
INVARIANTS
    TypeOK
    FingerprintIsHonest
    HitsResolve
    PaidOnce
    CleanRunAgrees
CHECK_DEADLOCK FALSE
