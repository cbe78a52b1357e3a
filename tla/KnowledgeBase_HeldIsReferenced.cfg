\* One user edits a file; nothing fails and nothing is removed by hand.
SPECIFICATION Spec
CONSTANTS
    alice = alice
    bob = bob
    d1 = d1
    d2 = d2
    d3 = d3
    b1 = b1
    b2 = b2
    None = None
    User = {alice}
    Directory = {d1, d2}
    Owner <- AlicesOwner
    Under <- NestedUnder
    NumKeys = 2
    Body = {b1, b2}
    Readable <- Supported
    Remover = {}
    MaxPuts = 2
    MaxFaults = 0
INVARIANTS
    HeldIsReferenced
CHECK_DEADLOCK FALSE
