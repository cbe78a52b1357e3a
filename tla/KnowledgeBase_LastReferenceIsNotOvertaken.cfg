\* One user: a removal races a sync of the same file.
SPECIFICATION Spec
CONSTANTS
    alice = alice
    bob = bob
    d1 = d1
    d2 = d2
    d3 = d3
    b1 = b1
    b2 = b2
    None = None
    User = {alice}
    Directory = {d1, d2}
    Owner <- AlicesOwner
    Under <- NestedUnder
    NumKeys = 2
    Body = {b1}
    Readable <- Supported
    Remover = {r1}
    MaxPuts = 2
    MaxFaults = 0
INVARIANTS
    LastReferenceIsNotOvertaken
CHECK_DEADLOCK FALSE
