\* One worker, as deployed, whose files may outlast the heartbeat timeout; three
\* requests for one directory contend for its slot.
CONSTANTS
    Directory = {d1}
    Request = {q1, q2, q3}
    Worker = {w1}
    NoRun = NoRun
    MaxAttempts = 2
    HeartbeatEvery = 2
    MaxFiles = 1
    MaxFaults = 1
    SlowFiles = TRUE
SPECIFICATION Spec
INVARIANTS
    TypeOK
    OneActiveRunPerDirectory
    StatusWasTrue
    CreatedIsOwnUnlessEnded
    GivingUpMeansContention
SYMMETRY Symmetric
