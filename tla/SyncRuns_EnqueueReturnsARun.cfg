CONSTANTS
    Directory = {d1}
    Request = {q1, q2}
    Worker = {w1}
    NoRun = NoRun
    MaxAttempts = 3
    HeartbeatEvery = 5
    MaxFiles = 1
    MaxFaults = 0
    SlowFiles = FALSE
SPECIFICATION Spec
INVARIANT EnqueueReturnsARun
