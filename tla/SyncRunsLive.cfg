\* Two workers, whose files never outlast the heartbeat timeout.
CONSTANTS
    Directory = {d1}
    Request = {q1, q2}
    Worker = {w1, w2}
    NoRun = NoRun
    MaxAttempts = 1
    HeartbeatEvery = 2
    MaxFiles = 1
    MaxFaults = 1
    SlowFiles = FALSE
SPECIFICATION FairSpec
INVARIANTS
    SyncsAreExclusive
PROPERTIES
    TerminalIsFinal
    RunsEnd
    ImplementsSlots
