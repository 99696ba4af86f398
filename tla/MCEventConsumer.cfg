SPECIFICATION FairPipelineSpec
CONSTANTS
    s1 = s1
    s2 = s2
    j1 = j1
    r1 = r1
    Events = {1, 2}
    Servers = {s1, s2}
    Jobs = {j1}
    Requests = {r1}
    HostOf <- MCHostOf
    BatchSize = 2
    MaxAttempts = 2
    MaxFaults = 1
    Home = s1
    MaxChannels = 3
    Reconnects = {1, 2}
INVARIANTS PipelineTypeOK AttemptsBounded CopiesCounted
PROPERTIES MarksRace NoMessageVanishes KeepsThePromise EventsGetOut QueuedIsHandled
CHECK_DEADLOCK FALSE
