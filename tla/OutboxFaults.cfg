\* Crashes and failures of two instances.
CONSTANTS
    Events = {e1, e2}
    Instances = {i1, i2}
    Runs = {r1}
    BatchSize = 1
    MaxStalls = 1
    MaxFaults = 3
SPECIFICATION FairSpec
CHECK_DEADLOCK FALSE
INVARIANTS
    LossBounded
    NoticesBoundedByStalls
PROPERTIES
    JobsEnd
