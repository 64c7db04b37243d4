\* No faults: two instances, or overlapping runs, race for the events.
CONSTANTS
    Events = {e1, e2}
    Instances = {i1, i2}
    Runs = {r1, r2}
    BatchSize = 2
    MaxStalls = 1
    MaxFaults = 0
SPECIFICATION FairSpec
CHECK_DEADLOCK FALSE
PROPERTY DeliversOnce
