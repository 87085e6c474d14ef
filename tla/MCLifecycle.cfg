SPECIFICATION Spec
CONSTANTS
    Agents = {"robot", "conveyor", "kitchen", "controller"}
    MaxSignals = 1
    MaxFaults = 1
INVARIANTS
    TypeOK
    NoLostWakeup
    DeregisteredForGood
    ServerFreedLast
PROPERTIES
    StopEndsProcess
CHECK_DEADLOCK FALSE
