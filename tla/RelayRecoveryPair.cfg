SPECIFICATION Spec
CONSTANTS
    c1 = c1  c2 = c2
    Calls <- TwoCalls
    Channels <- TwoSockets
    Instances <- OneInstance
    NoChannel = 0  NoInstance = NoInstance
    Timeout <- MCTimeout
    ExecutionBudget <- MCExecution
    DeliveryGrace = 1
    ReconnectGrace = 4
    MinRedelivery = 1
    DaemonGrace = 11
    DaemonMaximum = 1
    DaemonReserved = 0
    MaxLateness = 1
    Crashes = 0
    Reliable = {}
SYMMETRY CallSymmetry
CHECK_DEADLOCK FALSE
INVARIANTS RetentionWithinCapacity
