SPECIFICATION FairSpec
CONSTANTS
    c1 = c1  c2 = c2
    Calls <- OneCall
    Channels <- ThreeSockets
    Instances <- TwoInstances
    NoChannel = 0  NoInstance = NoInstance
    Timeout <- MCTimeout
    ExecutionBudget <- MCExecution
    DeliveryGrace = 1
    ReconnectGrace = 4
    MinRedelivery = 1
    DaemonGrace = 15
    DaemonMaximum = 1
    DaemonReserved = 0
    MaxLateness = 1
    Crashes = 1
    Reliable = {3}
CHECK_DEADLOCK FALSE
INVARIANTS CallsSurvive NoProtocolViolation
PROPERTIES EventuallyAnswered EventuallyReleased
