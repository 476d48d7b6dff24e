SPECIFICATION Spec
CONSTANTS
    c1 = c1
    Calls <- OneCall
    Channels <- FourChannels
    Sessions <- ThreeSessions
    Instances = {i1}
    NoChannel = 0  NoInstance = NoInstance
    Timeout <- MCTimeout
    DeliveryGrace = 1
    ReconnectGrace = 4
    MaxFaults = 2
INVARIANT OwnershipPreserved
CHECK_DEADLOCK FALSE
