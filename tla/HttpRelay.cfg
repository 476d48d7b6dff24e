SPECIFICATION FairSpec
CONSTANTS
    c1 = c1
    Calls <- OneCall
    Channels <- SevenChannels
    Sessions <- FiveSessions
    Instances = {i1}
    NoChannel = 0  NoInstance = NoInstance
    Timeout <- MCTimeout
    DeliveryGrace = 1
    ReconnectGrace = 4
    MaxFaults = 2
INVARIANTS RelayKept CallsSurvive OwnerIsOpen
PROPERTIES EventuallyAnswered EventuallyReleased
