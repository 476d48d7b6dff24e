SPECIFICATION FairWSpec
CONSTANTS
    c1 = c1  c2 = c2  d1 = d1
    k1 = k1  a1 = a1  x1 = x1  f1 = f1  f2 = f2
    Calls = {c1, c2}
    Channels = {w1, w2}
    Instances = {d1}
    NoChannel = NoChannel  NoInstance = NoInstance  NoKey = NoKey  NoCall = NoCall
    AnyClient = AnyClient  AnyFamily = AnyFamily
    Timeout <- MCTimeout
    ExecutionBudget <- MCExecution
    DeliveryGrace = 1
    ReconnectGrace = 4
    RequestKeys = {k1}
    KeyOf <- MCKeyOf
    ToolOf <- MCToolOf
    AuthorityOf <- MCAuthority
    Scopes <- MCScopes
    InstanceOf <- MCInstanceOf
    MinRedelivery = 1
    Maximum = 3
    Reserved = 1
    ReadJobMaximum = 1
    MaxLateness = 1
CHECK_DEADLOCK FALSE
INVARIANTS SettlementBounded RegistryConsistent RevocationSticks NoWakeupLost
PROPERTIES RedeliverOnceWithinBudget NoEarlyExpiry ImplementsOwnership EventuallyEnds
