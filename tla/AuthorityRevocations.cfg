\* A client with two families and two account versions, of which two end; two
\* calls, and a lost connection or a failing local revocation.  The queue never
\* fills.
CONSTANTS
    f1 = f1
    f2 = f2
    c1 = c1
    c2 = c2
    Families = {f1, f2}
    Clients = {c1, c2}
    ClientOf <- MCClientOf
    MaxRevocations = 4
    MaxVersions = 2
    MaxCalls = 2
    MaxMutations = 2
    MaxFaults = 1
    None = None
SPECIFICATION Spec
INVARIANTS
    RevokedWorkStaysQueued
    OnlyRevokedStopped
PROPERTY EventuallyStopped
\* An account at rest has nothing left to do.
CHECK_DEADLOCK FALSE
