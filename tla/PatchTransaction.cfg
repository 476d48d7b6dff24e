SPECIFICATION Spec
CONSTANTS
    a = a
    b = b
    c = c
    d = d
    Absent = Absent
    Files <- MCFiles
    Plans <- MCPlans
    MaxFaults = 2
    MaxTouches = 2
INVARIANT OriginalsKept
INVARIANT ForeignWorkKept
INVARIANT AllOrNothing
INVARIANT ArtifactsReported
