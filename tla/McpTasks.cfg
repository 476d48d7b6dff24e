SPECIFICATION Spec
CONSTANTS
    j1 = j1  j2 = j2  o1 = o1  o2 = o2  r1 = r1  r2 = r2
    Jobs = {j1, j2}
    Owners = {o1, o2}
    OwnerOf <- MCOwnerOf
    Requests = {r1, r2}
    MaxTasks = 2
    MaxResult = 2
    Total = 3
    MaxSize = 3
    None = None
CHECK_DEADLOCK FALSE
SYMMETRY RequestSymmetry
INVARIANTS EndsTruthfully StateReadable ChunksExact
PROPERTIES AnswersStick
