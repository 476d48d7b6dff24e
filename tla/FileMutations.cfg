SPECIFICATION MutationsFairSpec
CONSTANTS
    m1 = m1
    m2 = m2
    m3 = m3
    m4 = m4
    a = a
    A = A
    b = b
    c = c
    NoMutation = NoMutation
    Mutations <- MCMutations
    Paths <- MCPaths
    KeyOf <- MCKeyOf
    Targets <- MCTargets
    Hanging <- MCHanging
INVARIANT MutualExclusion
INVARIANT RunInOrder
PROPERTY EventuallyRuns
