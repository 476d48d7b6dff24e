\* One manager restarting, four runners, two recoveries, two crashes and one
\* failing write.
CONSTANTS
    Managers = {m1}
    MaxRunners = 4
    MaxRecoveries = 2
    MaxCrashes = 2
    MaxWriteFaults = 1
    None = None
    Dead = Dead
SPECIFICATION Spec
INVARIANTS
    RecoveryNeverReplaysMain
    OneRunnerWorks
    SettledHonestly
PROPERTIES
    OutcomeKept
    EventuallySettled
\* A job that is settled stays as it is.
CHECK_DEADLOCK FALSE
