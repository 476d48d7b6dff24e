\* Two manager processes, the daemon and a command of the CLI, on one job.
CONSTANTS
    Managers = {m1, m2}
    MaxRunners = 3
    MaxRecoveries = 1
    MaxCrashes = 1
    MaxWriteFaults = 0
    None = None
    Dead = Dead
SPECIFICATION Spec
INVARIANT RecoveryNeverReplaysMain
CHECK_DEADLOCK FALSE
