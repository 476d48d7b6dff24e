\* Two families, one of them shared, two rotations each; stores
\* that hold two tokens, two markers and one tombstone, so that all of them fill.
CONSTANTS
    Families = {f1, f2}
    Shared = {f2}
    MaxToken = 2
    MaxRetries = 2
    MaxLive = 2
    MaxConsumed = 2
    MaxRevoked = 1
SPECIFICATION Spec
INVARIANTS
    OneBranch
    RevocationComplete
    PromptClientKept
\* Families that have ended leave nothing to do.
CHECK_DEADLOCK FALSE
