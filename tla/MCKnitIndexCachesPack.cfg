\* pack() called under an outer write lock, with the stores' caches built.
CONSTANTS
    InitPacks = 2
    MaxKeys = 3
    MaxGroups = 1
    MaxLocks = 2
    MaxPackCalls = 1
    NULL = NULL
SPECIFICATION Spec
INVARIANT CommittedKeysReadable
