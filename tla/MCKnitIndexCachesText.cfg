\* The text store's combined index built by a read before the write group.
CONSTANTS
    InitPacks = 1
    MaxKeys = 3
    MaxGroups = 1
    MaxLocks = 1
    MaxPackCalls = 0
    NULL = NULL
SPECIFICATION Spec
INVARIANT TextStoreReadsItsWrites
