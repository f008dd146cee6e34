\* One writer taking the write lock (as the commit and pack commands do),
\* three write groups writing up to five keys of any kind into a repository
\* of two packs, and one pack() call before, between or after them.  Nested
\* locks are left to MCKnitIndexCachesPack.cfg, where pack() under an outer
\* lock breaks CommittedKeysReadable.
CONSTANTS
    InitPacks = 2
    MaxKeys = 5
    MaxGroups = 3
    MaxLocks = 1
    MaxPackCalls = 1
    NULL = NULL
SPECIFICATION Spec
INVARIANTS
    TypeOK
    CommittedKeysReadable
    RevisionStoreReadsItsWrites
    InventoryReadsItsWrites
    AutopackCountsEachRevisionOnce
