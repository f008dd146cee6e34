\* abort_write_group, or a commit with nothing inserted, followed by pack().
CONSTANTS
    InitRevs = 2
    MaxRevs = 3
    MaxBatch = 1
    SignRevs = {}
    MaxCrashes = 0
    MaxPackCalls = 1
    NULL = NULL
    Readers = {}

SPECIFICATION Spec

INVARIANT
    NoOpenPackOutsideWriteGroup
