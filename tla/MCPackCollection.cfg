\* The writer alongside a reader process: compaction and crash safety, the
\* refinement of PackStore and readers' packs.  The
\* repository starts with 8 single-revision packs; commits of up to 2
\* revisions reach 11, so autopack merges at 10 revisions (the first total
\* it can) and a commit follows it; revision 1 may be signed, which makes a
\* pack without revisions; one pack() call (which raises after an abort
\* left the open pack set) and one writer crash anywhere.  The reader loads
\* pack-names at any point, holds it across any number of writer steps and
\* unlocks.
CONSTANTS
    InitRevs = 8
    MaxRevs = 11
    MaxBatch = 2
    SignRevs = {1}
    MaxCrashes = 1
    MaxPackCalls = 1
    NULL = NULL
    Readers = {rd1}

SPECIFICATION Spec

INVARIANTS
    TypeOK
    ManifestPacksPresent
    ManifestPacksDisjoint
    
    ReadersPacksRecoverable

PROPERTIES
    PackStoreRefined
