\* A reader that loaded pack-names before an autopack of the writer finds
\* the packs it lists gone from packs/.
CONSTANTS
    InitRevs = 8
    MaxRevs = 10
    MaxBatch = 2
    SignRevs = {}
    MaxCrashes = 0
    MaxPackCalls = 0
    NULL = NULL
    Readers = {rd1}

SPECIFICATION Spec

INVARIANT
    ReadersFindTheirPacks
