CONSTANTS MaxBlocks = 3  MaxEntries = 3  MaxDamaged = 2  MaxParts = 3  NULL = NULL  MaxPacks = 6  MaxCount = 15
SPECIFICATION Spec
INVARIANT FetchesLastImport
