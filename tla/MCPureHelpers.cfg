\* Every largest-first list of up to 6 packs of 1..15 revisions (totals up
\* to 90, so distributions with several 10-buckets and overshooting merges);
\* every sorted list of up to three dirblocks named by strings of up to two
\* characters, every dirname of that kind and every lo and hi; every
\* dirstate of up to three entries in four directories, and of up to two
\* damaged in one field; every path of up to three parts; every upstream version of up
\* to four characters; every backport of a Debian version of up to three
\* characters; every request for a version of an upstream branch of up to
\* three revisions; every sequence of one or two pristine-tar imports.
CONSTANTS MaxBlocks = 3  MaxEntries = 3  MaxDamaged = 2  MaxParts = 3  NULL = NULL  MaxPacks = 6  MaxCount = 15
SPECIFICATION Spec
INVARIANTS
    DistributionIsFewestPowersOfTen
    PlanNeverExhaustsDistribution
    PlanMeetsMaxPackCount
    BisectDirblockIsInsertionPoint
    ReadDirblocksGroupsByDirname
    ReadDirblocksNeverOverruns
    DefaultUnprefixSplitsPath
    UpstreamTagsReadBack
    BackportVersionOrder
    SnapshotNamesRevision
    FetchesLastImportRevprops
