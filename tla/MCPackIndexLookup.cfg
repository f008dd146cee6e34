\* Every pack-names of up to two packs.
CONSTANT PackNames = {p1, p2}
SPECIFICATION Spec
INVARIANT LookupFindsEveryPack
