-------------------------- MODULE KnitIndexCaches --------------------------
(***************************************************************************)
(* The per-kind index caches of a GraphKnitRepository                      *)
(* (src/bzrlib/repofmt/pack_repo.py): the combined index each store keeps  *)
(* on the repository (_revision_all_indices, _signature_all_indices,       *)
(* _text_all_indices, _inv_all_indices), the write index of the open write *)
(* group, and how setup, reads, flush, reset, the lock's _refresh_data,    *)
(* the commit's autopack and pack() change them.                           *)
(*                                                                         *)
(* A combined index is the sequence of its indices, front first.  A pack   *)
(* index is named by the pack's content (a function from the four kinds to *)
(* keys); the write index of the g-th write group is the record [w |-> g]. *)
(* Reading an index of a pack that is no longer in packs/ fails, so its    *)
(* keys are not readable.                                                  *)
(***************************************************************************)
EXTENDS Naturals, FiniteSets, Sequences, SequencesExt, Autopack

CONSTANTS
    InitPacks,    \* packs 1..InitPacks hold one key of every kind each
    MaxKeys,      \* keys are 1..MaxKeys
    MaxGroups,    \* bound on write groups
    MaxLocks,     \* bound on nested write locks
    MaxPackCalls, \* bound on calls of pack()
    NULL          \* None

ASSUME InitPacks \in 1..MaxKeys /\ MaxGroups \in Nat /\ MaxLocks \in Nat
       /\ MaxPackCalls \in Nat

Kinds == {"rix", "iix", "tix", "six"}

Content == [Kinds -> SUBSET (1..MaxKeys)]

WriteIndex(g) == [w |-> g]

IsWriteIndex(i) == DOMAIN i = {"w"}

VARIABLES
    manifest,   \* pack-names
    packsDir,   \* packs in packs/
    names,      \* the collection's _names, NULL until ensure_loaded
    allIdx,     \* kind -> NULL or the combined index's list of indices
    gen,        \* write groups started so far; the current write index
    wHist,      \* generation -> what that write index holds
    inWG,       \* repo.is_in_write_group()
    openPack,   \* repo._open_pack_tuple is not None
    failed,     \* the last commit raised; only abort is left
    nextKey,    \* the next new key
    lockCount,  \* control_files._lock_count
    packCalls   \* calls of pack() so far

vars == <<manifest, packsDir, names, allIdx, gen, wHist, inWG, openPack,
          failed, nextKey, lockCount, packCalls>>

-----------------------------------------------------------------------------
(* Helpers *)

EmptyContent == [k \in Kinds |-> {}]

(* A new GraphKnitRepository: no store has built an index yet.            *)
NoCaches == [k \in Kinds |-> NULL]

(* GraphKnitRevisionStore.reset: the revision and signature caches.       *)
RevisionStoreReset(c) == [c EXCEPT !["rix"] = NULL, !["six"] = NULL]

(* GraphKnitTextStore.reset.                                               *)
TextStoreReset(c) == [c EXCEPT !["tix"] = NULL]

(* InventoryKnitThunk.reset.                                               *)
InventoryReset(c) == [c EXCEPT !["iix"] = NULL]

(* The three stores' resets, as _refresh_data, _abort_write_group and      *)
(* _commit_write_group call them.                                          *)
ResetStores(c) == InventoryReset(TextStoreReset(RevisionStoreReset(c)))

Loaded(ns) == IF ns = NULL THEN manifest ELSE ns

MinKey(p) == CHOOSE x \in UNION {p[k] : k \in Kinds} :
                 \A k \in Kinds : \A y \in p[k] : x <= y

(* names(): the pack names in a fixed (sorted) order.                      *)
RECURSIVE NamesSorted(_)
NamesSorted(ns) ==
    IF ns = {} THEN << >>
    ELSE LET m == CHOOSE p \in ns : \A q \in ns : MinKey(p) <= MinKey(q)
         IN <<m>> \o NamesSorted(ns \ {m})

(* The keys an index holds in kind k, if its files can be read.            *)
IndexKeys(i, k) ==
    IF IsWriteIndex(i) THEN wHist[i.w][k]
    ELSE IF i \in packsDir THEN i[k] ELSE {}

Readable(k) ==
    IF allIdx[k] = NULL THEN {} ELSE UNION {IndexKeys(i, k) : i \in ToSet(allIdx[k])}

Keys(packs, k) == UNION {p[k] : p \in packs}

(* The stores' data_inserted: a write index holding a key.                *)
RevisionDataInserted == wHist[gen]["rix"] # {} \/ wHist[gen]["six"] # {}
TextDataInserted == wHist[gen]["tix"] # {}
InventoryDataInserted == wHist[gen]["iix"] # {}

DataInserted == RevisionDataInserted \/ TextDataInserted \/ InventoryDataInserted

(* Mutation of BuildRevisionIndex: the write index is left out.          *)
BuildRevisionIndexNoWrite(ns, wg, g) == NamesSorted(ns)

(* get_revision_file, get_signature_file: the indices of every pack in     *)
(* _names, with the write index put first in a write group.                *)
BuildRevisionIndex(ns, wg, g) ==
    IF wg THEN <<WriteIndex(g)>> \o NamesSorted(ns) ELSE NamesSorted(ns)

(* GraphKnitTextStore._ensure_all_index: the write index first when        *)
(* for_write or in a write group.                                          *)
BuildTextIndex(ns, for_write, wg, g) ==
    IF for_write \/ wg THEN <<WriteIndex(g)>> \o NamesSorted(ns)
    ELSE NamesSorted(ns)

(* InventoryKnitThunk._ensure_all_index: the write index appended last.    *)
BuildInventoryIndex(ns, wg, g) ==
    IF wg THEN Append(NamesSorted(ns), WriteIndex(g)) ELSE NamesSorted(ns)

(* The combined index a read of kind k builds when none is cached.         *)
BuildIndex(k, ns) ==
    CASE k \in {"rix", "six"} -> BuildRevisionIndex(ns, inWG, gen)
      [] k = "tix"            -> BuildTextIndex(ns, FALSE, inWG, gen)
      [] k = "iix"            -> BuildInventoryIndex(ns, inWG, gen)

(* The cache as a read of kind k leaves it: built if it was None.          *)
Ensured(k, ns) == IF allIdx[k] = NULL THEN BuildIndex(k, ns) ELSE allIdx[k]

(* The caches a read of kind k leaves, and the names it loads.             *)
EnsureIndex(k) ==
    /\ allIdx' = [allIdx EXCEPT ![k] = Ensured(k, Loaded(names))]
    /\ names' = IF allIdx[k] = NULL THEN Loaded(names) ELSE names

(* Mutation of RevisionStoreSetup: the write index of the previous write  *)
(* group.                                                                  *)
RevisionStoreSetupStaleGen(seq, g) ==
    IF seq = NULL THEN NULL ELSE <<WriteIndex(g - 1)>> \o seq

(* GraphKnitRevisionStore.setup for one of its two kinds: a combined index *)
(* already handed out gets the new write index first.                      *)
RevisionStoreSetup(seq, g) ==
    IF seq = NULL THEN NULL ELSE <<WriteIndex(g)>> \o seq

(* GraphKnitTextStore.setup: _ensure_all_index(True) returns at once when  *)
(* the combined index exists, so only a new one gets the write index.      *)
TextStoreSetup(seq, ns, g) ==
    IF seq = NULL THEN BuildTextIndex(ns, TRUE, FALSE, g) ELSE seq

(* Mutation of InventorySetup: the existing index is left alone.          *)
InventorySetupNoInsert(seq, g) == seq

(* InventoryKnitThunk.setup: an existing combined index gets the write     *)
(* index first.                                                             *)
InventorySetup(seq, g) ==
    IF seq = NULL THEN NULL ELSE <<WriteIndex(g)>> \o seq

(* Mutation of FlushIndex: the write index is not deleted.               *)
FlushIndexNoDelete(seq, np) == IF seq = NULL THEN NULL ELSE <<np>> \o seq

(* The flush of a store whose combined index exists: insert_index(0, the   *)
(* new pack's index), then del _indices[1].                                *)
FlushIndex(seq, np) ==
    IF seq = NULL THEN NULL ELSE RemoveAt(<<np>> \o seq, 2)

(* GraphKnitTextStore.flush: the text index.                              *)
TextStoreFlush(caches, np) == [caches EXCEPT !["tix"] = FlushIndex(@, np)]

(* InventoryKnitThunk.flush: the inventory index.                          *)
InventoryFlush(caches, np) == [caches EXCEPT !["iix"] = FlushIndex(@, np)]

(* GraphKnitRevisionStore.flush: the revision index, then the signature    *)
(* index.                                                                   *)
RevisionStoreFlush(caches, np) ==
    [caches EXCEPT !["rix"] = FlushIndex(@, np), !["six"] = FlushIndex(@, np)]

(* The commit's flushes, in the code's order: weave store, inventory,      *)
(* revision store.                                                          *)
CommitFlush(np) == RevisionStoreFlush(InventoryFlush(TextStoreFlush(allIdx, np), np), np)

(* Mutation of ResetAfterCommit: the inventory thunk is not reset.        *)
ResetAfterCommitKeepInventory(caches) == TextStoreReset(RevisionStoreReset(caches))

(* The commit's reset of the three stores.                                 *)
ResetAfterCommit(caches) == ResetStores(caches)

(* What key_count() of an index counts in kind k.                          *)
IndexCount(i, k) == Cardinality(IF IsWriteIndex(i) THEN wHist[i.w][k] ELSE i[k])

RECURSIVE KeyCountOf(_, _)
KeyCountOf(seq, k) ==
    IF seq = << >> THEN 0 ELSE IndexCount(Head(seq), k) + KeyCountOf(Tail(seq), k)

(* autopack()'s _revision_all_indices after the commit's flushes: when the *)
(* flush found it None, get_revision_file builds it now, still in the      *)
(* write group, from _names that already list the new pack.                *)
AutopackIndex(caches, ns) ==
    IF caches["rix"] = NULL THEN BuildRevisionIndex(ns, TRUE, gen)
    ELSE caches["rix"]

(* existing_packs, largest first; ties in reverse name order.              *)
RECURSIVE LargestFirst(_)
LargestFirst(S) ==
    IF S = {} THEN << >>
    ELSE LET m == CHOOSE p \in S : \A q \in S \ {p} :
                     \/ IndexCount(p, "rix") > IndexCount(q, "rix")
                     \/ IndexCount(p, "rix") = IndexCount(q, "rix")
                        /\ MinKey(p) > MinKey(q)
         IN <<[count |-> IndexCount(m, "rix"), pack |-> m]>>
              \o LargestFirst(S \ {m})

Merged(op) == [k \in Kinds |-> UNION {op.packs[j][k] : j \in DOMAIN op.packs}]

Sources(ops) == UNION {ToSet(op.packs) : op \in ops}

(* autopack() after a commit has allocated the new pack: raised is TRUE   *)
(* for the code's TypeError (the write index maps to the cleared           *)
(* _open_pack_tuple) and IndexError (the plan runs out of buckets).        *)
Autopack(caches, ns) ==
    LET idx      == AutopackIndex(caches, ns)
        total    == KeyCountOf(idx, "rix")
        existing == {i \in ToSet(idx) : IndexCount(i, "rix") > 0}
        plan     == PlanAutopackCombinations(LargestFirst(existing),
                                             PackDistribution(total))
        ops      == PackOperations(plan)
    IN [needed |-> MaxPackCount(total) < Cardinality(ns),
        raised |-> (\E i \in existing : IsWriteIndex(i)) \/ ~plan.ok,
        rix    |-> idx,
        merged |-> {Merged(op) : op \in ops},
        srcs   |-> Sources(ops)]

-----------------------------------------------------------------------------
(* Actions *)

InitialPacks == {[k \in Kinds |-> {i}] : i \in 1..InitPacks}

Init ==
    /\ manifest = InitialPacks
    /\ packsDir = InitialPacks
    /\ names = NULL
    /\ allIdx = NoCaches
    /\ gen = 0
    /\ wHist = [g \in 1..MaxGroups |-> EmptyContent]
    /\ inWG = FALSE
    /\ openPack = FALSE
    /\ failed = FALSE
    /\ nextKey = InitPacks + 1
    /\ lockCount = 0
    /\ packCalls = 0

(* lock_write, then _refresh_data: the first lock forgets the three        *)
(* stores' caches and the names.                                           *)
LockWrite ==
    /\ lockCount < MaxLocks
    /\ lockCount' = lockCount + 1
    /\ IF lockCount = 0 THEN allIdx' = ResetStores(allIdx) /\ names' = NULL
                        ELSE UNCHANGED <<allIdx, names>>
    /\ UNCHANGED <<manifest, packsDir, gen, wHist, inWG, openPack, failed,
                   nextKey, packCalls>>

(* unlock: refused while it would release a lock with a write group open. *)
Unlock ==
    /\ lockCount > 0
    /\ ~(inWG /\ lockCount = 1)
    /\ lockCount' = lockCount - 1
    /\ UNCHANGED <<manifest, packsDir, names, allIdx, gen, wHist, inWG,
                   openPack, failed, nextKey, packCalls>>

(* get_revision_file, get_signature_file, get_weave_or_empty, get_weave:   *)
(* a read of kind k through its combined index, built if not cached.       *)
Read(k) ==
    /\ lockCount > 0
    /\ ~failed
    /\ allIdx[k] = NULL
    /\ EnsureIndex(k)
    /\ UNCHANGED <<manifest, packsDir, gen, wHist, inWG, openPack, failed,
                   nextKey, lockCount, packCalls>>

(* start_write_group: _start_write_group opens the upload and runs the     *)
(* collection's, revision store's, weave store's and inventory thunk's     *)
(* setup in that order; is_in_write_group() becomes true only after.       *)
StartWriteGroup ==
    /\ lockCount > 0
    /\ ~inWG
    /\ gen < MaxGroups
    /\ LET g == gen + 1 IN
       /\ gen' = g
       /\ allIdx' = [rix |-> RevisionStoreSetup(allIdx["rix"], g),
                     six |-> RevisionStoreSetup(allIdx["six"], g),
                     tix |-> TextStoreSetup(allIdx["tix"], Loaded(names), g),
                     iix |-> InventorySetup(allIdx["iix"], g)]
       /\ names' = IF allIdx["tix"] = NULL THEN Loaded(names) ELSE names
    /\ inWG' = TRUE
    /\ openPack' = TRUE
    /\ UNCHANGED <<manifest, packsDir, wHist, failed, nextKey, lockCount,
                   packCalls>>

(* A record of kind k written in the write group: the store's knit is      *)
(* fetched (building the combined index if need be) and the key goes to   *)
(* the write index through its add_callback.                               *)
Insert(k) ==
    /\ inWG
    /\ ~failed
    /\ nextKey <= MaxKeys
    /\ EnsureIndex(k)
    /\ wHist' = [wHist EXCEPT ![gen][k] = @ \cup {nextKey}]
    /\ nextKey' = nextKey + 1
    /\ UNCHANGED <<manifest, packsDir, gen, inWG, openPack, failed,
                   lockCount, packCalls>>

(* abort_write_group: _abort_write_group resets the three stores and the   *)
(* names; _open_pack_tuple is left as it is.                               *)
AbortWriteGroup ==
    /\ inWG
    /\ allIdx' = ResetStores(allIdx)
    /\ names' = NULL
    /\ inWG' = FALSE
    /\ failed' = FALSE
    /\ UNCHANGED <<manifest, packsDir, gen, wHist, openPack, nextKey,
                   lockCount, packCalls>>

(* commit_write_group with nothing inserted: the upload is deleted, then   *)
(* the stores and the names are reset.                                     *)
CommitEmpty ==
    /\ inWG
    /\ ~failed
    /\ ~DataInserted
    /\ allIdx' = ResetAfterCommit(allIdx)
    /\ names' = NULL
    /\ inWG' = FALSE
    /\ UNCHANGED <<manifest, packsDir, gen, wHist, openPack, failed, nextKey,
                   lockCount, packCalls>>

(* commit_write_group with data: flush the three stores, rename the pack   *)
(* into packs/, allocate its name, clear _open_pack_tuple, then autopack   *)
(* or save pack-names, then reset.  A raise from autopack leaves the       *)
(* write group open with the caches as the flushes and autopack left them. *)
CommitWriteGroup ==
    /\ inWG
    /\ ~failed
    /\ DataInserted
    /\ LET np  == wHist[gen]
           fl  == CommitFlush(np)
           ns  == Loaded(names) \cup {np}
           ap  == Autopack(fl, ns)
           out == (ns \ ap.srcs) \cup ap.merged
       IN IF ap.needed /\ ap.raised
          THEN /\ allIdx' = [fl EXCEPT !["rix"] = ap.rix]
               /\ names' = ns
               /\ packsDir' = packsDir \cup {np}
               /\ failed' = TRUE
               /\ UNCHANGED <<manifest, inWG>>
          ELSE /\ manifest' = IF ap.needed THEN out ELSE ns
               /\ packsDir' = IF ap.needed
                              THEN ((packsDir \cup {np}) \cup ap.merged) \ ap.srcs
                              ELSE packsDir \cup {np}
               /\ allIdx' = ResetAfterCommit(fl)
               /\ names' = NULL
               /\ inWG' = FALSE
               /\ UNCHANGED failed
    /\ openPack' = FALSE
    /\ UNCHANGED <<gen, wHist, nextKey, lockCount, packCalls>>

(* Repository.pack is @needs_write_lock: when it takes the first lock,    *)
(* _refresh_data resets the stores and the names before the pack.          *)
PackLockedCaches == IF lockCount = 0 THEN ResetStores(allIdx) ELSE allIdx

PackLockedNames == IF lockCount = 0 THEN manifest ELSE Loaded(names)

(* Repository.pack (@needs_write_lock) and RepositoryPackCollection.pack: *)
(* the lock's _refresh_data when it is the first lock, ensure_loaded,      *)
(* nothing for fewer than two packs, else get_revision_file if the         *)
(* revision index is not cached, one operation over the packs of           *)
(* _revision_pack_map, save and obsolete; the finally clause resets the    *)
(* names outside a write group.  The combine raises when a source is not   *)
(* in _names (KeyError) or a pack is being written (BzrError).             *)
PackAll ==
    /\ packCalls < MaxPackCalls
    /\ lockCount < MaxLocks
    /\ packCalls' = packCalls + 1
    /\ LET cs     == PackLockedCaches
           ns     == PackLockedNames
           rix    == IF cs["rix"] = NULL THEN BuildRevisionIndex(ns, inWG, gen)
                     ELSE cs["rix"]
           srcs   == ToSet(rix)
           merged == [k \in Kinds |-> UNION {IndexKeys(i, k) : i \in srcs}]
           done   == IF inWG THEN ns ELSE NULL
       IN IF Cardinality(ns) < 2
          THEN /\ allIdx' = cs
               /\ names' = done
               /\ UNCHANGED <<manifest, packsDir>>
          ELSE IF openPack \/ ~(srcs \subseteq ns)
          THEN /\ allIdx' = [cs EXCEPT !["rix"] = rix]
               /\ names' = done
               /\ UNCHANGED <<manifest, packsDir>>
          ELSE /\ allIdx' = [cs EXCEPT !["rix"] = rix]
               /\ manifest' = (ns \ srcs) \cup {merged}
               /\ packsDir' = (packsDir \cup {merged}) \ srcs
               /\ names' = done
    /\ UNCHANGED <<gen, wHist, inWG, openPack, failed, nextKey, lockCount>>

Next ==
    \/ LockWrite
    \/ Unlock
    \/ \E k \in Kinds : Read(k)
    \/ StartWriteGroup
    \/ \E k \in Kinds : Insert(k)
    \/ AbortWriteGroup
    \/ CommitEmpty
    \/ CommitWriteGroup
    \/ PackAll

Spec == Init /\ [][Next]_vars

-----------------------------------------------------------------------------
(* Properties *)

Index == Content \cup {WriteIndex(g) : g \in 1..MaxGroups}

TypeOK ==
    /\ manifest \subseteq Content /\ packsDir \subseteq Content
    /\ names \in {NULL} \cup SUBSET Content
    /\ allIdx \in [Kinds -> {NULL} \cup Seq(Index)]
    /\ gen \in 0..MaxGroups /\ wHist \in [1..MaxGroups -> Content]
    /\ inWG \in BOOLEAN /\ openPack \in BOOLEAN /\ failed \in BOOLEAN
    /\ nextKey \in 1..MaxKeys + 1 /\ lockCount \in 0..MaxLocks

(* Under the lock, every key of a pack listed in pack-names is found       *)
(* through every combined index the stores have cached: flush's            *)
(* del _indices[1], the inventory's appended write index, pack() and the   *)
(* lock's _refresh_data must never leave a cache that misses or cannot     *)
(* open a published pack.                                                  *)
CommittedKeysReadable ==
    lockCount > 0 =>
        \A k \in Kinds : allIdx[k] # NULL => Keys(manifest, k) \subseteq Readable(k)

(* In a write group, revisions and signatures written so far are found     *)
(* through the revision store's combined indices, however the indices were *)
(* built before setup (get_revision_file, GraphKnitRevisionStore.setup).   *)
RevisionStoreReadsItsWrites ==
    inWG /\ ~failed =>
        \A k \in {"rix", "six"} : wHist[gen][k] \subseteq Readable(k)

(* In a write group, inventories written so far are found through the      *)
(* inventory's combined index, appended or inserted by                     *)
(* InventoryKnitThunk._ensure_all_index and setup.                         *)
InventoryReadsItsWrites ==
    inWG /\ ~failed => wHist[gen]["iix"] \subseteq Readable("iix")

(* In a write group, texts written so far are found through the text      *)
(* store's combined index (GraphKnitTextStore.setup, _ensure_all_index).   *)
TextStoreReadsItsWrites ==
    inWG /\ ~failed => wHist[gen]["tix"] \subseteq Readable("tix")

(* If the write group were committed now, autopack's key_count() of the   *)
(* revision index counts every revision once: the flush of the revision   *)
(* store and get_revision_file never leave both the write index and the   *)
(* new pack's index in it, so _max_pack_count and pack_distribution see    *)
(* the true total.                                                          *)
AutopackCountsEachRevisionOnce ==
    inWG /\ ~failed /\ DataInserted =>
        LET ns == Loaded(names) \cup {wHist[gen]}
        IN KeyCountOf(AutopackIndex(CommitFlush(wHist[gen]), ns), "rix")
             = Cardinality(Keys(ns, "rix"))

====
