--------------------------- MODULE PackCollection ---------------------------
(***************************************************************************)
(* RepositoryPackCollection of src/bzrlib/repofmt/pack_repo.py: the        *)
(* durable pack-names manifest, the packs/, indices/, upload/ and          *)
(* obsolete_packs/ directories, the writer's in-memory _names cache, the   *)
(* write group (start, commit, abort), autopack and pack, a crash of the   *)
(* writer between any two steps, and reader processes that load the        *)
(* manifest and keep it until they unlock.                                 *)
(*                                                                         *)
(* A pack's name is the md5 of its bytes.  The bytes are its records and   *)
(* their layout: create_pack_from_packs writes records grouped by index    *)
(* kind in source order (grouped), a write group writes them in insertion  *)
(* order.  A name is therefore modelled by the pack's content (the keys of *)
(* its four indices) and whether it is grouped: equal names mean equal     *)
(* bytes.                                                                  *)
(***************************************************************************)
EXTENDS Naturals, FiniteSets, Sequences, FiniteSetsExt, Autopack

CONSTANTS
    InitRevs,    \* revisions 1..InitRevs were committed one per write group
    MaxRevs,     \* revisions 1..MaxRevs can be committed
    MaxBatch,    \* revisions one write group may insert
    SignRevs,    \* revisions that may be given a signature
    Readers,     \* other processes reading the repository
    MaxCrashes,  \* bound on writer crashes
    MaxPackCalls, \* bound on calls of pack()
    NULL         \* None

ASSUME InitRevs \in 0..9 /\ InitRevs <= MaxRevs /\ MaxRevs \in Nat /\ MaxBatch \in Nat /\ SignRevs \subseteq 1..MaxRevs /\ MaxCrashes \in Nat
       /\ MaxPackCalls \in Nat

Revs == 1..MaxRevs

\* The four indices of a pack: _suffix_offsets.
Kinds == {"rix", "iix", "tix", "six"}

Content == [Kinds -> SUBSET Revs]

PackName == [content : Content, grouped : BOOLEAN]

\* Staging files in upload/: <<lock nonce, suffix>>.  The nonce is that of
\* the writer process, which changes when the writer is restarted.
StagingFile == (0..MaxCrashes) \X {"pack", "autopack"}

VARIABLES
    manifest,     \* the pack-names file
    packsDir,     \* names whose .pack is in packs/
    indicesDir,   \* names whose four indices are in indices/
    obsoleteDir,  \* names moved to obsolete_packs/
    uploadDir,    \* staging files in upload/
    names,        \* _names: NULL until ensure_loaded
    writeGroup,   \* NULL, or the records buffered by the open write group
    openPack,     \* repo._open_pack_tuple is not None
    pc,           \* where the writer is in commit, autopack or pack
    caller,       \* who runs _execute_pack_operations: "commit" or "pack"
    newPack,      \* the name of the pack a commit publishes
    packOps,      \* pack operations not yet executed: sets of source names
    obsoletes,    \* sources of executed operations, for _obsolete_packs
    nextRev,      \* the next new revision id
    crashes,      \* writer restarts so far; the lock nonce
    packCalls,    \* calls of pack() so far
    readerNames   \* each reader's _names

vars == <<manifest, packsDir, indicesDir, obsoleteDir, uploadDir, names,
          writeGroup, openPack, pc, caller, newPack, packOps, obsoletes,
          nextRev, crashes, packCalls, readerNames>>

durable == <<manifest, packsDir, indicesDir, obsoleteDir, uploadDir>>

-----------------------------------------------------------------------------
(* Helpers *)

EmptyContent == [k \in Kinds |-> {}]

Nonce == crashes

(* The keys a set of packs holds in index kind k: the entries of a         *)
(* CombinedGraphIndex over their k indices, each key once.                 *)
IndexContents(packs, k) == UNION {p.content[k] : p \in packs}

(* The records create_pack_from_packs copies from its sources: every key   *)
(* of each of the four combined indices (_index_contents, _copy_nodes).    *)
AllContent(packs) == [k \in Kinds |-> IndexContents(packs, k)]

RevisionCount(p) == Cardinality(p.content["rix"])

(* CombinedGraphIndex.key_count sums the key counts of its indices.        *)
KeyCount(packs) == MapThenSumSet(RevisionCount, packs)

(* ensure_loaded: parse pack-names on first use.                           *)
Loaded(ns) == IF ns = NULL THEN manifest ELSE ns

(* Revision packs in the order existing_packs.sort(reverse=True) leaves     *)
(* them: most revisions first.  Ties are broken by name in the code (an    *)
(* md5, so an arbitrary fixed order); here by the smallest revision held.  *)
Before(p, q) ==
    \/ RevisionCount(p) > RevisionCount(q)
    \/ RevisionCount(p) = RevisionCount(q)
       /\ \E r \in p.content["rix"] : \A s \in q.content["rix"] : r < s

LargestFirst(packs) ==
    [i \in 1..Cardinality(packs) |->
        LET p == CHOOSE x \in packs :
                    Cardinality({y \in packs : Before(y, x)}) = i - 1
        IN [count |-> RevisionCount(p), pack |-> p]]

(* Mutation of RemovePacksByName: the sources are left in _names.         *)
RemovePacksKept(ns, srcs) == ns

(* _remove_pack_by_name of each source of an operation.                    *)
RemovePacksByName(ns, srcs) == ns \ srcs

DataInserted(wg) == \E k \in Kinds : wg[k] # {}


-----------------------------------------------------------------------------
(* The writer: write groups *)

(* _start_write_group: open upload/<nonce>.pack and the in-memory write    *)
(* indices.  The repository refuses a second write group.                 *)
StartWriteGroup ==
    /\ pc = "idle"
    /\ writeGroup = NULL
    /\ writeGroup' = EmptyContent
    /\ openPack' = TRUE
    /\ uploadDir' = uploadDir \cup {<<Nonce, "pack">>}
    /\ UNCHANGED <<manifest, packsDir, indicesDir, obsoleteDir, names, pc,
                   caller, newPack, packOps, obsoletes, nextRev, crashes,
                   packCalls, readerNames>>

(* A commit in the write group adds a new revision's text, inventory and  *)
(* revision records to the write indices.                                 *)
InsertRevision ==
    /\ pc = "idle"
    /\ writeGroup # NULL
    /\ nextRev <= MaxRevs
    /\ Cardinality(writeGroup["rix"]) < MaxBatch
    /\ writeGroup' = [k \in Kinds |->
                        IF k = "six" THEN writeGroup[k]
                        ELSE writeGroup[k] \cup {nextRev}]
    /\ nextRev' = nextRev + 1
    /\ UNCHANGED <<durable, names, openPack, pc, caller, newPack, packOps,
                   obsoletes, crashes, packCalls, readerNames>>

(* Signing a revision the repository holds, once.                          *)
SignRevision(r) ==
    /\ pc = "idle"
    /\ writeGroup # NULL
    /\ r \in SignRevs
    /\ r \in IndexContents(manifest, "rix") \cup writeGroup["rix"]
    /\ r \notin IndexContents(manifest, "six") \cup writeGroup["six"]
    /\ writeGroup' = [writeGroup EXCEPT !["six"] = @ \cup {r}]
    /\ UNCHANGED <<durable, names, openPack, pc, caller, newPack, packOps,
                   obsoletes, nextRev, crashes, packCalls, readerNames>>

(* _abort_write_group: reset the stores and forget the names.  It neither  *)
(* deletes the upload file nor clears repo._open_pack_tuple.              *)
AbortWriteGroup ==
    /\ writeGroup # NULL
    /\ pc \in {"idle", "failed"}
    /\ writeGroup' = NULL
    /\ names' = NULL
    /\ pc' = "idle"
    /\ newPack' = NULL
    /\ packOps' = << >>
    /\ obsoletes' = {}
    /\ UNCHANGED <<durable, openPack, caller, nextRev, crashes, packCalls, readerNames>>

(* _commit_write_group with nothing inserted: delete the pending upload    *)
(* and reset.  repo._open_pack_tuple is left set.                          *)
CommitEmpty ==
    /\ pc = "idle"
    /\ writeGroup # NULL
    /\ ~DataInserted(writeGroup)
    /\ uploadDir' = uploadDir \ {<<Nonce, "pack">>}
    /\ writeGroup' = NULL
    /\ names' = NULL
    /\ UNCHANGED <<manifest, packsDir, indicesDir, obsoleteDir, openPack, pc,
                   caller, newPack, packOps, obsoletes, nextRev, crashes,
                   packCalls, readerNames>>

(* Mutation of CommitFlush: the new pack gets no signature index.         *)
CommitFlushNoSignatures ==
    /\ pc = "idle"
    /\ writeGroup # NULL
    /\ DataInserted(writeGroup)
    /\ newPack' = [content |-> [k \in Kinds \ {"six"} |-> writeGroup[k]],
                   grouped |-> FALSE]
    /\ indicesDir' = indicesDir \cup {newPack'}
    /\ pc' = "flushed"
    /\ UNCHANGED <<manifest, packsDir, obsoleteDir, uploadDir, names,
                   writeGroup, openPack, caller, packOps, obsoletes, nextRev,
                   crashes, packCalls, readerNames>>

(* Mutation of CommitFlush: the text store's write index is not flushed.  *)
CommitFlushNoTexts ==
    /\ pc = "idle"
    /\ writeGroup # NULL
    /\ DataInserted(writeGroup)
    /\ newPack' = [content |-> [writeGroup EXCEPT !["tix"] = {}], grouped |-> FALSE]
    /\ indicesDir' = indicesDir \cup {newPack'}
    /\ pc' = "flushed"
    /\ UNCHANGED <<manifest, packsDir, obsoleteDir, uploadDir, names,
                   writeGroup, openPack, caller, packOps, obsoletes, nextRev,
                   crashes, packCalls, readerNames>>

(* _commit_write_group, first part: end the pack, name it by its hash and  *)
(* let the three stores flush their write indices to indices/.            *)
CommitFlush ==
    /\ pc = "idle"
    /\ writeGroup # NULL
    /\ DataInserted(writeGroup)
    /\ newPack' = [content |-> writeGroup, grouped |-> FALSE]
    /\ indicesDir' = indicesDir \cup {newPack'}
    /\ pc' = "flushed"
    /\ UNCHANGED <<manifest, packsDir, obsoleteDir, uploadDir, names,
                   writeGroup, openPack, caller, packOps, obsoletes, nextRev,
                   crashes, packCalls, readerNames>>

(* allocate(name, ...): ensure_loaded, then DuplicateKey if name is       *)
(* already in _names, else _names with name added.                         *)
AllocateRaises(ns, name) == name \in Loaded(ns)

Allocate(ns, name) == Loaded(ns) \cup {name}

(* Rename the upload into packs/ and allocate the name in _names.          *)
CommitPublish ==
    /\ pc = "flushed"
    /\ uploadDir' = uploadDir \ {<<Nonce, "pack">>}
    /\ packsDir' = packsDir \cup {newPack}
    /\ IF AllocateRaises(names, newPack)
       THEN /\ names' = Loaded(names)
            /\ pc' = "failed"
            /\ UNCHANGED openPack
       ELSE /\ names' = Allocate(names, newPack)
            /\ openPack' = FALSE
            /\ pc' = "allocated"
    /\ UNCHANGED <<manifest, indicesDir, obsoleteDir, writeGroup, caller,
                   newPack, packOps, obsoletes, nextRev, crashes, packCalls, readerNames>>

(* Reset at the end of _commit_write_group: the stores and the names.      *)
ResetAfterCommit ==
    /\ writeGroup' = NULL
    /\ names' = NULL
    /\ newPack' = NULL
    /\ pc' = "idle"

-----------------------------------------------------------------------------
(* The writer: autopack and pack *)

ExistingPacks(ns) == {p \in ns : RevisionCount(p) > 0}

AutopackPlan(ns) ==
    LET total == KeyCount(ns)
    IN PlanAutopackCombinations(LargestFirst(ExistingPacks(ns)),
                                PackDistribution(total))

NeedsAutopack(ns) == MaxPackCount(KeyCount(ns)) < Cardinality(ns)

(* autopack() finds nothing to do: the commit saves the names and resets.  *)
CommitSavePackNames ==
    /\ pc = "allocated"
    /\ ~NeedsAutopack(names)
    /\ manifest' = names
    /\ ResetAfterCommit
    /\ UNCHANGED <<packsDir, indicesDir, obsoleteDir, uploadDir, openPack,
                   caller, packOps, obsoletes, nextRev, crashes, packCalls, readerNames>>

(* autopack() plans the pack operations _execute_pack_operations runs.     *)
CommitStartAutopack ==
    /\ pc = "allocated"
    /\ NeedsAutopack(names)
    /\ LET plan == AutopackPlan(names)
           ops  == SelectSeq(plan.ops, LAMBDA op : op.packs # << >>)
           srcs == [i \in DOMAIN ops |-> {ops[i].packs[j] : j \in DOMAIN ops[i].packs}]
       IN IF plan.ok
          THEN /\ packOps' = srcs
               /\ obsoletes' = UNION {srcs[i] : i \in DOMAIN srcs}
               /\ pc' = "packing"
          ELSE /\ pc' = "failed"
               /\ UNCHANGED <<packOps, obsoletes>>
    /\ caller' = "commit"
    /\ UNCHANGED <<durable, names, writeGroup, openPack, newPack, nextRev,
                   crashes, packCalls, readerNames>>

(* pack(): one operation of every pack, when there are at least two; with  *)
(* fewer it returns, and the finally clause resets outside a write group.  *)
PackAll ==
    /\ pc = "idle"
    /\ packCalls < MaxPackCalls
    /\ packCalls' = packCalls + 1
    /\ LET ns == Loaded(names)
       IN IF Cardinality(ns) < 2
          THEN /\ names' = IF writeGroup = NULL THEN NULL ELSE ns
               /\ UNCHANGED <<pc, caller, packOps, obsoletes>>
          ELSE /\ names' = ns
               /\ packOps' = <<ns>>
               /\ obsoletes' = ns
               /\ caller' = "pack"
               /\ pc' = "packing"
    /\ UNCHANGED <<durable, writeGroup, openPack, newPack, nextRev, crashes,
                   readerNames>>

(* An exception out of _execute_pack_operations: out of a commit it leaves *)
(* the write group to be aborted; out of pack() the finally clause resets  *)
(* the names when no write group is open.                                  *)
RaiseFrom(ns) ==
    IF caller = "pack"
    THEN /\ pc' = "idle"
         /\ names' = IF writeGroup = NULL THEN NULL ELSE ns
    ELSE /\ pc' = "failed"
         /\ names' = ns

(* One operation of _execute_pack_operations: _combine_packs, that is      *)
(* create_pack_from_packs over the sources, then _remove_pack_by_name of   *)
(* each source.                                                            *)
CombinePacks ==
    /\ pc = "packing"
    /\ packOps # << >>
    /\ LET srcs    == Head(packOps)
           content == AllContent(srcs)
           new     == [content |-> content, grouped |-> TRUE]
       IN IF openPack
          THEN /\ RaiseFrom(names)
               /\ UNCHANGED <<packsDir, indicesDir, uploadDir, packOps>>
          ELSE IF ~DataInserted(content)
          THEN /\ names' = RemovePacksByName(names, srcs)
               /\ packOps' = Tail(packOps)
               /\ UNCHANGED <<pc, packsDir, indicesDir, uploadDir>>
          ELSE IF AllocateRaises(names, new)
          THEN /\ indicesDir' = indicesDir \cup {new}
               /\ uploadDir' = uploadDir \cup {<<Nonce, "autopack">>}
               /\ RaiseFrom(names)
               /\ UNCHANGED <<packsDir, packOps>>
          ELSE /\ indicesDir' = indicesDir \cup {new}
               /\ packsDir' = packsDir \cup {new}
               /\ names' = RemovePacksByName(Allocate(names, new), srcs)
               /\ packOps' = Tail(packOps)
               /\ UNCHANGED <<pc, uploadDir>>
    /\ UNCHANGED <<manifest, obsoleteDir, writeGroup, openPack, caller,
                   newPack, obsoletes, nextRev, crashes, packCalls, readerNames>>

(* _save_pack_names once every operation has run.                          *)
SavePackNames ==
    /\ pc = "packing"
    /\ packOps = << >>
    /\ manifest' = names
    /\ pc' = "saved"
    /\ UNCHANGED <<packsDir, indicesDir, obsoleteDir, uploadDir, names,
                   writeGroup, openPack, caller, newPack, packOps, obsoletes,
                   nextRev, crashes, packCalls, readerNames>>

(* Mutation of MoveToObsolete: the packs and indices are deleted.         *)
DeleteObsolete(srcs) ==
    /\ packsDir' = packsDir \ srcs
    /\ indicesDir' = indicesDir \ srcs
    /\ UNCHANGED obsoleteDir

(* _obsolete_packs: rename each pack, and its four indices, into           *)
(* obsolete_packs/.                                                        *)
MoveToObsolete(srcs) ==
    /\ packsDir' = packsDir \ srcs
    /\ indicesDir' = indicesDir \ srcs
    /\ obsoleteDir' = obsoleteDir \cup srcs

(* Mutation of ObsoletePacks: the sources are moved away once the last    *)
(* operation has run, before _save_pack_names.                             *)
ObsoletePacksBeforeSave ==
    /\ pc \in {"packing", "saved"}
    /\ packOps = << >>
    /\ MoveToObsolete(obsoletes)
    /\ obsoletes' = {}
    /\ IF caller = "commit"
       THEN ResetAfterCommit
       ELSE /\ pc' = "idle"
            /\ names' = IF writeGroup = NULL THEN NULL ELSE names
            /\ UNCHANGED <<writeGroup, newPack>>
    /\ UNCHANGED <<manifest, uploadDir, openPack, caller, packOps, nextRev,
                   crashes, packCalls, readerNames>>

(* The last loop of _execute_pack_operations, _obsolete_packs of every     *)
(* operation's sources; then the commit resets, or pack()'s finally        *)
(* clause does.                                                            *)
ObsoletePacks ==
    /\ pc = "saved"
    /\ MoveToObsolete(obsoletes)
    /\ obsoletes' = {}
    /\ IF caller = "commit"
       THEN ResetAfterCommit
       ELSE /\ pc' = "idle"
            /\ names' = IF writeGroup = NULL THEN NULL ELSE names
            /\ UNCHANGED <<writeGroup, newPack>>
    /\ UNCHANGED <<manifest, uploadDir, openPack, caller, packOps, nextRev,
                   crashes, packCalls, readerNames>>

-----------------------------------------------------------------------------
(* Crashes and readers *)

(* The writer process dies between two steps: everything in memory is     *)
(* lost, the files stay.  A new writer starts with a new lock nonce.      *)
Crash ==
    /\ crashes < MaxCrashes
    /\ crashes' = crashes + 1
    /\ names' = NULL
    /\ writeGroup' = NULL
    /\ openPack' = FALSE
    /\ pc' = "idle"
    /\ newPack' = NULL
    /\ packOps' = << >>
    /\ obsoletes' = {}
    /\ UNCHANGED <<durable, caller, nextRev, packCalls, readerNames>>

(* A reader's ensure_loaded: it reads pack-names as it is now.             *)
ReaderLoad(r) ==
    /\ readerNames[r] = NULL
    /\ readerNames' = [readerNames EXCEPT ![r] = manifest]
    /\ UNCHANGED <<durable, names, writeGroup, openPack, pc, caller, newPack,
                   packOps, obsoletes, nextRev, crashes, packCalls>>

(* A reader unlocks: reset() forgets the names.                            *)
ReaderReset(r) ==
    /\ readerNames[r] # NULL
    /\ readerNames' = [readerNames EXCEPT ![r] = NULL]
    /\ UNCHANGED <<durable, names, writeGroup, openPack, pc, caller, newPack,
                   packOps, obsoletes, nextRev, crashes, packCalls>>

-----------------------------------------------------------------------------

(* The pack a write group inserting revision r alone publishes.           *)
CommittedAlone(r) ==
    [content |-> [k \in Kinds |-> IF k = "six" THEN {} ELSE {r}],
     grouped |-> FALSE]

(* A repository made by initialize() and InitRevs commits of one revision  *)
(* each, fewer than ten, so no autopack has merged anything yet.           *)
InitialPacks == {CommittedAlone(r) : r \in 1..InitRevs}

Init ==
    /\ manifest = InitialPacks
    /\ packsDir = InitialPacks
    /\ indicesDir = InitialPacks
    /\ obsoleteDir = {}
    /\ uploadDir = {}
    /\ names = NULL
    /\ writeGroup = NULL
    /\ openPack = FALSE
    /\ pc = "idle"
    /\ caller = "commit"
    /\ newPack = NULL
    /\ packOps = << >>
    /\ obsoletes = {}
    /\ nextRev = InitRevs + 1
    /\ crashes = 0
    /\ packCalls = 0
    /\ readerNames = [r \in Readers |-> NULL]

Next ==
    \/ StartWriteGroup
    \/ InsertRevision
    \/ \E r \in SignRevs : SignRevision(r)
    \/ AbortWriteGroup
    \/ CommitEmpty
    \/ CommitFlush
    \/ CommitPublish
    \/ CommitSavePackNames
    \/ CommitStartAutopack
    \/ PackAll
    \/ CombinePacks
    \/ SavePackNames
    \/ ObsoletePacks
    \/ Crash
    \/ \E r \in Readers : ReaderLoad(r) \/ ReaderReset(r)

Spec == Init /\ [][Next]_vars

-----------------------------------------------------------------------------
(* Properties *)

TypeOK ==
    /\ manifest \subseteq PackName
    /\ packsDir \subseteq PackName
    /\ indicesDir \subseteq PackName
    /\ obsoleteDir \subseteq PackName
    /\ uploadDir \subseteq StagingFile
    /\ names = NULL \/ names \subseteq PackName
    /\ writeGroup = NULL \/ writeGroup \in Content
    /\ openPack \in BOOLEAN
    /\ pc \in {"idle", "flushed", "allocated", "packing", "saved", "failed"}
    /\ caller \in {"commit", "pack"}
    /\ newPack = NULL \/ newPack \in PackName
    /\ packOps \in Seq(SUBSET PackName)
    /\ obsoletes \subseteq PackName
    /\ nextRev \in 1..MaxRevs + 1
    /\ crashes \in 0..MaxCrashes
    /\ packCalls \in 0..MaxPackCalls
    /\ \A r \in Readers : readerNames[r] = NULL \/ readerNames[r] \subseteq PackName

(* Every pack that pack-names lists has its .pack in packs/ and its        *)
(* indices in indices/, wherever the writer stopped: _commit_write_group   *)
(* flushes the indices and renames the upload into packs/ before the names *)
(* are saved, and _execute_pack_operations saves the names before          *)
(* _obsolete_packs moves the sources away.                                 *)
ManifestPacksPresent == manifest \subseteq packsDir \cap indicesDir

(* No record is in two packs that pack-names lists: a commit adds only new *)
(* records, and compaction drops every source it copied from the names it  *)
(* saves (_remove_pack_by_name before _save_pack_names).                   *)
ManifestPacksDisjoint ==
    \A p, q \in manifest :
        p # q => \A k \in Kinds : p.content[k] \cap q.content[k] = {}

NoOpenPackOutsideWriteGroup == writeGroup = NULL => ~openPack

(* Every pack a reader loaded can still be found, in packs/ or in         *)
(* obsolete_packs/: the engine moves superseded packs and never deletes a  *)
(* pack that pack-names has listed.                                        *)
ReadersPacksRecoverable ==
    \A r \in Readers :
        readerNames[r] # NULL => readerNames[r] \subseteq packsDir \cup obsoleteDir

(* A reader can open every pack of the pack-names it loaded: no pack it    *)
(* lists has been moved to obsolete_packs/ while it still holds them.      *)
ReadersFindTheirPacks ==
    \A r \in Readers : readerNames[r] # NULL => readerNames[r] \subseteq packsDir

(* Refinement: the records reachable through pack-names behave as         *)
(* PackStore says.  Every step of the writer, its crashes included, either *)
(* leaves them unchanged (compaction, aborts, a commit before its names   *)
(* are saved) or adds one whole write group: new revisions in the         *)
(* revision, inventory and text indices at once, and signatures of stored *)
(* revisions.                                                             *)
Store == INSTANCE PackStore WITH committed <- AllContent(manifest)

PackStoreRefined == Store!Spec

=============================================================================
