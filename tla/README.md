# TLA+ models of the pack repository storage engine and its helpers

These modules model, for the TLC model checker:

- the pack-based repository storage of `src/bzrlib/repofmt/pack_repo.py`:
  - a content-addressed collection of packs;
  - the durable manifest (`pack-names`) naming them;
  - write groups that publish a new pack;
  - autopack and pack, which compact packs while bounding their number;
  - the per-kind index caches the repository keeps between these steps;
- one call of `create_pack_from_packs`, with and without its `revision_ids`
  filter, as a pure operator;
- three pure parts of the tree, checked as operators against reference
  definitions:
  - the dirstate helpers `bisect_dirblock` and `_read_dirblocks` (in
    `src/breezy/bzr/_dirstate_helpers_py.py`);
  - the branching schemes of `src/scheme.py`;
  - the upstream tag helpers of `src/breezy/plugins/debian/upstream/tags.py`;
- the Debian upstream sources and backports, as operators over strings:
  - `src/upstream/pristinetar.py`, importing tarballs into a branch with
    pristine-tar deltas and fetching them back;
  - `src/upstream/branch.py`, the version of an upstream branch revision and
    the revision a version names;
  - `src/auto_backport.py`, the version and suite of a backport, with the
    dpkg version order they rely on.

Line numbers below are those of `pack_repo.py` unless another file is
named. `PROJECT.json` maps every definition to the lines it models.

## The system

- **Pack.** Four indices, `.rix` (revisions), `.iix` (inventories), `.tix`
  (texts) and `.six` (signatures), plus a `.pack` file of records.
  - The name is the md5 of the pack's bytes.
  - A pack lives in `packs/` and its indices in `indices/`. A pack being
    written is in `upload/`, a superseded one in `obsolete_packs/`.
- **RepositoryPackCollection** keeps `_names`, the in-memory copy of
  `pack-names`:
  - `ensure_loaded` (692-700) loads it;
  - `allocate` (720-737) adds a name and raises DuplicateKey on an existing one;
  - `_remove_pack_by_name` removes a name;
  - `_save_pack_names` (880-884) writes the names back;
  - `reset` clears them.
- **Write group.**
  - `_start_write_group` (891-906) opens `upload/<nonce>.pack`, sets
    `repo._open_pack_tuple` and runs each store's `setup`.
  - `_commit_write_group` (917-960) takes these steps in order:
    1. end the pack and name it by its hash;
    2. flush the text, inventory and revision write indices;
    3. rename the pack into `packs/`;
    4. allocate the name and clear `_open_pack_tuple`;
    5. autopack, or else save `pack-names`;
    6. reset the stores and the names.
  - A commit with nothing inserted only deletes the upload.
  - `_abort_write_group` (908-915) resets the stores and the names.
- **Autopack** (212-264).
  - It runs when the pack count exceeds `_max_pack_count` (the digit sum of
    the revision count).
  - `plan_autopack_combinations` (539-578) turns the revision packs, largest
    first, and `pack_distribution` (805-819) into pack operations.
  - `_execute_pack_operations` (483-506) runs each operation with
    `create_pack_from_packs` (266-481) and removes its sources from `_names`.
  - It then saves `pack-names` and moves the sources to `obsolete_packs/`.
  - **`pack()`** (508-537) is one such operation over every pack.
- **Index caches.** The three stores are `GraphKnitRevisionStore`,
  `GraphKnitTextStore` and `InventoryKnitThunk` (963-1380).
  - Each keeps a combined index over every pack of its kind on the repository.
  - In a write group the write index is added to it, so a read sees what the
    group wrote.
  - `flush` replaces the write index by the new pack's index.
  - `reset` drops the cache; the first write lock's `_refresh_data`
    (1405-1411) resets every store.
- **Readers** are other processes. Each loads `pack-names` and keeps its
  `_names` until it unlocks.

How they interact:
- One writer holds the write lock; readers run concurrently.
- Compaction is correct because of an ordering: the new pack and its
  indices are complete, then `pack-names` is saved, then the sources are
  moved away. A writer crash between any two steps must leave `pack-names`
  naming complete packs that hold every record.

## Modules

| Module | Models |
| --- | --- |
| `Autopack.tla` | `_max_pack_count`, `pack_distribution` and `plan_autopack_combinations`, as RECURSIVE operators |
| `PackStore.tla` | the abstract specification: the records reachable through `pack-names`, which only whole commits change |
| `PackCollection.tla` | the collection, write groups, autopack, `pack()`, the directories, a writer crash, readers; the refinement of `PackStore` |
| `MCPackCollection.tla` | instance of `PackCollection` for TLC |
| `KnitIndexCaches.tla` | the stores' combined indices and write indices under locks, reads, write groups, commits with autopack, and `pack()` |
| `MCKnitIndexCaches.tla` | instance of `KnitIndexCaches` for TLC |
| `PackIndexLookup.tla` | how a name of `_names` becomes an index file: `_make_index`, `_make_index_to_pack_map`, `get_pack_by_name` |
| `DirstateHelpers.tla` | `bisect_dirblock`, and `_read_dirblocks` for a dirstate with one parent tree |
| `BranchingSchemes.tla` | `is_branch` and `unprefix` of the default, no-branch and list schemes |
| `PackCopy.tla` | one `create_pack_from_packs` call (266-481): the records it selects, the text filter and RevisionNotPresent check, and its outcome |
| `UpstreamTags.tla` | every function of `tags.py`: tag names of a version, reading a tag back, Debian tag starts, import and merge messages, `search_for_upstream_version` |
| `DebianVersion.tla` | the dpkg order of version strings, as python-debian's `NativeVersion` compares them (outside `src/`); `int()` and `%d` of digit strings |
| `Backport.tla` | `backport_suffix`, `backport_distribution`, `create_bpo_version` and `backport_package` of `auto_backport.py` |
| `UpstreamBranch.tla` | `upstream/branch.py`: `upstream_tag_to_version`, `_upstream_branch_version`, `upstream_version_add_revision`, `upstream_branch_version`, and `UpstreamBranchSource`'s `version_as_revision`, `get_version`, `get_latest_version` and `fetch_tarball` |
| `PristineTar.tla` | `upstream/pristinetar.py`: the revision properties, `git_store_pristine_tar`, `tag_name`, `tag_version`, `import_component_tarball`, `_has_revision`, `version_component_as_revision`, `has_version`, `get_pristine_tar_delta`, `reconstruct_pristine_tar`, `fetch_component_tarball`, `_components_by_version` and `fetch_tarballs` |
| `MCPureHelpers.tla` | one model for every pure operator: it enumerates their inputs (planner inputs, dirblock lists, dirstate files, copy calls, paths and branch lists, versions, changelogs, upstream branches, import sequences) as the initial states and states each property as an invariant; reference definitions |

`MCPureHelpers` takes `Autopack`, `BranchingSchemes`, `UpstreamTags`,
`PackCopy`, `Backport`, `UpstreamBranch` and `PristineTar` by `INSTANCE`
(`AP!`, `Schemes!`, `Tags!`, `Copy!`, `Bpo!`, `UB!`, `PT!`) since their
helpers share names with `DirstateHelpers` and with each other. Each input is a record with a `kind`, and each
property constrains only inputs of its kind.

### PackCollection

| Variable | Code |
| --- | --- |
| `manifest` | the `pack-names` file |
| `packsDir`, `indicesDir`, `obsoleteDir`, `uploadDir` | the directories |
| `names` | `_names` (`NULL` is None) |
| `writeGroup` | the records in the write indices |
| `openPack` | `repo._open_pack_tuple is not None` |
| `pc`, `caller` | where the writer is inside a commit, autopack or `pack()` |
| `newPack`, `packOps`, `obsoletes` | the pack a commit publishes, the operations left, the sources to obsolete |
| `readerNames` | each reader's `_names` |

A pack name is modelled by what determines the md5: the pack's content (the
keys of its four indices) and whether its records are grouped by kind
(`create_pack_from_packs`) or in insertion order (a write group).

The actions follow the code step by step:
- `StartWriteGroup`, `InsertRevision`, `SignRevision`, `AbortWriteGroup`;
- `CommitEmpty`; `CommitFlush` (921-934);
- `CommitPublish`: rename, then `Allocate` (720-737), where DuplicateKey
  (`AllocateRaises`) goes to `failed`;
- `CommitSavePackNames`, or `CommitStartAutopack`, where an IndexError goes to
  `failed`;
- `PackAll`, `CombinePacks`, `SavePackNames`, `ObsoletePacks`;
- `Crash`, `ReaderLoad`, `ReaderReset`.

`CombinePacks` has four outcomes:
- it raises because a pack is open;
- the copy is empty;
- DuplicateKey;
- success.

A raise out of `pack()` runs its `finally` clause; a raise out of a commit
leaves the write group for the caller to abort.

### KnitIndexCaches

- `allIdx[k]` is each kind's cached combined index: `NULL`, or its
  sequence of indices, front first.
- A pack index is named by the pack's content; the write index of the g-th
  write group is `WriteIndex(g)`, and `wHist[g]` is what it holds.
- `lockCount` is `control_files._lock_count`, so nested locks are modelled.
- The operators follow the methods of each store:
  - `BuildRevisionIndex`, `BuildTextIndex` and `BuildInventoryIndex` are
    `get_revision_file` and the two `_ensure_all_index`. The inventory one
    appends the write index at the end.
  - `RevisionStoreSetup`, `TextStoreSetup` and `InventorySetup` are the three
    `setup`s. The text store's builds the index only when none is cached.
  - `FlushIndex` is `insert_index(0, new)` then `del _indices[1]`;
    `TextStoreFlush`, `InventoryFlush` and `RevisionStoreFlush` (revisions,
    then signatures) are the three `flush`es, and `CommitFlush` calls them
    in the commit's order (932-934).
  - `RevisionStoreReset`, `TextStoreReset` and `InventoryReset` are the
    three `reset`s.
  - `Autopack` is the commit's autopack, over the flushed caches.
- The actions are:
  - `LockWrite`, `Unlock`, `Read(k)`, `StartWriteGroup`, `Insert(k)`;
  - `AbortWriteGroup`, `CommitEmpty`, `CommitWriteGroup`;
  - `PackAll`, which is `Repository.pack` with its `@needs_write_lock`.
- **How a name is looked up.** This module and `PackCollection` look packs up
  by their bare name, as the code intends. The code's own lookup always
  raises KeyError (see the findings), which `PackIndexLookup` checks on its
  own. Otherwise every model of the caches would stop at the first read.

### Pure helpers

- **Dirstate.**
  - A byte string is a sequence of characters from `{"/", "a", "b"}`,
    compared by byte value as Python compares bytes and lists of bytes.
  - `BisectLoop` is the `while` loop of `bisect_dirblock`.
  - `ParseEntries` is the loop of `_read_dirblocks` over the entries. A new
    dirname opens a block and moves `append_entry` to it.
  - `ReadDirblocks` is the trailing-field and field-count checks before that
    loop.
- **Schemes.**
  - A path is a sequence of characters.
  - The words `trunk`, `branches`, `tags` and `hooks` are the single
    characters `T`, `B`, `G` and `H`. Only equality with them matters, except
    for the list scheme's character-level `startswith`, which the model keeps.
- **Filtered copy.** `PackCopy` models a source pack by its content and
  layout, as `PackCollection` does, and an inventory by the text keys its
  lines list.
  - `Selected` is the four `_index_contents` calls with `revision_keys`,
    `text_filter` and the signature filter (329-401).
  - `TextFilter` is the pairs `_find_file_ids_from_xml_inventory_lines`
    returns for the copied inventories (354-364).
  - `MissingTexts` is the check that raises RevisionNotPresent (379-387).
  - `CreatePackFromPacks` gives the outcome in the code's order: busy (open
    pack), none (empty `revision_ids`), missing, empty copy, DuplicateKey,
    pack. Its `Effect` says whether `upload/` keeps the staging file, whether
    the indices were written, and what was allocated.
- **Upstream tags.** A string is a character sequence; version characters
  are `1 . ~ +`, a package is `p` and a component `c`.
  - The words `upstream`, `debian`, `ubuntu` and `release`, and each phrase
    of the commit messages the code tests for ("new upstream version ",
    "merge tag 'v", ...), are one character each. The code lower-cases
    messages, so `Import` and `import` are the same phrase.
  - `None` is the empty string: the code only tests a package for truth.
  - `mangle_version_for_git` comes from `debmutate`, outside the tree; it is
    modelled from DEP-14 (`~` to `_`, `:` to `%`, `..` to `.#.`, a trailing
    `#` after `.`).
  - `SearchForUpstreamVersion` takes the ancestry in `iter_ancestry` order,
    the revisions present (others are ghosts, which `iter_revisions` gives as
    None) and the scan depth (`islice`).
- **Debian versions.** `DebianVersion` compares versions without epochs as
  dpkg does: the part after the last `-` is the revision, each part is
  split into runs of digits and non-digits, `~` sorts before everything.
  `Backport` builds on it; the release table stands for `DebianDistroInfo`
  (bookworm stable 12, bullseye oldstable 11, trixie testing 13).
  - `BpoSplits` is where `create_bpo_version`'s `re.fullmatch` can split a
    version; the greedy `(.*)` takes the last one.
  - `BackportPackage` gives the error in the code's order (the suite is
    computed before the changelog is opened), else the new changelog block.
- **Upstream branch.** A branch is its mainline (revision ids are their
  revnos), the revisions merged into it, the tags of each revision, and each
  revision's Subversion revno. `bzr` and `svn` are the characters `Z` and `S`.
  `UpstreamBranchVersion` keeps the code's `revhistory[previous_revno:revno+1]`
  as `PySlice`, and a merged revision's revno -2.
- **Pristine-tar.** A repository is its revisions (message, parents,
  properties, tree), tags, tip, whether it is git, and its pristine-tar
  branch (whether it exists, and its delta files by name). A tarball is its
  name (version, component, compression) and content; the delta
  `pristine-tar gendelta` makes is the tarball itself, so `gentar` succeeds
  exactly when the delta's tree is the revision's tree.
  - `ImportComponentTarball` follows the code: the message and revision
    properties (bzr), the commit, the tag, then for git the pristine-tar
    branch (opened, created when forced, or skipped) and the store, whose
    `PristineTarDeltaExists` is returned as success under `reuse_existing`.
  - `MCPureHelpers` runs one or two imports in sequence (`PTRun`, a fold);
    after an import that returns, the caller moves the tip to it, as the
    import commands do.

## Runs

| Run | Cfg | Expect | Shows |
| --- | --- | --- | --- |
| `collection` | `MCPackCollection.cfg` | pass | see below |
| `stale_reader` | `MCPackCollectionStaleReader.cfg` | violation | a reader holding `pack-names` across an autopack finds its packs moved |
| `open_pack_after_abort` | `MCPackCollectionOpenPack.cfg` | violation | `_open_pack_tuple` stays set after an abort or an empty commit |
| `cache_consistency` | `MCKnitIndexCaches.cfg` | pass | see below |
| `stale_caches_after_pack` | `MCKnitIndexCachesPack.cfg` | violation | `pack()` under an outer lock leaves the stores' caches listing obsolete packs |
| `text_write_index` | `MCKnitIndexCachesText.cfg` | violation | a text read before `start_write_group` hides the texts the group writes |
| `index_lookup_keyerror` | `MCPackIndexLookup.cfg` | violation | both ways the collection looks a pack up raise KeyError |
| `pure_helpers` | `MCPureHelpers.cfg` | pass | see below |
| `list_scheme_prefix` | `MCPureHelpersListScheme.cfg` | violation | the list scheme puts a sibling path such as `trunk-old` in branch `trunk` |
| `filtered_copy_absent_revision` | `MCPureHelpersCopyAbsent.cfg` | violation | a filtered copy of a revision no source holds returns without RevisionNotPresent |
| `upstream_version_lookup` | `MCPureHelpersVersions.cfg` | violation | version `1` is matched by the Debian tags and the import commit of version `11`; a revision that is not the tip gets the version of the next one |
| `git_pristine_tar_fetch` | `MCPureHelpersPristine.cfg` | violation | a bz2 or xz tarball imported into git is not fetched back as imported; a re-import under `reuse_existing` cannot be fetched |

The longer runs check these properties.

**`collection`** covers commits, aborts, empty commits, a signature,
autopack, one `pack()`, a writer crash anywhere and a reader process:
- `pack-names` lists only packs present in `packs/` and `indices/`;
- no record is in two listed packs;
- revision packs stay within `_max_pack_count`;
- every pack a reader loaded stays in `packs/` or `obsolete_packs/`
  (`ReadersPacksRecoverable`);
- `PackStoreRefined`: the records reachable through `pack-names` change
  only as `PackStore` allows.

**`cache_consistency`** covers a writer under its own lock, three write groups
with reads of every kind at every point, and one `pack()`:
- every published key can be read through every cache
  (`CommittedKeysReadable`);
- a write group reads its own revisions, signatures and inventories;
- the commit's autopack counts every revision once.

**`pure_helpers`** covers:
- every largest-first list of up to 6 packs of 1..15 revisions: the
  planner's distribution is the fewest power-of-ten packs (against a
  brute-force reference), the plan never reads past it, and the packs left
  respect `_max_pack_count`;
- every sorted list of up to 3 dirblocks, with every `lo` and `hi`:
  `bisect_dirblock` returns the insertion point its docstring promises;
- every dirstate of up to 3 entries: `_read_dirblocks` reads it back into
  one block per directory;
- every dirstate of up to 2 entries damaged in one field: it is rejected or
  parsed, never read past its end;
- every path of up to three parts: `DefaultBranchingScheme.unprefix` splits
  it at a slash and maps a branch path to itself;
- every version of up to four characters, with and without a package and a
  component (`UpstreamTagsReadBack`): every name `possible_upstream_tag_names`
  gives that `is_upstream_tag` accepts reads back through
  `upstream_tag_version` as the same version and component;
- every changelog (missing, generated, or with a version of up to three
  characters, including earlier backports) and release
  (`BackportVersionOrder`): the backport's version differs from the one it
  is made from; a rebuild of a backport to the same release sorts above the
  build it replaces, and the backport of a version that is no backport sorts
  below that version. A backport of another release's backport sorts below
  its source too; whether it should is the open TODO at
  `auto_backport.py:128`, so the property makes no claim about it;
- every branch of up to three mainline revisions, with tags, a merged
  revision and Subversion revnos, and every previous version
  (`SnapshotNamesRevision`): the version `get_latest_version` gives the tip
  is one `fetch_tarball` exports the tip for, or the version of a tag on it;
- every sequence of one or two imports into a bzr repository
  (`FetchesLastImportRevprops`): the last import of a version and
  component with a delta is fetched back as the tarball imported.

Every property of a passing run has a mutant in `PROJECT.json`: a plausible
bug in one mapped definition that TLC shows breaks it. The mutant operators
sit in the modules just before the definition they replace.

### Refinement

`PackStore` says what readers may rely on: the set of records, by index
kind, reachable through the manifest.
- It starts as the initial revisions.
- It changes only by a `Commit(new, sigs)`, which adds the write group's new
  revisions to the revision, inventory and text kinds at once, and
  signatures of stored revisions.
- Compaction, aborts, crashes and commits whose names are not yet saved are
  stuttering steps.

`PackCollection` instantiates it as
`Store == INSTANCE PackStore WITH committed <- AllContent(manifest)` and
checks `Store!Spec` as a property. This covers more than "no record is ever
lost": it also catches a published pack missing one kind of a revision's
records (mutant `CommitFlushNoTexts`).

### Fairness and liveness

No liveness property is checked. Every writer operation in the code
(`_commit_write_group`, `autopack`, `pack()`) is one synchronous call. In the
model it is a fixed chain of steps from idle back to idle, so "the writer
returns to idle" would follow from the model's structure and say nothing
about the code. What can keep the writer from working after it returns (a
`repo._open_pack_tuple` left set) is a safety question, which
`open_pack_after_abort` checks. The specifications are therefore checked
without fairness: readers, crashes and the writer's steps may stop at any
point.

## Findings

- **Stale open-pack tuple (code bug, 908-915 and 950-960).**
  - `_abort_write_group` and an empty commit leave `repo._open_pack_tuple`
    set; the abort also leaves the upload behind.
  - A `pack()` before the next commit then raises "another pack is being
    written".
- **Readers and obsolete packs (spec gap, 795).** A reader that loaded
  `pack-names` before an autopack cannot open its packs any more. They are
  still in `obsolete_packs/`, which `collection` shows.
- **Stale caches after `pack()` (code bug, 536).**
  - `pack()` resets only `_names`; the stores' caches are dropped only by the
    first lock's `_refresh_data`.
  - Under an outer lock the revision index then still lists obsolete packs
    and misses the new one.
- **Text write index (code bug, 1175).**
  - `GraphKnitTextStore.setup` calls `_ensure_all_index(True)`, which returns
    at once if a read already built the index.
  - Texts written in the write group are then not readable before commit.
- **KeyError lookups (code bug, 845 and 260).**
  - `_make_index_to_pack_map` passes `name[:-5] + suffix` to `_make_index`,
    which appends the suffix again.
  - `autopack()` and `pack()` pass `'<name>.pack'` to `get_pack_by_name`.
  - `_names` is keyed by the bare name, so every lookup raises KeyError.
- **List scheme prefix (code bug, `scheme.py:85`).**
  - `unprefix` matches `startswith` on characters: with `['trunk']`,
    `trunk-old/x` gives `('trunk', '-old/x')`.
  - Inside paths also keep a leading `/`.
- **Filtered copy of an absent revision (spec/code divergence, 333).**
  - With `revision_ids`, the revision, inventory and signature keys are
    only a filter (330-334). Only missing *texts* raise RevisionNotPresent
    (379-387).
  - A requested revision no source holds is silently dropped; `spec.md`
    says the copy fails with RevisionNotPresent.
- **Upstream versions matched by prefix (code bug, `tags.py:140` and `:116`).**
  - `upstream_version_tag_start_revids` uses `'debian-%s' % version` (and
    `'{}_v{}'`) with no separator, so version `1` yields the tag `debian-11-1`.
  - `_rev_is_upstream_import` uses `startswith('New upstream version 1')`,
    which the import of version `11` matches, so
    `search_for_upstream_version` returns it.
- **Off-by-one history slice (code bug, `upstream/branch.py:161`).**
  - `revhistory[previous_revno:revno+1]` uses 1-based revnos as 0-based
    indices, so the walk includes the revision after the one asked for.
  - `get_version` of revision 1 of a two-revision branch is `1+bzr2`, and
    `fetch_tarball` exports revision 2 for it.
  - `get_latest_version` is not affected: for the tip the slice runs to the
    end anyway. `SnapshotNamesRevision` checks the tip and passes.
- **Git pristine-tar format (code bug, `upstream/pristinetar.py:447`).**
  - In git, `import_component_tarball` stores the delta on the pristine-tar
    branch under the tarball's own name (426) and sets no revision property.
  - `fetch_component_tarball` then takes format `gz` (447), asks for the
    `.tar.gz` name, finds no delta and exports the tree instead of the
    tarball imported.
- **Re-import under `reuse_existing` (code bug, `pristinetar.py:429`).** A
  re-import of a version and component with another tarball commits, moves
  the tag, and returns success when the store finds the old delta. The
  fetch then rebuilds from the old delta and the new tree, which
  pristine-tar refuses, and reports PackageVersionNotPresent.

Found by reading and not checked by a run (listed as a hazard):
- **No-branch scheme (`scheme.py:67`).** `len(path.split('/')) == 0` is
  never true, so `is_branch` rejects even the root that `unprefix` returns.
- **Shifted search arguments (`pristinetar.py:510`).** The call passes
  `(self.branch, package, version, component, md5)` to
  `search_for_upstream_version`, whose signature in `tags.py:155` is
  different; `pristinetar.py` also imports names this `tags.py` lacks, so it
  targets another version of that module. `PristineTar` runs the search as
  intended, with the tip's ancestry and the version asked for, and likewise
  takes `possible_upstream_tag_names` with `try_hard`; the extra names are
  never set by an import, so neither choice changes what a run shows.

## Bounds and why they are enough

- **Collection.**
  - It starts from 8 single-revision packs, which 8 commits reach without
    autopack.
  - Commits of up to 2 revisions reach 11, so autopack merges at 10 (the
    first total at which it can) and a commit follows the merge.
  - One signature makes a pack without revisions, which autopack skips.
  - One crash can happen between any two writer steps, and one `pack()` call
    from any state.
  - One reader loads `pack-names` at any point and holds it across any number
    of writer steps.
- **Caches.**
  - There are 2 initial packs, 3 write groups, 5 keys and one `pack()`.
  - Reads of each kind can happen before, inside and after each group, so
    every order in which a cache is built relative to `setup` and `flush`
    occurs.
  - Nested locks are in the violation run, where they break
    `CommittedKeysReadable`. The passing run uses the writer's own lock, as
    the commit and pack commands do.
- **Planner.** Totals up to 90 give several 10-buckets, packs larger than a
  bucket, and merges that overshoot.
- **Dirstate.**
  - Names of up to two characters over `/`, `a` and `b` include every
    relation the split order distinguishes: prefix, `/` below a letter, and
    equal parts with different depths.
  - Three entries in four directories make blocks that open, repeat and
    return.
- **Schemes.** Paths have up to three parts from the four words, a name, and a
  name starting with trunk's character.
- **Filtered copy.** Two revisions and three text keys, sources with any
  subset of them, grouped or not, and a signature or not. This gives empty,
  overlapping, identical and disjoint sources, revisions whose texts are
  missing, and a pack whose copy is its own name (DuplicateKey).
- **Versions.** Versions start with `1` and have up to four characters over
  `1 . ~ +`, with every other character followed by `1`. This gives a
  version that is a prefix of another (`1`, `11`), `~` (which tag names
  escape) and `+` (which drops the release names).
  - Versions with `..` or a trailing `.` are left out. DEP-14 escapes them
    with `#`, which `upstream_tag_version` does not undo, so they do not read
    back (a known limit of the escape).

- **Backports.** Versions are `1` followed by up to two characters from
  `1 9 . - ~ +`, plus earlier backports to bookworm and bullseye with build
  numbers 1, 9 and 00: a revision part, `~` before the end, a rebuild whose
  number gains a digit or loses a leading zero, and a backport of a
  backport to another release.
- **Upstream branch.** Up to three mainline revisions give a tip, a
  revision before it and one two back, so the slice's off-by-one and the
  cut at the previous snapshot both show; tags include a version tag on any
  revision, a `release-` tag with a `+bzr` suffix, a `v` tag and one that is
  no version; previous versions carry no suffix, `+bzr`, `~bzr` or `+svn`.
- **Pristine-tar.** Two imports are enough for a re-import of the same
  version and component (with the same or another tarball) and for two
  versions; tarballs are gz, bz2 or xz; repositories are bzr or git, with or
  without a pristine-tar branch, forced or not, with `reuse_existing` or
  not.

## Not modelled

- **Single-pack operations (`:734`).** The planner does plan one-pack
  operations (counts 7, 7, 6). Re-combining a pack that a combine produced
  raises DuplicateKey, but that needs 20 or more revisions and a `pack()`,
  beyond these bounds.
- **Dirstate internals.** `pack_stat` and the `_read_dirblocks` branch for
  other parent counts hand off to `DirState` methods outside `src/`.
- **Record insertion.** Insertion through the knits (not in this tree) is
  abstracted to adding keys to the write indices.
- **The fetch path around the filtered copy.** Callers of
  `create_pack_from_packs` with `revision_ids` are outside `pack_repo.py`.
  The model checks the call on its own, not inside a collection run.
- **Debian tooling around the models.**
  - `merge_package.py` drives VCS merges, reverts and apt lookups; every
    state change is a library call whose result it passes on. Its one
    piece of logic worth checking is the choice of the newest apt version,
    which sorts version strings as strings (247), so `1.9` wins over `1.10`;
    it is listed as a hazard.
  - In `pristinetar.py`: `from_tree` (gbp.conf parsing), the gbp tag format
    (`gbp_expand_tag_name`, outside `src/`), `version_as_revisions`, and the
    `pristine-tar` and `tar` subprocesses, abstracted as described above.
  - In `auto_backport.py`: `main` (building, signing, upload, the JSON
    report), `debsign` and `report_fatal`, which are process and file I/O.
  - In `upstream/branch.py`: `extract_svn_revno` is the branch's svn field,
    and the export itself is I/O.
- **Outside the storage engine.** `object_store.py` translates to another
  VCS's object model, which is pure data conversion. The tests are not part
  of the system.
