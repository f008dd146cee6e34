----------------------------- MODULE MCPureHelpers -----------------------------
(***************************************************************************)
(* Checks the pure helpers over every input of a bounded size, each input  *)
(* tagged with the function it is for: the autopack planner (Autopack),    *)
(* bisect_dirblock and                                                     *)
(* _read_dirblocks (DirstateHelpers), create_pack_from_packs (PackCopy),   *)
(* the branching schemes (BranchingSchemes) and the upstream tag helpers   *)
(* (UpstreamTags).  The variable input enumerates the inputs; it is not    *)
(* state of the code.                                                      *)
(***************************************************************************)
EXTENDS DirstateHelpers, FiniteSets

CONSTANTS MaxBlocks,   \* dirblocks given to bisect_dirblock
          MaxEntries,  \* entries in a dirstate file
          MaxDamaged,  \* entries in a dirstate file that is damaged
          MaxParts,    \* parts of a Subversion path
          NULL,        \* None, for create_pack_from_packs
          MaxPacks,    \* packs given to the autopack planner
          MaxCount     \* revisions in one of them

AP      == INSTANCE Autopack
Schemes == INSTANCE BranchingSchemes
Tags    == INSTANCE UpstreamTags
Copy    == INSTANCE PackCopy
Bpo     == INSTANCE Backport
UB      == INSTANCE UpstreamBranch
PT      == INSTANCE PristineTar

VARIABLE input

(* Autopack: every list of up to MaxPacks packs holding 1..MaxCount       *)
(* revisions each, in the largest-first order autopack() hands to          *)
(* plan_autopack_combinations, with the distribution pack_distribution     *)
(* computes for their total.                                               *)

(* The lists of at most n counts, each at most max, largest first.         *)
RECURSIVE NonIncreasing(_, _)
NonIncreasing(n, max) ==
    IF n = 0 THEN {<< >>}
    ELSE {<< >>} \cup UNION {{<<c>> \o s : s \in NonIncreasing(n - 1, c)} : c \in 1..max}

AutopackCalls == [kind : {"autopack"}, counts : NonIncreasing(MaxPacks, MaxCount)]

Existing == [i \in DOMAIN input.counts |-> [count |-> input.counts[i], pack |-> i]]

RECURSIVE SumSeqOf(_)
SumSeqOf(s) == IF s = << >> THEN 0 ELSE Head(s) + SumSeqOf(Tail(s))

Total == SumSeqOf(input.counts)

Plan == AP!PlanAutopackCombinations(Existing, AP!PackDistribution(Total))

-----------------------------------------------------------------------------
(* Byte strings of up to two characters.                                   *)
Strs == UNION {[1..n -> Chars] : n \in 0..2}

SortedBySplit(seq) ==
    \A i, j \in DOMAIN seq : i < j => ~ListLess(Split(seq[j]), Split(seq[i]))

(* Dirblock lists as the dirstate keeps them: sorted by the split dirname. *)
DirblockLists ==
    {[i \in DOMAIN s |-> [dirname |-> s[i]]] :
        s \in {s \in UNION {[1..n -> Strs] : n \in 0..MaxBlocks} : SortedBySplit(s)}}

BisectInputs ==
    {[kind |-> "bisect", dirblocks |-> b, dirname |-> d, lo |-> l, hi |-> h] :
        b \in DirblockLists, d \in Strs, l \in 0..MaxBlocks,
        h \in {<< >>} \cup {<<n>> : n \in 0..MaxBlocks}}

ValidBisect(in) ==
    /\ in.lo <= Len(in.dirblocks)
    /\ \/ in.hi = << >>
       \/ in.lo <= in.hi[1] /\ in.hi[1] <= Len(in.dirblocks)

BisectCalls == {in \in BisectInputs : ValidBisect(in)}

-----------------------------------------------------------------------------
(* Dirstate files written by the dirstate: entries sorted by dirname in   *)
(* split order, serialised as NUL-separated fields after the header's NUL. *)

Dirs == {<< >>, <<"a">>, <<"a", "/", "b">>, <<"b">>}

Sizes == {<<"0">>, <<"1">>}

EntryFields(e) ==
    <<e.dirname, <<"n">>, <<"i">>,
      <<"f">>, << >>, e.size, <<"n">>, <<"s">>,
      <<"f">>, << >>, e.size, <<"n">>, <<"s">>, NL>>

Serialize(es) ==
    << << >> >> \o FlattenSeq([i \in DOMAIN es |-> EntryFields(es[i])]) \o << << >> >>

EntryLists(max) ==
    {es \in UNION {[1..n -> [dirname : Dirs, size : Sizes]] : n \in 0..max} :
        \A i, j \in DOMAIN es : i < j => ~ListLess(Split(es[j].dirname), Split(es[i].dirname))}

Tokens == {<< >>, NL, <<"a">>, <<"0">>}

(* A file damaged in one field: one deleted, inserted or replaced.         *)
Damaged(fs) ==
    {RemoveAt(fs, i) : i \in DOMAIN fs}
    \cup {InsertAt(fs, i, t) : i \in 1..Len(fs) + 1, t \in Tokens}
    \cup {[fs EXCEPT ![i] = t] : i \in DOMAIN fs, t \in Tokens}

ReadCalls ==
    {[kind |-> "read", entries |-> es, fields |-> Serialize(es), count |-> Len(es)] :
        es \in EntryLists(MaxEntries)}

DamagedCalls ==
    UNION {{[kind |-> "damaged", fields |-> f, count |-> Len(es)] : f \in Damaged(Serialize(es))} :
            es \in EntryLists(MaxDamaged)}

-----------------------------------------------------------------------------
(* create_pack_from_packs: one or two source packs over two revisions of   *)
(* one file, every revision_ids filter, both shapes of the second          *)
(* revision's inventory, with or without an open pack; _names lists the    *)
(* sources.                                                                *)

CopyRevs  == {1, 2}
CopyTexts == {<<"f", 1>>, <<"f", 2>>}

(* A source: its revisions with their inventories, some texts, a          *)
(* signature of revision 1 or none, and its record layout.                 *)
SourcePacks ==
    {[content |-> [rix |-> rs, iix |-> rs, tix |-> ts, six |-> ss], grouped |-> g] :
        rs \in SUBSET CopyRevs, ts \in SUBSET CopyTexts, ss \in {{}, {1}}, g \in BOOLEAN}

(* Revision 1 adds file f; revision 2 changes it or leaves it.            *)
Inventories == {[r \in CopyRevs |-> IF r = 1 THEN {<<"f", 1>>} ELSE {t}] : t \in CopyTexts}

CopyCalls ==
    [kind : {"copy"}, sources : {{p, q} : p, q \in SourcePacks}, inventory : Inventories,
     revisionIds : {NULL} \cup SUBSET CopyRevs, openPack : BOOLEAN]

CopyResult ==
    Copy!CreatePackFromPacks(input.sources, input.inventory, input.revisionIds,
                             input.openPack, input.sources)

-----------------------------------------------------------------------------
(* Branching schemes: normalised paths of up to MaxParts parts (the four   *)
(* words, a name, and a name that starts with trunk, "trunk-old"), and     *)
(* lists of distinct branch paths.                                         *)

Pieces == {<<"T">>, <<"B">>, <<"G">>, <<"H">>, <<"x">>, <<"T", "x">>}

Paths == {Schemes!PathJoin(ps) : ps \in UNION {[1..n -> Pieces] : n \in 1..MaxParts}}

BranchNames == {<<"T">>, <<"B", "/", "x">>, <<"x">>}

BranchLists ==
    {l \in UNION {[1..n -> BranchNames] : n \in 0..2} : Cardinality(ToSet(l)) = Len(l)}

SchemeCalls == [kind : {"scheme"}, path : Paths, list : BranchLists]

-----------------------------------------------------------------------------
(* Upstream tags: versions of up to four characters that start with a      *)
(* digit and in which ".", "~" and "+" are followed by a digit (DEP-14     *)
(* escapes ".." and a trailing "." by a "#", which upstream_tag_version    *)
(* does not undo; no upstream version has them).                           *)

Versions == {v \in {<<"1">> \o s : s \in BoundedSeq({"1", ".", "~", "+"}, 3)} :
                \A i \in 1..Len(v) : v[i] # "1" => i < Len(v) /\ v[i + 1] = "1"}

TagCalls ==
    [kind : {"tags"}, version : Versions, component : {Tags!None, <<"c">>},
     package : {Tags!None, <<"p">>}, tryHard : BOOLEAN]

(* A packaging branch with the imports of two upstream versions, the newer *)
(* first in ancestry order, and the Debian tags of the newer one.          *)
VersionCalls ==
    {c \in [kind : {"versions"}, newer : Versions, older : Versions,
            package : {Tags!None, <<"p">>}] : c.newer # c.older}

-----------------------------------------------------------------------------
(* Backports: Debian versions of up to three characters that start with a  *)
(* digit and do not end in "-", and backports of them to either release    *)
(* with build numbers 1, 9 and 00 (int() reads "00" as 0); every release,  *)
(* and a changelog that is missing or generated.                           *)

DebVersions == {v \in {<<"1">> \o s : s \in BoundedSeq({"1", "9", ".", "-", "~", "+"}, 2)} :
                   Last(v) # "-"}

Backports ==
    {v \o <<"~">> \o Bpo!BackportSuffix(r) \o <<"+">> \o n :
        v \in DebVersions, r \in {"bookworm", "bullseye"}, n \in {<<"1">>, <<"9">>, <<"0", "0">>}}

BackportCalls ==
    [kind : {"backport"}, release : Bpo!Releases,
     changelog : [file : {"missing", "generated"}, versions : {<< >>}]
                 \cup [file : {"present"}, versions : {<<v>> : v \in DebVersions \cup Backports}]]

-----------------------------------------------------------------------------
(* Upstream branches of up to three mainline revisions and one merged     *)
(* revision, each mainline revision with no tag, a tag that is no version, *)
(* or tags "1.1", "v1", "p-1", "release-1+bzr1" or "v"; with Subversion    *)
(* revnos (revno + 4) or without; previous versions without a snapshot,   *)
(* and with a bzr or svn snapshot of a revision the branch has.            *)

UBTags == {<< >>, <<<<"x">>>>, <<<<"x">>, <<"1", ".", "1">>>>, <<<<"v", "1">>>>,
           <<<<"p", "-", "1">>>>, <<<<"R", "-", "1", "+", "Z", "1">>>>, <<<<"v">>>>}

UBBranches ==
    {[mainline |-> [i \in 1..n |-> i], merged |-> m,
      tags |-> [r \in 1..n \cup m |-> IF r \in m THEN << >> ELSE t[r]],
      svn |-> [r \in 1..n \cup m |-> IF s THEN r + 4 ELSE 0]] :
        n \in 1..3, m \in {{}, {9}}, t \in [1..3 -> UBTags], s \in BOOLEAN}

UBPrevious == {<<"1">>, <<"1", "+", "Z", "1">>, <<"1", "~", "Z", "2">>, <<"1", "+", "S", "5">>}

(* The previous version's snapshot is a revision the branch has.           *)
UBValid(c) ==
    LET snap == UB!GetSnapshotRevision(c.previous)
    IN /\ c.revision \in DOMAIN c.branch.tags
       /\ snap.kind = "revno" => snap.n <= Len(c.branch.mainline)
       /\ snap.kind = "svn" => \E r \in DOMAIN c.branch.mainline : c.branch.svn[r] = snap.n

BranchCalls ==
    {c \in [kind : {"branch"}, branch : UBBranches, revision : 1..3 \cup {9},
            package : {<< >>, <<"p">>}, previous : UBPrevious] : UBValid(c)}

-----------------------------------------------------------------------------
(* Pristine-tar: one or two imports into an empty packaging branch, bzr or *)
(* git, with or without a pristine-tar branch (or forced), of versions 1   *)
(* and 1~1, without and with a component, in each compression, with one of *)
(* two contents (a re-import of a name with other content), with an md5    *)
(* (so with a delta, which pristine-tar may fail to make) or without.     *)
(* After each import that returns, the caller moves the branch tip to it.  *)

PTImports ==
    [version : {<<"1">>, <<"1", "~", "1">>}, component : {PT!None, <<"c">>},
     format : {"gz", "bz2", "xz"}, content : {1, 2}, md5 : BOOLEAN, fails : BOOLEAN]

PTRepos ==
    {[git |-> FALSE, ptbExists |-> FALSE, force |-> FALSE, reuse |-> FALSE]}
    \cup {r \in [git : {TRUE}, ptbExists : BOOLEAN, force : BOOLEAN, reuse : BOOLEAN] :
            r.ptbExists => ~r.force}

PristineCalls ==
    {[kind |-> "pristine", setup |-> r, imports |-> is] :
        r \in PTRepos,
        is \in {is \in UNION {[1..n -> PTImports] : n \in 1..2} :
                  \A i \in DOMAIN is : is[i].fails => is[i].md5}}

PTTarball(im) ==
    [name |-> PT!TarballName(im.version, im.component, im.format), content |-> im.content]

(* One import, then the caller's pull of the revision it returns.          *)
PTStep(st, im) ==
    LET r == PT!ImportComponentTarball(st.repo, im.version,
                 IF st.repo.tip = PT!NullRevision THEN << >> ELSE <<st.repo.tip>>,
                 im.component, IF im.md5 THEN PTTarball(im) ELSE PT!None, PTTarball(im),
                 im.fails, input.setup.force, input.setup.reuse)
    IN [repo |-> IF r.outcome = "ok" THEN [r.repo EXCEPT !.tip = r.revid] ELSE r.repo,
        ok   |-> Append(st.ok, r.outcome = "ok")]

PTEmpty ==
    [git |-> input.setup.git, revs |-> << >>, tags |-> << >>, tip |-> PT!NullRevision,
     ptb |-> [exists |-> input.setup.ptbExists, files |-> << >>]]

PTRun == FoldLeft(PTStep, [repo |-> PTEmpty, ok |-> << >>], input.imports)

(* Import im records a delta: it has an md5, and for git a pristine-tar    *)
(* branch to put it on (the import notes it skips the delta otherwise).    *)
PTRecorded(im) == im.md5 /\ (~input.setup.git \/ input.setup.ptbExists \/ input.setup.force)

Init == input \in AutopackCalls \cup BisectCalls \cup ReadCalls \cup DamagedCalls \cup CopyCalls
                  \cup SchemeCalls \cup TagCalls \cup VersionCalls \cup BackportCalls
                  \cup BranchCalls
                  \cup PristineCalls

Spec == Init /\ [][UNCHANGED input]_input

-----------------------------------------------------------------------------
(* Reference definitions and properties.                                   *)

PowersOfTen == {1, 10, 100}

(* The fewest packs, each holding a power of ten revisions, that together *)
(* hold n revisions (for n < 1000).                                        *)
IsFewestPowersOfTen(k, n) ==
    /\ \E a, b, c \in 0..k : a + b + c = k /\ a + 10 * b + 100 * c = n
    /\ \A a, b, c \in 0..k : a + b + c < k => a + 10 * b + 100 * c # n

(* _max_pack_count(n) is the fewest power-of-ten packs that hold n         *)
(* revisions, and pack_distribution(n) is such a set of packs, largest     *)
(* first.  This is what lets autopack promise a bounded number of packs.   *)
DistributionIsFewestPowersOfTen ==
    input.kind = "autopack" =>
    LET dist == AP!PackDistribution(Total)
    IN Total > 0 =>
        /\ IsFewestPowersOfTen(AP!MaxPackCount(Total), Total)
        /\ Len(dist) = AP!MaxPackCount(Total)
        /\ SumSeqOf(dist) = Total
        /\ \A i \in DOMAIN dist : dist[i] \in PowersOfTen
        /\ \A i \in 1..Len(dist) - 1 : dist[i] >= dist[i + 1]

(* plan_autopack_combinations never reads the head of an exhausted         *)
(* distribution (IndexError at pack_distribution[0]) when the packs it is  *)
(* given hold exactly the total the distribution was computed from.        *)
PlanNeverExhaustsDistribution == input.kind = "autopack" => Plan.ok

(* Executing a non-empty plan leaves no more packs than _max_pack_count    *)
(* allows: the untouched packs plus one new pack per operation.            *)
PlanMeetsMaxPackCount ==
    input.kind = "autopack" =>
    LET ops     == AP!PackOperations(Plan)
        merged  == UNION {{op.packs[i] : i \in DOMAIN op.packs} : op \in ops}
        after   == (Len(input.counts) - Cardinality(merged)) + Cardinality(ops)
    IN (Plan.ok /\ ops # {}) => after <= AP!MaxPackCount(Total)

(* bisect_dirblock's docstring: every block of dirblocks[lo:idx] has a     *)
(* name < dirname and every block of dirblocks[idx:hi] a name >= dirname,  *)
(* in the split order the dirstate sorts by.                               *)
BisectDirblockIsInsertionPoint ==
    input.kind = "bisect" =>
    LET b   == input.dirblocks
        key == Split(input.dirname)
        hi  == IF input.hi = << >> THEN Len(b) ELSE input.hi[1]
        idx == BisectDirblock(b, input.dirname, input.lo, input.hi)
    IN /\ input.lo <= idx /\ idx <= hi
       /\ \A j \in (input.lo + 1)..idx : ListLess(Split(b[j].dirname), key)
       /\ \A j \in (idx + 1)..hi : ~ListLess(Split(b[j].dirname), key)

(* Dirnames in order of first appearance.                                  *)
RECURSIVE Dedup(_)
Dedup(s) ==
    IF s = << >> THEN << >>
    ELSE <<Head(s)>> \o Dedup(SelectSeq(Tail(s), LAMBDA x : x # Head(s)))

ParsedEntry(e) ==
    LET tree == [minikind |-> <<"f">>, fingerprint |-> << >>, size |-> IntOf(e.size),
                 executable |-> FALSE, info |-> <<"s">>]
    IN [key |-> <<e.dirname, <<"n">>, <<"i">>>>, trees |-> <<tree, tree>>]

(* Reference: the root block holds the entries of the root directory, the *)
(* contents-of-root block is empty, then one block per other dirname.     *)
ExpectedBlocks(es) ==
    LET parsed   == [i \in DOMAIN es |-> ParsedEntry(es[i])]
        In(d)    == SelectSeq(parsed, LAMBDA p : p.key[1] = d)
        others   == Dedup(SelectSeq([i \in DOMAIN es |-> es[i].dirname], LAMBDA d : d # << >>))
    IN <<[dirname |-> << >>, entries |-> In(<< >>)], [dirname |-> << >>, entries |-> << >>]>>
         \o [i \in DOMAIN others |-> [dirname |-> others[i], entries |-> In(others[i])]]

(* _read_dirblocks reads back every dirstate the dirstate writes: one      *)
(* block per directory, each entry in its directory's block, in order.     *)
ReadDirblocksGroupsByDirname ==
    input.kind = "read" =>
        ReadDirblocks(input.fields, input.count) = [result |-> "ok", blocks |-> ExpectedBlocks(input.entries)]

(* A dirstate file damaged in one field is either rejected (DirstateCorrupt *)
(* or ValueError) or parsed; the parser never reads past the last field.   *)
ReadDirblocksNeverOverruns ==
    input.kind = "damaged" =>
        ReadDirblocks(input.fields, input.count).result # "StopIteration"

(* A revision that revision_ids asks for and no source holds is a fatal    *)
(* error of create_pack_from_packs (spec 4.4: a filtered key absent from   *)
(* every source is not silently skipped): such a call raises.              *)
FilteredKeyAbsentIsFatal ==
    input.kind = "copy" =>
    LET ids  == input.revisionIds
        held == UNION {p.content["rix"] : p \in input.sources}
    IN (~input.openPack /\ ids # NULL /\ ~(ids \subseteq held))
          => CopyResult.outcome = "missing"

(* path is branch, or branch + "/" + inside.                               *)
Rejoins(r, path) ==
    path = IF r.inside = << >> THEN r.branch ELSE r.branch \o <<Schemes!Slash>> \o r.inside

(* DefaultBranchingScheme.unprefix splits a path at a slash into the      *)
(* branch path and the rest, and a path is_branch accepts unprefixes to   *)
(* itself with an empty inside path.                                      *)
DefaultUnprefixSplitsPath ==
    input.kind = "scheme" =>
    LET r == Schemes!DefaultUnprefix(input.path)
    IN /\ r.ok => Rejoins(r, input.path)
       /\ Schemes!DefaultIsBranch(input.path) => r = Schemes!Split(input.path, << >>)

(* ListBranchingScheme.unprefix returns a branch of the list that the     *)
(* path lies in: the branch's parts are the first parts of the path, so a  *)
(* sibling whose name only starts with a listed branch is not put in it.   *)
UnprefixFindsBranch ==
    input.kind = "scheme" =>
    LET r == Schemes!ListUnprefix(input.list, input.path)
    IN r.ok => /\ Schemes!ListIsBranch(input.list, r.branch)
               /\ IsPrefix(Schemes!PathSplit(r.branch), Schemes!PathSplit(input.path))

(* Every upstream tag name possible_upstream_tag_names gives for a version *)
(* and component (plain, gbp's DEP-14 mangled, svn-buildpackage's, with    *)
(* and without try_hard) reads back through upstream_tag_version as that   *)
(* component and version, as pristine-tar's _components_by_version relies  *)
(* on.                                                                     *)
UpstreamTagsReadBack ==
    input.kind = "tags" =>
    \A t \in ToSet(Tags!PossibleUpstreamTagNames(input.package, input.version,
                                                 input.component, input.tryHard)) :
        Tags!IsUpstreamTag(t) =>
            Tags!UpstreamTagVersion(t) = [component |-> input.component, version |-> input.version]

(* The Debian tags of upstream version u at Debian revision 1, DEP-14 and  *)
(* old style.                                                              *)
DebianTags(u) ==
    {<<"D", "/">> \o Tags!MangleVersionForGit(u) \o <<"-", "1">>, <<"D", "-">> \o u \o <<"-", "1">>}

(* Looking for an upstream version finds that version, never another one:  *)
(* upstream_version_tag_start_revids yields no Debian tag of another       *)
(* version, and search_for_upstream_version returns the import of the      *)
(* version asked for when the ancestry holds it, even after the import of  *)
(* a newer one.                                                            *)
VersionsMatchExactly ==
    input.kind = "versions" =>
    LET u    == input.newer
        v    == input.older
        revs == [r \in {<<"a">>, <<"b">>} |->
                    [message |-> <<"W">> \o (IF r = <<"a">> THEN u ELSE v), parents |-> << >>]]
    IN /\ Tags!UpstreamVersionTagStartRevids([t \in DebianTags(u) |-> <<"a">>], input.package, v) = {}
       /\ Tags!SearchForUpstreamVersion(<<<<"a">>, <<"b">>>>, revs, input.package, v, 2) = <<"b">>

(* A backport never reuses the version it is made from, and sorts the way  *)
(* the backports archive needs (dpkg order): a rebuild of a backport to    *)
(* the same release sorts above the build it replaces, and the backport of *)
(* a version that is no backport sorts below that version, so the         *)
(* release's own version supersedes it.  create_bpo_version builds the     *)
(* string with a regular expression and int(); only the dpkg order tells   *)
(* if it is right.  What a backport of another release's backport should   *)
(* sort below or above is left open, as the code's TODO leaves it.        *)
BackportVersionOrder ==
    input.kind = "backport" =>
    LET r == Bpo!BackportPackage(input.changelog, input.release)
        IsBackportTo(v, rel) == Bpo!BpoSplits(v, Bpo!BackportSuffix(rel)) # {}
    IN r.outcome = "ok" =>
         /\ r.version # r.since
         /\ IsBackportTo(r.since, input.release) => Bpo!VersionLess(r.since, r.version)
         /\ (\A rel \in Bpo!Releases : ~IsBackportTo(r.since, rel))
              => Bpo!VersionLess(r.version, r.since)

(* The version of a mainline revision r, not older than the previous      *)
(* version's snapshot, is one fetch_tarball exports r for (version_as_     *)
(* revision reads its snapshot suffix back), or the version of a tag on r. *)
BranchVersionNamesRevision(r, res) ==
    LET b    == input.branch
        snap == UB!GetSnapshotRevision(input.previous)
    IN (/\ r \notin b.merged
        /\ snap # UB!None => UB!SpecRevno(b, snap) <= r
        /\ res.kind = "some")
       => \/ UB!FetchTarball(b, << >>, input.package, res.version) = [kind |-> "export", revid |-> r]
          \/ \E t \in ToSet(b.tags[r]) : UB!UpstreamTagToVersion(t, input.package) = res

(* get_latest_version gives the branch tip a version that names the tip.  *)
(* upstream_branch_version cuts the history at the previous snapshot and   *)
(* upstream_version_add_revision rewrites or appends a bzr or svn suffix:  *)
(* a wrong cut, or the wrong number in the suffix, names another revision. *)
SnapshotNamesRevision ==
    input.kind = "branch" /\ input.revision = Last(input.branch.mainline) =>
        BranchVersionNamesRevision(input.revision,
            UB!GetLatestVersion(input.branch, input.package, input.previous))

(* Looking up an upstream version and computing one agree: the tag search *)
(* finds the version asked for and no other (VersionsMatchExactly), and    *)
(* the version upstream_branch_version computes for any mainline revision *)
(* names that revision when fetch_tarball exports it.                      *)
UpstreamLookupsExact ==
    /\ VersionsMatchExactly
    /\ input.kind = "branch" =>
         BranchVersionNamesRevision(input.revision,
             UB!GetVersion(input.branch, input.package, input.previous, input.revision))

(* Every tarball imported with its delta can be fetched back as it was    *)
(* imported: after the last returning import of a version and component,  *)
(* fetch_tarballs of the version yields, for that component, the tarball   *)
(* itself, rebuilt from the revision's tree and the delta, under its own   *)
(* file name.  Import and fetch meet only through tag names, revision      *)
(* properties and the pristine-tar branch's file names.                    *)
FetchesLastImport ==
    input.kind = "pristine" =>
    LET run == PTRun
        ims == input.imports
        last(i) == run.ok[i] /\ \A j \in (i + 1)..Len(ims) :
                      run.ok[j] => <<ims[j].version, ims[j].component>> # <<ims[i].version, ims[i].component>>
    IN \A i \in DOMAIN ims :
         last(i) /\ PTRecorded(ims[i]) =>
            LET f == PT!FetchTarballs(run.repo, PT!None, ims[i].version)
            IN /\ f.kind = "files"
               /\ [kind |-> "pristine", name |-> PTTarball(ims[i]).name, tarball |-> PTTarball(ims[i])] \in f.files

(* In a repository with revision properties (bzr), FetchesLastImport.     *)
FetchesLastImportRevprops ==
    input.kind = "pristine" /\ ~input.setup.git => FetchesLastImport

====
