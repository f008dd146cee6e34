--------------------------- MODULE UpstreamBranch ---------------------------
(***************************************************************************)
(* src/upstream/branch.py: the upstream version of a revision of an        *)
(* upstream branch (the newest tag, or the previous version, with the      *)
(* revision number added), and the revision a version string names when a *)
(* tarball is exported from the branch.                                    *)
(*                                                                         *)
(* Strings are sequences of characters (DebianVersion).  The words the    *)
(* code looks for are one character each: "Z" for bzr, "S" for svn, "R"   *)
(* for release; "p" is the package and "x" a tag that is no version.      *)
(*                                                                         *)
(* A branch is a record: mainline, its revision history (revision ids are *)
(* numbers, the mainline's being their revno); merged, revisions that are  *)
(* not on the mainline and so have a dotted revno; tags, the tag names of  *)
(* each revision in get_reverse_tag_dict's order; svn, each revision's     *)
(* Subversion revno, 0 when it has none.                                   *)
(***************************************************************************)
EXTENDS DebianVersion

None == [kind |-> "none"]

Some(v) == [kind |-> "some", version |-> v]

-----------------------------------------------------------------------------
(* upstream_tag_to_version: "p-" or "p_" followed by a version, "release-" *)
(* followed by one, "v" and a digit, or digits, dots and tildes only.      *)
(* A tag "v" fails on tag_name[1] with IndexError.                         *)
UpstreamTagToVersion(tag, package) ==
    CASE package # << >> /\ \E sep \in {"-", "_"} : IsPrefix(package \o <<sep>>, tag)
                                        -> Some(SubSeq(tag, Len(package) + 2, Len(tag)))
      [] IsPrefix(<<"R", "-">>, tag)    -> Some(SubSeq(tag, 3, Len(tag)))
      [] tag[1] = "v" /\ Len(tag) = 1   -> [kind |-> "IndexError"]
      [] tag[1] = "v" /\ tag[2] \in Digits -> Some(Tail(tag))
      [] \A i \in DOMAIN tag : tag[i] \in Digits \cup {".", "~"} -> Some(tag)
      [] OTHER                          -> None

-----------------------------------------------------------------------------
(* Where in s the string w starts, last first as rfind; 0 when it does not. *)
RFind(s, w) ==
    LET at == {i \in 1..Len(s) : i + Len(w) - 1 <= Len(s) /\ SubSeq(s, i, i + Len(w) - 1) = w}
    IN IF at = {} THEN 0 ELSE CHOOSE i \in at : \A k \in at : k <= i

RevnoOf(b, revid) == CHOOSE i \in DOMAIN b.mainline : b.mainline[i] = revid

(* Mutant of upstream_version_add_revision: the bzr revno appended after   *)
(* +svn for a Subversion revision.                                          *)
UpstreamVersionAddRevisionSvnRevno(b, v, revid) ==
    LET revno    == RevnoOf(b, revid)
        svnRevno == b.svn[revid]
        Cut(w)   == SubSeq(v, 1, RFind(v, w) - 1)
    IN CASE RFind(v, <<"+", "Z">>) > 0              -> Cut(<<"+", "Z">>) \o <<"+", "Z">> \o DecimalOf(revno)
         [] RFind(v, <<"~", "Z">>) > 0              -> Cut(<<"~", "Z">>) \o <<"~", "Z">> \o DecimalOf(revno)
         [] RFind(v, <<"+", "S">>) > 0 /\ svnRevno > 0 -> Cut(<<"+", "S">>) \o <<"+", "S">> \o DecimalOf(svnRevno)
         [] RFind(v, <<"~", "S">>) > 0 /\ svnRevno > 0 -> Cut(<<"~", "S">>) \o <<"~", "S">> \o DecimalOf(svnRevno)
         [] svnRevno > 0                            -> v \o <<"+", "S">> \o DecimalOf(revno)
         [] OTHER                                   -> v \o <<"+", "Z">> \o DecimalOf(revno)

(* upstream_version_add_revision: replace the number after the last +bzr   *)
(* or ~bzr by the revno; else, for a Subversion revision, the number after *)
(* the last +svn or ~svn by its svn revno; else append +svnN or +bzrN.     *)
UpstreamVersionAddRevision(b, v, revid) ==
    LET revno    == RevnoOf(b, revid)
        svnRevno == b.svn[revid]
        Cut(w)   == SubSeq(v, 1, RFind(v, w) - 1)
    IN CASE RFind(v, <<"+", "Z">>) > 0              -> Cut(<<"+", "Z">>) \o <<"+", "Z">> \o DecimalOf(revno)
         [] RFind(v, <<"~", "Z">>) > 0              -> Cut(<<"~", "Z">>) \o <<"~", "Z">> \o DecimalOf(revno)
         [] RFind(v, <<"+", "S">>) > 0 /\ svnRevno > 0 -> Cut(<<"+", "S">>) \o <<"+", "S">> \o DecimalOf(svnRevno)
         [] RFind(v, <<"~", "S">>) > 0 /\ svnRevno > 0 -> Cut(<<"~", "S">>) \o <<"~", "S">> \o DecimalOf(svnRevno)
         [] svnRevno > 0                            -> v \o <<"+", "S">> \o DecimalOf(svnRevno)
         [] OTHER                                   -> v \o <<"+", "Z">> \o DecimalOf(revno)

(* util.get_snapshot_revision: the number after a final +bzr or ~bzr is a  *)
(* revno, after a final +svn or ~svn an svn revno; else None.              *)
GetSnapshotRevision(v) ==
    LET Ends(w) == {i \in 1..Len(v) : /\ i + 1 < Len(v)
                                      /\ v[i] \in {"+", "~"} /\ v[i + 1] = w
                                      /\ IsDigitRun(SubSeq(v, i + 2, Len(v)))}
        N(w)    == NumberOf(SubSeq(v, (CHOOSE i \in Ends(w) : TRUE) + 2, Len(v)))
    IN CASE Ends("Z") # {} -> [kind |-> "revno", n |-> N("Z")]
         [] Ends("S") # {} -> [kind |-> "svn", n |-> N("S")]
         [] OTHER          -> None

(* RevisionSpec.in_history and as_revision_id for a snapshot revision:    *)
(* the revision id, and the revno, it names; InvalidRevisionSpec when the  *)
(* branch has no such revision.                                            *)
SpecRevid(b, spec) ==
    LET svnRevs == {r \in DOMAIN b.svn : b.svn[r] = spec.n}
    IN CASE spec.kind = "revno" /\ spec.n \in DOMAIN b.mainline -> Some(b.mainline[spec.n])
         [] spec.kind = "svn" /\ svnRevs # {} -> Some(CHOOSE r \in svnRevs : TRUE)
         [] OTHER -> [kind |-> "InvalidRevisionSpec"]

SpecRevno(b, spec) == RevnoOf(b, SpecRevid(b, spec).version)

(* _upstream_branch_version: walk the history back from its tip; the first *)
(* tag that reads as a version gives the version, with add_rev applied     *)
(* when its revision is not the tip.  Without one, add_rev of the previous *)
(* version.  add_rev is upstream_version_add_revision on branch b.        *)
UpstreamBranchVersionOf(b, revhistory, tags, package, previous) ==
    LET tip == Last(revhistory)
        AddRev(v, r) == UpstreamVersionAddRevision(b, v, r)
        RECURSIVE Walk(_, _)
        \* revision revhistory[i], from its tag number j on
        Walk(i, j) ==
            CASE i = 0                  -> Some(AddRev(previous, tip))
              [] j > Len(tags[revhistory[i]]) -> Walk(i - 1, 1)
              [] OTHER ->
                   LET t == UpstreamTagToVersion(tags[revhistory[i]][j], package)
                   IN CASE t.kind = "none"  -> Walk(i, j + 1)
                        [] t.kind = "some" /\ revhistory[i] # tip -> Some(AddRev(t.version, tip))
                        [] OTHER            -> t
    IN IF revhistory = << >> THEN Some(previous) ELSE Walk(Len(revhistory), 1)

(* Python's s[a:b] for 0 <= a and b >= -1.                                 *)
PySlice(s, a, b) ==
    LET stop == IF b < 0 THEN Len(s) + b ELSE IF b < Len(s) THEN b ELSE Len(s)
    IN IF a < stop THEN SubSeq(s, a + 1, stop) ELSE << >>

(* upstream_branch_version: the history after the previous version's      *)
(* snapshot revision up to the revision asked for; a revision off the      *)
(* mainline has a dotted revno and gets revno -2.                          *)
UpstreamBranchVersion(b, revision, package, previous) ==
    LET revno    == IF revision \in b.merged THEN -2 ELSE RevnoOf(b, revision)
        snapshot == GetSnapshotRevision(previous)
        prevno   == IF snapshot = None THEN 0 ELSE SpecRevno(b, snapshot)
    IN UpstreamBranchVersionOf(b, PySlice(b.mainline, prevno, revno + 1), b.tags,
                               package, previous)

(* UpstreamBranchSource.version_as_revision: the revision map, else the    *)
(* snapshot revision; fetch_tarball raises PackageVersionNotPresent on     *)
(* None and exports that revision otherwise.                               *)
VersionAsRevision(b, revisionMap, v) ==
    LET snapshot == GetSnapshotRevision(v)
    IN CASE v \in DOMAIN revisionMap -> Some(revisionMap[v])
         [] snapshot # None          -> SpecRevid(b, snapshot)
         [] OTHER                    -> None

(* get_version, and get_latest_version for the branch tip.                *)
GetVersion(b, package, current, revision) == UpstreamBranchVersion(b, revision, package, current)

GetLatestVersion(b, package, current) == GetVersion(b, package, current, Last(b.mainline))

(* fetch_tarball: PackageVersionNotPresent when the version names no       *)
(* revision, else the export of that revision's tree.                      *)
FetchTarball(b, revisionMap, package, version) ==
    LET r == VersionAsRevision(b, revisionMap, version)
    IN CASE r = None        -> [kind |-> "PackageVersionNotPresent"]
         [] r.kind = "some" -> [kind |-> "export", revid |-> r.version]
         [] OTHER           -> r

====
