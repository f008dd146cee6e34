----------------------------- MODULE PristineTar -----------------------------
(***************************************************************************)
(* src/upstream/pristinetar.py: importing an upstream tarball into a       *)
(* packaging branch with its pristine-tar delta, and fetching it back.    *)
(*                                                                         *)
(* A repository is a record:                                               *)
(*   git   whether it is a git repository (no custom revision properties;  *)
(*         the delta goes to the pristine-tar branch);                     *)
(*   revs  each revision id's message, parents, revision properties (a    *)
(*         function from property names) and tree;                         *)
(*   tags  the tag dictionary, tag name to revision id;                    *)
(*   tip   the branch's last revision;                                     *)
(*   ptb   the pristine-tar branch: whether it exists, and the .id/.delta  *)
(*         files of its last revision by tarball file name.                *)
(* Strings follow UpstreamTags.  A tarball file name is the record of the  *)
(* version, component and compression _tarball_path builds it from; a      *)
(* tarball is its name and its content; its tree is what it unpacks to,    *)
(* and its pristine-tar delta is what rebuilds it from that tree: the      *)
(* tarball itself.  md5 sums are the tarballs they are sums of.            *)
(***************************************************************************)
EXTENDS Naturals, Sequences, SequencesExt

Tags == INSTANCE UpstreamTags

None == << >>

NullRevision == <<"n">>

(* The revision ids commits get, in order.                                 *)
RevIds == << <<"a">>, <<"b">>, <<"c">> >>

DeltaProps == <<"deb-pristine-delta", "deb-pristine-delta-bz2", "deb-pristine-delta-xz">>

FormatOf == [p \in ToSet(DeltaProps) |->
               CASE p = "deb-pristine-delta-bz2" -> "bz2"
                 [] p = "deb-pristine-delta-xz"  -> "xz"
                 [] OTHER                        -> "gz"]

TreeOf(tarball) == [version |-> tarball.name.version, component |-> tarball.name.component,
                    content |-> tarball.content]

(* upstream _tarball_path's basename: package, version, component and      *)
(* compression.                                                            *)
TarballName(version, component, format) ==
    [version |-> version, component |-> component, format |-> format]

(* upstream_tag_name of the tags module: upstream-VERSION for bzr,         *)
(* upstream/MANGLED for git, then /COMPONENT.                              *)
UpstreamTagName(version, component, gitStyle) ==
    (IF gitStyle THEN <<"U", "/">> \o Tags!MangleVersionForGit(version)
                 ELSE <<"U", "-">> \o version)
    \o (IF component = None THEN << >> ELSE <<"/">> \o component)

(* tag_name without a gbp tag format: git style when the repository is    *)
(* a git one.                                                              *)
TagName(repo, version, component) == UpstreamTagName(version, component, repo.git)

(* tag_version: set the tag of the version and component on revid.        *)
TagVersion(repo, version, revid, component) ==
    [repo EXCEPT !.tags = (TagName(repo, version, component) :> revid) @@ @]

-----------------------------------------------------------------------------
(* Revision properties *)

RevisionHasPristineTarDelta(rev) == \E i \in DOMAIN DeltaProps : DeltaProps[i] \in DOMAIN rev.props

(* The first delta property of deb-pristine-delta, -bz2, -xz the revision  *)
(* has: its delta, and the format it is for.                               *)
FirstDeltaProp(rev) == DeltaProps[SelectInSeq(DeltaProps, LAMBDA p : p \in DOMAIN rev.props)]

RevisionPristineTarDelta(rev) == rev.props[FirstDeltaProp(rev)]

RevisionPristineTarFormat(rev) == FormatOf[FirstDeltaProp(rev)]

(* Mutant of the choice of property: the bz2 and xz names swapped.         *)
DeltaPropForSwapped(format) ==
    CASE format = "bz2" -> "deb-pristine-delta-xz"
      [] format = "xz"  -> "deb-pristine-delta-bz2"
      [] OTHER          -> "deb-pristine-delta"

(* The tarball's suffix picks the property, as the code tests              *)
(* .endswith(".tar.bz2") and ".tar.xz".                                    *)
DeltaPropFor(format) ==
    CASE format = "bz2" -> "deb-pristine-delta-bz2"
      [] format = "xz"  -> "deb-pristine-delta-xz"
      [] OTHER          -> "deb-pristine-delta"

-----------------------------------------------------------------------------
(* Importing *)

(* git_store_pristine_tar: nothing to do when the same id and delta are    *)
(* stored under the name, PristineTarDeltaExists when others are, else     *)
(* store and commit them.                                                  *)
GitStorePristineTar(ptb, filename, treeId, delta) ==
    CASE filename \in DOMAIN ptb.files /\ ptb.files[filename] = [id |-> treeId, delta |-> delta]
            -> [outcome |-> "nothing", ptb |-> ptb]
      [] filename \in DOMAIN ptb.files
            -> [outcome |-> "PristineTarDeltaExists", ptb |-> ptb]
      [] OTHER
            -> [outcome |-> "stored",
                ptb |-> [ptb EXCEPT !.files = (filename :> [id |-> treeId, delta |-> delta]) @@ @]]

(* import_component_tarball.  A failing pristine-tar gendelta raises       *)
(* before anything is written.  The commit builder commits the revision    *)
(* (it does not move the branch tip) and the tag is set on it; then, for   *)
(* git, the delta is stored on the pristine-tar branch, which is opened,   *)
(* created when forced, or skipped.  PristineTarDeltaExists there returns  *)
(* as a success with reuse_existing and is raised otherwise: in both cases *)
(* after the commit and the tag.                                           *)
ImportComponentTarball(repo, version, parentIds, component, md5, tarball, deltaFails, forcePristineTar, reuseExisting) ==
    LET supports == ~repo.git
        withMd5  == md5 # None
        message  == <<"K">> \o version
                    \o (IF component # None THEN <<",">> \o component ELSE << >>)
                    \o (IF withMd5 /\ ~supports THEN <<",", "m">> ELSE << >>)
        props    == (IF component # None /\ supports THEN "deb-component" :> component
                     ELSE << >>)
                    @@ (IF withMd5 /\ supports
                        THEN ("deb-md5" :> md5) @@ (DeltaPropFor(tarball.name.format) :> tarball)
                        ELSE << >>)
        revid    == RevIds[Cardinality(DOMAIN repo.revs) + 1]
        tagName  == TagName(repo, version, component)
        rev      == [message |-> message, parents |-> parentIds, props |-> props,
                     tree |-> TreeOf(tarball)]
        committed == TagVersion([repo EXCEPT !.revs = (revid :> rev) @@ @],
                                version, revid, component)
        ptbOpen  == repo.ptb.exists \/ forcePristineTar
        store    == GitStorePristineTar([repo.ptb EXCEPT !.exists = TRUE],
                                        tarball.name, TreeOf(tarball), tarball)
        ok(r)    == [outcome |-> "ok", repo |-> r, tag |-> tagName, revid |-> revid]
    IN CASE withMd5 /\ deltaFails
              -> [outcome |-> "PristineTarError", repo |-> repo]
         [] ~(withMd5 /\ repo.git /\ ptbOpen)
              -> ok(committed)
         [] store.outcome # "PristineTarDeltaExists"
              -> ok([committed EXCEPT !.ptb = store.ptb])
         [] reuseExisting
              -> ok([committed EXCEPT !.ptb = store.ptb])
         [] OTHER
              -> [outcome |-> "PristineTarDeltaExists", repo |-> [committed EXCEPT !.ptb = store.ptb]]

-----------------------------------------------------------------------------
(* Looking up *)

(* The tip's ancestry, newest first, along first parents (the imports     *)
(* here have one parent each).                                             *)
RECURSIVE AncestryFrom(_, _)
AncestryFrom(revs, r) ==
    IF r \notin DOMAIN revs THEN << >>
    ELSE <<r>> \o (IF revs[r].parents = << >> THEN << >>
                   ELSE AncestryFrom(revs, revs[r].parents[1]))

(* _has_revision: an ancestor of the tip whose deb-md5, when it has one,   *)
(* is md5.                                                                 *)
HasRevision(repo, revid, md5) ==
    /\ revid \in ToSet(AncestryFrom(repo.revs, repo.tip))
    /\ md5 # None /\ "deb-md5" \in DOMAIN repo.revs[revid].props
         => repo.revs[revid].props["deb-md5"] = md5

(* possible_tag_names without a gbp tag format: the tags module's names,   *)
(* as tags.py gives them without a package name and with try_hard.        *)
PossibleTagNames(version, component) == Tags!PossibleUpstreamTagNames(None, version, component, TRUE)

(* The first possible tag name that is set on a revision _has_revision     *)
(* accepts, as an index into PossibleTagNames, or 0.                       *)
FirstGoodTag(repo, version, component, md5) ==
    LET names == PossibleTagNames(version, component)
    IN SelectInSeq(names, LAMBDA t : t \in DOMAIN repo.tags /\ HasRevision(repo, repo.tags[t], md5))

(* version_component_as_revision: the first good tag; else the search of  *)
(* the tip's ancestry for the import's commit message; else the revision  *)
(* of tag_name, whether _has_revision accepted it or not.                  *)
VersionComponentAsRevision(repo, package, version, component, md5) ==
    LET names  == PossibleTagNames(version, component)
        i      == FirstGoodTag(repo, version, component, md5)
        search == Tags!SearchForUpstreamVersion(AncestryFrom(repo.revs, repo.tip),
                                                repo.revs, package, version, Len(RevIds))
        tag    == TagName(repo, version, component)
    IN CASE i # 0                    -> [kind |-> "some", revid |-> repo.tags[names[i]]]
         [] search # None            -> [kind |-> "some", revid |-> search]
         [] tag \in DOMAIN repo.tags -> [kind |-> "some", revid |-> repo.tags[tag]]
         [] OTHER                    -> [kind |-> "PackageVersionNotPresent"]

HasVersionComponent(repo, version, component, md5) == FirstGoodTag(repo, version, component, md5) # 0

(* has_version: every (component, md5) of the tarballs listed.             *)
HasVersion(repo, version, tarballs) ==
    \A i \in DOMAIN tarballs : HasVersionComponent(repo, version, tarballs[i].component, tarballs[i].md5)

-----------------------------------------------------------------------------
(* Fetching *)

(* get_pristine_tar_delta: the revision's delta property, else the         *)
(* pristine-tar branch's NAME.delta file, else PristineTarDeltaAbsent.     *)
GetPristineTarDelta(repo, revid, destName) ==
    LET rev == repo.revs[revid]
    IN CASE RevisionHasPristineTarDelta(rev)
              -> [kind |-> "delta", delta |-> RevisionPristineTarDelta(rev)]
         [] repo.ptb.exists /\ destName \in DOMAIN repo.ptb.files
              -> [kind |-> "delta", delta |-> repo.ptb.files[destName].delta]
         [] OTHER -> [kind |-> "PristineTarDeltaAbsent"]

(* reconstruct_pristine_tar: pristine-tar gentar of the revision's tree    *)
(* and the delta into destName (PristineTarError when the delta is not for *)
(* that tree); without a delta, a plain export of the tree to destName.    *)
ReconstructPristineTar(repo, revid, destName) ==
    LET d    == GetPristineTarDelta(repo, revid, destName)
        tree == repo.revs[revid].tree
    IN CASE d.kind = "PristineTarDeltaAbsent" -> [kind |-> "export", name |-> destName, tree |-> tree]
         [] TreeOf(d.delta) = tree            -> [kind |-> "pristine", name |-> destName, tarball |-> d.delta]
         [] OTHER                             -> [kind |-> "PristineTarError"]

(* fetch_component_tarball: the revision, its delta's format or gz, and    *)
(* the tarball rebuilt under that name; PackageVersionNotPresent when the  *)
(* revision is missing or pristine-tar fails.                              *)
FetchComponentTarball(repo, package, version, component) ==
    LET r      == VersionComponentAsRevision(repo, package, version, component, None)
        rev    == repo.revs[r.revid]
        format == IF RevisionHasPristineTarDelta(rev) THEN RevisionPristineTarFormat(rev) ELSE "gz"
        file   == ReconstructPristineTar(repo, r.revid, TarballName(version, component, format))
    IN IF r.kind # "some" \/ r.revid \notin DOMAIN repo.revs \/ file.kind = "PristineTarError"
       THEN [kind |-> "PackageVersionNotPresent"]
       ELSE file

(* _components_by_version: every upstream tag read back as (component,     *)
(* version).                                                               *)
ComponentsByVersion(repo) ==
    {Tags!UpstreamTagVersion(t) : t \in {t \in DOMAIN repo.tags : Tags!IsUpstreamTag(t)}}

(* fetch_tarballs without components: a tarball for each component the    *)
(* tags list for the version, PackageVersionNotPresent when they list none. *)
FetchTarballs(repo, package, version) ==
    LET cs == {e.component : e \in {e \in ComponentsByVersion(repo) : e.version = version}}
    IN IF cs = {} THEN [kind |-> "PackageVersionNotPresent"]
       ELSE [kind |-> "files", files |-> {FetchComponentTarball(repo, package, version, c) : c \in cs}]

====
