---------------------------- MODULE UpstreamTags ----------------------------
(***************************************************************************)
(* The upstream tag and import helpers of                                  *)
(* src/breezy/plugins/debian/upstream/tags.py: the tag names an upstream   *)
(* version may have, how a tag name is read back as a version and a        *)
(* component, the Debian tags that start from an upstream version, and the *)
(* search of the ancestry for the revision that imported it.               *)
(*                                                                         *)
(* A string is a sequence of characters.  Version characters are "1", ".", *)
(* "~" and "+"; "p" is a package name and "c" a component.  The words the  *)
(* code tests for are one character each: "U" upstream, "D" debian, "N"    *)
(* ubuntu, "R" release.  None is the empty string: the code only tests the *)
(* package for truth, and the callers never pass an empty component.       *)
(***************************************************************************)
EXTENDS Naturals, Sequences, SequencesExt

None == << >>

(* str(None), where a format string prints a missing package.              *)
PyStr(s) == IF s = None THEN <<"n">> ELSE s

(* debmutate's mangle_version_for_git (DEP-14): "~" becomes "_", ":"       *)
(* becomes "%", ".." becomes ".#.", and a trailing "." gets a "#".          *)
RECURSIVE MangleDots(_)
MangleDots(s) ==
    IF Len(s) < 2 THEN s
    ELSE IF s[1] = "." /\ s[2] = "."
    THEN <<".", "#", ".">> \o MangleDots(SubSeq(s, 3, Len(s)))
    ELSE <<s[1]>> \o MangleDots(Tail(s))

MangleVersionForGit(v) ==
    LET m == MangleDots(ReplaceAll(ReplaceAll(v, "~", "_"), ":", "%"))
    IN IF m # << >> /\ Last(m) = "." THEN Append(m, "#") ELSE m

-----------------------------------------------------------------------------
(* Upstream tag names *)

PossibleUpstreamTagNames(package, version, component, tryHard) ==
    IF component = None
    THEN LET tags    == << <<"U", "/">> \o version, <<"U", "-">> \o version >>
             manip   == <<"U", "/">> \o MangleVersionForGit(version)
             gbp     == IF manip \in ToSet(tags) THEN tags ELSE Append(tags, manip)
             svn     == Append(gbp, <<"U", "_">> \o version)
             release == IF ~Contains(version, "~") /\ ~Contains(version, "+")
                        THEN << <<"R", "-">> \o version,
                                <<"v">> \o version \o <<"-", "R">> >>
                        ELSE << >>
             named   == IF package # None THEN << package \o <<"-">> \o version >>
                        ELSE << >>
         IN IF tryHard
            THEN svn \o << version, <<"v">> \o version >> \o release \o named
                     \o << <<"v", "/">> \o version, <<"v", ".">> \o version >>
            ELSE svn
    ELSE << <<"U", "-">> \o version \o <<"/">> \o component,
            <<"U", "/">> \o MangleVersionForGit(version) \o <<"/">> \o component >>

IsUpstreamTag(tag) == \E sep \in {"-", "/", "_"} : IsPrefix(<<"U", sep>>, tag)

StripPrefix(p, s) == SubSeq(s, Len(p) + 1, Len(s))

(* The tag without its upstream prefix, and without debian- or ubuntu-    *)
(* after "upstream-".                                                      *)
AfterUpstreamPrefix(tag) ==
    IF IsPrefix(<<"U", "/">>, tag) THEN StripPrefix(<<"U", "/">>, tag)
    ELSE IF IsPrefix(<<"U", "_">>, tag) THEN StripPrefix(<<"U", "_">>, tag)
    ELSE LET t == StripPrefix(<<"U", "-">>, tag)
         IN IF IsPrefix(<<"D", "-">>, t) THEN StripPrefix(<<"D", "-">>, t)
            ELSE IF IsPrefix(<<"N", "-">>, t) THEN StripPrefix(<<"N", "-">>, t)
            ELSE t

(* Mutation of UpstreamTagVersion: "_" is not turned back into "~".        *)
UpstreamTagVersionKeepsUnderscore(tag) ==
    LET t == AfterUpstreamPrefix(tag)
        i == SelectLastInSeq(t, LAMBDA ch : ch = "/")
    IN IF i = 0 THEN [component |-> None, version |-> t]
       ELSE [component |-> SubSeq(t, i + 1, Len(t)), version |-> SubSeq(t, 1, i - 1)]

(* upstream_tag_version: (component, version); "_" back to "~", the        *)
(* component after the last "/", an empty one as None.                     *)
UpstreamTagVersion(tag) ==
    LET t == ReplaceAll(AfterUpstreamPrefix(tag), "_", "~")
        i == SelectLastInSeq(t, LAMBDA ch : ch = "/")
    IN IF i = 0 THEN [component |-> None, version |-> t]
       ELSE [component |-> SubSeq(t, i + 1, Len(t)), version |-> SubSeq(t, 1, i - 1)]

-----------------------------------------------------------------------------
(* Debian tags and imports of an upstream version *)

UpstreamVersionTagStarts(package, version) ==
    << <<"D", "/">> \o MangleVersionForGit(version) \o <<"-">>,
       <<"D", "-">> \o version,
       <<"D", "/">> \o MangleVersionForGit(ReplaceAll(version, ":", "_")) \o <<"-">>,
       PyStr(package) \o <<"_", "v">> \o version >>
    \o (IF package # None THEN << <<"D", "-">> \o package \o <<"-">> \o version >>
        ELSE << >>)

(* upstream_version_tag_start_revids: the tags of tagDict (a function from *)
(* tag names to revision ids) that start with a candidate.                 *)
UpstreamVersionTagStartRevids(tagDict, package, version) ==
    {t \in DOMAIN tagDict :
        \E s \in ToSet(UpstreamVersionTagStarts(package, version)) : IsPrefix(s, t)}

(* Commit messages, lower-cased: "I" is "import ", "J" "imported upstream  *)
(* version ", "K" "import upstream version ", "W" "new upstream version ",  *)
(* "G" "merge tag 'v", "Q" "' into debian/", "H" "merge tag '", "Z"         *)
(* "' into ".                                                               *)
RevIsUpstreamImport(message, package, version) ==
    LET named == IF package # None
                 THEN << <<"I">> \o package \o <<"_">> \o version,
                         <<"I">> \o ReplaceAll(package, "-", "_") \o <<"-">> \o version,
                         package \o <<"-">> \o version >>
                 ELSE << >>
        plain == << <<"J">> \o version, <<"K">> \o version, <<"W">> \o version,
                    <<"W", "v">> \o version >>
    IN \E m \in ToSet(named \o plain) : IsPrefix(m, message)

RevIsUpstreamMerge(message, package, version) ==
    \/ IsPrefix(<<"G">> \o version \o <<"Q">>, message)
    \/ package # None /\ IsPrefix(<<"H">> \o package \o <<"-">> \o version \o <<"Z">>, message)

(* search_for_upstream_version over the ancestry in iter_ancestry order,   *)
(* cut at scanDepth (islice; a depth of None is one of Len(ancestry) or    *)
(* more): the first import of version, else the                            *)
(* second parent of the first merge of its tag, else None.  revs maps the  *)
(* revisions present to [message, parents]; iter_revisions gives None for  *)
(* the others (ghosts).  Revision ids are strings.                         *)
SearchForUpstreamVersion(ancestry, revs, package, version, scanDepth) ==
    LET todo  == SubSeq(ancestry, 1, Min({scanDepth, Len(ancestry)}))
        found(test(_)) == SelectInSeq(todo, LAMBDA r : r \in DOMAIN revs /\ test(revs[r]))
        imp   == found(LAMBDA rev : RevIsUpstreamImport(rev.message, package, version))
        mrg   == found(LAMBDA rev : RevIsUpstreamMerge(rev.message, package, version))
    IN IF imp # 0 THEN todo[imp]
       ELSE IF mrg # 0 THEN revs[todo[mrg]].parents[2]
       ELSE None

====
