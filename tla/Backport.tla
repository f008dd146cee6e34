------------------------------ MODULE Backport ------------------------------
(***************************************************************************)
(* src/auto_backport.py: the version, suffix and target suite a backport   *)
(* is given, and the changelog block backport_package adds.               *)
(*                                                                         *)
(* Strings are sequences of one-character strings (DebianVersion).  The    *)
(* release table stands for DebianDistroInfo, which is outside src/.      *)
(* debcommit, the author and the date are left out: they do not change    *)
(* the version or the suite.                                               *)
(***************************************************************************)
EXTENDS DebianVersion

(* DebianDistroInfo: the releases, their version and their role.           *)
DistroInfo == [bookworm |-> [version |-> <<"1", "2">>, role |-> "stable"],
               bullseye |-> [version |-> <<"1", "1">>, role |-> "oldstable"],
               trixie   |-> [version |-> <<"1", "3">>, role |-> "testing"]]

Releases == DOMAIN DistroInfo

(* backport_suffix: "bpo%s" % the release's version.                        *)
BackportSuffix(release) == <<"b", "p", "o">> \o DistroInfo[release].version

(* backport_distribution: stable gets -backports, oldstable               *)
(* -backports-sloppy, anything else raises.                               *)
BackportDistribution(release) ==
    CASE DistroInfo[release].role = "stable"    -> [raises |-> FALSE, suite |-> <<release, "backports">>]
      [] DistroInfo[release].role = "oldstable" -> [raises |-> FALSE, suite |-> <<release, "backports-sloppy">>]
      [] OTHER                                  -> [raises |-> TRUE, suite |-> << >>]

(* The positions i at which create_bpo_version's re.fullmatch can split  *)
(* the version: "~" SUFFIX "+" starts at i and only digits follow it.     *)
BpoSplits(orig, suffix) ==
    LET tail == <<"~">> \o suffix \o <<"+">>
    IN {i \in 1..Len(orig) :
          /\ i + Len(tail) <= Len(orig)
          /\ SubSeq(orig, i, i + Len(tail) - 1) = tail
          /\ IsDigitRun(SubSeq(orig, i + Len(tail), Len(orig)))}

(* Mutant of create_bpo_version: the old build number kept, not raised.   *)
CreateBpoVersionNoIncrement(orig, suffix) ==
    LET tail  == <<"~">> \o suffix \o <<"+">>
        split == BpoSplits(orig, suffix)
        i     == CHOOSE j \in split : \A k \in split : k <= j
    IN IF split # {}
       THEN SubSeq(orig, 1, i - 1) \o tail
              \o DecimalOf(NumberOf(SubSeq(orig, i + Len(tail), Len(orig))))
       ELSE orig \o tail \o <<"1">>

(* create_bpo_version: the next build of a backport of the same base, or  *)
(* the first backport of a version that is not one.                       *)
CreateBpoVersion(orig, suffix) ==
    LET tail  == <<"~">> \o suffix \o <<"+">>
        split == BpoSplits(orig, suffix)
        i     == CHOOSE j \in split : \A k \in split : k <= j
    IN IF split # {}
       THEN SubSeq(orig, 1, i - 1) \o tail
              \o DecimalOf(NumberOf(SubSeq(orig, i + Len(tail), Len(orig))) + 1)
       ELSE orig \o tail \o <<"1">>

(* backport_package: the changelog file is "missing", "generated" or       *)
(* "present" with its block versions, newest first.  The suite is computed,   *)
(* and may raise, before the changelog is opened.                          *)
BackportPackage(changelog, release) ==
    LET dist   == BackportDistribution(release)
        suffix == BackportSuffix(release)
    IN CASE dist.raises                -> [outcome |-> "Exception"]
         [] changelog.file = "missing" -> [outcome |-> "MissingChangelogFile"]
         [] changelog.file = "generated" -> [outcome |-> "ChangelogGeneratedFile"]
         [] OTHER ->
              LET since == changelog.versions[1]
                  new   == CreateBpoVersion(since, suffix)
              IN [outcome   |-> "ok",
                  changelog |-> [changelog EXCEPT !.versions = <<new>> \o @],
                  suite     |-> dist.suite,
                  version   |-> new,
                  since     |-> since]

====
