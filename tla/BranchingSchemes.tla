------------------------- MODULE BranchingSchemes -------------------------
(***************************************************************************)
(* The branching schemes of src/scheme.py, which divide a Subversion path  *)
(* into a branch path and a path inside the branch: is_branch and          *)
(* unprefix of DefaultBranchingScheme, NoBranchingScheme and               *)
(* ListBranchingScheme.                                                    *)
(*                                                                         *)
(* A path is a sequence of characters.  The words the schemes test for are *)
(* one character each: "T" is trunk, "B" branches, "G" tags and "H" hooks; *)
(* other characters are names.  A result of unprefix is a record with ok   *)
(* FALSE when the code raises.                                             *)
(***************************************************************************)
EXTENDS Naturals, Sequences, SequencesExt

Slash == "/"

(* str.split("/").                                                         *)
RECURSIVE PathSplit(_)
PathSplit(s) ==
    IF s = << >> THEN << << >> >>
    ELSE LET rest == PathSplit(Tail(s))
         IN IF Head(s) = Slash THEN << << >> >> \o rest
            ELSE [rest EXCEPT ![1] = <<Head(s)>> \o @]

(* "/".join(parts).                                                        *)
RECURSIVE PathJoin(_)
PathJoin(parts) ==
    IF parts = << >> THEN << >>
    ELSE IF Len(parts) = 1 THEN Head(parts)
    ELSE Head(parts) \o <<Slash>> \o PathJoin(Tail(parts))

(* str.lstrip("/").                                                        *)
RECURSIVE LStrip(_)
LStrip(s) == IF s # << >> /\ Head(s) = Slash THEN LStrip(Tail(s)) ELSE s

(* parts[a:b] for 0-based a and b, clipped as Python clips.               *)
Slice(parts, a, b) ==
    IF a >= Len(parts) \/ a >= b THEN << >>
    ELSE SubSeq(parts, a + 1, IF b > Len(parts) THEN Len(parts) ELSE b)

Split(branch, inside) == [ok |-> TRUE, branch |-> branch, inside |-> inside]

Raises == [ok |-> FALSE, branch |-> << >>, inside |-> << >>]

-----------------------------------------------------------------------------
(* DefaultBranchingScheme *)

DefaultIsBranch(path) ==
    LET parts == PathSplit(path)
    IN \/ Len(parts) = 1 /\ parts[1] = <<"T">>
       \/ Len(parts) = 2 /\ parts[1] \in {<<"B">>, <<"G">>}

(* Mutation of DefaultUnprefix: tags and branches keep one part.           *)
DefaultUnprefixOnePart(path) ==
    LET parts == PathSplit(LStrip(path))
    IN IF parts[1] \in {<<"T">>, <<"H">>}
       THEN Split(parts[1], PathJoin(Slice(parts, 1, Len(parts))))
       ELSE IF parts[1] \in {<<"G">>, <<"B">>}
       THEN Split(PathJoin(Slice(parts, 0, 1)), PathJoin(Slice(parts, 2, Len(parts))))
       ELSE Raises

(* unprefix: trunk and hooks are one part, tags and branches two; any      *)
(* other path raises (BzrError is not imported, so the raise is a          *)
(* NameError).                                                              *)
DefaultUnprefix(path) ==
    LET parts == PathSplit(LStrip(path))
    IN IF parts[1] \in {<<"T">>, <<"H">>}
       THEN Split(parts[1], PathJoin(Slice(parts, 1, Len(parts))))
       ELSE IF parts[1] \in {<<"G">>, <<"B">>}
       THEN Split(PathJoin(Slice(parts, 0, 2)), PathJoin(Slice(parts, 2, Len(parts))))
       ELSE Raises

-----------------------------------------------------------------------------
(* NoBranchingScheme *)

NoIsBranch(path) == Len(PathSplit(path)) = 0

NoUnprefix(path) == Split(<< >>, path)

-----------------------------------------------------------------------------
(* ListBranchingScheme(branch_list) *)

ListIsBranch(branchList, path) == path \in ToSet(branchList)

(* unprefix: the first branch of the list that path starts with, and the  *)
(* rest of the path after it; NoSuchFile if none.                          *)
RECURSIVE ListUnprefixFrom(_, _)
ListUnprefixFrom(branchList, path) ==
    IF branchList = << >> THEN Raises
    ELSE LET i == Head(branchList)
         IN IF IsPrefix(i, path)
            THEN Split(i, SubSeq(path, Len(i) + 1, Len(path)))
            ELSE ListUnprefixFrom(Tail(branchList), path)

ListUnprefix(branchList, path) == ListUnprefixFrom(branchList, path)

====
