----------------------------- MODULE PackStore -----------------------------
(***************************************************************************)
(* What the pack storage engine promises its readers (spec.md, sections 2 *)
(* and 4): the records reachable through the durable manifest, by index    *)
(* kind.  A commit publishes a whole write group at once: its new          *)
(* revisions with their inventories and texts, and signatures of           *)
(* revisions the store holds.  Compaction, aborts and crashes change       *)
(* nothing a reader can see, so they are stuttering steps here.            *)
(***************************************************************************)
EXTENDS Naturals, FiniteSets

CONSTANTS
    InitRevs,   \* revisions 1..InitRevs are stored initially, unsigned
    Revs,       \* revision ids
    SignRevs    \* revisions that may be signed

Kinds == {"rix", "iix", "tix", "six"}

\* committed[k]: the keys of index kind k reachable through the manifest.
VARIABLE committed

TypeOK == committed \in [Kinds -> SUBSET Revs]

Init == committed = [k \in Kinds |-> IF k = "six" THEN {} ELSE 1..InitRevs]

(* One commit of a write group that inserted the revisions new and the    *)
(* signatures sigs, not both empty.                                        *)
Commit(new, sigs) ==
    /\ new \cup sigs # {}
    /\ sigs \subseteq committed["rix"] \cup new
    /\ committed' = [k \in Kinds |->
                        committed[k] \cup (IF k = "six" THEN sigs ELSE new)]

Next ==
    \E new \in SUBSET (Revs \ committed["rix"]),
       sigs \in SUBSET (SignRevs \ committed["six"]) : Commit(new, sigs)

Spec == Init /\ [][Next]_committed

====
