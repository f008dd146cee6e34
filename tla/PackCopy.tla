------------------------------ MODULE PackCopy ------------------------------
(***************************************************************************)
(* One call of RepositoryPackCollection.create_pack_from_packs             *)
(* (src/bzrlib/repofmt/pack_repo.py), with and without its revision_ids    *)
(* filter, as a pure operator from the sources and the collection to the   *)
(* call's effect: what it copied, whether its staging file is left in      *)
(* upload/, whether it wrote index files, and what it allocated.           *)
(*                                                                         *)
(* Keys: a revision, inventory or signature key is a revision id; a text   *)
(* key is <<file id, revision id>>.  A source pack is its content (the     *)
(* keys of its four indices) and whether its records are grouped by kind;  *)
(* as in PackCollection, equal content and layout mean equal md5 names.    *)
(***************************************************************************)
EXTENDS FiniteSets

CONSTANT NULL

Kinds == {"rix", "iix", "tix", "six"}

(* _index_contents: the entries of a CombinedGraphIndex over the sources'  *)
(* k indices, each key once; iter_entries(key_filter) omits absent keys.   *)
IndexContents(sources, k, keyFilter) ==
    LET all == UNION {p.content[k] : p \in sources}
    IN IF keyFilter = NULL THEN all ELSE all \cap keyFilter

(* revision_keys: `if revision_ids:` a filter of those revisions, else     *)
(* None.  Inventory and signature keys use the same filter.                *)
RevisionKeys(revisionIds) == IF revisionIds = NULL THEN NULL ELSE revisionIds

(* text_filter: the (file id, revision id) pairs the copied inventories'   *)
(* lines name whose revision is one of revision_ids                        *)
(* (_find_file_ids_from_xml_inventory_lines); None without a filter.       *)
(* inventory[r] is the set of text keys the inventory of r lists.          *)
TextFilter(inventory, invs, revisionIds) ==
    IF revisionIds = NULL THEN NULL
    ELSE {t \in UNION {inventory[r] : r \in invs} : t[2] \in revisionIds}

(* missing_text_keys: filtered text keys present in no source; any of      *)
(* them raises RevisionNotPresent.                                         *)
MissingTexts(textFilter, texts) ==
    IF textFilter = NULL THEN {} ELSE textFilter \ texts

(* The records selected from the sources, kind by kind, in copy order.     *)
Selected(sources, inventory, revisionIds) ==
    LET revKeys == RevisionKeys(revisionIds)
        invs    == IndexContents(sources, "iix", revKeys)
    IN [rix |-> IndexContents(sources, "rix", revKeys),
        iix |-> invs,
        tix |-> IndexContents(sources, "tix", TextFilter(inventory, invs, revisionIds)),
        six |-> IndexContents(sources, "six", revKeys)]

(* The effect of a call.  staging: upload/<nonce><suffix> is left behind;  *)
(* indices: the four index files of pack were written to indices/;         *)
(* pack: the name allocated in _names and renamed into packs/, or NULL.    *)
Effect(outcome, name, staging, indices) ==
    [outcome |-> outcome, name |-> name, staging |-> staging,
     indices |-> indices,
     pack |-> IF outcome = "pack" THEN name ELSE NULL]

(* create_pack_from_packs(..., revision_ids): names is _names.  It raises  *)
(* while a pack is open; returns None for an empty revision_ids before     *)
(* opening the staging stream; raises RevisionNotPresent after copying    *)
(* revisions and inventories; deletes the staging file and returns None   *)
(* when nothing was copied; writes the indices and then allocates, where  *)
(* DuplicateKey leaves indices and staging file behind; else renames the   *)
(* pack into packs/.                                                       *)
CreatePackFromPacks(sources, inventory, revisionIds, openPack, names) ==
    LET c    == Selected(sources, inventory, revisionIds)
        name == [content |-> c, grouped |-> TRUE]
        textFilter == TextFilter(inventory, c["iix"], revisionIds)
    IN IF openPack THEN Effect("busy", NULL, FALSE, FALSE)
       ELSE IF revisionIds # NULL /\ revisionIds = {}
       THEN Effect("none", NULL, FALSE, FALSE)
       ELSE IF MissingTexts(textFilter, c["tix"]) # {}
       THEN Effect("missing", NULL, TRUE, FALSE)
       ELSE IF \A k \in Kinds : c[k] = {}
       THEN Effect("empty", NULL, FALSE, FALSE)
       ELSE IF name \in names
       THEN Effect("duplicate", name, TRUE, TRUE)
       ELSE Effect("pack", name, FALSE, TRUE)

====
