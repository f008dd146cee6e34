-------------------------- MODULE PackIndexLookup --------------------------
(***************************************************************************)
(* How RepositoryPackCollection (src/bzrlib/repofmt/pack_repo.py) turns    *)
(* the names in _names into index objects: _pack_tuple, _make_index,       *)
(* _make_index_to_pack_map, _make_index_map and get_pack_by_name.          *)
(*                                                                         *)
(* A file name is the sequence of its parts: a pack name followed by its   *)
(* suffixes, so "abc.rix" is <<abc, ".rix">>.  Slicing off ".pack"         *)
(* (name[:-5]) drops the last part.  A lookup of a key that is not in a    *)
(* dict is the code's KeyError, modelled as ok = FALSE.                     *)
(***************************************************************************)
EXTENDS Naturals, Sequences, FiniteSets

CONSTANT PackNames   \* pack names (md5 digests), as model values

Suffixes == {".rix", ".iix", ".tix", ".six"}

\* _names: the loaded pack-names, keyed by the bare pack name.
VARIABLE names

(* A bare pack name as a file-name string.                               *)
Name(n) == <<n>>

(* The index file a store's flush writes for a new pack: the              *)
(* name_to_revision/signature/text/inv_index_name methods, name + suffix.  *)
NameToIndexName(n, suffix) == Name(n) \o <<suffix>>

(* _pack_tuple: the pack's file name in packs/.                            *)
PackTuple(name) == name \o <<".pack">>

(* name[:-5] of a pack file name.                                          *)
StripPack(f) == SubSeq(f, 1, Len(f) - 1)

(* _make_index: index_name = name + suffix, index_size from                *)
(* _names[name]; a name that is not a key of _names raises KeyError.       *)
MakeIndex(ns, name, suffix) ==
    IF name \in {Name(n) : n \in ns}
    THEN [ok |-> TRUE, file |-> name \o <<suffix>>]
    ELSE [ok |-> FALSE, file |-> << >>]

(* _make_index_to_pack_map: for each (transport, name) of pack_details,    *)
(* _make_index(name[:-5] + index_suffix, index_suffix); the first KeyError *)
(* propagates.                                                              *)
MakeIndexToPackMap(ns, details, suffix) ==
    LET made == {MakeIndex(ns, StripPack(f) \o <<suffix>>, suffix) : f \in details}
    IN [ok |-> \A m \in made : m.ok, files |-> {m.file : m \in made}]

(* _make_index_map: the map over the _pack_tuple of every name().          *)
MakeIndexMap(ns, suffix) ==
    MakeIndexToPackMap(ns, {PackTuple(Name(n)) : n \in ns}, suffix)

(* get_pack_by_name with nothing in the _packs cache: the four _make_index *)
(* calls for the name it is given.                                          *)
GetPackByName(ns, name) == \A s \in Suffixes : MakeIndex(ns, name, s).ok

Init == names \in SUBSET PackNames

Spec == Init /\ [][UNCHANGED names]_names

-----------------------------------------------------------------------------
(* Properties *)

(* Reference: the index files in indices/ of the packs _names lists.     *)
IndexFiles(ns, suffix) == {NameToIndexName(n, suffix) : n \in ns}

(* The two ways the collection looks up the packs _names lists must find   *)
(* every one of them.  get_revision_file, the stores' _ensure_all_index    *)
(* and _combine_packs build their indices with _make_index_map or           *)
(* _make_index_to_pack_map, which must give each listed pack's index file; *)
(* autopack() and pack() call get_pack_by_name(transport_and_name[1]), the *)
(* pack's file name, for each pack of _revision_pack_map, and each call    *)
(* must find the pack.                                                     *)
LookupFindsEveryPack ==
    /\ \A s \in Suffixes :
          LET m == MakeIndexMap(names, s)
          IN m.ok /\ m.files = IndexFiles(names, s)
    /\ \A n \in names : GetPackByName(names, PackTuple(Name(n)))

====
