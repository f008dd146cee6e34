-------------------------- MODULE DirstateHelpers --------------------------
(***************************************************************************)
(* The pure-Python dirstate helpers of                                     *)
(* src/breezy/bzr/_dirstate_helpers_py.py: bisect_dirblock and the parser  *)
(* _read_dirblocks, as operators.                                          *)
(*                                                                         *)
(* A byte string is a sequence of characters from a small alphabet; only   *)
(* the order of the bytes matters, and "/" (0x2f) sorts before letters.    *)
(* A dirstate field is a token: a dirname, the newline field, or one of    *)
(* the values a tree's five fields hold.                                    *)
(***************************************************************************)
EXTENDS Naturals, Sequences, SequencesExt

Chars == {"/", "a", "b"}

ByteValue == [c \in Chars |-> CASE c = "/" -> 47 [] c = "a" -> 97 [] c = "b" -> 98]

(* Python's < on byte strings: lexicographic, a proper prefix first.      *)
RECURSIVE BytesLess(_, _)
BytesLess(s, t) ==
    IF t = << >> THEN FALSE
    ELSE IF s = << >> THEN TRUE
    ELSE IF ByteValue[Head(s)] # ByteValue[Head(t)]
         THEN ByteValue[Head(s)] < ByteValue[Head(t)]
         ELSE BytesLess(Tail(s), Tail(t))

(* s.split(b'/'): the pieces between separators, empty ones included.    *)
RECURSIVE Split(_)
Split(s) ==
    IF s = << >> THEN << << >> >>
    ELSE LET rest == Split(Tail(s))
         IN IF Head(s) = "/" THEN << << >> >> \o rest
            ELSE [rest EXCEPT ![1] = <<Head(s)>> \o @]

(* Python's < on lists of byte strings.                                    *)
RECURSIVE ListLess(_, _)
ListLess(xs, ys) ==
    IF ys = << >> THEN FALSE
    ELSE IF xs = << >> THEN TRUE
    ELSE IF Head(xs) # Head(ys) THEN BytesLess(Head(xs), Head(ys))
    ELSE ListLess(Tail(xs), Tail(ys))

(* Mutation of BisectLoop: a block equal to dirname moves lo past it.     *)
RECURSIVE BisectLoopPastEqual(_, _, _, _)
BisectLoopPastEqual(dirblocks, key, lo, hi) ==
    IF lo >= hi THEN lo
    ELSE LET mid == (lo + hi) \div 2
         IN IF ~ListLess(key, Split(dirblocks[mid + 1].dirname))
            THEN BisectLoopPastEqual(dirblocks, key, mid + 1, hi)
            ELSE BisectLoopPastEqual(dirblocks, key, lo, mid)

(* The while loop of bisect_dirblock; lo, hi and mid are 0-based indices  *)
(* as in the code, dirblocks[mid] is dirblocks[mid + 1] here.             *)
RECURSIVE BisectLoop(_, _, _, _)
BisectLoop(dirblocks, key, lo, hi) ==
    IF lo >= hi THEN lo
    ELSE LET mid == (lo + hi) \div 2
         IN IF ListLess(Split(dirblocks[mid + 1].dirname), key)
            THEN BisectLoop(dirblocks, key, mid + 1, hi)
            ELSE BisectLoop(dirblocks, key, lo, mid)

(* bisect_dirblock(dirblocks, dirname, lo, hi): the optional hi is << >>   *)
(* when omitted (None, then len(dirblocks)) and <<n>> when given.  The    *)
(* split cache only memoises Split.                                       *)
BisectDirblock(dirblocks, dirname, lo, hi) ==
    BisectLoop(dirblocks, Split(dirname), lo, IF hi = << >> THEN Len(dirblocks) ELSE hi[1])

-----------------------------------------------------------------------------
(* _read_dirblocks, for a dirstate with one present parent tree.           *)

NL == <<"\n">>

(* int(field): the sizes are single digits here; anything else raises.    *)
IsInt(tok) == tok \in {<<"0">>, <<"1">>}
IntOf(tok) == IF tok = <<"1">> THEN 1 ELSE 0

(* _fields_per_entry: 3 key fields, 5 per tree, the newline field.        *)
FieldsPerEntry(numParents) == 3 + 5 * (1 + numParents) + 1

(* One tree's five fields: minikind, fingerprint, int(size),               *)
(* executable == b'y', packed_stat or revision_id.                        *)
TreeDetails(fs, i) ==
    [minikind |-> fs[i], fingerprint |-> fs[i + 1], size |-> IntOf(fs[i + 2]),
     executable |-> fs[i + 3] = <<"y">>, info |-> fs[i + 4]]

(* Mutation of ParseEntries: a new block is opened but append_entry still *)
(* points at the previous one.                                            *)
RECURSIVE ParseEntriesStaleAppend(_, _, _, _, _)
ParseEntriesStaleAppend(fs, pos, count, blocks, cur) ==
    IF count = 0 THEN [result |-> "ok", blocks |-> blocks]
    ELSE IF pos + 13 > Len(fs) THEN [result |-> "StopIteration", blocks |-> blocks]
    ELSE IF ~IsInt(fs[pos + 5]) \/ ~IsInt(fs[pos + 10]) \/ fs[pos + 13] # NL
         THEN [result |-> "ValueError", blocks |-> blocks]
    ELSE LET dirname == fs[pos]
             entry   == [key   |-> <<dirname, fs[pos + 1], fs[pos + 2]>>,
                         trees |-> <<TreeDetails(fs, pos + 3), TreeDetails(fs, pos + 8)>>]
             new     == dirname # blocks[cur].dirname
             bs      == IF new THEN Append(blocks, [dirname |-> dirname, entries |-> << >>])
                        ELSE blocks
         IN ParseEntriesStaleAppend(fs, pos + 14, count - 1,
                                    [bs EXCEPT ![cur].entries = Append(@, entry)],
                                    IF new THEN Len(bs) ELSE cur)

(* The loop over state._num_entries: the entry at pos, then the next one. *)
(* cur is the index of the block entries are appended to; the first is   *)
(* the root block, and a dirname other than the current one opens a new  *)
(* block.                                                                 *)
RECURSIVE ParseEntries(_, _, _, _, _)
ParseEntries(fs, pos, count, blocks, cur) ==
    IF count = 0 THEN [result |-> "ok", blocks |-> blocks]
    ELSE IF pos + 13 > Len(fs) THEN [result |-> "StopIteration", blocks |-> blocks]
    ELSE IF ~IsInt(fs[pos + 5]) \/ ~IsInt(fs[pos + 10]) \/ fs[pos + 13] # NL
         THEN [result |-> "ValueError", blocks |-> blocks]
    ELSE LET dirname == fs[pos]
             entry   == [key   |-> <<dirname, fs[pos + 1], fs[pos + 2]>>,
                         trees |-> <<TreeDetails(fs, pos + 3), TreeDetails(fs, pos + 8)>>]
             new     == dirname # blocks[cur].dirname
             bs      == IF new THEN Append(blocks, [dirname |-> dirname, entries |-> << >>])
                        ELSE blocks
             c       == IF new THEN Len(bs) ELSE cur
         IN ParseEntries(fs, pos + 14, count - 1,
                         [bs EXCEPT ![c].entries = Append(@, entry)], c)

(* Mutation of ReadDirblocks: the field count is not checked.             *)
ReadDirblocksUnchecked(fields, numEntries) ==
    IF Last(fields) # << >> THEN [result |-> "DirstateCorrupt", blocks |-> << >>]
    ELSE ParseEntries(Front(fields), 2, numEntries,
                      <<[dirname |-> << >>, entries |-> << >>],
                        [dirname |-> << >>, entries |-> << >>]>>, 1)

(* _read_dirblocks: pop the trailing empty field, check the field count,  *)
(* skip the header's field, then parse the entries into dirblocks (before *)
(* _split_root_dirblock_into_contents).                                   *)
ReadDirblocks(fields, numEntries) ==
    LET fs == Front(fields)
    IN IF Last(fields) # << >> THEN [result |-> "DirstateCorrupt", blocks |-> << >>]
       ELSE IF Len(fs) - 1 # FieldsPerEntry(1) * numEntries
       THEN [result |-> "DirstateCorrupt", blocks |-> << >>]
       ELSE ParseEntries(fs, 2, numEntries,
                         <<[dirname |-> << >>, entries |-> << >>],
                           [dirname |-> << >>, entries |-> << >>]>>, 1)

====
