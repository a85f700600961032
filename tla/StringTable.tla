----------------------------- MODULE StringTable -----------------------------
(***************************************************************************)
(* The strings of an archive (archive.c, archive/strid_it.c,               *)
(* archive/query.c): a header and a chain of entries, each with the offset *)
(* of the next, and the two ways to find the text of an identifier: along  *)
(* the chain, or by an index of offsets, which is made from the chain and  *)
(* may be appended to the file.                                            *)
(*                                                                         *)
(* A file is a sequence of cells, tuples that begin with their kind; an    *)
(* offset is the number of cells in front.  The first cell is the header   *)
(* of the file, <<"header", record header, index>>.                        *)
(***************************************************************************)
EXTENDS Integers, SequencesExt

CONSTANT Batch          \* entries that the iterator hands out at once

ASSUME BatchAssumption == Batch \in Nat \ {0}

Tell(f) == Len(f)
Patch(f, at, cell) == [f EXCEPT ![at + 1] = cell]
ReadCell(f, offset) == IF offset < Len(f) THEN f[offset + 1] ELSE <<"behind the end">>

(* serialize_string_dic: the strings of the dictionary with their          *)
(* identifiers.  The last entry has no next one.                           *)
WriteStrings(f, strings) ==
    LET header == <<"string table", Len(strings), Tell(f) + 1>>
        AddEntry(g, n) ==
            LET next == IF n < Len(strings) THEN Tell(g) + 2 ELSE 0
            IN  g \o << <<"string entry", next, strings[n][1]>>, <<"text", strings[n][2]>> >>
    IN  FoldLeft(AddEntry, Append(f, header), [n \in DOMAIN strings |-> n])

-----------------------------------------------------------------------------
(* read_stringtable: the header follows that of the file.                  *)
NumStrings(f) == ReadCell(f, 1)[2]
FirstEntry(f) == ReadCell(f, 1)[3]

RECURSIVE NextEntries(_, _, _)

(* Variant: an iterator that is asked again starts behind the entry that   *)
(* it did not hand out.                                                    *)
NextEntries_skips(f, at, room) ==
    LET entry == ReadCell(f, at)
        info  == [id |-> entry[3], offset |-> at + 1]
        rest  == NextEntries(f, entry[2], room - 1)
    IN  IF entry[2] = 0 THEN [infos |-> <<info>>, next |-> 0]
        ELSE IF room = 1 THEN [infos |-> <<info>>, next |-> ReadCell(f, entry[2])[2]]
        ELSE [infos |-> <<info>> \o rest.infos, next |-> rest.next]

(* strid_iter_next: from the entry at an offset, as many as there is room. *)
NextEntries(f, at, room) ==
    LET entry == ReadCell(f, at)
        info  == [id |-> entry[3], offset |-> at + 1]
        rest  == NextEntries(f, entry[2], room - 1)
    IN  IF entry[2] = 0 \/ room = 1 THEN [infos |-> <<info>>, next |-> entry[2]]
        ELSE [infos |-> <<info>> \o rest.infos, next |-> rest.next]

RECURSIVE ScanFrom(_, _)
ScanFrom(f, at) ==
    LET batch == NextEntries(f, at, Batch)
    IN  IF at = 0 THEN <<>> ELSE batch.infos \o ScanFrom(f, batch.next)

Scan(f) == ScanFrom(f, FirstEntry(f))

(* query_create_index_string_id_to_offset.  The hash table is a function.  *)
IndexOf(f) ==
    FoldLeft(LAMBDA index, info : (info.id :> info.offset) @@ index, <<>>, Scan(f))

(* run_string_id_baking: the index at the end, and its place in the header.*)
Baked(f) ==
    Patch(Append(f, <<"index", IndexOf(f)>>), 0, [ReadCell(f, 0) EXCEPT ![3] = Tell(f)])

(* archive_open: the index, if the file has one.                           *)
NoIndex == <<"no index">>
LoadedIndex(f) ==
    IF ReadCell(f, 0)[3] = 0 THEN NoIndex ELSE ReadCell(f, ReadCell(f, 0)[3])[2]

FetchViaIndex(f, index, id) ==
    IF id \in DOMAIN index THEN ReadCell(f, index[id])[2] ELSE "not found"

FetchViaScan(f, id) ==
    LET found == SelectSeq(Scan(f), LAMBDA info : info.id = id)
    IN  IF found = <<>> THEN "not found" ELSE ReadCell(f, found[1].offset)[2]

(* query_fetch_string_by_id_nocache                                        *)
FetchById(f, index, id) ==
    IF index = NoIndex THEN FetchViaScan(f, id) ELSE FetchViaIndex(f, index, id)
=============================================================================
