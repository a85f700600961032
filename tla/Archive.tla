------------------------------- MODULE Archive -------------------------------
(***************************************************************************)
(* An archive made from a JSON text and read again (archive.c,             *)
(* archive/it.c, archive/internal.c, archive/query.c).  The file holds the *)
(* string table, the record and perhaps an index of the strings.  The      *)
(* record is one region: objects with their properties grouped by type,    *)
(* object arrays as columns, and offsets between them, which are written   *)
(* first as blanks and patched when the target is written.  They count     *)
(* from the first object of the record, those of strings from the          *)
(* beginning of the file.  Strings are found through the cache once a      *)
(* query runs.                                                             *)
(***************************************************************************)
EXTENDS ColumnDoc, StringTable, StringCache

CONSTANTS
    Documents,          \* JSON texts: lists of root objects, each its members
    Queried,            \* those on which queries run
    Asked,              \* identifiers that queries ask for
    Losses              \* known losses that a text may run into

(* Content is what the dictionary holds: a string has one identifier.      *)
ASSUME DictionaryAssumption ==
    /\ Asked \subseteq Ids /\ Queried \subseteq Documents
    /\ \A i \in Ids, j \in Ids : Content[i] = Content[j] => i = j

VARIABLES
    text,               \* the JSON text
    model,              \* column_doc.columndoc
    file,               \* the stream that is written
    index,              \* query_index_string_id_to_offset
    contents,           \* what a visit finds in the archive
    phase

vars == <<text, model, file, index, contents, phase, cvars>>

Offset(o) == <<"offset", o>>
Blank(n)  == [i \in 1 .. n |-> Offset(0)]

(* The groups of properties of an object, in the order of their flags.     *)
Kinds ==
    [t \in DOMAIN Types |-> <<"props", Types[t]>>]
        \o [t \in DOMAIN FixedTypes |-> <<"arrays", FixedTypes[t]>>]
        \o << <<"object arrays", "object">> >>

Group(obj, kind) ==
    CASE kind[1] = "props"  -> obj.props[kind[2]]
      [] kind[1] = "arrays" -> obj.arrays[kind[2]]
      [] OTHER              -> obj.object_arrays

(* get_flags: the groups that are not empty.                               *)
Flags(obj) == {kind \in Range(Kinds) : Group(obj, kind) # <<>>}

(* propOffsetsWrite and int_read_prop_offsets: the order of their offsets. *)
Present(flags) == SelectSeq(Kinds, LAMBDA kind : kind \in flags)

-----------------------------------------------------------------------------
(* Writing.  Where a function of the code seeks back to fill a blank, the  *)
(* cell is patched; the position after it is always the end of the file.   *)

(* The record follows its header, which the header of the file names.      *)
RecordStart(f) == ReadCell(f, 0)[2] + 1
Relative(f)    == Tell(f) - RecordStart(f)

(* A column of offsets, then `between`, then the parts they lead to.       *)
WriteParts(f, between, parts, Write(_, _)) ==
    LET start == f \o Blank(Len(parts)) \o between
        Part(written, n) ==
            Write(Patch(written, Tell(f) + n - 1, Offset(Relative(written))), parts[n])
    IN  FoldLeft(Part, start, [n \in DOMAIN parts |-> n])

KeyCells(group) == [n \in DOMAIN group |-> <<"key", group[n].key>>]

RECURSIVE Serialize(_, _)

(* write_fixed_props and write_var_props                                   *)
WriteProps(f, group, type) ==
    LET keys == f \o << <<"prop header", Len(group)>> >> \o KeyCells(group)
    IN  CASE type = "null"   -> keys
          [] type = "object" ->
                WriteParts(keys, <<>>, [n \in DOMAIN group |-> group[n].values[1]], Serialize)
          [] OTHER           -> keys \o [n \in DOMAIN group |-> group[n].values[1]]

(* write_array_prop: of nulls the number, else lengths and values.  Bytes  *)
(* are written with the stride of the widest number, so that each array is *)
(* followed by what the memory behind it holds.                            *)
ArrayCells(type, values) ==
    values \o (IF type = "uint8"
               THEN [n \in 1 .. 7 * Len(values) |-> <<"unknown">>]
               ELSE <<>>)

WriteArrays(f, group, type) ==
    LET count(n) == <<"count", Len(group[n].values)>>
        cells    == [n \in DOMAIN group |-> ArrayCells(type, group[n].values)]
    IN  f \o << <<"prop header", Len(group)>> >> \o KeyCells(group)
          \o [n \in DOMAIN group |-> count(n)]
          \o (IF type = "null" THEN <<>> ELSE FlattenSeq(cells))

(* Variant: the offset counts from the beginning of the file.              *)
LinkNext_absolute(f, next) == IF next = 0 THEN f ELSE Patch(f, next, Offset(Tell(f)))

(* write_column_entry: objects are chained, each with the offset of the    *)
(* next.  LinkNext fills it in the object before.                          *)
LinkNext(f, next) == IF next = 0 THEN f ELSE Patch(f, next, Offset(Relative(f)))

NextCell(f, obj) == Tell(f) + 1 + Cardinality(Flags(obj))

WriteChain(f, objects) ==
    LET Add(chain, obj) == [file |-> Serialize(LinkNext(chain.file, chain.next), obj),
                            next |-> NextCell(chain.file, obj)]
    IN  FoldLeft(Add, [file |-> f, next |-> 0], objects).file

(* The number of nulls goes through a vector of half the width.            *)
WriteEntry(f, type, values) ==
    IF type = "null" THEN f \o << <<"count", 1>>, <<"unknown">> >>
    ELSE IF type = "object" THEN WriteChain(Append(f, <<"count", Len(values)>>), values)
    ELSE Append(f, <<"count", Len(values)>>) \o values

WriteColumn(f, column) ==
    LET entries == column.entries
    IN  WriteParts(Append(f, <<"column", column.name, column.type, Len(entries)>>),
                   [e \in DOMAIN entries |-> <<"position", entries[e].at>>],
                   [e \in DOMAIN entries |-> entries[e].values],
                   LAMBDA g, values : WriteEntry(g, column.type, values))

(* write_object_array_props: as many object ids as the largest position    *)
(* asks for.  An id is the cell it is stored in.                           *)
WriteColumnGroup(f, group) ==
    LET positions == UNION {{c.entries[e].at : e \in DOMAIN c.entries} : c \in Range(group.columns)}
        objects   == Max(positions) + 1
        header    == Append(f, <<"column group", Len(group.columns), objects>>)
        ids       == [n \in 1 .. objects |-> <<"oid", Tell(header) + n>>]
    IN  WriteParts(header \o ids, <<>>, group.columns, WriteColumn)

WriteObjectArrays(f, groups) ==
    WriteParts(f \o << <<"prop header", Len(groups)>> >> \o KeyCells(groups),
               <<>>, groups, WriteColumnGroup)

WriteGroup(f, obj, kind) ==
    CASE kind[1] = "props"  -> WriteProps(f, Group(obj, kind), kind[2])
      [] kind[1] = "arrays" -> WriteArrays(f, Group(obj, kind), kind[2])
      [] OTHER              -> WriteObjectArrays(f, Group(obj, kind))

(* __serialize: the header, an offset per group, the offset of the next    *)
(* object, the groups.                                                     *)
Serialize(f, obj) ==
    LET present == Present(Flags(obj))
        start   == f \o << <<"object", Flags(obj), Tell(f)>> >> \o Blank(Len(present) + 1)
        AddGroup(g, n) ==
            WriteGroup(Patch(g, Tell(f) + n, Offset(Relative(g))), obj, present[n])
    IN  Append(FoldLeft(AddGroup, start, [n \in DOMAIN present |-> n]), <<"end">>)

-----------------------------------------------------------------------------
(* Reading: the iterators, from the record as it is loaded.                *)

(* The value that is taken from a cell as one of a type.                   *)
ReadValue(type, cell) == IF cell = NullOf(type) THEN Null ELSE cell

RECURSIVE ReadObject(_, _)

(* archive_value_vec_*: the i-th of n properties at an offset behind the   *)
(* keys.  The arrays of a type share one region, each behind the others.   *)
ReadProp(m, type, data, i) ==
    CASE type = "null"   -> Null
      [] type = "object" -> <<"object", ReadObject(m, ReadCell(m, data + i - 1)[2]).fields>>
      [] OTHER           -> ReadCell(m, data + i - 1)

ReadArray(m, type, data, n, i) ==
    LET length(j) == ReadCell(m, data + j - 1)[2]
        skip      == FoldLeft(LAMBDA sum, j : sum + length(j), 0, [j \in 1 .. i - 1 |-> j])
    IN  IF type = "null" THEN <<"nulls", length(i)>>
        ELSE <<"array", [k \in 1 .. length(i) |->
                            ReadValue(type, ReadCell(m, data + n + skip + k - 1))]>>

(* archive_column_entry_object_iter_next_object: up to an object without a *)
(* next one, or to what is no object.                                      *)
RECURSIVE ReadChain(_, _)
ReadChain(m, at) ==
    LET obj == ReadObject(m, at)
    IN  IF ReadCell(m, at)[1] # "object" THEN <<>>
        ELSE IF obj.next = 0 THEN <<obj.fields>>
        ELSE <<obj.fields>> \o ReadChain(m, obj.next)

(* An entry of a column: prop_iter_read_colum_entry and the getters.       *)
ReadEntry(m, type, at) ==
    LET length == ReadCell(m, at)[2]
        values == [k \in 1 .. length |-> ReadValue(type, ReadCell(m, at + k))]
        chain  == ReadChain(m, at + 1)
        objects == [o \in DOMAIN chain |-> <<"object", chain[o]>>]
        of     == IF type = "object" THEN objects ELSE values
    IN  IF type = "null" THEN <<"nulls">>
        ELSE IF Len(of) = 1 THEN of[1] ELSE <<"array", of>>

(* What a column gives to the object with an id: prop_iter_read_column.    *)
ReadColumn(m, at, ids, id) ==
    LET header == ReadCell(m, at)
        n      == header[4]
        position(e) == ReadCell(m, at + n + e)[2]
    IN  {<<header[2], ReadEntry(m, header[3], ReadCell(m, at + e)[2])>> :
            e \in {e \in 1 .. n : ids[position(e) + 1] = id}}

ReadColumnGroup(m, at) ==
    LET header == ReadCell(m, at)
        ids    == [o \in 1 .. header[3] |-> ReadCell(m, at + o)]
        column(c) == ReadCell(m, at + header[3] + c)[2]
    IN  <<"array", [o \in DOMAIN ids |->
            <<"object", UNION {ReadColumn(m, column(c), ids, ids[o]) : c \in 1 .. header[2]}>>]>>

(* archive_prop_iter_next at one group of properties.                      *)
ReadGroup(m, kind, at) ==
    LET n    == ReadCell(m, at)[2]
        data == at + 1 + n
        value(i) == CASE kind[1] = "props"  -> ReadProp(m, kind[2], data, i)
                      [] kind[1] = "arrays" -> ReadArray(m, kind[2], data, n, i)
                      [] OTHER -> ReadColumnGroup(m, ReadCell(m, data + i - 1)[2])
    IN  {<<ReadCell(m, at + i)[2], value(i)>> : i \in 1 .. n}

(* init_object_from_memfile and the states of prop_iter_state_next.        *)
ReadObject(m, at) ==
    LET present   == Present(ReadCell(m, at)[2])
        offset(n) == ReadCell(m, at + n)[2]
    IN  [fields |-> UNION {ReadGroup(m, present[n], offset(n)) :
                              n \in {n \in DOMAIN present : offset(n) # 0}},
         next   |-> ReadCell(m, at + Len(present) + 1)[2]]

(* Names and strings in the place of their identifiers.                    *)
RECURSIVE Decoded(_, _)
DecodedFields(fields, names) == {<<names[x[1]], Decoded(x[2], names)>> : x \in fields}
Decoded(value, names) ==
    CASE value[1] = "string" -> <<"string", names[value[2]]>>
      [] value[1] = "array"  -> <<"array", [n \in DOMAIN value[2] |-> Decoded(value[2][n], names)]>>
      [] value[1] = "object" -> <<"object", DecodedFields(value[2], names)>>
      [] OTHER -> value

-----------------------------------------------------------------------------
(* The arrays below a value.                                               *)
RECURSIVE ArraysIn(_)
ArraysIn(value) ==
    CASE value[1] = "array"  ->
            {value[2]} \cup UNION {ArraysIn(value[2][n]) : n \in DOMAIN value[2]}
      [] value[1] = "object" -> UNION {ArraysIn(value[2][n][2]) : n \in DOMAIN value[2]}
      [] OTHER -> {}

RECURSIVE ObjectsIn(_)
ObjectsIn(value) ==
    CASE value[1] = "array"  -> UNION {ObjectsIn(value[2][n]) : n \in DOMAIN value[2]}
      [] value[1] = "object" ->
            {value[2]} \cup UNION {ObjectsIn(value[2][n][2]) : n \in DOMAIN value[2]}
      [] OTHER -> {}

Root(docs) == <<"array", [d \in DOMAIN docs |-> <<"object", docs[d]>>]>>

EmptyObjects == {Null, <<"object", <<>>>>}

(* What is known to be lost: numbers that do not fit the type of their     *)
(* array, a second array of bytes in an object, objects without members at *)
(* the end of an array, and the string with identifier 0 as a value, which *)
(* is null in an array and in a column.                                    *)
Narrowed(elements) ==
    /\ IsNumbers(elements)
    /\ \E n \in DOMAIN elements :
          LET stored == Cast(elements[n], ArrayType(elements))
          IN  elements[n] # Null /\ stored \notin {elements[n], <<"float", elements[n][2]>>}
                                           \ {NullOf(ArrayType(elements))}

HasZero(value) == 0 \in Ids /\ value = <<"string", Content[0]>>

LosesSome(docs) ==
    (IF \E a \in ArraysIn(Root(docs)) : Narrowed(a) THEN {"narrowed"} ELSE {})
    \cup (IF \E o \in ObjectsIn(Root(docs)) :
                Len(SelectSeq(Entries(o), LAMBDA e : e.type = "uint8" /\ Len(e.values) > 1)) > 1
          THEN {"bytes"} ELSE {})
    \cup (IF \E a \in ArraysIn(Root(docs)) :
                Len(a) > 1 /\ ArrayType(a) = "object" /\ a[Len(a)] \in EmptyObjects
          THEN {"empty objects"} ELSE {})
    \cup (IF \/ \E a \in ArraysIn(Root(docs)) : \E n \in DOMAIN a : HasZero(a[n])
             \/ \E o \in ObjectsIn(Root(docs)) : \E n \in DOMAIN o : HasZero(o[n][2])
          THEN {"identifier 0"} ELSE {})

(* The strings of a text, which the dictionary gets in bulk, and the text  *)
(* with their identifiers.                                                 *)
RECURSIVE StringsIn(_)
StringsIn(value) ==
    CASE value[1] = "array"  -> UNION {StringsIn(value[2][n]) : n \in DOMAIN value[2]}
      [] value[1] = "object" ->
            UNION {{value[2][n][1]} \cup StringsIn(value[2][n][2]) : n \in DOMAIN value[2]}
      [] value[1] = "string" -> {value[2]}
      [] OTHER -> {}

Dictionary(docs) ==
    LET ids == {id \in Ids : Content[id] \in StringsIn(Root(docs)) \cup {"/"}}
        sorted == SelectSeq([n \in 1 .. Max(Ids) + 1 |-> n - 1], LAMBDA n : n \in ids)
    IN  [n \in DOMAIN sorted |-> <<sorted[n], Content[sorted[n]]>>]

Sid(string) == CHOOSE id \in Ids : Content[id] = string

RECURSIVE Encoded(_)
Encoded(value) ==
    CASE value[1] = "array"  -> <<"array", [n \in DOMAIN value[2] |-> Encoded(value[2][n])]>>
      [] value[1] = "object" ->
            <<"object", [n \in DOMAIN value[2] |->
                            <<Sid(value[2][n][1]), Encoded(value[2][n][2])>>]>>
      [] value[1] = "string" -> <<"string", Sid(value[2])>>
      [] OTHER -> value

Init ==
    /\ text \in Documents
    /\ LosesSome(text) \subseteq Losses
    /\ model = <<>> /\ file = <<>> /\ index = NoIndex /\ contents = {}
    /\ phase = "parsed"
    /\ CacheInit

(* doc_bulk_add_json and doc_entries_columndoc: several root objects are   *)
(* an array below one more object.                                         *)
Import ==
    /\ phase = "parsed"
    /\ model' = Columndoc(<< <<Sid("/"), Encoded(Root(text))>> >>)
    /\ phase' = "imported"
    /\ UNCHANGED <<text, file, index, contents, cvars>>

(* archive_from_model: the header of the file is written before the record,*)
(* that of the record after it.                                            *)
Write ==
    LET table  == WriteStrings(<< <<"header", 0, 0>> >>, Dictionary(text))
        headed == Patch(Append(table, <<"record", 0>>), 0, <<"header", Tell(table), 0>>)
        record == Serialize(headed, model)
    IN  /\ phase = "imported"
        /\ file' = Patch(record, Tell(table), <<"record", Relative(record)>>)
        /\ phase' = "written"
        /\ UNCHANGED <<text, model, index, contents, cvars>>

(* bake_string_id_index                                                    *)
Bake ==
    /\ phase = "written"
    /\ file' = Baked(file)
    /\ phase' = "baked"
    /\ UNCHANGED <<text, model, index, contents, cvars>>

(* archive_open, and a visit of everything: read_record loads the record   *)
(* alone.                                                                  *)
Open ==
    LET start == RecordStart(file)
        found == ReadObject(SubSeq(file, start + 1, start + ReadCell(file, start - 1)[2]), 0)
        names == [id \in Ids |-> FetchById(file, LoadedIndex(file), id)]
    IN  /\ phase \in {"written", "baked"}
        /\ index' = LoadedIndex(file)
        /\ contents' = DecodedFields(found.fields, names)
        /\ phase' = "open"
        /\ UNCHANGED <<text, model, file, cvars>>

(* archive_query_run: an index and a cache, unless the archive has them.   *)
QueryRun ==
    /\ phase = "open" /\ text \in Queried
    /\ index' = IF index = NoIndex THEN IndexOf(file) ELSE index
    /\ CreateLru(NumStrings(file))
    /\ UNCHANGED <<text, model, file, contents, phase>>

(* query_fetch_string_by_id, of strings that the archive has.              *)
Fetch ==
    /\ \/ \E id \in Asked \cap DOMAIN index : GetBegin(id)
       \/ GetNext \/ GetHit \/ GetUnused \/ GetMiss(FetchById(file, index, sought))
    /\ UNCHANGED <<text, model, file, index, contents, phase>>

Next == Import \/ Write \/ Bake \/ Open \/ QueryRun \/ Fetch

Spec == Init /\ [][Next]_vars

-----------------------------------------------------------------------------
(* What a JSON value says once the forms that an archive does not tell     *)
(* apart are one: a single element and its array, no element and null, an  *)
(* object without members and null among objects.  Of nulls in a column no *)
(* number is known.  The members of objects of an array are in columns,    *)
(* unless the array is in one itself.                                      *)
RECURSIVE Normal(_, _)

NormalObject(members, inColumn) ==
    <<"object", {<<members[n][1], Normal(members[n][2], inColumn)>> : n \in DOMAIN members}>>

Normal(value, inColumn) ==
    LET of == value[2]
        isArray == value[1] = "array"
        nulls  == isArray /\ Len(of) > 1 /\ ArrayType(of) = "null"
        nested == isArray /\ Len(of) > 1 /\ ArrayType(of) = "object"
    IN  IF value[1] = "object" THEN NormalObject(of, FALSE)
        ELSE IF isArray /\ Len(of) = 1 THEN Normal(of[1], inColumn)
        ELSE IF inColumn /\ (nulls \/ value = Null \/ value = <<"array", <<>>>>) THEN <<"nulls">>
        ELSE IF nulls THEN <<"nulls", Len(of)>>
        ELSE IF value = <<"array", <<>>>> THEN Null
        ELSE IF nested
        THEN <<"array", [n \in DOMAIN of |->
                    NormalObject(IF of[n] = Null THEN <<>> ELSE of[n][2], ~inColumn)]>>
        ELSE IF isArray THEN <<"array", of>>
        ELSE value

(* An archive gives back what the JSON text said: every offset that was    *)
(* patched leads where a reader goes, no property is found under the key,  *)
(* in the object or at the position of another, no number is null, and the *)
(* identifiers lead to their strings, along the table or by the index.     *)
FileHoldsDocument ==
    phase = "open" => contents = {<<"/", Normal(Root(text), FALSE)>>}
=============================================================================
