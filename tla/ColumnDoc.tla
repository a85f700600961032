----------------------------- MODULE ColumnDoc ------------------------------
(***************************************************************************)
(* How the objects of a JSON text are taken apart for an archive           *)
(* (archive/doc.c, archive/column_doc.c): the properties of an object by   *)
(* their type, its arrays by the type of their elements, and an array of   *)
(* objects column by column, so that a property that several objects have  *)
(* becomes one column with the positions of these objects.                 *)
(*                                                                         *)
(* A value of JSON is <<"null">>, <<"bool", b>>, <<"int", v>>,             *)
(* <<"float", v>>, <<"string", s>>, <<"array", elements>> or               *)
(* <<"object", members>>; a member is <<key, value>>.                      *)
(***************************************************************************)
EXTENDS Numbers, SequencesExt

SignedTypes   == <<"int8", "int16", "int32", "int64">>
UnsignedTypes == <<"uint8", "uint16", "uint32", "uint64">>
FixedTypes ==
    <<"null", "bool">> \o SignedTypes \o UnsignedTypes \o <<"float", "string">>
Types == Append(FixedTypes, "object")

Width(type) ==
    Bits[CHOOSE k \in 1 .. 4 : type \in {SignedTypes[k], UnsignedTypes[k]}]

Null == <<"null">>

(* value_type_for_json_number: the largest number of a type stands for null*)
(* and is left to the next one; the widest takes what is left.             *)
NumberType(number) ==
    LET v == number[2]
        k == Narrowest({j \in 1 .. 4 : IF v < 0 THEN -(2 ^ (Bits[j] - 1)) <= v
                                        ELSE v <= 2 ^ Bits[j] - 2})
    IN  IF number[1] = "float" THEN "float"
        ELSE IF v < 0 THEN SignedTypes[IF k = 0 THEN 4 ELSE k]
        ELSE UnsignedTypes[IF k = 0 THEN 4 ELSE k]

IsNumber(value) == value[1] \in {"int", "float"}

FieldType(value) == IF IsNumber(value) THEN NumberType(value) ELSE value[1]

(* import_json_object_array_prop: the type of the numbers so far and that  *)
(* of one more.                                                            *)
Kept(type) ==
    CASE type = "int16"  -> {"int8"}
      [] type = "int32"  -> {"int8", "int16"}
      [] type = "int64"  -> {"int8", "int16", "int32"}
      [] type = "uint32" -> {"uint8", "uint16"}
      [] type = "uint64" -> {"uint8", "uint16", "uint32"}
      [] type = "float"  -> Range(FixedTypes)
      [] OTHER           -> {}

Given(elements) == SelectSeq(elements, LAMBDA e : e # Null)
IsNumbers(elements) == Given(elements) # <<>> /\ IsNumber(Given(elements)[1])

ArrayType(elements) ==
    LET given == Given(elements)
        wider(type, e) == IF NumberType(e) \in Kept(type) THEN type ELSE NumberType(e)
    IN  IF given = <<>> THEN "null"
        ELSE IF IsNumbers(elements) THEN FoldLeft(wider, NumberType(given[1]), Tail(given))
        ELSE given[1][1]

(* The value of a type that stands for null.                               *)
NullOf(type) ==
    CASE type = "null"   -> Null
      [] type = "bool"   -> <<"bool", 127>>
      [] type = "float"  -> <<"NaN">>
      [] type = "string" -> <<"string", 0>>
      [] type \in Range(SignedTypes)   -> <<"int", 2 ^ (Width(type) - 1) - 1>>
      [] type \in Range(UnsignedTypes) -> <<"int", 2 ^ Width(type) - 1>>
      [] type = "object" -> <<"object", <<>>>>

(* An element as it is cast to the type of its array.                      *)
Cast(value, type) ==
    IF value = Null THEN NullOf(type)
    ELSE IF type = "float" THEN <<"float", value[2]>>
    ELSE IF value[1] # "int" THEN value
    ELSE IF type \in Range(UnsignedTypes) THEN <<"int", Unsigned(value[2]) % (2 ^ Width(type))>>
    ELSE <<"int", Signed(Unsigned(value[2]), Width(type))>>

(* import_json_object: an entry of a document for each member of an object.*)
(* An array without elements is null.                                      *)
Entry(member) ==
    LET value == member[2]
        type  == IF value[1] = "array" THEN ArrayType(value[2]) ELSE FieldType(value)
        of    == IF value[1] # "array" THEN <<value>>
                 ELSE IF value[2] = <<>> THEN <<Null>>
                 ELSE [n \in DOMAIN value[2] |-> Cast(value[2][n], type)]
    IN  [key |-> member[1], type |-> type, values |-> of]

Entries(members) == [n \in DOMAIN members |-> Entry(members[n])]

-----------------------------------------------------------------------------
(* object_array_key_columns_find_or_new and object_array_key_column_push:  *)
(* one entry of the object at a position goes to the column of its key and *)
(* its type.                                                               *)
PushColumn(columns, entry, at) ==
    LET of    == {c \in DOMAIN columns : /\ columns[c].name = entry.key
                                         /\ columns[c].type = entry.type}
        value == [at |-> at, values |-> entry.values]
    IN  IF of = {}
        THEN Append(columns, [name |-> entry.key, type |-> entry.type, entries |-> <<value>>])
        ELSE [columns EXCEPT ![CHOOSE c \in of : TRUE].entries = Append(@, value)]

RECURSIVE Columndoc(_)

(* Objects among the values of an entry are imported in turn.              *)
Imported(entry) ==
    IF entry.type # "object" THEN entry
    ELSE [entry EXCEPT !.values = [v \in DOMAIN @ |-> Columndoc(@[v][2])]]

Columns(objects) ==
    LET PushObject(columns, at) ==
            FoldLeft(LAMBDA c, entry : PushColumn(c, Imported(entry), at),
                     columns, Entries(objects[at + 1][2]))
    IN  FoldLeft(PushObject, <<>>, [n \in DOMAIN objects |-> n - 1])

(* import_object: an entry with one value is a property, one with more an  *)
(* array.                                                                  *)
Columndoc(members) ==
    LET entries == Entries(members)
        Props(type)  == SelectSeq(entries, LAMBDA e : e.type = type /\ Len(e.values) = 1)
        Arrays(type) == SelectSeq(entries, LAMBDA e : e.type = type /\ Len(e.values) > 1)
        groups == [g \in DOMAIN Arrays("object") |->
                      [key |-> Arrays("object")[g].key,
                       columns |-> Columns(Arrays("object")[g].values)]]
    IN  [props  |-> [type \in Range(Types) |->
                        [p \in DOMAIN Props(type) |-> Imported(Props(type)[p])]],
         arrays |-> [type \in Range(FixedTypes) |-> Arrays(type)],
         object_arrays |-> SelectSeq(groups, LAMBDA g : g.columns # <<>>)]
=============================================================================
