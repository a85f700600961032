----------------------------- MODULE JsonRecord -----------------------------
(***************************************************************************)
(* What a parsed JSON text becomes in a carbon record, and what is printed *)
(* when the record is read (json/json-parser.c, utils/numbers.c,           *)
(* carbon/internal.c, insert.c, item.h, col-it.c, traverse.c, json.c).  An *)
(* array of numbers, or of booleans, becomes a column whose type is widened*)
(* element by element; in a column the null value is a number of its own.  *)
(*                                                                         *)
(* Trees are those of JsonParser; `lit` gives the literal at a position.   *)
(***************************************************************************)
EXTENDS Numbers, SequencesExt

-----------------------------------------------------------------------------
(* Literals: a constant, an integer or a float.                            *)

Constant(c) == <<"constant", c>>
Integer(v)  == <<"int", v>>
Float(v)    == <<"float", v>>

(* number_min_type_unsigned and _signed: the narrowest type that holds a   *)
(* number beside the null value of the type; 0: none does.                 *)
MinTypeUnsigned(value) == Narrowest({k \in 1 .. 4 : value <= 2 ^ Bits[k] - 2})

MinTypeSigned(value) ==
    Narrowest({k \in 1 .. 4 : 1 - 2 ^ (Bits[k] - 1) <= value /\ value <= 2 ^ (Bits[k] - 1) - 1})

(* The types of lists: json_list_type_e.                                   *)
Empty == <<"empty">>
Null == <<"null">>
Boolean == <<"boolean">>
Floats == <<"floats">>
Variable == <<"variable or nested">>

Numeric(sign, k) == IF k \in 1 .. 4 THEN <<sign, k>> ELSE Variable

(* Variant: a signed type of the width of the unsigned one.                *)
FittingType_narrow(current, add) ==
    IF Variable \in {current, add} THEN Variable
    ELSE IF current = add \/ add = Empty THEN current
    ELSE IF current = Empty THEN add
    ELSE IF Null \in {current, add} THEN IF current = Null THEN add ELSE current
    ELSE IF Boolean \in {current, add} \/ add = Floats THEN Variable
    ELSE IF current = Floats THEN Floats
    ELSE IF current[2] < add[2] THEN add ELSE current

(* json_fitting_type.  Between two numeric types the wider one of equal    *)
(* sign, or the signed type one step wider than both.                      *)
FittingType(current, add) ==
    LET wider == IF current[2] > add[2] THEN current[2] ELSE add[2]
    IN  IF Variable \in {current, add} THEN Variable
        ELSE IF current = add \/ add = Empty THEN current
        ELSE IF current = Empty THEN add
        ELSE IF Null \in {current, add} THEN IF current = Null THEN add ELSE current
        ELSE IF Boolean \in {current, add} \/ add = Floats THEN Variable
        ELSE IF current = Floats THEN Floats
        ELSE IF current[1] = add[1] THEN Numeric(current[1], wider)
        ELSE Numeric("i", wider + 1)

(* json_array_get_type                                                     *)
TypeOf(node, lit) ==
    IF node[1] # "LITERAL" THEN Variable
    ELSE LET l == lit[node[2]]
         IN  CASE l = Constant("null") -> Null
               [] l[1] = "constant" /\ l # Constant("null") -> Boolean
               [] l[1] = "float" -> Floats
               [] l[1] = "int" /\ l[2] < 0 -> <<"i", MinTypeSigned(l[2])>>
               [] l[1] = "int" /\ l[2] >= 0 -> <<"u", MinTypeUnsigned(l[2])>>

ListType(nodes, lit) ==
    FoldLeft(LAMBDA type, node : FittingType(type, TypeOf(node, lit)), Empty, nodes)

-----------------------------------------------------------------------------
(* Fields of a record: a constant, <<"string", i>>, <<"u" or "i", k, v>>,  *)
(* <<"float", v>>, <<"array", fields>>, <<"object", props>> and            *)
(* <<"column", type, values>>.                                             *)

Error == <<"error">>

(* insert_unsigned picks the width by the signed value of the bits.        *)
InsertUnsigned(bits) ==
    LET k == MinTypeSigned(Signed(bits, Bits[4]))
    IN  IF k = 0 THEN Error ELSE <<"u", k, bits % (2 ^ Bits[k])>>

InsertSigned(value) ==
    LET k == MinTypeSigned(value) IN IF k = 0 THEN Error ELSE <<"i", k, value>>

(* The float read from a number that was stored as an integer.             *)
Garbage == <<"float", "bits of an integer">>

AsFloat(l) == IF l[1] = "float" THEN l ELSE Garbage

Scalar(node, lit) ==
    IF node[1] = "LITERAL_STRING" THEN <<"string", node[2]>>
    ELSE LET l == lit[node[2]]
         IN  IF l[1] # "int" THEN l
             ELSE IF l[2] < 0 THEN InsertSigned(l[2]) ELSE InsertUnsigned(l[2])

(* The number that stands for null in a column.                            *)
NullOf(type) ==
    CASE type = Boolean -> 2
      [] type = Floats  -> Constant("null")
      [] type[1] = "u"  -> 2 ^ Bits[type[2]] - 1
      [] type[1] = "i"  -> -(2 ^ (Bits[type[2]] - 1))

(* An element as it is cast and pushed into a column.                      *)
ColumnValue(type, l) ==
    IF l = Constant("null") THEN NullOf(type)
    ELSE CASE type = Boolean -> IF l = Constant("true") THEN 1 ELSE 0
           [] type = Floats  -> AsFloat(l)
           [] type[1] = "u"  -> Unsigned(l[2]) % (2 ^ Bits[type[2]])
           [] type[1] = "i"  -> Signed(Unsigned(l[2]), Bits[type[2]])

Column(type, nodes, lit) ==
    <<"column", type, [n \in DOMAIN nodes |-> ColumnValue(type, lit[nodes[n][2]])]>>

RECURSIVE Field(_, _), Element(_, _), Props(_, _)

(* int_insert_array_elements                                               *)
Element(node, lit) ==
    CASE node[1] = "object" -> <<"object", Props(node[2], lit)>>
      [] node[1] = "array"  -> <<"array", [n \in DOMAIN node[2] |-> Field(node[2][n], lit)]>>
      [] OTHER              -> Scalar(node, lit)

Elements(nodes, lit) == <<"array", [n \in DOMAIN nodes |-> Element(nodes[n], lit)]>>

(* An array that becomes a field of its own: a list of one type of fixed   *)
(* width becomes a column.                                                 *)
ArrayField(nodes, lit) ==
    LET type == ListType(nodes, lit)
    IN  IF type \in {Empty, Null, Variable} THEN Elements(nodes, lit)
        ELSE Column(type, nodes, lit)

(* int_insert_prop_object                                                  *)
Props(members, lit) ==
    [n \in DOMAIN members |->
        LET value == members[n][2]
        IN  <<members[n][1], IF value[1] = "array" THEN ArrayField(value[2], lit)
                             ELSE Element(value, lit)>>]

(* int_carbon_from_json_elem below the root: values of the three wider     *)
(* signed types are handed to the inserters of unsigned columns, which     *)
(* refuse to write into a signed one.                                      *)
Field(node, lit) ==
    IF node[1] # "array" THEN Element(node, lit)
    ELSE IF ListType(node[2], lit) \in {<<"i", k>> : k \in 2 .. 4} THEN Error
    ELSE ArrayField(node[2], lit)

(* int_carbon_from_json_elem at the root: the elements of an array become  *)
(* elements of the record, whatever their type.                            *)
Record(node, lit) ==
    LET nodes == node[2]
        type  == ListType(nodes, lit)
        l(n)  == lit[nodes[n][2]]
    IN  IF node[1] # "array" THEN <<Element(node, lit)>>
        ELSE [n \in DOMAIN nodes |->
                IF type = Floats /\ l(n) # Constant("null") THEN AsFloat(l(n))
                ELSE IF type[1] = "i" /\ l(n) # Constant("null")
                THEN InsertSigned(Signed(Unsigned(l(n)[2]), Bits[4]))
                ELSE Element(nodes[n], lit)]

(* Some inserter refused a value, which aborts the program.                *)
RECURSIVE HoldsError(_)
HoldsError(field) ==
    CASE field[1] = "array"  -> \E n \in DOMAIN field[2] : HoldsError(field[2][n])
      [] field[1] = "object" -> \E n \in DOMAIN field[2] : HoldsError(field[2][n][2])
      [] OTHER -> field = Error

-----------------------------------------------------------------------------
(* What is printed of a field: json_print_field, col_it_print and the      *)
(* traversal that calls them.  Texts have the shape of trees.              *)

ColumnText(type, value) ==
    IF value = NullOf(type) THEN Constant("null")
    ELSE CASE type = Boolean -> Constant(IF value = 1 THEN "true" ELSE "false")
           [] type = Floats  -> value
           [] OTHER          -> Integer(value)

RECURSIVE TextOf(_)
TextOf(field) ==
    CASE field[1] \in {"u", "i"} -> Integer(field[3])
      [] field[1] = "column" ->
            <<"array", [n \in DOMAIN field[3] |-> ColumnText(field[2], field[3][n])]>>
      [] field[1] = "array"  -> <<"array", [n \in DOMAIN field[2] |-> TextOf(field[2][n])]>>
      [] field[1] = "object" ->
            <<"object", [n \in DOMAIN field[2] |-> <<field[2][n][1], TextOf(field[2][n][2])>>]>>
      [] OTHER -> field

(* json_from_fn_record: the brackets of a record of one element are left   *)
(* out.                                                                    *)
Printed(record) ==
    IF Len(record) = 1 THEN TextOf(record[1])
    ELSE <<"array", [n \in DOMAIN record |-> TextOf(record[n])]>>

-----------------------------------------------------------------------------
(* What a tree says, independently of how it is stored.                    *)
RECURSIVE Said(_, _)
Said(node, lit) ==
    CASE node[1] = "LITERAL" -> lit[node[2]]
      [] node[1] = "LITERAL_STRING" -> <<"string", node[2]>>
      [] node[1] = "array" -> <<"array", [n \in DOMAIN node[2] |-> Said(node[2][n], lit)]>>
      [] node[1] = "object" ->
            <<"object", [n \in DOMAIN node[2] |-> <<node[2][n][1], Said(node[2][n][2], lit)>>]>>

SaidByRecord(node, lit) ==
    LET text == Said(node, lit)
    IN  IF text[1] = "array" /\ Len(text[2]) = 1 THEN text[2][1] ELSE text
=============================================================================
