-------------------------------- MODULE Json ---------------------------------
(***************************************************************************)
(* rec_from_json and json_from_record: a JSON text is parsed, becomes a    *)
(* record, and the record is printed again.                                *)
(***************************************************************************)
EXTENDS JsonGrammar, JsonRecord

CONSTANTS
    Scalars,            \* literals a text may hold
    MayMixFloats        \* an array may begin with a float and hold an integer

VARIABLES
    literals,           \* which literal stands at each position
    record,             \* the fields of the record
    outcome             \* "none" yet, "inserted" or "aborted"

vars == <<stream, brackets, last, status, at, calls, parts, tree, literals, record, outcome>>

Init == ParserInit /\ literals = <<>> /\ record = <<>> /\ outcome = "none"

Literally == {i \in DOMAIN stream : stream[i] = "LITERAL"}

RECURSIVE ListsIn(_)
ListsIn(node) ==
    CASE node[1] = "array"  -> {node[2]} \cup UNION {ListsIn(node[2][n]) : n \in DOMAIN node[2]}
      [] node[1] = "object" -> UNION {ListsIn(node[2][n][2]) : n \in DOMAIN node[2]}
      [] OTHER -> {}

MixesFloats(lit) ==
    \E nodes \in ListsIn(tree) :
        ListType(nodes, lit) = Floats /\ \E n \in DOMAIN nodes : lit[nodes[n][2]][1] = "int"

(* rec_from_json, after the text was parsed.                               *)
Insert ==
    /\ status \in {"consumed", "rest_ignored"} /\ outcome = "none"
    /\ \E lit \in [Literally -> Scalars] :
          /\ MayMixFloats \/ ~MixesFloats(lit)
          /\ literals' = lit
          /\ record' = Record(tree, lit)
          /\ outcome' = IF \E n \in DOMAIN record' : HoldsError(record'[n])
                        THEN "aborted" ELSE "inserted"
    /\ UNCHANGED pvars

Next ==
    \/ ParserNext /\ UNCHANGED <<literals, record, outcome>>
    \/ Insert

Spec == Init /\ [][Next]_vars

-----------------------------------------------------------------------------
(* What is printed of a record is what the text said that it was made of,  *)
(* although arrays become columns of a type their elements were not        *)
(* written in and null a number among the others.                          *)
PrintsWhatWasSaid ==
    outcome = "inserted" => Printed(record) = SaidByRecord(tree, literals)
=============================================================================
