----------------------------- MODULE Document ------------------------------
(***************************************************************************)
(* What editing a record promises (carbon/arr-it.h, carbon/insert.h,       *)
(* carbon/revise.h), without any byte: a record is the sequence of the     *)
(* tokens met when it is read from front to back, where containers are     *)
(* bracketed.  An iterator walks over the elements of one array, an        *)
(* inserter puts new fields in front of what follows its position, and     *)
(* removing or updating touches the element the iterator stands on.        *)
(***************************************************************************)
EXTENDS Naturals, Sequences, FiniteSets

CONSTANTS
    Values,             \* unsigned 8-bit values inserted
    Keys                \* names of properties

VARIABLES
    doc,                \* the tokens
    scan,               \* the iterator
    open                \* the open inserters, innermost last

dvars == <<doc, scan, open>>

End   == <<"end">>
Array == <<"array">>
Object == <<"object">>
Column == <<"column">>
Number(v) == <<"u8", v>>
Element(v) == <<"element", v>>      \* of a column
Constant(c) == <<"constant", c>>
Key(k) == <<"key", k>>

Opens == {Array, Object, Column}

(* The last token of the element at index i: itself or its closing bracket.*)
LastOf(i) ==
    LET d == doc
        Count(j, S) == Cardinality({k \in i .. j : d[k] \in S})
    IN  IF d[i] \notin Opens THEN i
        ELSE CHOOSE j \in i .. Len(d) :
                /\ Count(j, Opens) = Count(j, {End})
                /\ \A k \in i .. j - 1 : Count(k, Opens) > Count(k, {End})

Closed == [pos |-> 0, elem |-> 0, on |-> FALSE]

Scanning == scan # Closed

(* An iterator in front of index i, no element visited yet.                *)
Start(i) == [pos |-> i, elem |-> i, on |-> FALSE]

Splice(i, j, tokens) ==
    LET d == doc IN SubSeq(d, 1, i - 1) \o tokens \o SubSeq(d, j, Len(d))

Top == open[Len(open)]

DInit == doc = <<End>> /\ scan = Closed /\ open = <<>>

DOpen ==
    /\ ~Scanning /\ open = <<>>
    /\ scan' = Start(1)
    /\ UNCHANGED <<doc, open>>

(* The iterator visits the next element, or finds the end of its array;    *)
(* what is inserted next goes before the one or the other.                 *)
DNext ==
    /\ Scanning
    /\ scan' = IF doc[scan.pos] = End THEN Start(scan.pos)
               ELSE [pos |-> LastOf(scan.pos) + 1, elem |-> scan.pos, on |-> TRUE]
    /\ UNCHANGED <<doc, open>>

DEnter ==
    /\ scan.on /\ doc[scan.elem] = Array
    /\ scan' = Start(scan.elem + 1)
    /\ UNCHANGED <<doc, open>>

DRemove ==
    /\ scan.on
    /\ doc' = Splice(scan.elem, scan.pos, <<>>)
    /\ scan' = Start(scan.elem)
    /\ UNCHANGED open

DUpdate ==
    /\ scan.on
    /\ \/ \E v \in Values : doc' = Splice(scan.elem, scan.pos, <<Number(v)>>)
       \/ \E c \in {"true", "null"} : doc' = Splice(scan.elem, scan.pos, <<Constant(c)>>)
    /\ scan' = Closed
    /\ UNCHANGED open

(* One element of the column the iterator stands on disappears.            *)
DColumnRemove ==
    /\ scan.on /\ doc[scan.elem] = Column
    /\ \E i \in scan.elem + 1 .. scan.pos - 2 : doc' = Splice(i, i + 1, <<>>)
    /\ scan' = Closed
    /\ UNCHANGED open

DInsertBegin ==
    /\ Scanning /\ open = <<>>
    /\ open' = <<[kind |-> "array", pos |-> scan.elem]>>
    /\ scan' = Closed
    /\ UNCHANGED doc

Names == IF Top.kind = "object" THEN {<<Key(k)>> : k \in Keys} ELSE {<<>>}

DInsert ==
    /\ open # <<>> /\ Top.kind # "column"
    /\ \E name \in Names, field \in {<<Number(v)>> : v \in Values}
                                    \cup {<<Constant(c)>> : c \in {"true", "null"}} :
          /\ doc' = Splice(Top.pos, Top.pos, name \o field)
          /\ open' = [open EXCEPT ![Len(open)].pos = @ + Len(name) + 1]
    /\ UNCHANGED scan

(* A container is opened: its inserter stands behind the bracket, the one  *)
(* it was opened from stays in front of it until the container is closed.  *)
DBegin ==
    /\ open # <<>> /\ Top.kind # "column"
    /\ \E name \in Names, bracket \in Opens :
          LET at == Top.pos + Len(name)
          IN  /\ doc' = Splice(Top.pos, Top.pos, name \o <<bracket, End>>)
              /\ open' = Append([open EXCEPT ![Len(open)].pos = at],
                                [kind |-> bracket[1], pos |-> at + 1])
    /\ UNCHANGED scan

DPush ==
    /\ open # <<>> /\ Top.kind = "column"
    /\ \E v \in Values : doc' = Splice(Top.pos, Top.pos, <<Element(v)>>)
    /\ open' = [open EXCEPT ![Len(open)].pos = @ + 1]
    /\ UNCHANGED scan

DEnd ==
    /\ Len(open) > 1
    /\ open' = LET outer == SubSeq(open, 1, Len(open) - 1)
               IN  [outer EXCEPT ![Len(outer)].pos = LastOf(@) + 1]
    /\ UNCHANGED <<doc, scan>>

DInsertEnd ==
    /\ Len(open) = 1
    /\ open' = <<>>
    /\ UNCHANGED <<doc, scan>>

DClose == Scanning /\ scan' = Closed /\ UNCHANGED <<doc, open>>

DNextStep ==
    \/ DOpen \/ DNext \/ DEnter \/ DRemove \/ DUpdate \/ DColumnRemove
    \/ DInsertBegin \/ DInsert \/ DBegin \/ DPush \/ DEnd \/ DInsertEnd
    \/ DClose

Spec == DInit /\ [][DNextStep]_dvars
============================================================================
