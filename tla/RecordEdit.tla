----------------------------- MODULE RecordEdit -----------------------------
(***************************************************************************)
(* Editing a carbon record: an iterator over the record's outermost array, *)
(* or one contained in it (carbon/arr-it.c), inserters that write fields   *)
(* and open containers (carbon/insert.c, internal.c), removal and update   *)
(* of the element the iterator stands on (carbon/update.c, revise.c,       *)
(* col-it.c) and packing (revise.c).  All of them share one memory and     *)
(* keep offsets into it across steps that move what the offsets point to.  *)
(***************************************************************************)
EXTENDS Fields, FiniteSets

CONSTANTS
    Values,             \* unsigned 8-bit values inserted
    Keys,               \* lengths of property names
    Capacities,         \* capacities containers are created with
    MaxTokens,          \* bound: tokens of a record
    MaxDepth,           \* bound: inserters open at a time
    MayLeaveGap,        \* a field may be written behind free cells, a
                        \* column in front of a field
    MayRemoveFull       \* an element may be removed from a full column

ASSUME EditAssumption ==
    /\ Values \subseteq Nat /\ Capacities \subseteq Nat
    /\ Keys \subseteq 0 .. Radix - 1

VARIABLES
    mem,                \* the cells of the record's memory
    it,                 \* the iterator (arr_it), or Closed
    ins,                \* the open inserters, innermost last
    tokens              \* what a reader of mem meets: follows from mem, kept
                        \* so that it is computed once

vars == <<mem, it, ins, tokens>>

(* Cells reserved behind a column, whatever its capacity: insert_column.   *)
ColumnSlack == 1 + 2 * 4

Closed == [pos |-> 0, last_off |-> 0, field_offset |-> 0, type |-> 0,
           eof |-> FALSE, skipped |-> 0]

(* internal_arr_it_create on the array whose marker is at begin.  type 0:  *)
(* no element visited.  skipped counts the free cells the iterator passed  *)
(* on its last move; the code does not keep it.                            *)
Iterator(begin) == [Closed EXCEPT !.pos = begin + 1]

Idle == it = Closed /\ ins = <<>>

Editing == ins # <<>> /\ Len(tokens) < MaxTokens

Top == ins[Len(ins)]

-----------------------------------------------------------------------------
(* rec_create_empty: header, then an array with room for one cell.         *)
Init ==
    /\ mem = <<63, ARRAY_BEGIN, 0, ARRAY_END>>
    /\ it = Closed
    /\ ins = <<>>
    /\ tokens = ArrayTokens(mem, 2)

IteratorOpen ==
    /\ Idle
    /\ it' = Iterator(1)
    /\ UNCHANGED <<mem, ins>>

(* arr_it_next on memory m                                                 *)
Moved(m, i) ==
    LET q == FirstUsed(m, i.pos)
    IN  IF CellAt(m, q) = ARRAY_END \/ q >= Len(m)
        THEN [i EXCEPT !.pos = q, !.eof = TRUE, !.skipped = q - i.pos]
        ELSE [pos |-> FieldEnd(m, i.pos, q), last_off |-> i.pos,
              field_offset |-> q, type |-> CellAt(m, q), eof |-> FALSE,
              skipped |-> q - i.pos]

IteratorNext ==
    /\ it # Closed /\ ~it.eof
    /\ it' = Moved(mem, it)
    /\ UNCHANGED <<mem, ins>>

(* The iterator stands on an element it has visited.                       *)
OnElement == it.type # 0 /\ ~it.eof

IteratorEnter ==
    /\ OnElement /\ it.type = ARRAY_BEGIN
    /\ it' = Iterator(it.field_offset)
    /\ UNCHANGED <<mem, ins>>

(* internal_field_remove at last_off.  The code asserts that the marker of *)
(* the element is there.                                                   *)
Removed == MoveLeft(mem, it.last_off,
                    FieldEnd(mem, it.last_off, it.last_off) - it.last_off)

Remove ==
    /\ OnElement /\ CellAt(mem, it.last_off) = it.type
    /\ mem' = Removed
    /\ it' = [it EXCEPT !.pos = it.last_off, !.type = 0]
    /\ UNCHANGED ins

-----------------------------------------------------------------------------
(* Writing fields at an offset of a memory                                 *)

(* Variant: what stands at the offset is overwritten.                      *)
PutCells_blind(m, pos, cells) == Write(m, pos, cells)

PutCells(m, pos, cells) == Write(EnsureSpace(m, pos, Len(cells)), pos, cells)

(* insert_embedded_container                                               *)
PutContainer(m, pos, begin, end, cap) ==
    LET marked == PutCells(m, pos, <<begin>>)
    IN  Write(EnsureSpace(marked, pos + 1, cap + 1), pos + 1 + cap, <<end>>)

(* internal_insert_column                                                  *)
PutColumn(m, pos, cap) ==
    LET counted == WriteUintvar(PutCells(m, pos, <<COLUMN_U8>>), pos + 1, 0)
        capped  == WriteUintvar(counted, pos + 2, cap)
    IN  EnsureSpace(capped, ColumnAt(capped, pos).payload, cap + ColumnSlack)

(* The offset the code inserts at when an inserter is made of an iterator: *)
(* internal_insert_create_for_array                                        *)
InsertOffset(i) == IF i.eof \/ i.last_off = 0 THEN i.pos ELSE i.last_off

InsertBegin ==
    /\ it # Closed
    /\ MayLeaveGap \/ ~(it.eof /\ it.skipped > 0)
    /\ ins' = <<[kind |-> "array", pos |-> InsertOffset(it)]>>
    /\ it' = Closed
    /\ UNCHANGED mem

InsertEnd ==
    /\ Len(ins) = 1
    /\ ins' = <<>>
    /\ UNCHANGED <<mem, it>>

(* In an object a field is preceded by its property's name.                *)
Names == IF Top.kind = "object" THEN {<<k>> : k \in Keys} ELSE {<<>>}

Named(name) == IF name = <<>> THEN mem ELSE WriteUintvar(mem, Top.pos, name[1])

At(pos) == [ins EXCEPT ![Len(ins)].pos = pos]

InsertField ==
    /\ Editing /\ Top.kind # "column"
    /\ \E name \in Names, cells \in {<<NULL>>, <<TRUE_>>} \cup {<<U8, v>> : v \in Values} :
          LET pos == Top.pos + Len(name)
          IN  /\ mem' = PutCells(Named(name), pos, cells)
              /\ ins' = At(pos + Len(cells))
    /\ UNCHANGED it

ContainerBegin ==
    /\ Editing /\ Top.kind # "column" /\ Len(ins) < MaxDepth
    /\ \E name \in Names, cap \in Capacities, kind \in {"array", "object"} :
          LET pos == Top.pos + Len(name)
          IN  /\ mem' = IF kind = "array"
                        THEN PutContainer(Named(name), pos, ARRAY_BEGIN, ARRAY_END, cap)
                        ELSE PutContainer(Named(name), pos, OBJECT_BEGIN, OBJECT_END, cap)
              /\ ins' = Append(At(pos + 1), [kind |-> kind, pos |-> pos + 1])
    /\ UNCHANGED it

ColumnBegin ==
    /\ Editing /\ Top.kind # "column" /\ Len(ins) < MaxDepth
    /\ MayLeaveGap \/ NoneLeft(mem, Reader(Top.pos, <<Top.kind>>))
    /\ \E name \in Names, cap \in Capacities :
          LET pos == Top.pos + Len(name)
          IN  /\ mem' = PutColumn(Named(name), pos, cap)
              /\ ins' = Append(At(ColumnAt(mem', pos).payload),
                               [kind |-> "column", pos |-> pos])
    /\ UNCHANGED it

(* push_in_column                                                          *)
Push ==
    /\ Editing /\ Top.kind = "column"
    /\ \E v \in Values :
          LET counted == UpdateUintvar(mem, Top.pos + 1, ColumnAt(mem, Top.pos).num + 1)
              column  == ColumnAt(counted, Top.pos)
              cap     == ((column.cap + 1) * 17) \div 10
              capped  == UpdateUintvar(counted, column.cap_off, cap)
              grown   == EnsureSpace(capped,
                                     ColumnAt(capped, Top.pos).payload + column.num - 1,
                                     cap - column.cap)
              room    == IF column.num > column.cap THEN grown ELSE counted
          IN  mem' = Write(room, ColumnAt(room, Top.pos).payload + column.num - 1, <<v>>)
    /\ UNCHANGED <<it, ins>>

(* The end of a container is found by reading it again; its parent goes on *)
(* behind it.                                                              *)
ContainerEnd ==
    /\ Len(ins) > 1
    /\ LET outer  == SubSeq(ins, 1, Len(ins) - 1)
           parent == outer[Len(outer)]
           column == ColumnAt(mem, Top.pos)
           end    == CASE Top.kind = "array"  -> ContainerEndAt(mem, parent.pos, "array")
                       [] Top.kind = "object" -> ContainerEndAt(mem, parent.pos, "object")
                       [] Top.kind = "column" -> column.payload + column.cap
       IN  /\ ins' = [outer EXCEPT ![Len(outer)].pos = end]
           /\ mem' = IF Top.kind = "column" THEN mem ELSE Skip(mem, end + 1)
    /\ UNCHANGED it

-----------------------------------------------------------------------------
(* Updates: in place where the type stays, else by removal and insertion.  *)

UpdateNumber ==
    /\ OnElement
    /\ \E v \in Values :
          LET next == Moved(Removed, [it EXCEPT !.pos = it.last_off])
          IN  IF it.type = U8
              THEN mem' = Write(mem, it.last_off + 1, <<v>>)
              ELSE /\ CellAt(mem, it.last_off) = it.type
                   /\ MayLeaveGap \/ ~(next.eof /\ next.skipped > 0)
                   /\ mem' = PutCells(Removed, InsertOffset(next), <<U8, v>>)
    /\ it' = Closed
    /\ UNCHANGED ins

UpdateConstant ==
    /\ OnElement
    /\ \E c \in {NULL, TRUE_} :
          IF it.type \in {NULL, TRUE_}
          THEN mem' = Write(mem, it.last_off, <<c>>)
          ELSE /\ CellAt(mem, it.last_off) = it.type
               /\ mem' = PutCells(Removed, it.last_off, <<c>>)
    /\ it' = Closed
    /\ UNCHANGED ins

(* col_it_remove: the element is cut out, an empty one is put behind those *)
(* that are left, and the counter follows.                                 *)
ElementRemoved(i) ==
    LET begin  == it.field_offset
        column == ColumnAt(mem, begin)
        cut    == MoveLeft(mem, column.payload + i, 1)
        filled == MoveRight(cut, column.payload + column.num, 1)
    IN  UpdateUintvar(filled, begin + 1, column.num - 1)

ColumnRemove ==
    /\ OnElement /\ it.type = COLUMN_U8
    /\ LET column == ColumnAt(mem, it.field_offset)
       IN  /\ MayRemoveFull \/ column.num < column.cap
           /\ \E i \in 0 .. column.num - 1 : mem' = ElementRemoved(i)
    /\ it' = Closed
    /\ UNCHANGED ins

(* revise_pack; a later shrink cuts the block behind the last end marker.  *)
Pack ==
    /\ Idle
    /\ mem' = PackArray(mem, 1)
    /\ UNCHANGED <<it, ins>>

IteratorClose ==
    /\ it # Closed
    /\ it' = Closed
    /\ UNCHANGED <<mem, ins>>

Edit ==
    \/ IteratorOpen \/ IteratorNext \/ IteratorEnter \/ IteratorClose
    \/ Remove \/ UpdateNumber \/ UpdateConstant \/ ColumnRemove \/ Pack
    \/ InsertBegin \/ InsertField \/ ContainerBegin \/ ColumnBegin \/ Push
    \/ ContainerEnd \/ InsertEnd

Next == Edit /\ tokens' = ArrayTokens(mem', 2)

Spec == Init /\ [][Next]_vars

-----------------------------------------------------------------------------
(* The tokens in front of an offset, and the abstract editing state.       *)
Before(off) == Cardinality({i \in DOMAIN tokens : tokens[i].off < off})

read == [i \in DOMAIN tokens |-> tokens[i].t] \o <<>>

scanned ==
    IF it = Closed THEN [pos |-> 0, elem |-> 0, on |-> FALSE]
    ELSE [pos  |-> Before(it.pos) + 1, elem |-> Before(InsertOffset(it)) + 1,
          on   |-> OnElement]

opened ==
    [n \in DOMAIN ins |->
        [kind |-> ins[n].kind,
         pos  |-> IF n < Len(ins)
                  THEN IF ins[n + 1].kind = "column" THEN Before(ins[n + 1].pos) + 1
                       ELSE Before(ins[n].pos)
                  ELSE IF ins[n].kind = "column"
                  THEN Before(ins[n].pos) + 2 + ColumnAt(mem, ins[n].pos).num
                  ELSE Before(ins[n].pos) + 1]] \o <<>>

Abstract == INSTANCE Document WITH doc <- read, scan <- scanned, open <- opened

(* Every edit does to the fields what was asked for and nothing to any     *)
(* other, and iterators and inserters stay in front of the field they were *)
(* in front of, whatever bytes had to move.                                *)
EditsWhatIsAsked == Abstract!Spec

(* The memory that is read ends where the used memory ends, so that        *)
(* shrinking cuts off nothing but free cells and growing loses none.       *)
EndsWithMemory == tokens[Len(tokens)].off = Len(mem) - 1

(* The assertion of internal_field_remove: the marker of the element the   *)
(* iterator stands on is at the offset the iterator remembers.             *)
MarkerAtLastOff == OnElement => CellAt(mem, it.last_off) = it.type

(* Where the next token lies when no cell is reserved in between.          *)
Follows(i) ==
    LET off == tokens[i].off
    IN  CASE tokens[i].t[1] = "u8"     -> tokens[i + 1].off = off + 2
          [] tokens[i].t[1] = "column" ->
                LET column == ColumnAt(mem, off)
                IN  /\ column.cap = column.num
                    /\ column.num > 0 => tokens[i + 1].off = column.payload
          [] tokens[i].t[1] = "element" ->
                tokens[i + 1].off = IF tokens[i + 1].t = <<"end">> THEN off ELSE off + 1
          [] OTHER -> tokens[i + 1].off = off + 1

Tight == \A i \in 1 .. Len(tokens) - 1 : Follows(i)

(* Packing leaves no reserved cell, at whatever depth the containers nest, *)
(* and although the counter of a column may lose a block on the way        *)
(* (carbon/revise.c, "remove all trailing free space").                    *)
NothingReserved == [][Pack => Tight']_vars
=============================================================================
