------------------------------- MODULE Fields -------------------------------
(***************************************************************************)
(* How carbon fields lie in memory: how the iterators walk over them, what *)
(* they read, and how a container is packed (carbon/arr-it.c, obj-it.c,    *)
(* col-it.c, field.c, revise.c).  A field is a marker cell and its data.   *)
(* Of the field types the model keeps those that differ in layout: a       *)
(* constant (no data), an unsigned 8-bit number (fixed data), an array and *)
(* an object (fields up to an end marker, zero cells being free), and a    *)
(* column of 8-bit numbers (counters and a payload with reserved cells).   *)
(* A property name is one cell, the length that starts it.                 *)
(***************************************************************************)
EXTENDS Memfile

NULL == 110
TRUE_ == 116
U8 == 99
ARRAY_BEGIN == 91
ARRAY_END == 93
OBJECT_BEGIN == 123
OBJECT_END == 125
COLUMN_U8 == 49

(* Skipping zero cells; a memory that has lost its end marker stops it too.*)
FirstUsed(mem, pos) ==
    IF pos >= Len(mem) \/ CellAt(mem, pos) # 0 THEN pos
    ELSE CHOOSE q \in pos .. Len(mem) :
            /\ CellAt(mem, q) # 0 \/ q = Len(mem)
            /\ \A r \in pos .. q - 1 : CellAt(mem, r) = 0

(* col_it_create: the counters of the column whose marker is at begin.     *)
ColumnAt(mem, begin) ==
    LET num == UintvarAt(mem, begin + 1)
        cap == UintvarAt(mem, num.end)
    IN  [num |-> num.value, cap |-> cap.value, cap_off |-> num.end,
         payload |-> cap.end]

(* A reader: the offset it stands at and the kinds of the containers it is *)
(* in, the innermost last.                                                 *)
Reader(pos, open) == [pos |-> pos, open |-> open]

Kind(r) == r.open[Len(r.open)]

Into(r, kind, pos) == Reader(pos, Append(r.open, kind))

OutOf(r, pos) == Reader(pos, SubSeq(r.open, 1, Len(r.open) - 1))

(* Nothing is left in the container.  An object iterator takes the first   *)
(* zero cell for the end.                                                  *)
NoneLeft(mem, r) ==
    LET q == FirstUsed(mem, r.pos)
    IN  IF Kind(r) = "array" THEN CellAt(mem, q) = ARRAY_END \/ q >= Len(mem)
        ELSE CellAt(mem, r.pos) \in {0, OBJECT_END}

(* Where the value of the next element or property begins, and its marker. *)
ValueAt(r) == IF Kind(r) = "array" THEN r.pos ELSE r.pos + 1

MarkerAt(mem, r) == IF Kind(r) = "array" THEN FirstUsed(mem, r.pos) ELSE r.pos + 1

(* The reader has passed the marker at q of a field, in front of which it  *)
(* stood at pos, and all of the field where nothing is contained in it:    *)
(* arr_it_next opens a contained container at pos, whatever zero cells lie *)
(* between.                                                                *)
Passed(mem, r, pos, q) ==
    CASE CellAt(mem, q) = ARRAY_BEGIN -> Into(r, "array", pos + 1)
      [] CellAt(mem, q) = OBJECT_BEGIN -> Into(r, "object", pos + 1)
      [] CellAt(mem, q) = U8 -> Reader(q + 2, r.open)
      [] CellAt(mem, q) = COLUMN_U8 ->
            LET column == ColumnAt(mem, pos)
            IN  Reader(column.payload + column.cap, r.open)
      [] OTHER -> Reader(q + 1, r.open)

Step(mem, r) ==
    IF r.open = <<>> THEN r
    ELSE IF NoneLeft(mem, r) THEN OutOf(r, FirstUsed(mem, r.pos) + 1)
    ELSE Passed(mem, r, ValueAt(r), MarkerAt(mem, r))

(* Reading on until everything that was open is left (fast-forwarding).    *)
(* Each step moves the reader, so that as many steps as there are cells    *)
(* take it out of everything, or past a memory that has lost an end.       *)
ReadOn(mem, r) ==
    LET reader[n \in 0 .. Len(mem)] ==
            IF n = 0 THEN r ELSE Step(mem, reader[n - 1])
    IN  reader[Len(mem)].pos

FieldEnd(mem, pos, q) == ReadOn(mem, Passed(mem, Reader(pos, <<>>), pos, q))

ContainerEndAt(mem, pos, kind) == ReadOn(mem, Reader(pos, <<kind>>))

-----------------------------------------------------------------------------
(* What reading yields: tokens, each with the offset it was found at.      *)

Token(off, t) == [off |-> off, t |-> t]

FieldTokens(mem, q) ==
    CASE CellAt(mem, q) = U8 -> <<Token(q, <<"u8", CellAt(mem, q + 1)>>)>>
      [] CellAt(mem, q) = NULL -> <<Token(q, <<"constant", "null">>)>>
      [] CellAt(mem, q) = TRUE_ -> <<Token(q, <<"constant", "true">>)>>
      [] CellAt(mem, q) = ARRAY_BEGIN -> <<Token(q, <<"array">>)>>
      [] CellAt(mem, q) = OBJECT_BEGIN -> <<Token(q, <<"object">>)>>
      [] CellAt(mem, q) = COLUMN_U8 ->
            LET column == ColumnAt(mem, q)
            IN  <<Token(q, <<"column">>)>>
                \o [i \in 1 .. column.num |->
                        Token(column.payload + i - 1,
                              <<"element", CellAt(mem, column.payload + i - 1)>>)]
                \o <<Token(column.payload + column.cap - 1, <<"end">>)>>
      [] OTHER -> <<Token(q, <<"corrupted">>)>>

(* The tokens a reader meets in a step.                                    *)
Met(mem, r) ==
    LET q   == FirstUsed(mem, r.pos)
        end == IF Kind(r) = "array" THEN ARRAY_END ELSE OBJECT_END
    IN  IF NoneLeft(mem, r)
        THEN <<Token(q, IF CellAt(mem, q) = end THEN <<"end">> ELSE <<"corrupted">>)>>
        ELSE (IF Kind(r) = "array" THEN <<>>
              ELSE <<Token(r.pos, <<"key", CellAt(mem, r.pos)>>)>>)
             \o FieldTokens(mem, MarkerAt(mem, r))

(* All tokens of the array whose contents begin at pos.                    *)
ArrayTokens(mem, pos) ==
    LET read[n \in 0 .. Len(mem)] ==
            IF n = 0 THEN [reader |-> Reader(pos, <<"array">>), tokens |-> <<>>]
            ELSE LET last == read[n - 1]
                 IN  IF last.reader.open = <<>> THEN last
                     ELSE [reader |-> Step(mem, last.reader),
                           tokens |-> last.tokens \o Met(mem, last.reader)]
    IN  read[Len(mem)].tokens

-----------------------------------------------------------------------------
(* Packing: reserved cells are taken out of a container, then of those in  *)
(* it.                                                                     *)

(* The free cells between pos and the end marker are closed.               *)
DropFree(mem, pos) == MoveLeft(mem, pos, FirstUsed(mem, pos) - pos)

(* internal_array_skip_contents and its like for objects: over the fields  *)
(* that follow each other without a zero cell.                             *)
SlotsEnd(mem, pos, kind) ==
    LET end == IF kind = "array" THEN ARRAY_END ELSE OBJECT_END
        slot[n \in 0 .. Len(mem)] ==
            IF n = 0 THEN pos
            ELSE LET last == slot[n - 1]
                     from == ValueAt(Reader(last, <<kind>>))
                 IN  IF CellAt(mem, last) \in {0, end} THEN last
                     ELSE FieldEnd(mem, from, from)
    IN  slot[Len(mem)]

(* Variant: the capacity is lowered, the cells that were reserved stay.    *)
PackColumn_keeps(mem, begin) ==
    LET column == ColumnAt(mem, begin)
    IN  UpdateUintvar(mem, column.cap_off, column.num)

PackColumn(mem, begin) ==
    LET column == ColumnAt(mem, begin)
        used   == MoveLeft(mem, column.payload + column.num, column.cap - column.num)
    IN  IF column.cap = column.num THEN mem
        ELSE UpdateUintvar(used, column.cap_off, column.num)

(* Variant: objects contained in an array or object are skipped.           *)
PackField_shallow(mem, q) ==
    CASE CellAt(mem, q) = COLUMN_U8 -> PackColumn(mem, q)
      [] CellAt(mem, q) = ARRAY_BEGIN -> DropFree(mem, SlotsEnd(mem, q + 1, "array"))
      [] OTHER -> mem

(* internal_pack_array and internal_pack_object on the field whose marker  *)
(* is at q; of a container, the fields follow one by one.                  *)
PackField(mem, q) ==
    CASE CellAt(mem, q) = COLUMN_U8 -> PackColumn(mem, q)
      [] CellAt(mem, q) = ARRAY_BEGIN -> DropFree(mem, SlotsEnd(mem, q + 1, "array"))
      [] CellAt(mem, q) = OBJECT_BEGIN -> DropFree(mem, SlotsEnd(mem, q + 1, "object"))
      [] OTHER -> mem

PackStep(p) ==
    LET q      == MarkerAt(p.mem, p.reader)
        packed == PackField(p.mem, q)
    IN  IF p.reader.open = <<>> THEN p
        ELSE IF NoneLeft(p.mem, p.reader) THEN [p EXCEPT !.reader = Step(p.mem, p.reader)]
        ELSE [mem |-> packed, reader |-> Passed(packed, p.reader, q, q)]

(* revise_pack of the array whose marker is at begin.                      *)
PackArray(mem, begin) ==
    LET pack[n \in 0 .. Len(mem)] ==
            IF n = 0 THEN [mem |-> PackField(mem, begin), reader |-> Reader(begin + 1, <<"array">>)]
            ELSE PackStep(pack[n - 1])
    IN  pack[Len(mem)].mem
=============================================================================
