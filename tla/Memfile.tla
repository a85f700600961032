------------------------------ MODULE Memfile ------------------------------
(***************************************************************************)
(* Memory files (mem/memblock.h, mem/memfile.h) as operators on the used   *)
(* cells of a block.  A block is written here as the sequence of its cells *)
(* up to last_byte; the cells behind last_byte are zero and are not        *)
(* written down, so that the allocated length, which only decides when the *)
(* block is enlarged, does not appear.  Offsets count from 0 as they do in *)
(* the code.                                                               *)
(***************************************************************************)
EXTENDS Naturals, Sequences

CONSTANT Radix          \* values one block of a uintvar can hold: 128 in the code

ASSUME RadixAssumption == Radix \in Nat \ {0, 1}

CellAt(mem, pos) == IF pos < Len(mem) THEN mem[pos + 1] ELSE 0

Zeros(n) == [i \in 1 .. n |-> 0]

(* MEMFILE_INPLACE_INSERT: open a hole of n zero cells at pos.             *)
MoveRight(mem, pos, n) ==
    SubSeq(mem, 1, pos) \o Zeros(n) \o SubSeq(mem, pos + 1, Len(mem))

(* MEMFILE_INPLACE_REMOVE: close the n cells at pos.                       *)
MoveLeft(mem, pos, n) ==
    SubSeq(mem, 1, pos) \o SubSeq(mem, pos + n + 1, Len(mem))

(* Variant: a position at the end of the used cells uses one more.         *)
Skip_past(mem, pos) == IF pos >= Len(mem) THEN mem \o Zeros(pos + 1 - Len(mem)) ELSE mem

(* MEMFILE_SKIP: moving a position past the used cells uses them.          *)
Skip(mem, pos) == IF pos > Len(mem) THEN mem \o Zeros(pos - Len(mem)) ELSE mem

(* MEMFILE_WRITE: overwrite, and extend the used cells where needed.       *)
Write(mem, pos, cells) ==
    SubSeq(Skip(mem, pos), 1, pos) \o cells
    \o SubSeq(mem, pos + Len(cells) + 1, Len(mem))

(* MEMFILE_ENSURE_SPACE: the n cells from pos on shall be zero; a hole is  *)
(* opened for those that are missing in front of the first used cell.      *)
EnsureSpace(mem, pos, n) ==
    LET used  == {i \in 0 .. n - 1 : CellAt(mem, pos + i) # 0}
        first == CHOOSE i \in used : \A j \in used : i <= j
    IN  IF used = {} THEN mem ELSE MoveRight(mem, pos, n - first)

(* A uintvar of at most two blocks: values below Radix * Radix.            *)
Blocks(value) ==
    IF value < Radix THEN <<value>>
    ELSE <<Radix + value \div Radix, value % Radix>>

UintvarAt(mem, pos) ==
    IF CellAt(mem, pos) < Radix
    THEN [value |-> CellAt(mem, pos), end |-> pos + 1]
    ELSE [value |-> (CellAt(mem, pos) - Radix) * Radix + CellAt(mem, pos + 1),
          end   |-> pos + 2]

WriteUintvar(mem, pos, value) ==
    Write(EnsureSpace(mem, pos, Len(Blocks(value))), pos, Blocks(value))

(* MEMFILE_UPDATE_UINTVAR_STREAM: the number of blocks may change.         *)
UpdateUintvar(mem, pos, value) ==
    LET now  == UintvarAt(mem, pos).end - pos
        then == Len(Blocks(value))
        room == IF now < then THEN MoveRight(mem, pos, then - now)
                ELSE IF now > then THEN MoveLeft(mem, pos, now - then)
                ELSE mem
    IN  Write(room, pos, Blocks(value))
============================================================================
