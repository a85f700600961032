------------------------------- MODULE Numbers -------------------------------
(***************************************************************************)
(* Integers of four widths, as C converts them.  A number has Bits[k] bits *)
(* where the code has 8, 16, 32 and 64.                                    *)
(***************************************************************************)
EXTENDS Integers, Sequences

CONSTANT Bits           \* widths of the number types, growing

ASSUME BitsAssumption ==
    Len(Bits) = 4 /\ \A k \in 1 .. 3 : Bits[k] \in Nat \ {0} /\ Bits[k] < Bits[k + 1]

Word == 2 ^ Bits[4]

(* The bits of a number, and the signed number that w of them stand for.   *)
Unsigned(value) == value % Word
Signed(bits, w) ==
    LET low == bits % (2 ^ w) IN IF low < 2 ^ (w - 1) THEN low ELSE low - 2 ^ w

(* The narrowest of the widths that fit; 0: none does.                     *)
Narrowest(fit) ==
    IF fit = {} THEN 0 ELSE CHOOSE k \in fit : \A j \in fit : k <= j
=============================================================================
