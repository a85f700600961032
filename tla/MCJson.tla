------------------------------- MODULE MCJson --------------------------------
(* Widths and literals for TLC: numbers on both sides of every width, and   *)
(* of every null value.                                                     *)
EXTENDS Json
MCBits == <<2, 3, 4, 5>>
MCScalars ==
    {Constant("null"), Constant("true"), Float(0)}
    \cup {Integer(v) : v \in {-15, -2, -1, 0, 2, 3, 6, 15}}
=============================================================================
