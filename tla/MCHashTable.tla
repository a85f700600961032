----------------------------- MODULE MCHashTable -----------------------------
(* Hashes for TLC: in a table of 6 each key has a bucket of its own, in the  *)
(* one of 11 that follows the last key displaces four others up to the end   *)
(* and around it, and so loads the table that is being filled again.         *)
EXTENDS HashTable
MCHash == <<6, 7, 8, 9, 10, 17>>
=============================================================================
