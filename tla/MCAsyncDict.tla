----------------------------- MODULE MCAsyncDict -----------------------------
(* Two carriers; a and c have the same owner, b has the other one. *)
EXTENDS AsyncDict, TLC

CONSTANTS a, b, c

MCOwnerOf == (a :> 0) @@ (b :> 1) @@ (c :> 0)
MCBatches == {{a, b}, {c}}
==============================================================================
