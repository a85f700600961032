----------------------------- MODULE StringDict ------------------------------
(***************************************************************************)
(* std/string_dict.h: what a string dictionary promises.  A partial, one   *)
(* to one mapping from identifiers to strings that grows by one pair at a  *)
(* time and loses pairs only when their identifiers are removed.           *)
(***************************************************************************)
EXTENDS Naturals, Functions

CONSTANT Strings

VARIABLE dict

DictInit == dict = [i \in {} |-> i]

(* A string that is not contained gets an identifier that is not in use.    *)
Intern(s, i) ==
  /\ s \notin Range(dict) /\ i \notin DOMAIN dict
  /\ dict' = [j \in DOMAIN dict \cup {i} |-> IF j = i THEN s ELSE dict[j]]

Forget(I) == dict' = Restrict(dict, DOMAIN dict \ I)

DictNext ==
  \/ \E s \in Strings, i \in DOMAIN dict' : Intern(s, i)
  \/ \E I \in SUBSET DOMAIN dict : Forget(I)

DictSpec == DictInit /\ [][DictNext]_dict
==============================================================================
