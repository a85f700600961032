---------------------------- MODULE JsonGrammar -----------------------------
(***************************************************************************)
(* The grammar of JSON: the trees that a stream derives.  What the parser  *)
(* of json/json-parser.c builds is compared with them.                     *)
(*                                                                         *)
(* Derivations are collected from the first token to the last, all of them *)
(* at once.  A value that ends with token n is a pair <<i, tree>>, where   *)
(* token i is its first.  A part is a container that may go on: <<i, j,    *)
(* read>> says that the tokens from the bracket i to j make the members or *)
(* elements read, and that j is the bracket or ends the last of them.      *)
(***************************************************************************)
EXTENDS JsonParser

Container(open, read) == IF open = "OBJECT_OPEN" THEN Object(read) ELSE Array(read)

(* Where the next member or element of a part begins: behind a comma,      *)
(* unless it is the first.                                                 *)
NextItem(i, j) == IF i = j THEN j + 1 ELSE j + 2

(* A value that begins at k is the next of a part; members have a key.     *)
Joins(s, i, j, k) ==
    /\ i # j => s[j + 1] = "COMMA"
    /\ IF s[i] = "OBJECT_OPEN"
       THEN /\ k = NextItem(i, j) + 2
            /\ s[k - 2] = "LITERAL_STRING" /\ s[k - 1] = "ASSIGN"
       ELSE k = NextItem(i, j)

(* A member is its key, as the parser has it, and its value.               *)
Item(s, i, j, node) == IF s[i] = "OBJECT_OPEN" THEN <<NextItem(i, j), node>> ELSE node

(* What token n ends, when the parts known end before it: a literal, or a  *)
(* part that the token closes.                                             *)
ValuesTo(s, n, known) ==
    (IF s[n] \in Literals THEN {<<n, Leaf(s, n)>>} ELSE {})
    \cup {<<p[1], Container(s[p[1]], p[3])>> :
             p \in {p \in known : p[2] + 1 = n /\ s[n] = Closing(s[p[1]])}}

(* A bracket, or a part that a value which ends with token n has joined.   *)
PartsTo(s, n, known) ==
    (IF s[n] \in Opens THEN {<<n, n, <<>>>>} ELSE {})
    \cup {<<q[1][1], n, Append(q[1][3], Item(s, q[1][1], q[1][2], q[2][2]))>> :
             q \in {q \in known \X ValuesTo(s, n, known) : Joins(s, q[1][1], q[1][2], q[2][1])}}

(* The parts among the first tokens of a stream.                           *)
Parts(s) ==
    LET known[n \in 0 .. Len(s)] ==
            IF n = 0 THEN {}
            ELSE LET before == known[n - 1] IN before \cup PartsTo(s, n, before)
    IN  known

(* The trees of a whole stream, which is not empty.                        *)
Derived(s) == {v[2] : v \in {v \in ValuesTo(s, Len(s), Parts(s)[Len(s) - 1]) : v[1] = 1}}

-----------------------------------------------------------------------------
(* The tree of a text that is read to its end is the one the grammar       *)
(* gives, and no text is turned down, or read in part, that the grammar    *)
(* derives: both notions of JSON are one, and no key, member or element is *)
(* lost on the way through the calls of the parser.                        *)
TreeIsDerived ==
    /\ status = "consumed" => Derived(stream) = {tree}
    /\ status \in {"refused", "unclosed", "failed", "rest_ignored"} => Derived(stream) = {}
=============================================================================
