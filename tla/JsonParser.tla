----------------------------- MODULE JsonParser -----------------------------
(***************************************************************************)
(* Parsing JSON (json/json-parser.c).  Tokens are checked one by one by an *)
(* automaton that knows the token before and the open brackets; a stream   *)
(* the automaton lets through is then read by a parser that looks at few   *)
(* tokens only and relies on the automaton for the rest.                   *)
(*                                                                         *)
(* The parser is a recursive descent.  Its calls that have not returned    *)
(* are a stack here, one entry for each container being parsed, and a step *)
(* is what one loop of a function does with the tokens it looks at.        *)
(*                                                                         *)
(* A token is its type.  LITERAL stands for numbers, true, false and null, *)
(* which automaton and parser treat alike.  A leaf of the tree that is     *)
(* built is the position of its token in the stream.                       *)
(***************************************************************************)
EXTENDS Naturals, Sequences

CONSTANT MaxTokens      \* bound: tokens of a stream

VARIABLES
    stream,             \* token_stream, and the token that was refused
    brackets,           \* brackets not closed yet, and those that close none
    last,               \* token_mem.type
    status,             \* "reading", what is parsed next, or how json_parse ended
    at,                 \* token_idx, counted from 1
    calls,              \* the containers being parsed, by their first token
    parts,              \* what was parsed of each of them
    tree                \* json.element, once parsed

pvars == <<stream, brackets, last, status, at, calls, parts, tree>>

Literals == {"LITERAL_STRING", "LITERAL"}
Opens  == {"OBJECT_OPEN", "ARRAY_OPEN"}
Closes == {"OBJECT_CLOSE", "ARRAY_CLOSE"}
Tokens == Literals \cup Opens \cup Closes \cup {"ASSIGN", "COMMA"}

Closing(open) == IF open = "OBJECT_OPEN" THEN "OBJECT_CLOSE" ELSE "ARRAY_CLOSE"

(* Variant: an array is not empty.                                         *)
Follows_noempty(type) ==
    CASE type = "OBJECT_OPEN"    -> {"LITERAL_STRING", "OBJECT_CLOSE"}
      [] type = "LITERAL_STRING" -> Closes \cup {"ASSIGN", "COMMA"}
      [] type \in {"ASSIGN", "COMMA", "ARRAY_OPEN", "JSON_UNKNOWN"} -> Literals \cup Opens
      [] OTHER                   -> Closes \cup {"COMMA"}

(* process_token: what may come after a token of a type; JSON_UNKNOWN      *)
(* stands for the beginning.                                               *)
Follows(type) ==
    CASE type = "OBJECT_OPEN"              -> {"LITERAL_STRING", "OBJECT_CLOSE"}
      [] type = "LITERAL_STRING"           -> Closes \cup {"ASSIGN", "COMMA"}
      [] type \in {"ASSIGN", "COMMA"}      -> Literals \cup Opens
      [] type = "ARRAY_OPEN"               -> Literals \cup Opens \cup {"ARRAY_CLOSE"}
      [] type = "JSON_UNKNOWN"             -> Literals \cup Opens
      [] OTHER                             -> Closes \cup {"COMMA"}

(* A stack without its top.                                                *)
Below(stack) == SubSeq(stack, 1, Len(stack) - 1)

(* Variant: a bracket that closes none is forgotten.                       *)
Bracketed_lenient(open, type) ==
    IF type \in Opens THEN Append(open, type)
    ELSE IF type \in Closes /\ open # <<>> THEN Below(open)
    ELSE open

(* A bracket that does not close the last one is kept like an open one.    *)
Bracketed(open, type) ==
    IF type \notin Opens \cup Closes THEN open
    ELSE IF /\ type \in Closes /\ open # <<>>
            /\ open[Len(open)] \in Opens /\ Closing(open[Len(open)]) = type
    THEN Below(open)
    ELSE Append(open, type)

-----------------------------------------------------------------------------
(* The automaton.                                                          *)

ParserInit ==
    /\ stream = <<>>
    /\ brackets = <<>>
    /\ last = "JSON_UNKNOWN"
    /\ status = "reading"
    /\ at = 1
    /\ calls = <<>>
    /\ parts = <<>>
    /\ tree = <<>>

ReadToken ==
    /\ status = "reading" /\ Len(stream) < MaxTokens
    /\ \E type \in Tokens :
          /\ stream' = Append(stream, type)
          /\ brackets' = Bracketed(brackets, type)
          /\ IF type \in Follows(last)
             THEN last' = type /\ UNCHANGED status
             ELSE status' = "refused" /\ UNCHANGED last
    /\ UNCHANGED <<at, calls, parts, tree>>

(* Variant: brackets that are open do not matter.                          *)
EndOfInput_unclosed ==
    /\ status = "reading" /\ stream # <<>>
    /\ status' = "element"
    /\ UNCHANGED <<stream, brackets, last, at, calls, parts, tree>>

(* An input without any token is empty and not looked at.                  *)
EndOfInput ==
    /\ status = "reading" /\ stream # <<>>
    /\ status' = IF brackets # <<>> THEN "unclosed" ELSE "element"
    /\ UNCHANGED <<stream, brackets, last, at, calls, parts, tree>>

-----------------------------------------------------------------------------
(* The parser.  vec_at returns NULL behind the end of the stream and       *)
(* get_token dereferences it.                                              *)

TokenAt(i) == IF i <= Len(stream) THEN stream[i] ELSE "NULL"

Object(members) == <<"object", members>>
Array(elements) == <<"array", elements>>
Leaf(s, i)      == <<s[i], i>>

(* A value is part of the container around it, under the key that was read *)
(* last if that is an object, or it is what the text says.                 *)
Extended(part, node) ==
    [part EXCEPT !.read = Append(@, IF part.key = 0 THEN node ELSE <<part.key, node>>)]

Hand(node, outer) ==
    IF outer = <<>> THEN tree' = node /\ parts' = outer
    ELSE /\ parts' = [outer EXCEPT ![Len(outer)] = Extended(@, node)]
         /\ UNCHANGED tree

Enter(next) ==
    /\ calls' = Append(calls, stream[at])
    /\ parts' = Append(parts, [key |-> 0, read |-> <<>>])
    /\ at' = at + 1 /\ status' = next
    /\ UNCHANGED tree

Stop(how) == status' = how /\ UNCHANGED <<at, calls, parts, tree>>

(* What parse_members and parse_element do alike with the token of a       *)
(* value.  An empty object is read to its end.                             *)
ReadValue ==
    IF stream[at] = "ARRAY_OPEN" THEN Enter("element")
    ELSE IF stream[at] = "OBJECT_OPEN" /\ TokenAt(at + 1) # "OBJECT_CLOSE"
    THEN Enter("member")
    ELSE /\ IF stream[at] = "OBJECT_OPEN"
            THEN at' = at + 2 /\ Hand(Object(<<>>), parts)
            ELSE at' = at + 1 /\ Hand(Leaf(stream, at), parts)
         /\ status' = "delimiter"
         /\ UNCHANGED calls

(* One round of parse_elements, which reads no element if the token closes *)
(* something, or the element of the whole text.  A token that begins no    *)
(* value is taken for null and left where it is.                           *)
ParseElement ==
    /\ status = "element"
    /\ IF at > Len(stream) THEN Stop(IF calls = <<>> THEN "failed" ELSE "crashed")
       ELSE IF calls # <<>> /\ stream[at] \in Closes THEN Stop("delimiter")
       ELSE IF stream[at] \in Literals \cup Opens THEN ReadValue
       ELSE /\ Hand(<<"LITERAL", at>>, parts)
            /\ status' = "delimiter" /\ UNCHANGED <<at, calls>>
    /\ UNCHANGED <<stream, brackets, last>>

(* Variant: all members have the key of the first one.                     *)
ParseMember_onekey ==
    /\ status = "member"
    /\ IF at > Len(stream) THEN Stop("crashed")
       ELSE IF TokenAt(at + 1) # "ASSIGN" THEN Stop("failed")
       ELSE /\ parts' = [parts EXCEPT ![Len(parts)].key = IF @ = 0 THEN at ELSE @]
            /\ at' = at + 2 /\ status' = "value"
            /\ UNCHANGED <<calls, tree>>
    /\ UNCHANGED <<stream, brackets, last>>

(* One round of parse_members: the key is taken for what the automaton let *)
(* through.                                                                *)
ParseMember ==
    /\ status = "member"
    /\ IF at > Len(stream) THEN Stop("crashed")
       ELSE IF TokenAt(at + 1) # "ASSIGN" THEN Stop("failed")
       ELSE /\ parts' = [parts EXCEPT ![Len(parts)].key = at]
            /\ at' = at + 2 /\ status' = "value"
            /\ UNCHANGED <<calls, tree>>
    /\ UNCHANGED <<stream, brackets, last>>

ParseMemberValue ==
    /\ status = "value"
    /\ IF TokenAt(at) \in Literals \cup Opens THEN ReadValue ELSE Stop("failed")
    /\ UNCHANGED <<stream, brackets, last>>

(* A comma begins the next round of the call that parsed the value.  That  *)
(* call skips any other token and returns, whatever the token is.          *)
ParseDelimiter ==
    /\ status = "delimiter" /\ calls # <<>>
    /\ IF at > Len(stream) THEN Stop("crashed")
       ELSE LET open == calls[Len(calls)]
                read == parts[Len(parts)].read
            IN  /\ at' = at + 1
                /\ IF stream[at] = "COMMA"
                   THEN /\ status' = IF open = "OBJECT_OPEN" THEN "member" ELSE "element"
                        /\ UNCHANGED <<calls, parts, tree>>
                   ELSE /\ calls' = Below(calls)
                        /\ Hand(IF open = "OBJECT_OPEN" THEN Object(read) ELSE Array(read),
                                Below(parts))
                        /\ UNCHANGED status
    /\ UNCHANGED <<stream, brackets, last>>

(* Tokens behind the value of the whole text are not looked at.            *)
Return ==
    /\ status = "delimiter" /\ calls = <<>>
    /\ status' = IF at > Len(stream) THEN "consumed" ELSE "rest_ignored"
    /\ UNCHANGED <<stream, brackets, last, at, calls, parts, tree>>

ParserNext ==
    \/ ReadToken \/ EndOfInput
    \/ ParseElement \/ ParseMember \/ ParseMemberValue
    \/ ParseDelimiter \/ Return

ParserSpec == ParserInit /\ [][ParserNext]_pvars

-----------------------------------------------------------------------------
(* What JSON is: a pushdown automaton that knows in which containers a     *)
(* token stands and what may come next, where the code knows the token     *)
(* before and whether the brackets match.                                  *)

Wrong == [open |-> <<>>, expect |-> "nothing"]
Begun == [open |-> <<>>, expect |-> "value"]

State(open, expect) == [open |-> open, expect |-> expect]

Taken(state, type) ==
    LET open  == state.open
        inner == open[Len(open)]
        closed == open # <<>> /\ type = Closing(inner)
    IN  CASE state.expect \in {"value", "value_or_close"} /\ type \in Literals ->
               State(open, "delimiter")
          [] state.expect \in {"value", "value_or_close"} /\ type = "ARRAY_OPEN" ->
               State(Append(open, type), "value_or_close")
          [] state.expect \in {"value", "value_or_close"} /\ type = "OBJECT_OPEN" ->
               State(Append(open, type), "key_or_close")
          [] state.expect \in {"key", "key_or_close"} /\ type = "LITERAL_STRING" ->
               State(open, "colon")
          [] state.expect = "colon" /\ type = "ASSIGN" ->
               State(open, "value")
          [] state.expect = "delimiter" /\ type = "COMMA" /\ open # <<>> ->
               State(open, IF inner = "OBJECT_OPEN" THEN "key" ELSE "value")
          [] state.expect \in {"value_or_close", "key_or_close", "delimiter"} /\ closed ->
               State(Below(open), "delimiter")
          [] OTHER -> Wrong

Run(s) ==
    LET run[n \in 0 .. Len(s)] == IF n = 0 THEN Begun ELSE Taken(run[n - 1], s[n])
    IN  run

(* Every state but Wrong can be completed to a JSON text.                  *)
BeginsJson(s) == Run(s)[Len(s)] # Wrong
IsJson(s)     == Run(s)[Len(s)] = State(<<>>, "delimiter")

-----------------------------------------------------------------------------
(* No JSON text is turned down: not by the automaton on a token after      *)
(* which JSON could still follow, not at the end, and not by the parser    *)
(* that reads the stream again.                                            *)
JsonIsAccepted ==
    /\ status = "refused" => ~BeginsJson(stream)
    /\ status \in {"unclosed", "failed", "rest_ignored"} => ~IsJson(stream)

(* A stream that the parser has read to its end is JSON, although neither  *)
(* automaton nor parser knows in which container a token stands, and the   *)
(* parser looks at no bracket that closes an array and at no key.          *)
ConsumedIsJson == status = "consumed" => IsJson(stream)

(* The parser never asks for a token behind the last one: the automaton    *)
(* stops every stream that would make it.                                  *)
NoReadPastEnd == status # "crashed"
=============================================================================
