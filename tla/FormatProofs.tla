---------------------------- MODULE FormatProofs ----------------------------
(***************************************************************************)
(* What is proved about reading data: the two passes of the parser of      *)
(* JSON, and the cache through which strings of an archive are read.       *)
(***************************************************************************)
EXTENDS JsonGrammar, StringCache, WellFoundedInduction, NaturalsInduction,
        SequenceTheorems, TLAPS

LEMMA LeastNatural ==
  ASSUME NEW T, T \subseteq Nat, T # {}
  PROVE  \E x \in T : \A y \in T : x <= y
<1> DEFINE R == OpToRel(<, Nat)
<1>1. \A x, y \in Nat : <<x, y>> \in R <=> x < y
  BY DEF OpToRel
<1>2. IsWellFoundedOn(R, Nat)
  BY Zenon, NatLessThanWellFounded
<1> HIDE DEF R
<1>3. PICK x \in T : \A y \in T : ~(<<y, x>> \in R)
  BY <1>2, WFMin
<1>4. ASSUME NEW y \in T PROVE x <= y
  <2>1. x \in Nat /\ y \in Nat
    OBVIOUS
  <2>2. ~(y < x)
    BY <2>1, <1>1, <1>3
  <2>3. QED
    BY <2>1, <2>2
<1>5. QED
  BY <1>4

-----------------------------------------------------------------------------
(***************************************************************************)
(* JSON.  The stream that the code lets through is compared with two trails *)
(* along it: the brackets the code had open before each token, and the     *)
(* state that the automaton of the grammar had.  While that state is not   *)
(* Wrong the code has the same brackets open.  The parser then either      *)
(* stands where the grammar does (Aligned), or it has left a container     *)
(* whose bracket is still to come (Behind), and stays behind: it cannot be *)
(* behind at the end, where no bracket is open.                            *)
(***************************************************************************)

(* States that the automaton of the grammar can be in, and Wrong.  What    *)
(* may close at once is what was opened last.                              *)
Expects == {"value", "value_or_close", "key", "key_or_close", "colon", "delimiter"}

Innermost(open) == open[Len(open)]

States ==
    {state \in [open : Seq(Opens), expect : Expects] :
        /\ state.expect = "value_or_close" =>
              state.open # <<>> /\ Innermost(state.open) = "ARRAY_OPEN"
        /\ state.expect = "key_or_close" =>
              state.open # <<>> /\ Innermost(state.open) = "OBJECT_OPEN"}
    \cup {Wrong}

IsTrail(tr, s) ==
    /\ tr \in [0 .. Len(s) -> Seq(Tokens)]
    /\ tr[0] = <<>>
    /\ \A n \in 1 .. Len(s) : tr[n] = Bracketed(tr[n - 1], s[n])

IsRun(run, s) ==
    /\ run \in [0 .. Len(s) -> States]
    /\ run[0] = Begun
    /\ \A n \in 1 .. Len(s) : run[n] = Taken(run[n - 1], s[n])

LEMMA Popped ==
  ASSUME NEW S, NEW stack \in Seq(S), stack # <<>>
  PROVE  /\ Below(stack) \in Seq(S)
         /\ Len(Below(stack)) = Len(stack) - 1
         /\ stack[Len(stack)] \in S
         /\ \A i \in 1 .. Len(stack) - 1 : Below(stack)[i] = stack[i]
<1>1. Len(stack) \in Nat /\ Len(stack) # 0
  OBVIOUS
<1>2. stack[Len(stack)] \in S
  BY <1>1
<1>3. /\ SubSeq(stack, 1, Len(stack) - 1) \in Seq(S)
      /\ Len(SubSeq(stack, 1, Len(stack) - 1)) = Len(stack) - 1
      /\ \A i \in 1 .. Len(stack) - 1 : SubSeq(stack, 1, Len(stack) - 1)[i] = stack[i]
  <2>1. \A i \in 1 .. Len(stack) - 1 : stack[i] \in S
    BY <1>1
  <2>2. PICK n \in Nat : n = Len(stack) - 1
    BY <1>1
  <2>3. n - 1 + 1 = n /\ (~(1 <= n) => n = 0)
    OBVIOUS
  <2>4. /\ SubSeq(stack, 1, n) \in Seq(S)
        /\ Len(SubSeq(stack, 1, n)) = IF 1 <= n THEN n - 1 + 1 ELSE 0
        /\ \A i \in 1 .. n - 1 + 1 : SubSeq(stack, 1, n)[i] = stack[1 + i - 1]
    BY <2>1, <2>2, SubSeqProperties
  <2>5. \A i \in 1 .. n : 1 + i - 1 = i
    OBVIOUS
  <2>6. QED
    BY <2>2, <2>3, <2>4, <2>5
<1>4. QED
  BY <1>2, <1>3 DEF Below

LEMMA BracketedType ==
  ASSUME NEW open \in Seq(Tokens), NEW type \in Tokens
  PROVE  /\ Bracketed(open, type) \in Seq(Tokens)
         /\ Len(Bracketed(open, type)) >= Len(open) - 1
         /\ type \notin Closes => Len(Bracketed(open, type)) >= Len(open)
         /\ type \in Opens => Bracketed(open, type) = Append(open, type)
         /\ type \notin Opens \cup Closes => Bracketed(open, type) = open
<1>1. Opens \cap Closes = {}
  BY DEF Opens, Closes
<1>2. open # <<>> => Below(open) \in Seq(Tokens) /\ Len(Below(open)) = Len(open) - 1
  BY Popped
<1>3. Append(open, type) \in Seq(Tokens) /\ Len(Append(open, type)) = Len(open) + 1
  OBVIOUS
<1>4. QED
  BY <1>1, <1>2, <1>3 DEF Bracketed

(* An object that is opened and closed at once leaves the brackets alone.  *)
LEMMA OpenedAndClosed ==
  ASSUME NEW open \in Seq(Tokens)
  PROVE  Bracketed(Bracketed(open, "OBJECT_OPEN"), "OBJECT_CLOSE") = open
<1> DEFINE one == Append(open, "OBJECT_OPEN")
<1>1. "OBJECT_OPEN" \in Tokens
  BY DEF Tokens, Opens
<1>2. Bracketed(open, "OBJECT_OPEN") = one
  BY <1>1, BracketedType DEF Opens
<1>3. one \in Seq(Tokens) /\ one # <<>> /\ one[Len(one)] = "OBJECT_OPEN" /\ Below(one) = open
  BY <1>1 DEF Below
<1> HIDE DEF one
<1>4. QED
  BY <1>2, <1>3 DEF Bracketed, Opens, Closes, Closing

(* Wrong stays wrong, and a state that is not wrong comes from one that is *)
(* not.                                                                    *)
LEMMA TakenType ==
  ASSUME NEW state \in States, NEW type \in Tokens
  PROVE  /\ Taken(state, type) \in States
         /\ state = Wrong => Taken(state, type) = Wrong
<1>1. CASE state = Wrong
  BY <1>1 DEF Taken, Wrong, States
<1>2. CASE state # Wrong
  <2>1. state.open \in Seq(Opens) /\ state.expect \in Expects
    BY <1>2 DEF States
  <2>2. state.open # <<>> => Below(state.open) \in Seq(Opens)
    BY <2>1, Popped
  <2>3. \A open \in Seq(Opens), expect \in Expects \ {"value_or_close", "key_or_close"} :
          State(open, expect) \in States
    BY DEF States, State
  <2>4. ASSUME type \in Opens
        PROVE  /\ type = "ARRAY_OPEN" => State(Append(state.open, type), "value_or_close") \in States
               /\ type = "OBJECT_OPEN" => State(Append(state.open, type), "key_or_close") \in States
    <3>1. PICK more : more = Append(state.open, type)
      OBVIOUS
    <3>2. more \in Seq(Opens) /\ more # <<>> /\ more[Len(more)] = type
      BY <2>1, <2>4, <3>1
    <3>3. QED
      BY <3>1, <3>2 DEF States, State, Innermost, Expects
  <2>5. "ARRAY_OPEN" \in Opens /\ "OBJECT_OPEN" \in Opens /\ Wrong \in States
    BY DEF Opens, States
  <2>6. QED
    BY <1>2, <2>1, <2>2, <2>3, <2>4, <2>5 DEF Taken, Expects
<1>3. QED
  BY <1>1, <1>2

(* The recursion that defines Run has one solution.                        *)
LEMMA RunIs ==
  ASSUME NEW s \in Seq(Tokens), NEW q, IsRun(q, s)
  PROVE  Run(s) = q
<1> DEFINE Step(f) == [n \in 0 .. Len(s) |->
                         IF n = 0 THEN Begun ELSE Taken(f[n - 1], s[n])]
<1>1. Len(s) \in Nat
  OBVIOUS
<1>2. q = Step(q)
  <2>1. q = [n \in 0 .. Len(s) |-> q[n]]
    BY DEF IsRun
  <2>2. \A n \in 0 .. Len(s) : q[n] = IF n = 0 THEN Begun ELSE Taken(q[n - 1], s[n])
    BY <1>1 DEF IsRun
  <2>3. QED
    BY <2>1, <2>2
<1>3. Run(s) = Step(Run(s))
  <2>1. Run(s) = CHOOSE f : f = Step(f)
    BY Zenon DEF Run
  <2> HIDE DEF Step
  <2>2. QED
    BY <1>2, <2>1
<1>4. PICK g : g = Run(s)
  OBVIOUS
<1>5. g = Step(g)
  BY <1>3, <1>4
<1>6. \A n \in 0 .. Len(s) : g[n] = q[n]
  <2> DEFINE Differs == {n \in 0 .. Len(s) : g[n] # q[n]}
  <2>1. SUFFICES ASSUME Differs # {} PROVE FALSE
    OBVIOUS
  <2>2. Differs \subseteq Nat
    BY <1>1
  <2>3. PICK n \in Differs : \A m \in Differs : n <= m
    BY <2>1, <2>2, LeastNatural
  <2>4. n \in 0 .. Len(s) /\ g[n] # q[n]
    OBVIOUS
  <2>5. g[0] = q[0]
    BY <1>1, <1>2, <1>5
  <2>6. n # 0 /\ n \in 1 .. Len(s) /\ n - 1 \in 0 .. Len(s) /\ ~(n <= n - 1)
    BY <1>1, <2>4, <2>5
  <2>7. g[n - 1] = q[n - 1]
    BY <2>3, <2>6
  <2>8. g[n] = Taken(g[n - 1], s[n]) /\ q[n] = Taken(q[n - 1], s[n])
    BY <1>2, <1>5, <2>4, <2>6
  <2>9. QED
    BY <2>4, <2>7, <2>8
<1>7. g = [n \in 0 .. Len(s) |-> g[n]] /\ q = [n \in 0 .. Len(s) |-> q[n]]
  BY <1>5 DEF IsRun
<1>8. QED
  BY <1>4, <1>6, <1>7

(***************************************************************************)
(* A stream that the code has checked.                                     *)

Before(s, n) == IF n = 1 THEN "JSON_UNKNOWN" ELSE s[n - 1]

(* What the grammar can expect after a token.                              *)
Expected(type) ==
    CASE type \in {"JSON_UNKNOWN", "ASSIGN"} -> {"value"}
      [] type = "COMMA"          -> {"value", "key"}
      [] type = "OBJECT_OPEN"    -> {"key_or_close"}
      [] type = "ARRAY_OPEN"     -> {"value_or_close"}
      [] type = "LITERAL_STRING" -> {"colon", "delimiter"}
      [] OTHER                   -> {"delimiter"}

Checked(s, tr, run) ==
    /\ s \in Seq(Tokens)
    /\ IsTrail(tr, s) /\ IsRun(run, s)
    /\ \A n \in 1 .. Len(s) : s[n] \in Follows(Before(s, n))
    /\ \A n \in 0 .. Len(s) : run[n] # Wrong =>
          run[n].open = tr[n] /\ run[n].expect \in Expected(Before(s, n + 1))
    /\ \A n \in 0 .. Len(s), m \in 0 .. Len(s) : m <= n /\ run[n] # Wrong => run[m] # Wrong

(* What the grammar takes the code takes too, and it counts the brackets   *)
(* alike.                                                                  *)
LEMMA CodeTakes ==
  ASSUME NEW state \in States, NEW type \in Tokens,
         NEW before \in Tokens \cup {"JSON_UNKNOWN"},
         state.expect \in Expected(before),
         Taken(state, type) # Wrong
  PROVE  /\ type \in Follows(before)
         /\ Taken(state, type).open = Bracketed(state.open, type)
         /\ Taken(state, type).expect \in Expected(type)
<1>0. state # Wrong
  BY TakenType
<1>1. state.open \in Seq(Opens) /\ state.expect \in Expects
  BY <1>0 DEF States
<1>2. \A open, expect : State(open, expect).open = open /\ State(open, expect).expect = expect
  BY DEF State
<1>3. CASE state.expect \in {"value", "value_or_close"} /\ type \in Literals
  <2>1. Taken(state, type) = State(state.open, "delimiter")
    BY <1>3 DEF Taken, Closing, Literals
  <2>2. Bracketed(state.open, type) = state.open
    BY <1>3 DEF Bracketed, Literals, Opens, Closes
  <2>3. type \in Follows(before)
    BY <1>3 DEF Follows, Expected, Literals, Tokens
  <2>4. QED
    <3>1. "delimiter" \in Expected(type)
      BY <1>3 DEF Expected, Literals
    <3>2. QED
      BY <1>2, <2>1, <2>2, <2>3, <3>1
<1>4. CASE state.expect \in {"value", "value_or_close"} /\ type \in Opens
  <2>1. Taken(state, type) = State(Append(state.open, type),
                                   IF type = "ARRAY_OPEN" THEN "value_or_close" ELSE "key_or_close")
    BY <1>4 DEF Taken, Closing, Literals, Opens
  <2>2. Bracketed(state.open, type) = Append(state.open, type)
    BY <1>4 DEF Bracketed, Opens, Closes
  <2>3. type \in Follows(before)
    BY <1>4 DEF Follows, Expected, Tokens
  <2>4. QED
    <3>1. (IF type = "ARRAY_OPEN" THEN "value_or_close" ELSE "key_or_close") \in Expected(type)
      BY <1>4 DEF Expected, Opens
    <3>2. QED
      BY ZenonT(60), <1>2, <2>1, <2>2, <2>3, <3>1
<1>5. CASE state.expect \in {"key", "key_or_close"} /\ type = "LITERAL_STRING"
  <2>1. Taken(state, type) = State(state.open, "colon")
    BY <1>5 DEF Taken, Closing, Literals
  <2>2. Bracketed(state.open, type) = state.open
    BY <1>5 DEF Bracketed, Opens, Closes
  <2>3. type \in Follows(before)
    BY <1>5 DEF Follows, Expected, Literals
  <2>4. QED
    <3>1. "colon" \in Expected(type)
      BY <1>5 DEF Expected
    <3>2. QED
      BY <1>2, <2>1, <2>2, <2>3, <3>1
<1>6. CASE state.expect = "colon" /\ type = "ASSIGN"
  <2>1. Taken(state, type) = State(state.open, "value")
    BY <1>6 DEF Taken, Literals
  <2>2. Bracketed(state.open, type) = state.open
    BY <1>6 DEF Bracketed, Opens, Closes
  <2>3. type \in Follows(before)
    BY <1>6 DEF Follows, Expected
  <2>4. QED
    BY <1>2, <1>6, <2>1, <2>2, <2>3 DEF Expected
<1>7. CASE state.expect = "delimiter" /\ type = "COMMA"
  <2>1. Taken(state, type) = State(state.open,
          IF state.open[Len(state.open)] = "OBJECT_OPEN" THEN "key" ELSE "value")
    BY <1>7 DEF Taken, Literals, Closing
  <2>2. Bracketed(state.open, type) = state.open
    BY <1>7 DEF Bracketed, Opens, Closes
  <2>3. type \in Follows(before)
    BY <1>7 DEF Follows, Expected
  <2>4. QED
    BY <1>2, <1>7, <2>1, <2>2, <2>3 DEF Expected
<1>8. CASE /\ state.expect \in {"value_or_close", "key_or_close", "delimiter"}
           /\ state.open # <<>> /\ type = Closing(Innermost(state.open))
  <2>1. Innermost(state.open) \in Opens
    BY <1>1, <1>8, Popped DEF Innermost
  <2>2. type \in Closes
    BY <1>8 DEF Closing, Closes
  <2>3. Taken(state, type) = State(Below(state.open), "delimiter")
    BY <1>8, <2>2 DEF Taken, Literals, Closes, Innermost
  <2>4. Bracketed(state.open, type) = Below(state.open)
    BY <1>8, <2>1, <2>2 DEF Bracketed, Innermost
  <2>5. type \in Follows(before)
    <3>1. state.expect = "value_or_close" => type = "ARRAY_CLOSE" /\ before = "ARRAY_OPEN"
      BY <1>0, <1>8 DEF States, Closing, Expected
    <3>2. state.expect = "key_or_close" => type = "OBJECT_CLOSE" /\ before = "OBJECT_OPEN"
      BY <1>0, <1>8 DEF States, Closing, Expected
    <3>3. state.expect = "delimiter" => before \notin {"JSON_UNKNOWN", "ASSIGN", "COMMA", "OBJECT_OPEN", "ARRAY_OPEN"}
      BY DEF Expected
    <3>4. QED
      BY <1>8, <2>2, <3>1, <3>2, <3>3 DEF Follows
  <2>6. QED
    <3>1. "delimiter" \in Expected(type)
      BY <2>2 DEF Expected, Closes
    <3>2. QED
      BY <1>2, <2>3, <2>4, <2>5, <3>1
<1>9. QED
  BY <1>0, <1>3, <1>4, <1>5, <1>6, <1>7, <1>8 DEF Taken, Opens, Innermost

LEMMA CheckedAtFirst ==
  ASSUME NEW tr, NEW run, tr = [n \in {0} |-> <<>>], run = [n \in {0} |-> Begun]
  PROVE  Checked(<<>>, tr, run)
<1>1. Begun \in States /\ <<>> \in Seq(Tokens)
  <2>1. <<>> \in Seq(Opens) /\ <<>> \in Seq(Tokens)
    OBVIOUS
  <2>2. Begun.expect = "value"
    BY DEF Begun
  <2>3. Begun \in [open : Seq(Opens), expect : Expects]
    BY <2>1 DEF Begun, Expects
  <2>4. QED
    BY <2>1, <2>2, <2>3 DEF States
<1>2. Len(<<>>) = 0 /\ 0 .. 0 = {0} /\ 1 .. 0 = {}
  OBVIOUS
<1>3. IsTrail(tr, <<>>) /\ IsRun(run, <<>>)
  BY <1>1, <1>2 DEF IsTrail, IsRun
<1>4. Begun.open = <<>> /\ Begun.expect \in Expected(Before(<<>>, 0 + 1))
  BY DEF Begun, Expected, Before
<1>5. QED
  BY <1>1, <1>2, <1>3, <1>4 DEF Checked

(* One token more.                                                         *)
LEMMA CheckedMore ==
  ASSUME NEW s, NEW tr, NEW run, Checked(s, tr, run),
         NEW type \in Tokens, NEW n, n = Len(s) + 1
  PROVE  \E tr2, run2 :
            /\ IsRun(run2, Append(s, type))
            /\ type \notin Follows(Before(s, n)) => run2[n] = Wrong
            /\ type \in Follows(Before(s, n)) =>
                  /\ Checked(Append(s, type), tr2, run2)
                  /\ tr2[n] = Bracketed(tr[n - 1], type)
<1> DEFINE s2   == Append(s, type)
           tr2  == [k \in 0 .. n |-> IF k < n THEN tr[k] ELSE Bracketed(tr[n - 1], type)]
           run2 == [k \in 0 .. n |-> IF k < n THEN run[k] ELSE Taken(run[n - 1], type)]
<1>1. /\ Len(s) \in Nat /\ n \in Nat \ {0} /\ n - 1 = Len(s)
      /\ s \in Seq(Tokens)
  BY DEF Checked
<1>2. /\ s2 \in Seq(Tokens) /\ Len(s2) = n /\ s2[n] = type
      /\ \A k \in 1 .. n - 1 : s2[k] = s[k]
  BY <1>1
<1>3. /\ tr[n - 1] \in Seq(Tokens) /\ run[n - 1] \in States
      /\ Bracketed(tr[n - 1], type) \in Seq(Tokens) /\ Taken(run[n - 1], type) \in States
  <2>1. n - 1 \in 0 .. Len(s)
    BY <1>1
  <2>2. tr[n - 1] \in Seq(Tokens) /\ run[n - 1] \in States
    BY <2>1 DEF Checked, IsTrail, IsRun
  <2>3. QED
    BY <2>2, BracketedType, TakenType
<1>4. \A k \in 0 .. n : k < n => k \in 0 .. Len(s)
  BY <1>1
<1>5. /\ tr2[n] = Bracketed(tr[n - 1], type) /\ \A k \in 0 .. n - 1 : tr2[k] = tr[k]
      /\ run2[n] = Taken(run[n - 1], type) /\ \A k \in 0 .. n - 1 : run2[k] = run[k]
  BY <1>1
<1> HIDE DEF s2
<1>6. tr2 \in [0 .. n -> Seq(Tokens)] /\ run2 \in [0 .. n -> States]
  BY <1>1, <1>3, <1>4 DEF Checked, IsTrail, IsRun
<1> HIDE DEF tr2, run2
<1>7. \A k \in 1 .. n : k < n => k \in 1 .. Len(s) /\ k - 1 \in 0 .. n - 1 /\ k \in 0 .. n - 1
  BY <1>1
<1>8. 0 \in 0 .. n - 1 /\ n - 1 \in 0 .. n - 1
  BY <1>1
<1>9. IsRun(run2, s2)
  <2>1. ASSUME NEW k \in 1 .. n PROVE run2[k] = Taken(run2[k - 1], s2[k])
    <3>1. CASE k < n
      BY <3>1, <1>2, <1>5, <1>7, <1>1 DEF Checked, IsRun
    <3>2. CASE k = n
      BY <3>2, <1>2, <1>5, <1>8
    <3>3. QED
      BY <3>1, <3>2, <1>1
  <2>2. run2[0] = Begun
    BY <1>5, <1>8 DEF Checked, IsRun
  <2>3. QED
    BY <1>2, <1>6, <2>1, <2>2 DEF IsRun
<1>10. IsTrail(tr2, s2)
  <2>1. ASSUME NEW k \in 1 .. n PROVE tr2[k] = Bracketed(tr2[k - 1], s2[k])
    <3>1. CASE k < n
      BY <3>1, <1>2, <1>5, <1>7, <1>1 DEF Checked, IsTrail
    <3>2. CASE k = n
      BY <3>2, <1>2, <1>5, <1>8
    <3>3. QED
      BY <3>1, <3>2, <1>1
  <2>2. tr2[0] = <<>>
    BY <1>5, <1>8 DEF Checked, IsTrail
  <2>3. QED
    BY <1>2, <1>6, <2>1, <2>2 DEF IsTrail
<1>11. Before(s, n) \in Tokens \cup {"JSON_UNKNOWN"}
  BY <1>1 DEF Before
<1>12. run[n - 1] # Wrong => /\ run[n - 1].open = tr[n - 1]
                             /\ run[n - 1].expect \in Expected(Before(s, n))
  <2>1. n - 1 + 1 = n /\ n - 1 \in 0 .. Len(s)
    BY <1>1
  <2>2. QED
    BY <2>1 DEF Checked
<1>13. run2[n] # Wrong => /\ run[n - 1] # Wrong
                          /\ type \in Follows(Before(s, n))
                          /\ run2[n].open = tr2[n]
                          /\ run2[n].expect \in Expected(type)
  <2>1. run2[n] # Wrong => run[n - 1] # Wrong
    BY <1>3, <1>5, TakenType
  <2>2. QED
    BY <2>1, <1>3, <1>5, <1>11, <1>12, CodeTakes
<1>14. ASSUME type \in Follows(Before(s, n)) PROVE Checked(s2, tr2, run2)
  <2>1. \A k \in 1 .. n : Before(s2, k) = Before(s, k)
    BY <1>1, <1>2 DEF Before
  <2>2. Before(s2, n + 1) = type
    BY <1>1, <1>2 DEF Before
  <2>3. ASSUME NEW k \in 1 .. n PROVE s2[k] \in Follows(Before(s2, k))
    <3>1. CASE k < n
      BY <3>1, <1>1, <1>2, <1>7, <2>1 DEF Checked
    <3>2. CASE k = n
      BY <3>2, <1>14, <1>2, <2>1
    <3>3. QED
      BY <3>1, <3>2, <1>1
  <2>4. ASSUME NEW k \in 0 .. n, run2[k] # Wrong
        PROVE  run2[k].open = tr2[k] /\ run2[k].expect \in Expected(Before(s2, k + 1))
    <3>1. CASE k < n
      <4>1. k \in 0 .. n - 1 /\ k \in 0 .. Len(s) /\ k + 1 \in 1 .. n
        BY <3>1, <1>1
      <4>2. QED
        BY <4>1, <1>5, <2>1, <2>4 DEF Checked
    <3>2. CASE k = n
      BY <3>2, <1>13, <2>2, <2>4
    <3>3. QED
      BY <3>1, <3>2, <1>1
  <2>5. ASSUME NEW k \in 0 .. n, NEW m \in 0 .. n, m <= k, run2[k] # Wrong
        PROVE  run2[m] # Wrong
    <3>1. CASE k < n
      <4>1. k \in 0 .. n - 1 /\ m \in 0 .. n - 1 /\ k \in 0 .. Len(s) /\ m \in 0 .. Len(s)
        BY <3>1, <2>5, <1>1
      <4>2. QED
        BY <4>1, <1>5, <2>5 DEF Checked
    <3>2. CASE k = n /\ m < n
      <4>1. m \in 0 .. n - 1 /\ m \in 0 .. Len(s) /\ n - 1 \in 0 .. Len(s) /\ m <= n - 1
        BY <3>2, <1>1
      <4>2. run[n - 1] # Wrong
        BY <3>2, <1>13, <2>5
      <4>3. QED
        BY <4>1, <4>2, <1>5 DEF Checked
    <3>3. CASE k = n /\ m = n
      BY <3>3, <2>5
    <3>4. QED
      BY <3>1, <3>2, <3>3, <1>1
  <2>6. QED
    BY <1>2, <1>9, <1>10, <2>3, <2>4, <2>5 DEF Checked
<1>15. QED
  BY <1>5, <1>9, <1>13, <1>14 DEF s2

(***************************************************************************)
(* The parser on a checked stream.                                         *)

(* How the brackets change from token to token.                            *)
LEMMA Depth ==
  ASSUME NEW s, NEW tr, NEW run, Checked(s, tr, run), NEW i \in 1 .. Len(s)
  PROVE  /\ i - 1 \in 0 .. Len(s) /\ i \in 0 .. Len(s) /\ s[i] \in Tokens
         /\ Len(tr[i - 1]) \in Nat /\ Len(tr[i]) \in Nat
         /\ Len(tr[i]) >= Len(tr[i - 1]) - 1
         /\ s[i] \notin Closes => Len(tr[i]) >= Len(tr[i - 1])
         /\ s[i] \in Opens => Len(tr[i]) = Len(tr[i - 1]) + 1
         /\ s[i] \notin Opens \cup Closes => tr[i] = tr[i - 1]
         /\ s[i] \in Closes /\ tr[i - 1] # <<>> /\ Innermost(tr[i - 1]) \in Opens
               /\ Closing(Innermost(tr[i - 1])) # s[i] => Len(tr[i]) >= Len(tr[i - 1])
<1>1. i - 1 \in 0 .. Len(s) /\ i \in 0 .. Len(s) /\ Len(s) \in Nat
  BY DEF Checked
<1>2. /\ tr[i - 1] \in Seq(Tokens) /\ tr[i] \in Seq(Tokens) /\ s[i] \in Tokens
      /\ tr[i] = Bracketed(tr[i - 1], s[i])
  BY <1>1 DEF Checked, IsTrail
<1> DEFINE open == tr[i - 1]
           type == s[i]
<1>3. open \in Seq(Tokens) /\ type \in Tokens /\ tr[i] = Bracketed(open, type)
  BY <1>2
<1> HIDE DEF open, type
<1>4. /\ Len(tr[i]) >= Len(open) - 1
      /\ type \notin Closes => Len(tr[i]) >= Len(open)
      /\ type \in Opens => tr[i] = Append(open, type)
      /\ type \notin Opens \cup Closes => tr[i] = open
  BY <1>3, BracketedType
<1>5. Len(Append(open, type)) = Len(open) + 1 /\ Len(open) \in Nat
  BY <1>3
<1>6. ASSUME type \in Closes, open # <<>>, Closing(Innermost(open)) # type
      PROVE  Len(tr[i]) >= Len(open)
  <2>1. Bracketed(open, type) = Append(open, type)
    BY <1>6 DEF Bracketed, Innermost
  <2>2. QED
    BY <2>1, <1>3, <1>5
<1>7. QED
  BY <1>1, <1>2, <1>4, <1>5, <1>6 DEF open, type

LEMMA EmptyObject ==
  ASSUME NEW s, NEW tr, NEW run, Checked(s, tr, run), NEW i \in 1 .. Len(s),
         s[i] = "OBJECT_OPEN", i + 1 <= Len(s), s[i + 1] = "OBJECT_CLOSE"
  PROVE  tr[i + 1] = tr[i - 1]
<1>1. /\ i - 1 \in 0 .. Len(s) /\ i \in 1 .. Len(s) /\ i + 1 \in 1 .. Len(s)
      /\ i + 1 - 1 = i
  BY DEF Checked
<1>2. /\ tr[i - 1] \in Seq(Tokens)
      /\ tr[i] = Bracketed(tr[i - 1], s[i]) /\ tr[i + 1] = Bracketed(tr[i], s[i + 1])
  BY <1>1 DEF Checked, IsTrail
<1>3. QED
  BY <1>2, OpenedAndClosed

(* Where the parser stands exactly as the grammar does.                    *)
Aligned(s, run, i, open, next) ==
    LET state == run[i - 1]
    IN  /\ state # Wrong /\ open = state.open
        /\ next = "element" => state.expect \in {"value", "value_or_close"}
        /\ next = "member"  => state.expect \in {"key", "key_or_close"}
        /\ next = "value"   => state.expect = "value"
        /\ next = "delimiter" => state.expect \in {"delimiter", "value_or_close"}
        /\ next = "member" /\ state.expect = "key_or_close" /\ i <= Len(s) =>
              s[i] # "OBJECT_CLOSE"
        /\ next = "delimiter" /\ state.expect = "value_or_close" =>
              i <= Len(s) /\ s[i] = "ARRAY_CLOSE"

(* It has left a container whose bracket is still to be closed.            *)
Behind(tr, i, open) == Len(open) < Len(tr[i - 1])

Parsed == State(<<>>, "delimiter")

Parsing(s, tr, run, i, open, next) ==
    /\ Checked(s, tr, run) /\ tr[Len(s)] = <<>>
    /\ i \in 1 .. Len(s) + 1 /\ open \in Seq(Opens)
    /\ next \in {"element", "member", "value", "delimiter"}
    /\ next = "member" => open # <<>>
    /\ Aligned(s, run, i, open, next) \/ Behind(tr, i, open)
    /\ run[Len(s)] = Parsed => Aligned(s, run, i, open, next)

(* Facts about a state that is aligned.                                    *)
LEMMA AlignedState ==
  ASSUME NEW s, NEW tr, NEW run, NEW i, NEW open, NEW next,
         Parsing(s, tr, run, i, open, next), Aligned(s, run, i, open, next),
         NEW state, state = run[i - 1]
  PROVE  /\ state \in States /\ state # Wrong /\ state.open = open
         /\ state.expect \in Expected(Before(s, i))
         /\ tr[i - 1] = open
         /\ i <= Len(s) => /\ i \in 1 .. Len(s) /\ s[i] \in Follows(Before(s, i))
                           /\ run[i] = Taken(state, s[i])
         /\ i <= Len(s) /\ run[Len(s)] = Parsed => run[i] # Wrong
<1>1. Len(s) \in Nat /\ i \in 1 .. Len(s) + 1
  BY DEF Parsing, Checked
<1>2. i - 1 \in 0 .. Len(s) /\ i - 1 + 1 = i /\ Len(s) \in 0 .. Len(s)
  BY <1>1
<1>3. state \in States /\ state # Wrong /\ state.open = open
  BY <1>2 DEF Parsing, Checked, IsRun, Aligned
<1>4. state.open = tr[i - 1] /\ state.expect \in Expected(Before(s, i))
  BY <1>2, <1>3 DEF Parsing, Checked
<1>5. ASSUME i <= Len(s)
      PROVE  /\ i \in 1 .. Len(s) /\ s[i] \in Follows(Before(s, i))
             /\ run[i] = Taken(state, s[i])
             /\ run[Len(s)] = Parsed => run[i] # Wrong
  <2>1. i \in 1 .. Len(s) /\ i \in 0 .. Len(s)
    BY <1>1, <1>5
  <2>2. Parsed # Wrong
    BY DEF Parsed, State, Wrong
  <2>3. QED
    BY <2>1, <2>2, <1>2, <1>5 DEF Parsing, Checked, IsRun
<1>6. QED
  BY <1>3, <1>4, <1>5

(* Within a container, and where the parser is behind, more must come.     *)
LEMMA MoreComes ==
  ASSUME NEW s, NEW tr, NEW run, NEW i, NEW open, NEW next,
         Parsing(s, tr, run, i, open, next)
  PROVE  /\ open # <<>> => i <= Len(s)
         /\ Behind(tr, i, open) => i <= Len(s)
         /\ i <= Len(s) => i \in 1 .. Len(s)
<1>1. Len(s) \in Nat /\ i \in 1 .. Len(s) + 1 /\ Len(open) \in Nat
  BY DEF Parsing, Checked
<1>2. Behind(tr, i, open) => i <= Len(s)
  <2>1. SUFFICES ASSUME Behind(tr, i, open), ~(i <= Len(s)) PROVE FALSE
    OBVIOUS
  <2>2. i - 1 = Len(s)
    BY <1>1, <2>1
  <2>3. Len(tr[i - 1]) = 0
    BY <2>2 DEF Parsing
  <2>4. QED
    BY <1>1, <2>1, <2>3 DEF Behind
<1>3. open # <<>> /\ Aligned(s, run, i, open, next) => i <= Len(s)
  <2>1. SUFFICES ASSUME open # <<>>, Aligned(s, run, i, open, next), ~(i <= Len(s)) PROVE FALSE
    OBVIOUS
  <2>2. i - 1 = Len(s)
    BY <1>1, <2>1
  <2>3. tr[i - 1] = open
    BY <2>1, AlignedState
  <2>4. QED
    BY <2>1, <2>2, <2>3 DEF Parsing
<1>4. QED
  BY <1>1, <1>2, <1>3 DEF Parsing

(* What the grammar makes of the tokens the parser looks at.               *)
LEMMA ValueTaken ==
  ASSUME NEW state \in States, NEW type \in Tokens,
         state.expect \in {"value", "value_or_close"}
  PROVE  /\ type \in Literals => Taken(state, type) = State(state.open, "delimiter")
         /\ type = "ARRAY_OPEN" =>
              Taken(state, type) = State(Append(state.open, type), "value_or_close")
         /\ type = "OBJECT_OPEN" =>
              Taken(state, type) = State(Append(state.open, type), "key_or_close")
  BY DEF Taken, Closing, Literals, Opens

LEMMA ClosingTaken ==
  ASSUME NEW state \in States, NEW type \in Closes,
         state.expect \in {"value_or_close", "key_or_close", "delimiter"},
         state.open # <<>>
  PROVE  Taken(state, type) = IF type = Closing(Innermost(state.open))
                              THEN State(Below(state.open), "delimiter") ELSE Wrong
  BY DEF Taken, Literals, Closes, Innermost

LEMMA KeyTaken ==
  ASSUME NEW state \in States, NEW type \in Tokens,
         state.expect \in {"key", "key_or_close"}
  PROVE  /\ type = "LITERAL_STRING" => Taken(state, type) = State(state.open, "colon")
         /\ Taken(state, type) # Wrong =>
              \/ type = "LITERAL_STRING"
              \/ state.expect = "key_or_close" /\ type = "OBJECT_CLOSE"
<1>1. state # Wrong
  <2>1. Wrong.expect = "nothing"
    BY DEF Wrong
  <2>2. QED
    BY <2>1
<1>2. state.expect = "key_or_close" => Innermost(state.open) = "OBJECT_OPEN"
  BY <1>1 DEF States
<1>3. QED
  BY <1>2 DEF Taken, Closing, Literals, Innermost

LEMMA ColonTaken ==
  ASSUME NEW state \in States, NEW type \in Tokens, state.expect = "colon"
  PROVE  /\ type = "ASSIGN" => Taken(state, type) = State(state.open, "value")
         /\ Taken(state, type) # Wrong => type = "ASSIGN"
  BY DEF Taken

LEMMA DelimiterTaken ==
  ASSUME NEW state \in States, NEW type \in Tokens, state.expect = "delimiter"
  PROVE  /\ type = "COMMA" /\ state.open # <<>> =>
              Taken(state, type) =
                 State(state.open, IF Innermost(state.open) = "OBJECT_OPEN" THEN "key" ELSE "value")
         /\ Taken(state, type) # Wrong =>
              state.open # <<>> /\ (type = "COMMA" \/ type = Closing(Innermost(state.open)))
  BY DEF Taken, Closing, Innermost

LEMMA StateFields == \A open, expect : /\ State(open, expect).open = open
                                       /\ State(open, expect).expect = expect
                                       /\ expect # "nothing" => State(open, expect) # Wrong
BY DEF State, Wrong

(* A value is read: a literal, an empty object, or the token that begins a *)
(* container.                                                              *)
LEMMA ReadValueParses ==
  ASSUME NEW tr, NEW run, Parsing(stream, tr, run, at, calls, status),
         status \in {"element", "value"},
         at <= Len(stream), stream[at] \in Literals \cup Opens,
         ReadValue
  PROVE  Parsing(stream, tr, run, at', calls', status')
<1> DEFINE s == stream
           i == at
           type == stream[at]
           state == run[at - 1]
           emptyObject == type = "OBJECT_OPEN" /\ TokenAt(at + 1) = "OBJECT_CLOSE"
<1>1. /\ i \in 1 .. Len(s) /\ Len(s) \in Nat /\ Checked(s, tr, run) /\ calls \in Seq(Opens)
      /\ s \in Seq(Tokens) /\ type \in Tokens
  BY DEF Parsing, Checked
<1>2. /\ Len(calls) \in Nat /\ Len(tr[i - 1]) \in Nat /\ Len(tr[i]) \in Nat
      /\ type \in Opens => Len(tr[i]) = Len(tr[i - 1]) + 1
      /\ type \notin Opens \cup Closes => tr[i] = tr[i - 1]
  BY SMTT(40), <1>1, Depth
<1>3. emptyObject => i + 1 <= Len(s) /\ s[i + 1] = "OBJECT_CLOSE" /\ tr[i + 1] = tr[i - 1]
  <2>1. emptyObject => i + 1 <= Len(s) /\ s[i + 1] = "OBJECT_CLOSE"
    BY DEF TokenAt
  <2>2. QED
    BY <1>1, <2>1, EmptyObject
<1>4. ASSUME Aligned(s, run, i, calls, status)
      PROVE  /\ state \in States /\ state.open = calls /\ state # Wrong
             /\ state.expect \in {"value", "value_or_close"}
             /\ run[i] = Taken(state, type)
  <2>1. /\ state \in States /\ state.open = calls /\ state # Wrong
        /\ run[i] = Taken(state, type)
    BY <1>1, <1>4, AlignedState
  <2>2. QED
    BY <1>4, <2>1 DEF Aligned
<1>5. CASE type \in Literals
  <2>1. at' = i + 1 /\ calls' = calls /\ status' = "delimiter" /\ i + 1 - 1 = i
    BY <1>1, <1>5 DEF ReadValue, Literals
  <2>2. ASSUME Aligned(s, run, i, calls, status) PROVE Aligned(s, run, i + 1, calls, "delimiter")
    <3>1. run[i] = State(calls, "delimiter")
      BY <1>1, <1>4, <1>5, <2>2, ValueTaken
    <3>2. run[i].open = calls /\ run[i].expect = "delimiter" /\ run[i] # Wrong
      BY <3>1, StateFields
    <3>3. PICK j : j = i + 1
      OBVIOUS
    <3>4. run[j - 1] = run[i]
      BY <1>1, <3>3
    <3>5. Aligned(s, run, j, calls, "delimiter")
      BY <3>2, <3>4 DEF Aligned
    <3>6. QED
      BY <3>3, <3>5
  <2>3. Behind(tr, i, calls) => Behind(tr, i + 1, calls)
    BY <1>1, <1>2, <1>5, <2>1 DEF Behind, Literals, Opens, Closes
  <2>4. QED
    BY <1>1, <2>1, <2>2, <2>3 DEF Parsing
<1>6. CASE type \in Opens /\ ~emptyObject
  <2>1. PICK more : more = Append(calls, type)
    OBVIOUS
  <2>2. /\ more \in Seq(Opens) /\ more # <<>> /\ Len(more) = Len(calls) + 1
        /\ Innermost(more) = type
    BY <1>1, <1>6, <2>1 DEF Innermost
  <2>3. /\ at' = i + 1 /\ calls' = more /\ i + 1 - 1 = i
        /\ status' = IF type = "ARRAY_OPEN" THEN "element" ELSE "member"
    BY <1>1, <1>6, <2>1 DEF ReadValue, Enter, Opens
  <2>4. ASSUME Aligned(s, run, i, calls, status) PROVE Aligned(s, run, i + 1, more, status')
    <3>1. run[i] = State(more, IF type = "ARRAY_OPEN" THEN "value_or_close" ELSE "key_or_close")
      BY <1>1, <1>4, <1>6, <2>1, <2>4, ValueTaken DEF Opens
    <3>2. type = "OBJECT_OPEN" /\ i + 1 <= Len(s) => s[i + 1] # "OBJECT_CLOSE"
      BY <1>6 DEF TokenAt
    <3>3. /\ run[i].open = more /\ run[i] # Wrong
          /\ type = "ARRAY_OPEN" => run[i].expect = "value_or_close"
          /\ type = "OBJECT_OPEN" => run[i].expect = "key_or_close"
      BY <3>1, <1>6 DEF State, Wrong, Opens
    <3>4. PICK j : j = i + 1
      OBVIOUS
    <3>9. run[j - 1] = run[i]
      BY <1>1, <3>4
    <3>5. status' \in {"element", "member"} /\ (status' = "member" => type = "OBJECT_OPEN")
      BY <1>6, <2>3 DEF Opens
    <3>6. status' = "element" => type = "ARRAY_OPEN"
      BY <1>6, <2>3
    <3>7. Aligned(s, run, j, more, status')
      BY <3>2, <3>3, <3>4, <3>9, <3>5, <3>6 DEF Aligned
    <3>8. QED
      BY <3>4, <3>7
  <2>5. Behind(tr, i, calls) => Behind(tr, i + 1, more)
    BY <1>1, <1>2, <1>6, <2>2, <2>3 DEF Behind
  <2>6. QED
    BY <1>1, <2>2, <2>3, <2>4, <2>5 DEF Parsing
<1>7. CASE emptyObject
  <2>1. /\ at' = i + 2 /\ calls' = calls /\ status' = "delimiter" /\ i + 2 - 1 = i + 1
        /\ i + 2 \in 1 .. Len(s) + 1 /\ i + 1 \in 1 .. Len(s) /\ i + 1 - 1 = i
    BY <1>1, <1>3, <1>7 DEF ReadValue
  <2>2. ASSUME Aligned(s, run, i, calls, status) PROVE Aligned(s, run, i + 2, calls, "delimiter")
    <3>1. PICK more : more = Append(calls, type)
      OBVIOUS
    <3>2. more \in Seq(Opens) /\ more # <<>> /\ Innermost(more) = "OBJECT_OPEN" /\ Below(more) = calls
      BY <1>1, <1>7, <3>1 DEF Innermost, Below, Opens
    <3>3. run[i] = State(more, "key_or_close")
      BY <1>1, <1>4, <1>7, <2>2, <3>1, ValueTaken
    <3>4. run[i] \in States /\ run[i + 1] = Taken(run[i], s[i + 1])
      BY <1>1, <2>1 DEF Checked, IsRun
    <3>5. run[i + 1] = State(calls, "delimiter")
      <4>1. run[i].open = more /\ run[i].expect = "key_or_close"
        BY <3>3 DEF State
      <4>2. "OBJECT_CLOSE" \in Closes /\ Closing("OBJECT_OPEN") = "OBJECT_CLOSE"
        BY DEF Closing, Closes
      <4>3. s[i + 1] = "OBJECT_CLOSE"
        BY <1>3, <1>7
      <4>4. QED
        BY <3>2, <3>4, <4>1, <4>2, <4>3, ClosingTaken
    <3>6. run[i + 1].open = calls /\ run[i + 1].expect = "delimiter" /\ run[i + 1] # Wrong
      BY <3>5, StateFields
    <3>7. PICK j : j = i + 2
      OBVIOUS
    <3>8. run[j - 1] = run[i + 1]
      BY <1>1, <3>7
    <3>9. Aligned(s, run, j, calls, "delimiter")
      BY <3>6, <3>8 DEF Aligned
    <3>10. QED
      BY <3>7, <3>9
  <2>3. Behind(tr, i, calls) => Behind(tr, i + 2, calls)
    BY <1>1, <1>3, <1>7, <2>1 DEF Behind
  <2>4. QED
    BY <1>1, <2>1, <2>2, <2>3 DEF Parsing
<1>8. QED
  BY <1>5, <1>6, <1>7

(* What the grammar expects bounds what the automaton let through.         *)
LEMMA ExpectedTokens ==
  ASSUME NEW expect, NEW before, NEW type \in Tokens,
         expect \in Expected(before), type \in Follows(before)
  PROVE  /\ expect = "value" => type \in Literals \cup Opens
         /\ expect = "value_or_close" => type \in Literals \cup Opens \cup {"ARRAY_CLOSE"}
<1>1. expect = "value" => before \in {"JSON_UNKNOWN", "ASSIGN", "COMMA"}
  BY DEF Expected
<1>2. expect = "value_or_close" => before = "ARRAY_OPEN"
  BY DEF Expected
<1>3. QED
  BY <1>1, <1>2 DEF Follows

LEMMA ParseElementParses ==
  ASSUME NEW tr, NEW run, Parsing(stream, tr, run, at, calls, status), ParseElement
  PROVE  \/ Parsing(stream, tr, run, at', calls', status')
         \/ status' = "failed" /\ run[Len(stream)] # Parsed
<1> DEFINE type == stream[at]
<1>1. status = "element" /\ Len(stream) \in Nat /\ at \in 1 .. Len(stream) + 1
  BY DEF ParseElement, Parsing, Checked
<1>2. ASSUME Aligned(stream, run, at, calls, status), NEW here, here = run[at - 1]
      PROVE  /\ here.open = calls /\ here # Wrong /\ here \in States
             /\ here.expect \in {"value", "value_or_close"}
             /\ here.expect = "value_or_close" => calls # <<>>
             /\ at <= Len(stream) /\ here.expect = "value" => type \in Literals \cup Opens
             /\ at <= Len(stream) /\ here.expect = "value_or_close" =>
                  type \in Literals \cup Opens \cup {"ARRAY_CLOSE"}
  <2>1. /\ here \in States /\ here # Wrong /\ here.open = calls
        /\ here.expect \in Expected(Before(stream, at))
        /\ at <= Len(stream) => at \in 1 .. Len(stream) /\ type \in Follows(Before(stream, at))
    BY <1>2, AlignedState
  <2>2. here.expect \in {"value", "value_or_close"}
    BY <1>1, <1>2 DEF Aligned
  <2>3. here.expect = "value_or_close" => calls # <<>>
    BY <2>1 DEF States
  <2>4. at <= Len(stream) => type \in Tokens
    BY <2>1 DEF Parsing, Checked
  <2>5. QED
    BY <2>1, <2>2, <2>3, <2>4, ExpectedTokens
<1>3. CASE at > Len(stream)
  <2>1. ~(at <= Len(stream)) /\ at - 1 = Len(stream)
    BY <1>1, <1>3
  <2>2. calls = <<>>
    BY <2>1, MoreComes
  <2>3. status' = "failed"
    BY <1>3, <2>2 DEF ParseElement, Stop
  <2>4. ASSUME run[Len(stream)] = Parsed PROVE FALSE
    <3>1. Aligned(stream, run, at, calls, status)
      BY <2>4 DEF Parsing
    <3>2. Parsed.expect = "delimiter"
      BY DEF Parsed, State
    <3>3. QED
      BY <1>2, <2>1, <2>4, <3>1, <3>2
  <2>5. QED
    BY <2>3, <2>4
<1>4. CASE at <= Len(stream) /\ calls # <<>> /\ type \in Closes
  <2>1. at' = at /\ calls' = calls /\ status' = "delimiter"
    BY <1>1, <1>4 DEF ParseElement, Stop
  <2>2. ASSUME Aligned(stream, run, at, calls, status)
        PROVE  Aligned(stream, run, at, calls, "delimiter")
    <3>1. PICK here : here = run[at - 1]
      OBVIOUS
    <3>2. /\ here.open = calls /\ here # Wrong /\ here.expect = "value_or_close"
          /\ type = "ARRAY_CLOSE"
      BY <1>2, <1>4, <2>2, <3>1 DEF Closes, Literals, Opens
    <3>3. QED
      BY <1>4, <3>1, <3>2 DEF Aligned
  <2>3. QED
    BY <2>1, <2>2 DEF Parsing
<1>5. CASE /\ at <= Len(stream) /\ type \in Literals \cup Opens
           /\ ~(calls # <<>> /\ type \in Closes)
  <2>1. ReadValue
    BY <1>1, <1>5 DEF ParseElement
  <2>2. QED
    BY <1>1, <1>5, <2>1, ReadValueParses
<1>6. CASE /\ at <= Len(stream) /\ ~(calls # <<>> /\ type \in Closes)
           /\ type \notin Literals \cup Opens
  <2>1. at' = at /\ calls' = calls /\ status' = "delimiter"
    BY <1>1, <1>6 DEF ParseElement
  <2>2. ~Aligned(stream, run, at, calls, status)
    <3>1. SUFFICES ASSUME Aligned(stream, run, at, calls, status) PROVE FALSE
      OBVIOUS
    <3>2. PICK here : here = run[at - 1]
      OBVIOUS
    <3>3. QED
      BY <1>2, <1>6, <3>1, <3>2 DEF Closes
  <2>3. QED
    BY <2>1, <2>2 DEF Parsing
<1>7. QED
  BY <1>1, <1>3, <1>4, <1>5, <1>6

LEMMA ParseMemberParses ==
  ASSUME NEW tr, NEW run, Parsing(stream, tr, run, at, calls, status), ParseMember
  PROVE  \/ Parsing(stream, tr, run, at', calls', status')
         \/ status' = "failed" /\ run[Len(stream)] # Parsed
<1>1. /\ status = "member" /\ Len(stream) \in Nat /\ Checked(stream, tr, run)
      /\ calls \in Seq(Opens)
  BY DEF ParseMember, Parsing, Checked
<1>2. at <= Len(stream) /\ at \in 1 .. Len(stream) /\ stream[at] \in Tokens
  <2>1. at <= Len(stream) /\ at \in 1 .. Len(stream)
    BY <1>1, MoreComes DEF Parsing
  <2>2. QED
    BY <2>1 DEF Parsing, Checked
<1>3. ASSUME Aligned(stream, run, at, calls, status), NEW here, here = run[at - 1]
      PROVE  /\ here \in States /\ here.open = calls /\ run[at] = Taken(here, stream[at])
             /\ here.expect \in {"key", "key_or_close"}
             /\ here.expect = "key_or_close" => stream[at] # "OBJECT_CLOSE"
             /\ run[Len(stream)] = Parsed => run[at] # Wrong
  <2>1. /\ here \in States /\ here.open = calls /\ run[at] = Taken(here, stream[at])
        /\ run[Len(stream)] = Parsed => run[at] # Wrong
    BY <1>2, <1>3, AlignedState
  <2>2. QED
    BY <1>1, <1>2, <1>3, <2>1 DEF Aligned
<1>4. CASE TokenAt(at + 1) # "ASSIGN"
  <2>1. status' = "failed"
    BY <1>2, <1>4 DEF ParseMember, Stop
  <2>2. ASSUME run[Len(stream)] = Parsed PROVE FALSE
    <3>1. Aligned(stream, run, at, calls, status)
      BY <2>2 DEF Parsing
    <3>2. PICK here : here = run[at - 1]
      OBVIOUS
    <3>3. /\ here \in States /\ run[at] = Taken(here, stream[at]) /\ run[at] # Wrong
          /\ here.expect \in {"key", "key_or_close"}
          /\ here.expect = "key_or_close" => stream[at] # "OBJECT_CLOSE"
      BY <1>3, <2>2, <3>1, <3>2
    <3>4. run[at] = State(here.open, "colon")
      BY <1>2, <3>3, KeyTaken
    <3>5. run[at].expect = "colon" /\ Parsed.expect = "delimiter"
      BY <3>4 DEF Parsed, State
    <3>6. at + 1 \in 1 .. Len(stream) /\ at + 1 - 1 = at /\ at \in 0 .. Len(stream)
      <4>1. at # Len(stream)
        BY <2>2, <3>5
      <4>2. QED
        BY <1>1, <1>2, <4>1
    <3>7. PICK next : next = at + 1
      OBVIOUS
    <3>8. next \in 1 .. Len(stream) /\ next - 1 = at /\ next \in 0 .. Len(stream) /\ next <= Len(stream)
      BY <1>1, <3>6, <3>7
    <3>9. /\ run[at] \in States /\ stream[next] \in Tokens
          /\ run[next] = Taken(run[at], stream[next])
      BY <1>1, <3>6, <3>8 DEF Checked, IsRun
    <3>10. run[next] # Wrong
      <4>1. Parsed # Wrong
        BY DEF Parsed, State, Wrong
      <4>2. Len(stream) \in 0 .. Len(stream)
        BY <1>1
      <4>3. QED
        BY <1>1, <2>2, <3>8, <4>1, <4>2 DEF Checked
    <3>11. stream[next] = "ASSIGN"
      BY <3>5, <3>9, <3>10, ColonTaken
    <3>12. QED
      BY <1>4, <3>7, <3>8, <3>11 DEF TokenAt
  <2>3. QED
    BY <2>1, <2>2
<1>5. CASE TokenAt(at + 1) = "ASSIGN"
  <2>1. PICK next : next = at + 1
    OBVIOUS
  <2>2. next <= Len(stream) /\ stream[next] = "ASSIGN"
    BY <1>5, <2>1 DEF TokenAt
  <2>3. PICK after : after = at + 2
    OBVIOUS
  <2>4. /\ next \in 1 .. Len(stream) /\ next - 1 = at /\ next # 1
        /\ after \in 1 .. Len(stream) + 1 /\ after - 1 = next
    BY <1>1, <1>2, <2>1, <2>2, <2>3
  <2>5. at' = after /\ calls' = calls /\ status' = "value"
    BY <1>2, <1>5, <2>3 DEF ParseMember
  <2>6. stream[at] = "LITERAL_STRING"
    <3>1. "ASSIGN" \in Follows(stream[at])
      BY <1>1, <2>2, <2>4 DEF Checked, Before
    <3>2. QED
      BY <1>2, <3>1 DEF Follows, Literals, Opens, Closes
  <2>7. ASSUME Aligned(stream, run, at, calls, status)
        PROVE  Aligned(stream, run, after, calls, "value")
    <3>1. PICK here : here = run[at - 1]
      OBVIOUS
    <3>2. /\ here \in States /\ here.open = calls /\ run[at] = Taken(here, stream[at])
          /\ here.expect \in {"key", "key_or_close"}
      BY <1>3, <2>7, <3>1
    <3>3. run[at] = State(calls, "colon")
      BY <1>2, <2>6, <3>2, KeyTaken
    <3>4. /\ run[at] \in States /\ stream[next] \in Tokens
          /\ run[next] = Taken(run[at], stream[next])
      <4>1. at \in 0 .. Len(stream)
        BY <1>1, <1>2
      <4>2. QED
        BY SMTT(40), <1>1, <2>4, <4>1 DEF Checked, IsRun
    <3>5. run[at].expect = "colon" /\ run[at].open = calls
      BY <3>3 DEF State
    <3>6. run[next] = State(calls, "value")
      BY <2>2, <3>4, <3>5, ColonTaken
    <3>7. run[after - 1].open = calls /\ run[after - 1].expect = "value" /\ run[after - 1] # Wrong
      BY <2>4, <3>6, StateFields
    <3>8. QED
      BY <3>7 DEF Aligned
  <2>8. Behind(tr, at, calls) => Behind(tr, after, calls)
    <3>1. "LITERAL_STRING" \notin Opens \cup Closes /\ "ASSIGN" \notin Opens \cup Closes
      BY DEF Opens, Closes
    <3>2. tr[at] = tr[at - 1]
      BY <1>1, <1>2, <2>6, <3>1, Depth
    <3>3. tr[next] = tr[next - 1]
      BY <1>1, <2>2, <2>4, <3>1, Depth
    <3>4. QED
      BY <2>4, <3>2, <3>3 DEF Behind
  <2>9. QED
    BY <1>1, <2>4, <2>5, <2>7, <2>8 DEF Parsing
<1>6. QED
  BY <1>4, <1>5

LEMMA ParseMemberValueParses ==
  ASSUME NEW tr, NEW run, Parsing(stream, tr, run, at, calls, status), ParseMemberValue
  PROVE  \/ Parsing(stream, tr, run, at', calls', status')
         \/ status' = "failed" /\ run[Len(stream)] # Parsed
<1>1. status = "value" /\ Len(stream) \in Nat /\ at \in 1 .. Len(stream) + 1
  BY DEF ParseMemberValue, Parsing, Checked
<1>2. CASE TokenAt(at) \in Literals \cup Opens
  <2>1. at <= Len(stream) /\ stream[at] \in Literals \cup Opens
    BY <1>2 DEF TokenAt, Literals, Opens
  <2>2. ReadValue
    BY <1>2 DEF ParseMemberValue
  <2>3. QED
    BY <1>1, <2>1, <2>2, ReadValueParses
<1>3. CASE TokenAt(at) \notin Literals \cup Opens
  <2>1. status' = "failed"
    BY <1>3 DEF ParseMemberValue, Stop
  <2>2. ASSUME run[Len(stream)] = Parsed PROVE FALSE
    <3>1. Aligned(stream, run, at, calls, status)
      BY <2>2 DEF Parsing
    <3>2. PICK here : here = run[at - 1]
      OBVIOUS
    <3>3. here.expect = "value"
      BY <1>1, <3>1, <3>2 DEF Aligned
    <3>4. at <= Len(stream)
      <4>1. Parsed.expect = "delimiter"
        BY DEF Parsed, State
      <4>2. at - 1 # Len(stream)
        BY <2>2, <3>2, <3>3, <4>1
      <4>3. QED
        BY <1>1, <4>2
    <3>5. /\ here.expect \in Expected(Before(stream, at)) /\ at \in 1 .. Len(stream)
          /\ stream[at] \in Follows(Before(stream, at))
      BY <3>1, <3>2, <3>4, AlignedState
    <3>6. stream[at] \in Tokens
      BY <3>5 DEF Parsing, Checked
    <3>7. stream[at] \in Literals \cup Opens
      BY <3>3, <3>5, <3>6, ExpectedTokens
    <3>8. QED
      BY <1>3, <3>4, <3>7 DEF TokenAt
  <2>3. QED
    BY <2>1, <2>2
<1>4. QED
  BY <1>2, <1>3

LEMMA ParseDelimiterParses ==
  ASSUME NEW tr, NEW run, Parsing(stream, tr, run, at, calls, status), ParseDelimiter
  PROVE  Parsing(stream, tr, run, at', calls', status')
<1> DEFINE type == stream[at]
<1>1. /\ status = "delimiter" /\ calls # <<>> /\ calls \in Seq(Opens)
      /\ Len(stream) \in Nat /\ Checked(stream, tr, run)
  BY DEF ParseDelimiter, Parsing, Checked
<1>2. at <= Len(stream) /\ at \in 1 .. Len(stream) /\ type \in Tokens
  <2>1. at <= Len(stream) /\ at \in 1 .. Len(stream)
    BY <1>1, MoreComes
  <2>2. QED
    BY <2>1 DEF Parsing, Checked
<1>3. PICK next : next = at + 1
  OBVIOUS
<1>4. next \in 1 .. Len(stream) + 1 /\ next - 1 = at /\ at' = next
  BY <1>1, <1>2, <1>3 DEF ParseDelimiter
<1>5. /\ Len(tr[at - 1]) \in Nat /\ Len(tr[at]) \in Nat
      /\ Len(tr[at]) >= Len(tr[at - 1]) - 1
      /\ type \notin Closes => Len(tr[at]) >= Len(tr[at - 1])
      /\ type \notin Opens \cup Closes => tr[at] = tr[at - 1]
      /\ type \in Closes /\ tr[at - 1] # <<>> /\ Innermost(tr[at - 1]) \in Opens
            /\ Closing(Innermost(tr[at - 1])) # type => Len(tr[at]) >= Len(tr[at - 1])
  BY <1>1, <1>2, Depth
<1>6. /\ Below(calls) \in Seq(Opens) /\ Len(Below(calls)) = Len(calls) - 1
      /\ Len(calls) \in Nat /\ Innermost(calls) \in Opens
  BY <1>1, Popped DEF Innermost
<1>7. ASSUME Aligned(stream, run, at, calls, status), NEW here, here = run[at - 1]
      PROVE  /\ here \in States /\ here # Wrong /\ here.open = calls /\ tr[at - 1] = calls
             /\ run[at] = Taken(here, type)
             /\ here.expect \in {"delimiter", "value_or_close"}
             /\ here.expect = "value_or_close" =>
                  type = "ARRAY_CLOSE" /\ Closing(Innermost(calls)) = "ARRAY_CLOSE"
             /\ run[Len(stream)] = Parsed => run[at] # Wrong
  <2>1. /\ here \in States /\ here # Wrong /\ here.open = calls /\ tr[at - 1] = calls
        /\ run[at] = Taken(here, type)
        /\ run[Len(stream)] = Parsed => run[at] # Wrong
    BY <1>2, <1>7, AlignedState
  <2>2. /\ here.expect \in {"delimiter", "value_or_close"}
        /\ here.expect = "value_or_close" => type = "ARRAY_CLOSE"
    BY <1>1, <1>2, <1>7 DEF Aligned
  <2>3. here.expect = "value_or_close" => Innermost(calls) = "ARRAY_OPEN"
    BY <2>1 DEF States
  <2>4. QED
    BY <2>1, <2>2, <2>3 DEF Closing
<1>8. CASE type = "COMMA"
  <2>1. /\ calls' = calls
        /\ status' = IF Innermost(calls) = "OBJECT_OPEN" THEN "member" ELSE "element"
    BY <1>2, <1>8 DEF ParseDelimiter, Innermost
  <2>2. ASSUME Aligned(stream, run, at, calls, status)
        PROVE  Aligned(stream, run, next, calls, status')
    <3>1. PICK here : here = run[at - 1]
      OBVIOUS
    <3>2. /\ here \in States /\ here.open = calls /\ run[at] = Taken(here, type)
          /\ here.expect = "delimiter"
      BY <1>7, <1>8, <2>2, <3>1
    <3>3. run[at] = State(calls, IF Innermost(calls) = "OBJECT_OPEN" THEN "key" ELSE "value")
      BY <1>1, <1>2, <1>8, <3>2, DelimiterTaken
    <3>4. /\ run[next - 1].open = calls /\ run[next - 1] # Wrong
          /\ run[next - 1].expect = IF Innermost(calls) = "OBJECT_OPEN" THEN "key" ELSE "value"
      BY <1>4, <3>3, StateFields
    <3>5. QED
      BY <2>1, <3>4 DEF Aligned
  <2>3. Behind(tr, at, calls) => Behind(tr, next, calls)
    BY <1>4, <1>5, <1>8 DEF Behind, Opens, Closes
  <2>4. QED
    BY <1>1, <1>4, <2>1, <2>2, <2>3 DEF Parsing
<1>9. CASE type # "COMMA"
  <2>1. calls' = Below(calls) /\ status' = "delimiter"
    BY <1>1, <1>2, <1>9 DEF ParseDelimiter
  <2>2. ASSUME Aligned(stream, run, at, calls, status), type = Closing(Innermost(calls))
        PROVE  Aligned(stream, run, next, Below(calls), "delimiter")
    <3>1. PICK here : here = run[at - 1]
      OBVIOUS
    <3>2. /\ here \in States /\ here.open = calls /\ run[at] = Taken(here, type)
          /\ here.expect \in {"delimiter", "value_or_close"}
      BY <1>7, <2>2, <3>1
    <3>3. type \in Closes
      BY <2>2 DEF Closing, Closes
    <3>4. run[at] = State(Below(calls), "delimiter")
      BY <1>1, <2>2, <3>2, <3>3, ClosingTaken
    <3>5. /\ run[next - 1].open = Below(calls) /\ run[next - 1] # Wrong
          /\ run[next - 1].expect = "delimiter"
      BY <1>4, <3>4, StateFields
    <3>6. QED
      BY <3>5 DEF Aligned
  <2>3. ASSUME Aligned(stream, run, at, calls, status), type # Closing(Innermost(calls))
        PROVE  Behind(tr, next, Below(calls))
    <3>1. PICK here : here = run[at - 1]
      OBVIOUS
    <3>2. tr[at - 1] = calls
      BY <1>7, <2>3, <3>1
    <3>3. Len(tr[at]) >= Len(calls)
      BY <1>1, <1>5, <1>6, <2>3, <3>2
    <3>4. QED
      BY <1>4, <1>5, <1>6, <3>3 DEF Behind
  <2>4. Behind(tr, at, calls) => Behind(tr, next, Below(calls))
    BY <1>4, <1>5, <1>6 DEF Behind
  <2>5. ASSUME run[Len(stream)] = Parsed
        PROVE  Aligned(stream, run, next, Below(calls), "delimiter")
    <3>1. Aligned(stream, run, at, calls, status)
      BY <2>5 DEF Parsing
    <3>2. PICK here : here = run[at - 1]
      OBVIOUS
    <3>3. /\ here \in States /\ here.open = calls /\ run[at] = Taken(here, type) /\ run[at] # Wrong
          /\ here.expect \in {"delimiter", "value_or_close"}
          /\ here.expect = "value_or_close" =>
               type = "ARRAY_CLOSE" /\ Closing(Innermost(calls)) = "ARRAY_CLOSE"
      BY <1>7, <2>5, <3>1, <3>2
    <3>4. type = Closing(Innermost(calls))
      BY <1>2, <1>9, <3>3, DelimiterTaken
    <3>5. QED
      BY <2>2, <3>1, <3>4
  <2>6. QED
    BY <1>1, <1>4, <1>6, <2>1, <2>2, <2>3, <2>4, <2>5 DEF Parsing
<1>10. QED
  BY <1>8, <1>9

LEMMA ReturnParses ==
  ASSUME NEW tr, NEW run, Parsing(stream, tr, run, at, calls, status), Return
  PROVE  \/ status' = "consumed" /\ run[Len(stream)] = Parsed
         \/ status' = "rest_ignored" /\ run[Len(stream)] # Parsed
<1>1. /\ status = "delimiter" /\ calls = <<>> /\ Len(stream) \in Nat
      /\ at \in 1 .. Len(stream) + 1
      /\ status' = IF at > Len(stream) THEN "consumed" ELSE "rest_ignored"
  BY DEF Return, Parsing, Checked
<1>2. ASSUME Aligned(stream, run, at, calls, status), NEW here, here = run[at - 1]
      PROVE  here = Parsed
  <2>1. here \in States /\ here # Wrong /\ here.open = calls
    BY <1>2, AlignedState
  <2>2. here.expect = "delimiter"
    <3>1. here.expect \in {"delimiter", "value_or_close"}
      BY <1>1, <1>2 DEF Aligned
    <3>2. here.expect = "value_or_close" => calls # <<>>
      BY <2>1 DEF States
    <3>3. QED
      BY <1>1, <3>1, <3>2
  <2>3. here \in [open : Seq(Opens), expect : Expects]
    BY <2>1 DEF States
  <2>4. QED
    BY <1>1, <2>1, <2>2, <2>3 DEF Parsed, State
<1>3. CASE at > Len(stream)
  <2>1. ~(at <= Len(stream)) /\ at - 1 = Len(stream)
    BY <1>1, <1>3
  <2>2. Aligned(stream, run, at, calls, status)
    BY <2>1, MoreComes DEF Parsing
  <2>3. QED
    BY <1>1, <1>2, <1>3, <2>1, <2>2
<1>4. CASE ~(at > Len(stream))
  <2>1. at <= Len(stream) /\ at \in 1 .. Len(stream)
    BY <1>1, <1>4
  <2>2. ASSUME run[Len(stream)] = Parsed PROVE FALSE
    <3>1. Aligned(stream, run, at, calls, status)
      BY <2>2 DEF Parsing
    <3>2. PICK here : here = run[at - 1]
      OBVIOUS
    <3>3. here \in States /\ run[at] = Taken(here, stream[at]) /\ run[at] # Wrong
      BY <2>1, <2>2, <3>1, <3>2, AlignedState
    <3>4. here.open = <<>> /\ here.expect = "delimiter"
      BY <1>2, <3>1, <3>2 DEF Parsed, State
    <3>5. stream[at] \in Tokens
      BY <2>1 DEF Parsing, Checked
    <3>6. QED
      BY <3>3, <3>4, <3>5, DelimiterTaken
  <2>3. QED
    BY <1>1, <1>4, <2>2
<1>5. QED
  BY <1>3, <1>4

(***************************************************************************)
(* The invariant, and the theorems.                                        *)

Inv ==
    /\ stream \in Seq(Tokens)
    /\ status \in {"reading", "refused", "unclosed", "element", "member", "value",
                   "delimiter", "failed", "consumed", "rest_ignored"}
    /\ status = "reading" =>
          /\ at = 1 /\ calls = <<>>
          /\ \E tr, run : /\ Checked(stream, tr, run)
                          /\ tr[Len(stream)] = brackets
                          /\ last = Before(stream, Len(stream) + 1)
    /\ status \in {"element", "member", "value", "delimiter"} =>
          \E tr, run : Parsing(stream, tr, run, at, calls, status)
    /\ JsonIsAccepted
    /\ ConsumedIsJson

LEMMA InvInit == ParserInit => Inv
<1> SUFFICES ASSUME ParserInit PROVE Inv
  OBVIOUS
<1>1. PICK tr, run : tr = [n \in {0} |-> <<>>] /\ run = [n \in {0} |-> Begun]
  OBVIOUS
<1>2. Checked(<<>>, tr, run) /\ tr[0] = <<>>
  BY <1>1, CheckedAtFirst
<1>3. <<>> \in Seq(Tokens) /\ Len(<<>>) = 0
  OBVIOUS
<1>4. Before(<<>>, 0 + 1) = "JSON_UNKNOWN"
  BY DEF Before
<1>5. QED
  BY <1>2, <1>3, <1>4 DEF Inv, ParserInit, JsonIsAccepted, ConsumedIsJson

LEMMA ReadTokenInv == Inv /\ ReadToken => Inv'
<1> SUFFICES ASSUME Inv, ReadToken PROVE Inv'
  OBVIOUS
<1>1. PICK type \in Tokens :
         /\ stream' = Append(stream, type)
         /\ brackets' = Bracketed(brackets, type)
         /\ IF type \in Follows(last)
            THEN last' = type /\ UNCHANGED status
            ELSE status' = "refused" /\ UNCHANGED last
  BY DEF ReadToken
<1>2. status = "reading" /\ at' = at /\ calls' = calls
  BY DEF ReadToken
<1>3. PICK tr, run : /\ Checked(stream, tr, run) /\ tr[Len(stream)] = brackets
                     /\ last = Before(stream, Len(stream) + 1)
  BY <1>2 DEF Inv
<1>4. PICK n : n = Len(stream) + 1
  OBVIOUS
<1>5. PICK tr2, run2 :
         /\ IsRun(run2, Append(stream, type))
         /\ type \notin Follows(Before(stream, n)) => run2[n] = Wrong
         /\ type \in Follows(Before(stream, n)) =>
               /\ Checked(Append(stream, type), tr2, run2)
               /\ tr2[n] = Bracketed(tr[n - 1], type)
  BY <1>3, <1>4, CheckedMore
<1>6. stream' \in Seq(Tokens) /\ Len(stream') = n /\ stream'[n] = type /\ n - 1 = Len(stream)
      /\ n \in Nat \ {0}
  BY <1>1, <1>4 DEF Inv
<1>7. CASE type \in Follows(last)
  <2>1. last' = type /\ status' = "reading"
    BY <1>1, <1>2, <1>7
  <2>2. Checked(stream', tr2, run2) /\ tr2[Len(stream')] = brackets'
    BY <1>1, <1>3, <1>4, <1>5, <1>6, <1>7
  <2>3. last' = Before(stream', Len(stream') + 1)
    BY <1>6, <2>1 DEF Before
  <2>4. JsonIsAccepted' /\ ConsumedIsJson'
    BY <2>1 DEF JsonIsAccepted, ConsumedIsJson
  <2>5. at' = 1 /\ calls' = <<>>
    BY <1>2 DEF Inv
  <2>6. QED
    BY <1>6, <2>1, <2>2, <2>3, <2>4, <2>5 DEF Inv
<1>8. CASE type \notin Follows(last)
  <2>1. status' = "refused"
    BY <1>1, <1>8
  <2>2. run2[n] = Wrong
    BY <1>3, <1>4, <1>5, <1>8
  <2>3. Run(stream') = run2
    BY <1>1, <1>5, <1>6, RunIs
  <2>4. ~BeginsJson(stream')
    BY <1>6, <2>2, <2>3 DEF BeginsJson
  <2>5. JsonIsAccepted' /\ ConsumedIsJson'
    BY <2>1, <2>4 DEF JsonIsAccepted, ConsumedIsJson
  <2>6. QED
    BY <1>6, <2>1, <2>5 DEF Inv
<1>9. QED
  BY <1>7, <1>8

LEMMA ParsedIsJson ==
  ASSUME NEW s, NEW tr, NEW run, Checked(s, tr, run)
  PROVE  IsJson(s) <=> run[Len(s)] = Parsed
<1>1. Run(s) = run
  BY RunIs DEF Checked
<1>2. QED
  BY <1>1 DEF IsJson, Parsed

LEMMA EndOfInputInv == Inv /\ EndOfInput => Inv'
<1> SUFFICES ASSUME Inv, EndOfInput PROVE Inv'
  OBVIOUS
<1>1. /\ status = "reading" /\ at = 1 /\ calls = <<>>
      /\ UNCHANGED <<stream, brackets, last, at, calls>>
      /\ status' = IF brackets # <<>> THEN "unclosed" ELSE "element"
  BY DEF EndOfInput, Inv
<1>2. PICK tr, run : Checked(stream, tr, run) /\ tr[Len(stream)] = brackets
  BY <1>1 DEF Inv
<1>3. stream \in Seq(Tokens) /\ Len(stream) \in Nat /\ 1 \in 1 .. Len(stream) + 1
  BY DEF Inv
<1>4. CASE brackets # <<>>
  <2>1. status' = "unclosed"
    BY <1>1, <1>4
  <2>2. run[Len(stream)] # Parsed
    <3>1. SUFFICES ASSUME run[Len(stream)] = Parsed PROVE FALSE
      OBVIOUS
    <3>2. Parsed # Wrong /\ Parsed.open = <<>>
      BY DEF Parsed, State, Wrong
    <3>3. Len(stream) \in 0 .. Len(stream)
      BY <1>3
    <3>4. run[Len(stream)].open = tr[Len(stream)]
      BY <1>2, <3>1, <3>2, <3>3 DEF Checked
    <3>5. QED
      BY <1>2, <1>4, <3>1, <3>2, <3>4
  <2>3. ~IsJson(stream)
    BY <1>2, <2>2, ParsedIsJson
  <2>4. JsonIsAccepted' /\ ConsumedIsJson'
    BY <1>1, <2>1, <2>3 DEF JsonIsAccepted, ConsumedIsJson
  <2>5. QED
    BY <1>1, <2>1, <2>4 DEF Inv
<1>5. CASE brackets = <<>>
  <2>1. status' = "element"
    BY <1>1, <1>5
  <2>2. Aligned(stream, run, 1, <<>>, "element")
    <3>1. run[1 - 1] = Begun
      BY <1>2 DEF Checked, IsRun
    <3>2. Begun.open = <<>> /\ Begun.expect = "value" /\ Begun # Wrong
      BY DEF Begun, Wrong
    <3>3. QED
      BY <3>1, <3>2 DEF Aligned
  <2>3. Parsing(stream, tr, run, 1, <<>>, "element")
    <3>1. <<>> \in Seq(Opens)
      OBVIOUS
    <3>2. QED
      BY <1>2, <1>3, <1>5, <2>2, <3>1 DEF Parsing
  <2>4. JsonIsAccepted' /\ ConsumedIsJson'
    BY <2>1 DEF JsonIsAccepted, ConsumedIsJson
  <2>5. Parsing(stream', tr, run, at', calls', status')
    BY <1>1, <2>1, <2>3
  <2>6. stream' \in Seq(Tokens)
    BY <1>1, <1>3
  <2>7. QED
    BY <2>1, <2>4, <2>5, <2>6 DEF Inv
<1>6. QED
  BY <1>4, <1>5

LEMMA ParserStepInv ==
  Inv /\ (ParseElement \/ ParseMember \/ ParseMemberValue \/ ParseDelimiter \/ Return) => Inv'
<1> SUFFICES ASSUME Inv,
                    ParseElement \/ ParseMember \/ ParseMemberValue \/ ParseDelimiter \/ Return
             PROVE  Inv'
  OBVIOUS
<1>1. stream' = stream /\ status \in {"element", "member", "value", "delimiter"}
  BY DEF ParseElement, ParseMember, ParseMemberValue, ParseDelimiter, Return
<1>2. PICK tr, run : Parsing(stream, tr, run, at, calls, status)
  BY <1>1 DEF Inv
<1>3. \/ Parsing(stream, tr, run, at', calls', status')
      \/ status' \in {"failed", "rest_ignored"} /\ run[Len(stream)] # Parsed
      \/ status' = "consumed" /\ run[Len(stream)] = Parsed
  BY <1>2, ParseElementParses, ParseMemberParses, ParseMemberValueParses,
     ParseDelimiterParses, ReturnParses
<1>4. IsJson(stream) <=> run[Len(stream)] = Parsed
  BY <1>2, ParsedIsJson DEF Parsing
<1>5. stream' \in Seq(Tokens)
  BY <1>1 DEF Inv
<1>6. CASE Parsing(stream, tr, run, at', calls', status')
  <2>1. status' \in {"element", "member", "value", "delimiter"}
    BY <1>6 DEF Parsing
  <2>2. JsonIsAccepted' /\ ConsumedIsJson'
    BY <2>1 DEF JsonIsAccepted, ConsumedIsJson
  <2>3. Parsing(stream', tr, run, at', calls', status')
    BY <1>1, <1>6
  <2>4. QED
    BY <1>5, <2>1, <2>2, <2>3 DEF Inv
<1>7. CASE status' \in {"failed", "rest_ignored"} /\ run[Len(stream)] # Parsed
  <2>1. JsonIsAccepted' /\ ConsumedIsJson'
    BY <1>1, <1>4, <1>7 DEF JsonIsAccepted, ConsumedIsJson
  <2>2. QED
    BY <1>5, <1>7, <2>1 DEF Inv
<1>8. CASE status' = "consumed" /\ run[Len(stream)] = Parsed
  <2>1. JsonIsAccepted' /\ ConsumedIsJson'
    BY <1>1, <1>4, <1>8 DEF JsonIsAccepted, ConsumedIsJson
  <2>2. QED
    BY <1>5, <1>8, <2>1 DEF Inv
<1>9. QED
  BY <1>3, <1>6, <1>7, <1>8

LEMMA ParserInv == ParserSpec => []Inv
<1>1. Inv /\ [ParserNext]_pvars => Inv'
  <2>1. Inv /\ UNCHANGED pvars => Inv'
    BY DEF Inv, pvars, JsonIsAccepted, ConsumedIsJson
  <2>2. QED
    BY <2>1, ReadTokenInv, EndOfInputInv, ParserStepInv DEF ParserNext
<1>2. QED
  BY <1>1, InvInit, PTL DEF ParserSpec

(* No JSON text of any length, however deeply nested, is turned down by    *)
(* process_token, at its end or by the parser.                             *)
THEOREM NoJsonIsRefused == ParserSpec => []JsonIsAccepted
<1>1. Inv => JsonIsAccepted
  BY DEF Inv
<1>2. QED
  BY <1>1, ParserInv, PTL

(* Whatever parse_token_stream reads to its end is JSON: what the code     *)
(* does not look at cannot be wrong without a rest being left.             *)
THEOREM NothingElseIsConsumed == ParserSpec => []ConsumedIsJson
<1>1. Inv => ConsumedIsJson
  BY DEF Inv
<1>2. QED
  BY <1>1, ParserInv, PTL

(* get_token is never asked for a token behind the end of token_stream.    *)
THEOREM TokensSuffice == ParserSpec => []NoReadPastEnd
<1>1. Inv => NoReadPastEnd
  BY DEF Inv, NoReadPastEnd
<1>2. QED
  BY <1>1, ParserInv, PTL

-----------------------------------------------------------------------------
(***************************************************************************)
(* The trees.  What the grammar derives is known by the automaton: a value *)
(* takes it from a state in which one may stand to one in which it was     *)
(* read, through states with more brackets open.                           *)
(***************************************************************************)

Ready(state) == state.expect \in {"value", "value_or_close"}

IsChart(g, s) ==
    /\ g[0] = {}
    /\ \A n \in 1 .. Len(s) : g[n] = g[n - 1] \cup PartsTo(s, n, g[n - 1])

(* The recursion that defines Parts has a solution, and so has that of Run.*)
LEMMA PartsIs ==
  ASSUME NEW s \in Seq(Tokens)
  PROVE  IsChart(Parts(s), s)
<1> DEFINE Step(f) == [n \in 0 .. Len(s) |->
                         IF n = 0 THEN {} ELSE f[n - 1] \cup PartsTo(s, n, f[n - 1])]
           UpTo(f, m) == /\ f[0] = {}
                         /\ \A n \in 1 .. m : f[n] = f[n - 1] \cup PartsTo(s, n, f[n - 1])
           Bad == {m \in Nat : ~\E f : UpTo(f, m)}
<1>1. Len(s) \in Nat
  OBVIOUS
<1>2. ASSUME Bad # {} PROVE FALSE
  <2>1. PICK m \in Bad : \A k \in Bad : m <= k
    <3>1. Bad \subseteq Nat
      OBVIOUS
    <3> HIDE DEF Bad
    <3>2. QED
      BY <1>2, <3>1, LeastNatural
  <2>2. m \in Nat /\ ~\E f : UpTo(f, m)
    OBVIOUS
  <2>3. m # 0
    <3>1. PICK f : f = [n \in {0} |-> {}]
      OBVIOUS
    <3>2. UpTo(f, 0)
      BY <3>1
    <3>3. QED
      BY <2>2, <3>2
  <2>4. PICK k \in Nat : m = k + 1
    BY <2>2, <2>3
  <2>5. PICK f : UpTo(f, k)
    <3>1. ~(m <= k)
      BY <2>4
    <3>2. k \notin Bad
      BY <2>1, <3>1
    <3>3. QED
      BY <3>2
  <2>6. PICK h : h = [n \in 0 .. m |-> IF n = m THEN f[k] \cup PartsTo(s, m, f[k]) ELSE f[n]]
    OBVIOUS
  <2>7. /\ \A n \in 0 .. k : h[n] = f[n]
        /\ h[m] = f[k] \cup PartsTo(s, m, f[k])
    BY <2>2, <2>4, <2>6
  <2>8. ASSUME NEW n \in 1 .. m PROVE h[n] = h[n - 1] \cup PartsTo(s, n, h[n - 1])
    <3>1. CASE n = m
      <4>1. n - 1 = k /\ k \in 0 .. k
        BY <2>4, <3>1
      <4>2. QED
        BY <2>7, <3>1, <4>1
    <3>2. CASE n # m
      <4>1. n \in 1 .. k /\ n \in 0 .. k /\ n - 1 \in 0 .. k
        BY <2>4, <3>2
      <4>2. QED
        BY <2>5, <2>7, <4>1
    <3>3. QED
      BY <3>1, <3>2
  <2>9. h[0] = {}
    <3>1. 0 \in 0 .. k
      BY <2>4
    <3>2. QED
      BY <2>5, <2>7, <3>1
  <2>10. QED
    BY <2>2, <2>8, <2>9
<1>3. PICK f : UpTo(f, Len(s))
  BY <1>1, <1>2
<1>4. PICK q : q = [n \in 0 .. Len(s) |-> f[n]]
  OBVIOUS
<1>5. q = Step(q)
  <2>1. \A n \in 0 .. Len(s) : q[n] = f[n]
    BY <1>4
  <2>2. ASSUME NEW n \in 0 .. Len(s)
        PROVE  f[n] = IF n = 0 THEN {} ELSE q[n - 1] \cup PartsTo(s, n, q[n - 1])
    <3>1. CASE n = 0
      BY <1>3, <3>1
    <3>2. CASE n # 0
      <4>1. n \in 1 .. Len(s) /\ n - 1 \in 0 .. Len(s)
        BY <1>1, <3>2
      <4>2. QED
        BY <1>3, <2>1, <3>2, <4>1
    <3>3. QED
      BY <3>1, <3>2
  <2>3. QED
    BY <1>4, <2>2
<1>6. Parts(s) = Step(Parts(s))
  <2>1. Parts(s) = CHOOSE f_1 : f_1 = Step(f_1)
    BY Zenon DEF Parts
  <2> HIDE DEF Step
  <2>2. QED
    BY <1>5, <2>1
<1>7. PICK g : g = Parts(s)
  OBVIOUS
<1>8. g = Step(g)
  BY <1>6, <1>7
<1>9. g[0] = {}
  BY <1>1, <1>8
<1>10. ASSUME NEW n \in 1 .. Len(s) PROVE g[n] = g[n - 1] \cup PartsTo(s, n, g[n - 1])
  <2>1. n \in 0 .. Len(s) /\ n # 0
    BY <1>1
  <2>2. QED
    BY <1>8, <2>1
<1>11. QED
  BY <1>7, <1>9, <1>10 DEF IsChart

LEMMA RunOf ==
  ASSUME NEW s \in Seq(Tokens)
  PROVE  IsRun(Run(s), s)
<1> DEFINE UpTo(f, m) == /\ f \in [0 .. Len(s) -> States]
                         /\ f[0] = Begun
                         /\ \A n \in 1 .. m : f[n] = Taken(f[n - 1], s[n])
           Bad == {m \in 0 .. Len(s) : ~\E f : UpTo(f, m)}
<1>1. Len(s) \in Nat /\ Begun \in States
  <2>1. <<>> \in Seq(Opens)
    OBVIOUS
  <2>2. QED
    BY <2>1 DEF Begun, States, Expects
<1>2. ASSUME Bad # {} PROVE FALSE
  <2>1. PICK m \in Bad : \A k \in Bad : m <= k
    <3>1. Bad \subseteq Nat
      BY <1>1
    <3> HIDE DEF Bad
    <3>2. QED
      BY <1>2, <3>1, LeastNatural
  <2>2. m \in 0 .. Len(s) /\ m \in Nat /\ ~\E f : UpTo(f, m)
    BY <1>1
  <2>3. m # 0
    <3>1. PICK f : f = [n \in 0 .. Len(s) |-> Begun]
      OBVIOUS
    <3>2. UpTo(f, 0)
      BY <1>1, <3>1
    <3>3. QED
      BY <2>2, <3>2
  <2>4. PICK k \in Nat : m = k + 1
    BY <2>2, <2>3
  <2>5. PICK f : UpTo(f, k)
    <3>1. ~(m <= k) /\ k \in 0 .. Len(s)
      BY <1>1, <2>2, <2>4
    <3>2. k \notin Bad
      BY <2>1, <3>1
    <3>3. QED
      BY <3>1, <3>2
  <2>6. k \in 0 .. Len(s) /\ m \in 1 .. Len(s)
    BY <1>1, <2>2, <2>4
  <2>7. Taken(f[k], s[m]) \in States
    <3>1. f[k] \in States
      BY <2>5, <2>6
    <3>2. s[m] \in Tokens
      BY <2>6
    <3>3. QED
      BY <3>1, <3>2, TakenType
  <2>8. PICK h : h = [f EXCEPT ![m] = Taken(f[k], s[m])]
    OBVIOUS
  <2>9. /\ h \in [0 .. Len(s) -> States]
        /\ \A n \in 0 .. k : h[n] = f[n]
        /\ h[m] = Taken(f[k], s[m])
    BY <1>1, <2>2, <2>4, <2>5, <2>6, <2>7, <2>8
  <2>10. ASSUME NEW n \in 1 .. m PROVE h[n] = Taken(h[n - 1], s[n])
    <3>1. CASE n = m
      <4>1. n - 1 = k /\ k \in 0 .. k
        BY <2>4, <3>1
      <4>2. QED
        BY <2>9, <3>1, <4>1
    <3>2. CASE n # m
      <4>1. n \in 1 .. k /\ n \in 0 .. k /\ n - 1 \in 0 .. k
        BY <2>4, <3>2
      <4>2. QED
        BY <2>5, <2>9, <4>1
    <3>3. QED
      BY <3>1, <3>2
  <2>11. h[0] = Begun
    <3>1. 0 \in 0 .. k
      BY <2>4
    <3>2. QED
      BY <2>5, <2>9, <3>1
  <2>12. QED
    BY <2>2, <2>9, <2>10, <2>11
<1>3. PICK f : UpTo(f, Len(s))
  <2>1. Len(s) \in 0 .. Len(s)
    BY <1>1
  <2>2. QED
    BY <1>2, <2>1
<1>4. IsRun(f, s)
  BY <1>3 DEF IsRun
<1>5. QED
  BY <1>4, RunIs

(* What the sets of derivations hold.                                      *)
LEMMA ValueIs ==
  ASSUME NEW s, NEW n, NEW known, NEW v
  PROVE  v \in ValuesTo(s, n, known) <=>
            \/ s[n] \in Literals /\ v = <<n, Leaf(s, n)>>
            \/ \E p \in known : /\ p[2] + 1 = n /\ s[n] = Closing(s[p[1]])
                                /\ v = <<p[1], Container(s[p[1]], p[3])>>
  BY Zenon DEF ValuesTo

LEMMA PartIs ==
  ASSUME NEW s, NEW n, NEW known, NEW p
  PROVE  p \in PartsTo(s, n, known) <=>
            \/ s[n] \in Opens /\ p = <<n, n, <<>>>>
            \/ \E q \in known, v \in ValuesTo(s, n, known) :
                  /\ Joins(s, q[1], q[2], v[1])
                  /\ p = <<q[1], n, Append(q[3], Item(s, q[1], q[2], v[2]))>>
<1> DEFINE New(q) == <<q[1][1], n, Append(q[1][3], Item(s, q[1][1], q[1][2], q[2][2]))>>
           Pairs == {q \in known \X ValuesTo(s, n, known) : Joins(s, q[1][1], q[1][2], q[2][1])}
<1>1. p \in PartsTo(s, n, known) <=>
         \/ s[n] \in Opens /\ p = <<n, n, <<>>>>
         \/ \E q \in Pairs : p = New(q)
  BY Zenon DEF PartsTo
<1>2. (\E q \in Pairs : p = New(q)) <=>
         \E q \in known, v \in ValuesTo(s, n, known) :
            /\ Joins(s, q[1], q[2], v[1])
            /\ p = <<q[1], n, Append(q[3], Item(s, q[1], q[2], v[2]))>>
  <2>1. ASSUME NEW q \in Pairs, p = New(q)
        PROVE  \E q_1 \in known, v \in ValuesTo(s, n, known) :
                  /\ Joins(s, q_1[1], q_1[2], v[1])
                  /\ p = <<q_1[1], n, Append(q_1[3], Item(s, q_1[1], q_1[2], v[2]))>>
    <3>1. q[1] \in known /\ q[2] \in ValuesTo(s, n, known) /\ Joins(s, q[1][1], q[1][2], q[2][1])
      BY Zenon
    <3>2. QED
      BY Zenon, <2>1, <3>1
  <2>2. ASSUME NEW q \in known, NEW v \in ValuesTo(s, n, known),
               Joins(s, q[1], q[2], v[1]),
               p = <<q[1], n, Append(q[3], Item(s, q[1], q[2], v[2]))>>
        PROVE  \E q_1 \in Pairs : p = New(q_1)
    <3>1. PICK u : u = <<q, v>>
      OBVIOUS
    <3>2. u[1] = q /\ u[2] = v /\ u \in known \X ValuesTo(s, n, known)
      BY <3>1
    <3>3. u \in Pairs /\ p = New(u)
      BY Zenon, <2>2, <3>2
    <3>4. QED
      BY <3>3
  <2>3. QED
    BY <2>1, <2>2
<1>3. QED
  BY <1>1, <1>2

LEMMA PartEnds ==
  ASSUME NEW s, NEW n, NEW known, NEW p \in PartsTo(s, n, known)
  PROVE  p[2] = n
<1>1. CASE p = <<n, n, <<>>>>
  BY <1>1
<1>2. CASE \E q, v : p = <<q[1], n, Append(q[3], Item(s, q[1], q[2], v[2]))>>
  BY <1>2
<1>3. QED
  BY <1>1, <1>2, PartIs

Inside(state, type) == Append(state.open, type)

(* A part of the tokens up to n, and the states along it.                  *)
PartOf(s, run, n, p) ==
    /\ p = <<p[1], p[2], p[3]>>
    /\ p[1] \in 1 .. Len(s) /\ p[2] \in 1 .. Len(s) /\ p[1] <= p[2] /\ p[2] <= n
    /\ s[p[1]] \in Opens
    /\ Ready(run[p[1] - 1]) =>
          /\ run[p[2]] = State(Inside(run[p[1] - 1], s[p[1]]),
                               IF p[1] # p[2] THEN "delimiter"
                               ELSE IF s[p[1]] = "OBJECT_OPEN" THEN "key_or_close"
                               ELSE "value_or_close")
          /\ \A m \in p[1] .. p[2] : Len(run[m].open) > Len(run[p[1] - 1].open)

ValueOf(s, run, n, v) ==
    /\ v = <<v[1], v[2]>>
    /\ v[1] \in 1 .. Len(s) /\ v[1] <= n
    /\ Ready(run[v[1] - 1]) =>
          /\ run[n] = State(run[v[1] - 1].open, "delimiter")
          /\ \A m \in v[1] .. n - 1 : Len(run[m].open) > Len(run[v[1] - 1].open)

LEMMA StateOf ==
  ASSUME NEW s \in Seq(Tokens), NEW run, IsRun(run, s), NEW n \in 0 .. Len(s)
  PROVE  /\ run[n] \in States
         /\ run[n].open \in Seq(Opens) /\ Len(run[n].open) \in Nat
         /\ \A type \in Opens :
               /\ Inside(run[n], type) \in Seq(Opens) /\ Inside(run[n], type) # <<>>
               /\ Innermost(Inside(run[n], type)) = type
               /\ Below(Inside(run[n], type)) = run[n].open
               /\ Len(Inside(run[n], type)) = Len(run[n].open) + 1
         /\ n < Len(s) => s[n + 1] \in Tokens /\ run[n + 1] = Taken(run[n], s[n + 1])
<1>1. run[n] \in States
  BY DEF IsRun
<1>2. run[n].open \in Seq(Opens)
  <2>1. CASE run[n] = Wrong
    <3>1. run[n].open = <<>> /\ <<>> \in Seq(Opens)
      BY <2>1 DEF Wrong
    <3>2. QED
      BY <3>1
  <2>2. CASE run[n] # Wrong
    BY <1>1, <2>2 DEF States
  <2>3. QED
    BY <2>1, <2>2
<1>3. PICK open \in Seq(Opens) : open = run[n].open
  BY <1>2
<1>4. ASSUME NEW type \in Opens
      PROVE  /\ Append(open, type) \in Seq(Opens) /\ Append(open, type) # <<>>
             /\ Innermost(Append(open, type)) = type
             /\ Below(Append(open, type)) = open
             /\ Len(Append(open, type)) = Len(open) + 1
  BY DEF Innermost, Below
<1>5. ASSUME n < Len(s) PROVE s[n + 1] \in Tokens /\ run[n + 1] = Taken(run[n], s[n + 1])
  <2>1. PICK m : m = n + 1
    OBVIOUS
  <2>2. m \in 1 .. Len(s) /\ m - 1 = n
    BY <1>5, <2>1
  <2>3. s[m] \in Tokens /\ run[m] = Taken(run[m - 1], s[m])
    BY <2>2 DEF IsRun
  <2>4. QED
    BY <2>1, <2>2, <2>3
<1>6. QED
  BY <1>1, <1>2, <1>3, <1>4, <1>5 DEF Inside

(* A container closes with the bracket that its part asks for.             *)
LEMMA PartCloses ==
  ASSUME NEW s \in Seq(Tokens), NEW run, IsRun(run, s), NEW m \in Nat, NEW n \in 1 .. Len(s),
         n = m + 1, NEW p, PartOf(s, run, m, p), p[2] = m, s[n] = Closing(s[p[1]])
  PROVE  ValueOf(s, run, n, <<p[1], Container(s[p[1]], p[3])>>)
<1>1. PICK v : v = <<p[1], Container(s[p[1]], p[3])>>
  OBVIOUS
<1>2. v = <<v[1], v[2]>> /\ v[1] = p[1]
  BY <1>1
<1>3. PICK i \in 1 .. Len(s) : i = p[1]
  BY DEF PartOf
<1>4. i <= m /\ i <= n /\ i - 1 \in 0 .. Len(s) /\ m \in 0 .. Len(s) /\ m < Len(s) /\ Len(s) \in Nat
  BY <1>3 DEF PartOf
<1>5. s[i] \in Opens
  BY <1>3 DEF PartOf
<1>6. ASSUME Ready(run[i - 1])
      PROVE  /\ run[n] = State(run[i - 1].open, "delimiter")
             /\ \A k \in i .. m : Len(run[k].open) > Len(run[i - 1].open)
  <2>1. PICK more : more = Inside(run[i - 1], s[i])
    OBVIOUS
  <2>2. more # <<>> /\ Innermost(more) = s[i] /\ Below(more) = run[i - 1].open
    BY <1>4, <1>5, <2>1, StateOf
  <2>3. /\ run[m].open = more
        /\ run[m].expect \in {"value_or_close", "key_or_close", "delimiter"}
    <3>1. \E expect \in {"value_or_close", "key_or_close", "delimiter"} :
            run[m] = State(more, expect)
      BY <1>3, <1>6, <2>1 DEF PartOf
    <3>2. QED
      BY <3>1, StateFields
  <2>4. run[m] \in States /\ run[n] = Taken(run[m], s[n])
    BY <1>4, StateOf
  <2>5. s[n] = Closing(s[i]) /\ s[n] \in Closes
    BY <1>3 DEF Closing, Closes
  <2>6. run[n] = State(run[i - 1].open, "delimiter")
    BY <2>2, <2>3, <2>4, <2>5, ClosingTaken
  <2>7. \A k \in i .. m : Len(run[k].open) > Len(run[i - 1].open)
    BY <1>3, <1>6 DEF PartOf
  <2>8. QED
    BY <2>6, <2>7
<1>7. n - 1 = m
  OBVIOUS
<1>8. ValueOf(s, run, n, v)
  BY <1>2, <1>3, <1>4, <1>6, <1>7 DEF ValueOf
<1>9. QED
  BY <1>1, <1>8

(* What stands between a part and its next member or element.              *)
Leads(s, run, i, j, k) ==
    /\ k > j
    /\ Ready(run[k - 1])
    /\ \A m \in j .. k - 1 : run[m].open = Inside(run[i - 1], s[i])
    /\ \A m \in j + 1 .. k - 1 : run[m].expect # "delimiter"

LEMMA Between ==
  ASSUME NEW s \in Seq(Tokens), NEW run, IsRun(run, s),
         NEW i \in 1 .. Len(s), NEW j \in 1 .. Len(s), NEW k \in 1 .. Len(s) + 1, NEW r,
         PartOf(s, run, j, <<i, j, r>>), Ready(run[i - 1]), Joins(s, i, j, k)
  PROVE  Leads(s, run, i, j, k)
<1>1. PICK more : more = Inside(run[i - 1], s[i])
  OBVIOUS
<1>2. PICK p : p = <<i, j, r>>
  OBVIOUS
<1>3. p[1] = i /\ p[2] = j
  BY <1>2
<1>4. /\ i <= j /\ s[i] \in Opens
      /\ run[j] = State(more, IF i # j THEN "delimiter"
                              ELSE IF s[i] = "OBJECT_OPEN" THEN "key_or_close"
                              ELSE "value_or_close")
  BY <1>1, <1>2, <1>3 DEF PartOf
<1>5. /\ Len(s) \in Nat /\ i \in 0 .. Len(s) /\ i - 1 \in 0 .. Len(s)
      /\ "COMMA" \in Tokens /\ "LITERAL_STRING" \in Tokens /\ "ASSIGN" \in Tokens
  BY DEF Tokens, Literals
<1>6. more # <<>> /\ Innermost(more) = s[i]
  BY <1>1, <1>4, <1>5, StateOf
<1>7. \A m \in 0 .. Len(s) : m < Len(s) => /\ run[m] \in States /\ s[m + 1] \in Tokens
                                           /\ run[m + 1] = Taken(run[m], s[m + 1])
  BY StateOf
<1>8. PICK l \in Nat : l = IF i = j THEN j ELSE j + 1
  OBVIOUS
<1>9. l >= j /\ NextItem(i, j) = l + 1 /\ k = IF s[i] = "OBJECT_OPEN" THEN l + 3 ELSE l + 1
  BY <1>8 DEF NextItem, Joins
<1>10. l \in 0 .. Len(s)
  BY <1>5, <1>9
(* Behind the comma.                                                       *)
<1>11. /\ run[l].open = more
       /\ run[l].expect = IF i = j THEN (IF s[i] = "OBJECT_OPEN" THEN "key_or_close" ELSE "value_or_close")
                          ELSE IF s[i] = "OBJECT_OPEN" THEN "key" ELSE "value"
  <2>1. CASE i = j
    BY <1>4, <1>8, <2>1, StateFields
  <2>2. CASE i # j
    <3>1. l = j + 1 /\ j < Len(s) /\ j \in 0 .. Len(s) /\ s[l] = "COMMA"
      BY <1>8, <1>10, <2>2 DEF Joins
    <3>2. run[j].open = more /\ run[j].expect = "delimiter"
      BY <1>4, <2>2, StateFields
    <3>3. run[l] = Taken(run[j], "COMMA") /\ run[j] \in States
      BY <1>7, <3>1
    <3>4. run[l] = State(more, IF s[i] = "OBJECT_OPEN" THEN "key" ELSE "value")
      BY <1>5, <1>6, <3>2, <3>3, DelimiterTaken
    <3>5. QED
      BY <2>2, <3>4, StateFields
  <2>3. QED
    BY <2>1, <2>2
<1>12. run[j].open = more
  BY <1>4, StateFields
<1>13. CASE s[i] # "OBJECT_OPEN"
  <2>1. k = l + 1 /\ k - 1 = l
    BY <1>9, <1>13
  <2>2. Ready(run[l]) /\ run[l].expect # "delimiter"
    BY <1>11, <1>13 DEF Ready
  <2>3. \A m \in j .. l : m = j \/ m = l
    BY <1>8
  <2>4. \A m \in j .. l : run[m].open = more
    BY <1>11, <1>12, <2>3
  <2>5. \A m \in j + 1 .. l : run[m].expect # "delimiter"
    <3>1. SUFFICES ASSUME NEW m \in j + 1 .. l PROVE run[m].expect # "delimiter"
      OBVIOUS
    <3>2. m \in j .. l /\ m # j
      OBVIOUS
    <3>3. m = l
      BY <2>3, <3>2
    <3>4. QED
      BY <2>2, <3>3
  <2>6. k > j
    BY <1>9, <2>1
  <2>7. QED
    BY <1>1, <2>1, <2>2, <2>4, <2>5, <2>6 DEF Leads
<1>14. CASE s[i] = "OBJECT_OPEN"
  <2>1. PICK l1 \in Nat, l2 \in Nat : l1 = l + 1 /\ l2 = l + 2
    OBVIOUS
  <2>2. k = l + 3 /\ k - 1 = l2 /\ k - 2 = l1 /\ l1 \in 0 .. Len(s) /\ l2 \in 0 .. Len(s)
    BY <1>5, <1>9, <1>14, <2>1
  <2>3. s[l1] = "LITERAL_STRING" /\ s[l2] = "ASSIGN"
    BY <1>14, <2>2 DEF Joins
  <2>4. /\ run[l] \in States /\ run[l1] = Taken(run[l], s[l1])
        /\ run[l1] \in States /\ run[l2] = Taken(run[l1], s[l2])
    <3>1. l < Len(s) /\ l1 < Len(s) /\ l2 = l1 + 1
      BY <1>5, <2>1, <2>2
    <3>2. QED
      BY <1>7, <1>10, <2>1, <2>2, <3>1
  <2>5. run[l1] = State(more, "colon")
    <3>1. run[l].expect \in {"key", "key_or_close"}
      BY <1>11, <1>14
    <3>2. QED
      BY <1>5, <1>11, <2>3, <2>4, <3>1, KeyTaken
  <2>6. run[l1].open = more /\ run[l1].expect = "colon"
    BY <2>5, StateFields
  <2>7. run[l2] = State(more, "value")
    BY <1>5, <2>3, <2>4, <2>6, ColonTaken
  <2>8. run[l2].open = more /\ run[l2].expect = "value"
    BY <2>7, StateFields
  <2>9. \A m \in j .. l2 : m = j \/ m = l \/ m = l1 \/ m = l2
    BY <1>8, <2>1
  <2>10. run[l].expect # "delimiter"
    BY <1>11, <1>14
  <2>11. QED
    <3>1. Ready(run[l2])
      BY <2>8 DEF Ready
    <3>2. k \in Nat /\ k > j
      BY <1>9, <1>14
    <3>3. \A m \in j .. l2 : run[m].open = more
      BY <1>11, <1>12, <2>6, <2>8, <2>9
    <3>4. \A m \in j + 1 .. l2 : run[m].expect # "delimiter"
      <4>1. SUFFICES ASSUME NEW m \in j + 1 .. l2 PROVE run[m].expect # "delimiter"
        OBVIOUS
      <4>2. m = l \/ m = l1 \/ m = l2
        <5>1. m \in j .. l2 /\ m # j
          OBVIOUS
        <5>2. QED
          BY <2>9, <5>1
      <4>3. QED
        BY <2>6, <2>8, <2>10, <4>2
    <3>5. QED
      BY <1>1, <2>2, <3>1, <3>2, <3>3, <3>4 DEF Leads
<1>15. QED
  BY <1>13, <1>14

LEMMA ValuesAreDriven ==
  ASSUME NEW s \in Seq(Tokens), NEW run, IsRun(run, s), NEW m \in Nat, NEW n \in 1 .. Len(s),
         n = m + 1, NEW known, \A p \in known : PartOf(s, run, m, p),
         NEW v \in ValuesTo(s, n, known)
  PROVE  ValueOf(s, run, n, v)
<1>1. CASE s[n] \in Literals /\ v = <<n, Leaf(s, n)>>
  <2>1. v = <<v[1], v[2]>> /\ v[1] = n
    BY <1>1
  <2>2. m \in 0 .. Len(s) /\ m < Len(s) /\ n - 1 = m /\ Len(s) \in Nat
    OBVIOUS
  <2>3. ASSUME Ready(run[m]) PROVE run[n] = State(run[m].open, "delimiter")
    <3>1. run[m] \in States /\ run[n] = Taken(run[m], s[n]) /\ s[n] \in Tokens
      BY <2>2, StateOf
    <3>2. QED
      BY <1>1, <2>3, <3>1, ValueTaken DEF Ready
  <2>4. \A k \in n .. m : FALSE
    BY <2>2
  <2>5. QED
    BY <2>1, <2>2, <2>3, <2>4 DEF ValueOf
<1>2. CASE \E p \in known : /\ p[2] + 1 = n /\ s[n] = Closing(s[p[1]])
                            /\ v = <<p[1], Container(s[p[1]], p[3])>>
  <2>1. PICK p \in known : /\ p[2] + 1 = n /\ s[n] = Closing(s[p[1]])
                           /\ v = <<p[1], Container(s[p[1]], p[3])>>
    BY <1>2
  <2>2. PartOf(s, run, m, p)
    OBVIOUS
  <2>3. p[2] = m
    BY <2>1, <2>2 DEF PartOf
  <2>4. QED
    BY <2>1, <2>2, <2>3, PartCloses
<1>3. QED
  BY <1>1, <1>2, ValueIs

(* A part that a value has joined.                                         *)
LEMMA JoinedIsDriven ==
  ASSUME NEW s \in Seq(Tokens), NEW run, IsRun(run, s), NEW n \in 1 .. Len(s),
         NEW i \in 1 .. Len(s), NEW j \in 1 .. Len(s), NEW r, NEW more,
         PartOf(s, run, j, <<i, j, r>>),
         NEW k, NEW node, ValueOf(s, run, n, <<k, node>>), Joins(s, i, j, k)
  PROVE  PartOf(s, run, n, <<i, n, more>>) /\ j < n
<1>1. PICK p : p = <<i, j, r>>
  OBVIOUS
<1>2. p[1] = i /\ p[2] = j
  BY <1>1
<1>3. i <= j /\ s[i] \in Opens
  BY <1>1, <1>2 DEF PartOf
<1>4. PICK v : v = <<k, node>>
  OBVIOUS
<1>5. v[1] = k
  BY <1>4
<1>6. k \in 1 .. Len(s) /\ k <= n /\ k <= Len(s) + 1 /\ Len(s) \in Nat
  BY <1>4, <1>5 DEF ValueOf
<1>7. j < k
  <2>1. NextItem(i, j) > j
    BY DEF NextItem
  <2>2. NextItem(i, j) \in Nat
    BY DEF NextItem
  <2>3. QED
    BY <1>6, <2>1, <2>2 DEF Joins
<1>8. j < n /\ i < n /\ i # n
  BY <1>3, <1>6, <1>7
<1>9. ASSUME Ready(run[i - 1])
      PROVE  /\ run[n] = State(Inside(run[i - 1], s[i]), "delimiter")
             /\ \A m \in i .. n : Len(run[m].open) > Len(run[i - 1].open)
  <2>1. PICK inner : inner = Inside(run[i - 1], s[i])
    OBVIOUS
  <2>2. /\ Ready(run[k - 1]) /\ run[k - 1].open = inner
        /\ \A m \in j .. k - 1 : run[m].open = inner
    <3>1. k \in 1 .. Len(s) + 1
      BY <1>6
    <3>2. Leads(s, run, i, j, k)
      BY <1>9, <3>1, Between
    <3>3. k - 1 \in j .. k - 1
      BY <1>6, <1>7
    <3>4. QED
      BY <2>1, <3>2, <3>3 DEF Leads
  <2>3. /\ run[n] = State(inner, "delimiter")
        /\ \A m \in k .. n - 1 : Len(run[m].open) > Len(inner)
    BY <1>4, <1>5, <2>2 DEF ValueOf
  <2>4. PICK d \in Nat, e \in Nat : d = Len(run[i - 1].open) /\ e = Len(inner) /\ e = d + 1
    <3>1. i - 1 \in 0 .. Len(s)
      OBVIOUS
    <3>2. QED
      BY <1>3, <2>1, <3>1, StateOf
  <2>5. \A m \in i .. j : Len(run[m].open) > d
    BY <1>1, <1>2, <1>9, <2>4 DEF PartOf
  <2>6. ASSUME NEW m \in i .. n PROVE Len(run[m].open) > d
    <3>1. Len(run[m].open) \in Nat
      <4>1. m \in 0 .. Len(s)
        OBVIOUS
      <4>2. QED
        BY <4>1, StateOf
    <3>2. CASE m \in i .. j
      BY <2>5, <3>2
    <3>3. CASE m \in j .. k - 1
      <4>1. Len(run[m].open) = e
        BY <2>2, <2>4, <3>3
      <4>2. QED
        BY <2>4, <4>1
    <3>4. CASE m \in k .. n - 1
      <4>1. Len(run[m].open) > e
        BY <2>3, <2>4, <3>4
      <4>2. QED
        BY SMTT(40), <2>4, <3>1, <4>1
    <3>5. CASE m = n
      <4>1. Len(run[m].open) = e
        BY <2>3, <2>4, <3>5, StateFields
      <4>2. QED
        BY <2>4, <4>1
    <3>6. m \in i .. j \/ m \in j .. k - 1 \/ m \in k .. n - 1 \/ m = n
      BY <1>6, <1>7
    <3>7. QED
      BY <3>2, <3>3, <3>4, <3>5, <3>6
  <2>7. QED
    BY <2>1, <2>3, <2>4, <2>6
<1>10. PICK q : q = <<i, n, more>>
  OBVIOUS
<1>11. q = <<q[1], q[2], q[3]>> /\ q[1] = i /\ q[2] = n
  BY <1>10
<1>12. PartOf(s, run, n, q)
  BY <1>3, <1>8, <1>9, <1>11 DEF PartOf
<1>13. QED
  BY <1>8, <1>10, <1>12

LEMMA PartLater ==
  ASSUME NEW s, NEW run, NEW p, NEW m \in Nat, PartOf(s, run, m, p)
  PROVE  /\ p = <<p[1], p[2], p[3]>> /\ p[1] \in 1 .. Len(s) /\ p[2] \in 1 .. Len(s)
         /\ p[2] <= m /\ PartOf(s, run, p[2], p)
         /\ \A n \in Nat : m <= n => PartOf(s, run, n, p)
<1>1. /\ p = <<p[1], p[2], p[3]>> /\ p[1] \in 1 .. Len(s) /\ p[2] \in 1 .. Len(s)
      /\ p[2] <= m
  BY DEF PartOf
<1>2. p[2] <= p[2] /\ \A n \in Nat : m <= n => p[2] <= n
  BY <1>1
<1>3. QED
  BY <1>1, <1>2 DEF PartOf

LEMMA PartsAreDriven ==
  ASSUME NEW s \in Seq(Tokens), NEW run, IsRun(run, s), NEW m \in Nat, NEW n \in 1 .. Len(s),
         n = m + 1, NEW known, \A p \in known : PartOf(s, run, m, p),
         NEW p \in PartsTo(s, n, known)
  PROVE  PartOf(s, run, n, p) /\ p[2] = n
<1>1. CASE s[n] \in Opens /\ p = <<n, n, <<>>>>
  <2>1. p = <<p[1], p[2], p[3]>> /\ p[1] = n /\ p[2] = n
    BY <1>1
  <2>2. m \in 0 .. Len(s) /\ m < Len(s) /\ n - 1 = m /\ Len(s) \in Nat
    OBVIOUS
  <2>3. ASSUME Ready(run[m])
        PROVE  /\ run[n] = State(Inside(run[m], s[n]),
                                 IF s[n] = "OBJECT_OPEN" THEN "key_or_close" ELSE "value_or_close")
               /\ \A k \in n .. n : Len(run[k].open) > Len(run[m].open)
    <3>1. run[m] \in States /\ run[n] = Taken(run[m], s[n]) /\ s[n] \in Tokens
      BY <2>2, StateOf
    <3>2. run[n] = State(Append(run[m].open, s[n]),
                         IF s[n] = "OBJECT_OPEN" THEN "key_or_close" ELSE "value_or_close")
      BY <1>1, <2>3, <3>1, ValueTaken DEF Ready, Opens
    <3>3. run[n].open = Inside(run[m], s[n])
      BY ZenonT(60), <3>2, StateFields DEF Inside
    <3>4. Len(run[n].open) = Len(run[m].open) + 1 /\ Len(run[m].open) \in Nat
      BY <1>1, <2>2, <3>3, StateOf
    <3>5. \A k \in n .. n : k = n
      OBVIOUS
    <3>6. QED
      BY <3>2, <3>4, <3>5 DEF Inside
  <2>4. n <= n
    OBVIOUS
  <2>5. QED
    BY <1>1, <2>1, <2>2, <2>3, <2>4 DEF PartOf
<1>2. CASE \E q \in known, v \in ValuesTo(s, n, known) :
              /\ Joins(s, q[1], q[2], v[1])
              /\ p = <<q[1], n, Append(q[3], Item(s, q[1], q[2], v[2]))>>
  <2>1. PICK q \in known, v \in ValuesTo(s, n, known) :
              /\ Joins(s, q[1], q[2], v[1])
              /\ p = <<q[1], n, Append(q[3], Item(s, q[1], q[2], v[2]))>>
    BY <1>2
  <2>2. ValueOf(s, run, n, v)
    BY ValuesAreDriven
  <2>3. v = <<v[1], v[2]>>
    BY <2>2 DEF ValueOf
  <2>4. PartOf(s, run, m, q)
    OBVIOUS
  <2>5. /\ q = <<q[1], q[2], q[3]>> /\ q[1] \in 1 .. Len(s) /\ q[2] \in 1 .. Len(s)
        /\ PartOf(s, run, q[2], q)
    BY <2>4, PartLater
  <2>6. PICK i \in 1 .. Len(s), j \in 1 .. Len(s) : i = q[1] /\ j = q[2]
    BY <2>5
  <2>7. PartOf(s, run, j, <<i, j, q[3]>>) /\ Joins(s, i, j, v[1])
    BY <2>1, <2>5, <2>6
  <2>8. ValueOf(s, run, n, <<v[1], v[2]>>)
    BY <2>2, <2>3
  <2>9. PICK more : more = Append(q[3], Item(s, q[1], q[2], v[2]))
    OBVIOUS
  <2>10. PartOf(s, run, n, <<i, n, more>>)
    BY <2>7, <2>8, JoinedIsDriven
  <2>11. p = <<i, n, more>>
    BY <2>1, <2>6, <2>9
  <2>12. QED
    BY <2>10, <2>11
<1>3. QED
  BY <1>1, <1>2, PartIs

LEMMA ChartIsDriven ==
  ASSUME NEW s \in Seq(Tokens), NEW run, IsRun(run, s), NEW g, IsChart(g, s)
  PROVE  \A n \in 0 .. Len(s) : \A p \in g[n] : PartOf(s, run, n, p)
<1> DEFINE Bad == {n \in 0 .. Len(s) : ~\A p \in g[n] : PartOf(s, run, n, p)}
<1>1. SUFFICES ASSUME Bad # {} PROVE FALSE
  OBVIOUS
<1>2. PICK n \in Bad : \A k \in Bad : n <= k
  <2>1. Bad \subseteq Nat
    OBVIOUS
  <2> HIDE DEF Bad
  <2>2. QED
    BY <1>1, <2>1, LeastNatural
<1>3. n \in 0 .. Len(s) /\ ~\A p \in g[n] : PartOf(s, run, n, p)
  OBVIOUS
<1>4. n # 0
  BY <1>3 DEF IsChart
<1>5. PICK m \in Nat : n = m + 1
  <2>1. n \in Nat
    BY <1>3
  <2> HIDE DEF Bad
  <2>2. QED
    BY <1>4, <2>1
<1>6. m \in 0 .. Len(s) /\ n \in 1 .. Len(s) /\ n - 1 = m /\ ~(n <= m) /\ m <= n /\ n \in Nat
  BY <1>3, <1>5
<1>7. \A p \in g[m] : PartOf(s, run, m, p)
  BY <1>2, <1>6
<1>8. g[n] = g[m] \cup PartsTo(s, n, g[m])
  BY <1>6 DEF IsChart
<1>9. ASSUME NEW p \in g[n] PROVE PartOf(s, run, n, p)
  <2>1. CASE p \in g[m]
    BY <1>6, <1>7, <2>1, PartLater
  <2>2. CASE p \in PartsTo(s, n, g[m])
    BY <1>5, <1>6, <1>7, <2>2, PartsAreDriven
  <2>3. QED
    BY <1>8, <2>1, <2>2
<1>10. QED
  BY <1>3, <1>9

(* Where a value stands the tokens are derived in one way.                 *)
Unique(run, known) ==
    \A p, q \in known : p[1] = q[1] /\ p[2] = q[2] /\ Ready(run[p[1] - 1]) => p = q

LEMMA ValuesAreUnique ==
  ASSUME NEW s \in Seq(Tokens), NEW run, IsRun(run, s), NEW m \in Nat, NEW n \in 1 .. Len(s),
         n = m + 1, NEW known, \A p \in known : PartOf(s, run, m, p), Unique(run, known),
         NEW v \in ValuesTo(s, n, known), NEW w \in ValuesTo(s, n, known),
         v[1] = w[1], Ready(run[v[1] - 1])
  PROVE  v = w
<1> DEFINE Read(u) == s[n] \in Literals /\ u = <<n, Leaf(s, n)>>
           Closed(u) == \E p \in known : /\ p[2] + 1 = n /\ s[n] = Closing(s[p[1]])
                                         /\ u = <<p[1], Container(s[p[1]], p[3])>>
<1>1. (Read(v) \/ Closed(v)) /\ (Read(w) \/ Closed(w))
  BY ValueIs
<1>2. ASSUME NEW u, Read(u) PROVE u[1] = n
  BY <1>2
<1>3. ASSUME NEW u, Closed(u) PROVE u[1] # n
  <2>1. PICK p \in known : p[2] + 1 = n /\ u = <<p[1], Container(s[p[1]], p[3])>>
    BY <1>3
  <2>2. PartOf(s, run, m, p)
    OBVIOUS
  <2>3. p[1] <= m /\ p[1] \in 1 .. Len(s)
    BY <2>1, <2>2 DEF PartOf
  <2>4. u[1] = p[1]
    BY <2>1
  <2>5. QED
    BY <2>3, <2>4
<1>4. CASE Read(v) /\ Read(w)
  BY <1>4
<1>5. CASE Closed(v) /\ Closed(w)
  <2>1. PICK p \in known : p[2] + 1 = n /\ v = <<p[1], Container(s[p[1]], p[3])>>
    BY <1>5
  <2>2. PICK q \in known : q[2] + 1 = n /\ w = <<q[1], Container(s[q[1]], q[3])>>
    BY <1>5
  <2>3. v[1] = p[1] /\ w[1] = q[1]
    BY <2>1, <2>2
  <2>4. PartOf(s, run, m, p) /\ PartOf(s, run, m, q)
    OBVIOUS
  <2>5. p[2] \in Nat /\ q[2] \in Nat
    BY <2>4 DEF PartOf
  <2>6. p[2] = q[2]
    BY <2>1, <2>2, <2>5
  <2>7. p = q
    BY <2>3, <2>6 DEF Unique
  <2>8. QED
    BY <2>1, <2>2, <2>7
<1>6. QED
  BY <1>1, <1>2, <1>3, <1>4, <1>5

(* A value joins one part only: a part that ends later would end within    *)
(* the value, where more brackets are open, or before it, where no item    *)
(* has been read.                                                          *)
LEMMA NoLaterPart ==
  ASSUME NEW s \in Seq(Tokens), NEW run, IsRun(run, s), NEW n \in 1 .. Len(s),
         NEW i \in 1 .. Len(s), NEW j \in 1 .. Len(s), NEW r,
         PartOf(s, run, j, <<i, j, r>>), Ready(run[i - 1]),
         NEW k, NEW node, ValueOf(s, run, n, <<k, node>>), Joins(s, i, j, k),
         NEW l \in 1 .. Len(s), NEW r2, PartOf(s, run, l, <<i, l, r2>>), j < l, l < n
  PROVE  FALSE
<1>1. PICK inner : inner = Inside(run[i - 1], s[i])
  OBVIOUS
<1>2. PICK p : p = <<i, l, r2>>
  OBVIOUS
<1>3. p[1] = i /\ p[2] = l
  BY <1>2
<1>4. PICK q : q = <<i, j, r>>
  OBVIOUS
<1>5. q[1] = i /\ q[2] = j
  BY <1>4
<1>6. i <= j /\ s[i] \in Opens
  BY <1>4, <1>5 DEF PartOf
<1>7. i # l
  BY <1>6
<1>8. run[l].open = inner /\ run[l].expect = "delimiter"
  <2>1. run[l] = State(inner, "delimiter")
    BY <1>1, <1>2, <1>3, <1>7 DEF PartOf
  <2>2. QED
    BY <2>1, StateFields
<1>9. PICK v : v = <<k, node>>
  OBVIOUS
<1>10. v[1] = k
  BY <1>9
<1>11. k \in 1 .. Len(s) /\ k <= n /\ k \in 1 .. Len(s) + 1
  BY <1>9, <1>10 DEF ValueOf
<1>12. Leads(s, run, i, j, k)
  BY <1>11, Between
<1>13. k > j /\ k - 1 \in j .. k - 1
  BY <1>11, <1>12 DEF Leads
<1>14. Ready(run[k - 1]) /\ run[k - 1].open = inner
  BY <1>1, <1>12, <1>13 DEF Leads
<1>15. CASE l < k
  <2>1. l \in j + 1 .. k - 1
    BY <1>11, <1>15
  <2>2. QED
    BY <1>8, <1>12, <2>1 DEF Leads
<1>16. CASE l >= k
  <2>1. l \in k .. n - 1
    BY <1>11, <1>16
  <2>2. Len(run[l].open) > Len(run[k - 1].open)
    BY <1>9, <1>10, <1>14, <2>1 DEF ValueOf
  <2>3. Len(inner) > Len(inner)
    BY <1>8, <1>14, <2>2
  <2>4. Len(inner) \in Nat
    <3>1. l \in 0 .. Len(s)
      OBVIOUS
    <3>2. QED
      BY <1>8, <3>1, StateOf
  <2>5. QED
    BY <2>3, <2>4
<1>17. QED
  BY <1>11, <1>15, <1>16

LEMMA PartsAreUnique ==
  ASSUME NEW s \in Seq(Tokens), NEW run, IsRun(run, s), NEW m \in Nat, NEW n \in 1 .. Len(s),
         n = m + 1, NEW known, \A p \in known : PartOf(s, run, m, p), Unique(run, known)
  PROVE  Unique(run, PartsTo(s, n, known))
<1> DEFINE Opened(p) == s[n] \in Opens /\ p = <<n, n, <<>>>>
           Values == ValuesTo(s, n, known)
           Joined(p, q, v) == /\ Joins(s, q[1], q[2], v[1])
                              /\ p = <<q[1], n, Append(q[3], Item(s, q[1], q[2], v[2]))>>
<1>1. ASSUME NEW p \in PartsTo(s, n, known)
      PROVE  Opened(p) \/ \E q \in known, v \in Values : Joined(p, q, v)
  <2>1. \/ s[n] \in Opens /\ p = <<n, n, <<>>>>
        \/ \E q \in known, v \in ValuesTo(s, n, known) :
              /\ Joins(s, q[1], q[2], v[1])
              /\ p = <<q[1], n, Append(q[3], Item(s, q[1], q[2], v[2]))>>
    BY <1>1, PartIs
  <2>2. QED
    BY Zenon, <2>1
<1>2. ASSUME NEW p, Opened(p) PROVE p[1] = n
  BY <1>2
<1>3. ASSUME NEW p, NEW q \in known, NEW v \in Values, Joined(p, q, v)
      PROVE  /\ p[1] = q[1] /\ p[1] # n
             /\ q = <<q[1], q[2], q[3]>> /\ q[1] \in 1 .. Len(s) /\ q[2] \in 1 .. Len(s) /\ q[2] < n
             /\ PartOf(s, run, q[2], q) /\ ValueOf(s, run, n, v)
             /\ v = <<v[1], v[2]>>
  <2>1. PartOf(s, run, m, q)
    OBVIOUS
  <2>2. /\ q = <<q[1], q[2], q[3]>> /\ q[1] \in 1 .. Len(s) /\ q[2] \in 1 .. Len(s)
        /\ q[2] <= m /\ PartOf(s, run, q[2], q)
    BY <2>1, PartLater
  <2>3. p[1] = q[1]
    BY <1>3
  <2>4. q[1] <= m
    BY <2>1 DEF PartOf
  <2>5. p[1] # n /\ q[2] < n
    BY <2>2, <2>3, <2>4
  <2>6. ValueOf(s, run, n, v)
    BY ValuesAreDriven
  <2>7. v = <<v[1], v[2]>>
    BY <2>6 DEF ValueOf
  <2>8. QED
    BY <2>2, <2>3, <2>5, <2>6, <2>7
<1>4. ASSUME NEW p, NEW q \in known, NEW v \in Values, Joined(p, q, v),
             NEW p2, NEW q2 \in known, NEW v2 \in Values, Joined(p2, q2, v2),
             p[1] = p2[1], Ready(run[p[1] - 1]), q[2] < q2[2]
      PROVE  FALSE
  <2>1. /\ p[1] = q[1]
        /\ q = <<q[1], q[2], q[3]>> /\ q[1] \in 1 .. Len(s) /\ q[2] \in 1 .. Len(s)
        /\ PartOf(s, run, q[2], q) /\ ValueOf(s, run, n, v)
        /\ v = <<v[1], v[2]>>
        /\ p2[1] = q2[1]
        /\ q2 = <<q2[1], q2[2], q2[3]>> /\ q2[2] \in 1 .. Len(s) /\ q2[2] < n
        /\ PartOf(s, run, q2[2], q2)
    <3>1. Joined(p, q, v) /\ Joined(p2, q2, v2)
      BY <1>4
    <3> HIDE DEF Joined, Values
    <3>2. QED
      BY Zenon, <3>1, <1>3
  <2>2. PICK i \in 1 .. Len(s), j \in 1 .. Len(s), l \in 1 .. Len(s) :
           i = q[1] /\ j = q[2] /\ l = q2[2]
    BY <2>1
  <2>3. /\ i = q2[1] /\ i = p[1]
        /\ PartOf(s, run, j, <<i, j, q[3]>>) /\ PartOf(s, run, l, <<i, l, q2[3]>>)
    BY Zenon, <1>4, <2>1, <2>2
  <2>4. ValueOf(s, run, n, <<v[1], v[2]>>) /\ Joins(s, i, j, v[1])
    BY Zenon, <1>4, <2>1, <2>2
  <2>5. j < l /\ l < n /\ Ready(run[i - 1])
    BY Zenon, <1>4, <2>1, <2>2, <2>3
  <2>6. QED
    BY Zenon, <2>3, <2>4, <2>5, NoLaterPart
<1>5. ASSUME NEW p, NEW q \in known, NEW v \in Values, Joined(p, q, v),
             NEW p2, NEW q2 \in known, NEW v2 \in Values, Joined(p2, q2, v2),
             p[1] = p2[1], Ready(run[p[1] - 1])
      PROVE  p = p2
  <2>1. /\ p[1] = q[1] /\ p2[1] = q2[1]
        /\ q = <<q[1], q[2], q[3]>> /\ q[1] \in 1 .. Len(s) /\ q[2] \in 1 .. Len(s)
        /\ PartOf(s, run, q[2], q) /\ ValueOf(s, run, n, v) /\ q2[2] \in 1 .. Len(s)
    <3>1. Joined(p, q, v) /\ Joined(p2, q2, v2)
      BY <1>5
    <3> HIDE DEF Joined, Values
    <3>2. QED
      BY Zenon, <3>1, <1>3
  <2>2. q[2] = q2[2]
    <3>1. ~(q[2] < q2[2]) /\ ~(q2[2] < q[2])
      BY Zenon, <1>4, <1>5
    <3>2. q[2] \in Nat /\ q2[2] \in Nat
      BY <2>1
    <3>3. QED
      BY <3>1, <3>2
  <2>3. q[1] = q2[1] /\ Ready(run[q[1] - 1])
    BY Zenon, <1>5, <2>1
  <2>4. q = q2
    BY <2>2, <2>3 DEF Unique
  <2>5. v[1] = v2[1]
    <3>1. Joins(s, q[1], q[2], v[1]) /\ Joins(s, q[1], q[2], v2[1])
      BY Zenon, <1>5, <2>4
    <3>2. QED
      BY <3>1 DEF Joins
  <2>6. Ready(run[v[1] - 1])
    <3>1. PICK i \in 1 .. Len(s), j \in 1 .. Len(s) : i = q[1] /\ j = q[2]
      BY <2>1
    <3>2. PartOf(s, run, j, <<i, j, q[3]>>) /\ ValueOf(s, run, n, v)
      BY Zenon, <2>1, <3>1
    <3>3. v[1] \in 1 .. Len(s) + 1
      BY <3>2 DEF ValueOf
    <3>4. Joins(s, i, j, v[1]) /\ Ready(run[i - 1])
      BY Zenon, <1>5, <2>3, <3>1
    <3>5. Leads(s, run, i, j, v[1])
      BY <3>2, <3>3, <3>4, Between
    <3>6. QED
      BY <3>5 DEF Leads
  <2>7. v = v2
    BY <2>5, <2>6, ValuesAreUnique
  <2>8. QED
    BY Zenon, <1>5, <2>4, <2>7
<1>6. ASSUME NEW p \in PartsTo(s, n, known), NEW p2 \in PartsTo(s, n, known),
             p[1] = p2[1], Ready(run[p[1] - 1])
      PROVE  p = p2
  <2>1. CASE Opened(p) /\ Opened(p2)
    BY <2>1
  <2>2. CASE /\ \E q \in known, v \in Values : Joined(p, q, v)
             /\ \E q \in known, v \in Values : Joined(p2, q, v)
    BY Zenon, <1>5, <1>6, <2>2
  <2>3. CASE Opened(p) /\ \E q \in known, v \in Values : Joined(p2, q, v)
    BY Zenon, <1>2, <1>3, <1>6, <2>3
  <2>4. CASE Opened(p2) /\ \E q \in known, v \in Values : Joined(p, q, v)
    BY Zenon, <1>2, <1>3, <1>6, <2>4
  <2>5. QED
    BY Zenon, <1>1, <2>1, <2>2, <2>3, <2>4
<1>7. QED
  BY Zenon, <1>6 DEF Unique

LEMMA ChartIsUnique ==
  ASSUME NEW s \in Seq(Tokens), NEW run, IsRun(run, s), NEW g, IsChart(g, s)
  PROVE  \A n \in 0 .. Len(s) : Unique(run, g[n])
<1> DEFINE Bad == {n \in 0 .. Len(s) : ~Unique(run, g[n])}
<1>1. SUFFICES ASSUME Bad # {} PROVE FALSE
  OBVIOUS
<1>2. PICK n \in Bad : \A k \in Bad : n <= k
  <2>1. Bad \subseteq Nat
    OBVIOUS
  <2> HIDE DEF Bad
  <2>2. QED
    BY <1>1, <2>1, LeastNatural
<1>3. n \in 0 .. Len(s) /\ ~Unique(run, g[n])
  OBVIOUS
<1>4. n # 0
  BY <1>3 DEF IsChart, Unique
<1>5. PICK m \in Nat : n = m + 1
  <2>1. n \in Nat
    BY <1>3
  <2> HIDE DEF Bad
  <2>2. QED
    BY <1>4, <2>1
<1>6. m \in 0 .. Len(s) /\ n \in 1 .. Len(s) /\ n - 1 = m /\ ~(n <= m) /\ m <= n /\ n \in Nat
  BY <1>3, <1>5
<1>7. Unique(run, g[m])
  BY <1>2, <1>6
<1>8. g[n] = g[m] \cup PartsTo(s, n, g[m])
  BY <1>6 DEF IsChart
<1>9. \A p \in g[m] : PartOf(s, run, m, p)
  BY <1>6, ChartIsDriven
<1>10. Unique(run, PartsTo(s, n, g[m]))
  BY <1>5, <1>6, <1>7, <1>9, PartsAreUnique
<1>11. /\ \A p \in g[m] : p[2] # n
       /\ \A p \in PartsTo(s, n, g[m]) : p[2] = n
  <2>1. ASSUME NEW p \in g[m] PROVE p[2] # n
    <3>1. PartOf(s, run, m, p)
      BY <1>9
    <3>2. p[2] <= m /\ p[2] \in 1 .. Len(s)
      BY <3>1 DEF PartOf
    <3>3. QED
      BY <1>6, <3>2
  <2>2. ASSUME NEW p \in PartsTo(s, n, g[m]) PROVE p[2] = n
    BY PartEnds
  <2>3. QED
    BY <2>1, <2>2
<1>12. Unique(run, g[n])
  BY Zenon, <1>7, <1>8, <1>10, <1>11 DEF Unique
<1>13. QED
  BY <1>3, <1>12

(* A text that the grammar derives is JSON, and it derives one tree.       *)
LEMMA DerivedIsJson ==
  ASSUME NEW s \in Seq(Tokens), s # <<>>, NEW node \in Derived(s)
  PROVE  IsJson(s) /\ Derived(s) = {node}
<1> DEFINE g == Parts(s)
           run == Run(s)
<1>1. PICK n : n = Len(s)
  OBVIOUS
<1>2. PICK m \in Nat : n = m + 1
  BY <1>1
<1>3. n \in 1 .. Len(s) /\ m \in 0 .. Len(s) /\ n - 1 = m /\ Len(s) - 1 = m
  BY <1>1, <1>2
<1>4. IsChart(g, s) /\ IsRun(run, s)
  BY PartsIs, RunOf
<1>5. run[0] = Begun
  BY <1>4 DEF IsRun
<1> HIDE DEF g, run
<1>6. Ready(run[1 - 1]) /\ run[1 - 1].open = <<>>
  BY <1>5 DEF Begun, Ready
<1>7. (\A p \in g[m] : PartOf(s, run, m, p)) /\ Unique(run, g[m])
  BY <1>3, <1>4, ChartIsDriven, ChartIsUnique
<1>8. \A u : u \in Derived(s) <=> \E v \in ValuesTo(s, n, g[m]) : v[1] = 1 /\ u = v[2]
  BY <1>1, <1>3 DEF Derived, g
<1>9. PICK v \in ValuesTo(s, n, g[m]) : v[1] = 1 /\ node = v[2]
  BY <1>8
<1>10. run[n] = State(<<>>, "delimiter")
  <2>1. ValueOf(s, run, n, v)
    BY <1>2, <1>3, <1>4, <1>7, ValuesAreDriven
  <2>2. QED
    BY <1>6, <1>9, <2>1 DEF ValueOf
<1>11. IsJson(s)
  BY <1>1, <1>10 DEF IsJson, run
<1>12. ASSUME NEW u \in Derived(s) PROVE u = node
  <2>1. PICK w \in ValuesTo(s, n, g[m]) : w[1] = 1 /\ u = w[2]
    BY <1>8
  <2>2. v[1] = w[1] /\ Ready(run[v[1] - 1])
    BY <1>6, <1>9, <2>1
  <2>3. v = w
    BY <1>2, <1>3, <1>4, <1>7, <2>2, ValuesAreUnique
  <2>4. QED
    BY <1>9, <2>1, <2>3
<1>13. QED
  BY <1>11, <1>12

LEMMA ChartGrows ==
  ASSUME NEW s, Len(s) \in Nat, NEW g, IsChart(g, s), NEW n \in 0 .. Len(s), NEW m \in 0 .. n
  PROVE  /\ g[m] \subseteq g[n]
         /\ \A p \in g[n] : p[2] \in Nat /\ p[2] <= m => p \in g[m]
<1> DEFINE Grows(l, k) == /\ g[k] \subseteq g[l]
                          /\ \A p \in g[l] : p[2] \in Nat /\ p[2] <= k => p \in g[k]
           Bad == {l \in 0 .. Len(s) : ~\A k \in 0 .. l : Grows(l, k)}
<1>1. ASSUME Bad # {} PROVE FALSE
  <2>1. PICK l \in Bad : \A k \in Bad : l <= k
    <3>1. Bad \subseteq Nat
      OBVIOUS
    <3> HIDE DEF Bad
    <3>2. QED
      BY <1>1, <3>1, LeastNatural
  <2>2. l \in 0 .. Len(s) /\ l \in Nat /\ ~\A k \in 0 .. l : Grows(l, k)
    OBVIOUS
  <2>3. PICK k \in 0 .. l : ~Grows(l, k)
    BY <2>2
  <2>4. k # l
    BY <2>3
  <2>5. PICK h \in Nat : l = h + 1
    <3>1. l # 0
      BY <2>2, <2>4
    <3> HIDE DEF Bad
    <3>2. QED
      BY <2>2, <3>1
  <2>6. h \in 0 .. Len(s) /\ l \in 1 .. Len(s) /\ l - 1 = h /\ ~(l <= h) /\ k \in 0 .. h /\ k < l
    BY <2>2, <2>4, <2>5
  <2>7. Grows(h, k)
    BY <2>1, <2>6
  <2>8. g[l] = g[h] \cup PartsTo(s, l, g[h])
    BY <2>6 DEF IsChart
  <2>9. ASSUME NEW p \in PartsTo(s, l, g[h]) PROVE ~(p[2] <= k)
    <3>1. p[2] = l
      BY PartEnds
    <3>2. QED
      BY <2>6, <3>1
  <2>10. Grows(l, k)
    BY <2>7, <2>8, <2>9
  <2>11. QED
    BY <2>3, <2>10
<1>2. n \notin Bad
  BY <1>1
<1> HIDE DEF Grows
<1>3. Grows(n, m)
  BY <1>2
<1>4. QED
  BY <1>3 DEF Grows

(* What the parser has read of the containers it is in are parts, each but *)
(* the innermost one goes on with the next, and where it stands is where   *)
(* the innermost one goes on.  This is so as long as the text is JSON.     *)
AllParts(s)  == Parts(s)[Len(s)]
Values(s, n) == ValuesTo(s, n, Parts(s)[n - 1])

Sound(s, run) ==
    /\ s \in Seq(Tokens) /\ IsRun(run, s)
    /\ \A n \in 0 .. Len(s) : run[n] # Wrong
    /\ \A n \in 1 .. Len(s) : s[n] \in Follows(Before(s, n))

LEMMA PartBegins ==
  ASSUME NEW s \in Seq(Tokens), NEW i \in 1 .. Len(s), s[i] \in Opens
  PROVE  <<i, i, <<>>>> \in AllParts(s)
<1>1. PICK g : g = Parts(s) /\ IsChart(g, s)
  BY PartsIs
<1>2. <<i, i, <<>>>> \in PartsTo(s, i, g[i - 1])
  BY PartIs
<1>3. <<i, i, <<>>>> \in g[i]
  BY <1>1, <1>2 DEF IsChart
<1>4. i \in 0 .. Len(s) /\ Len(s) \in 0 .. Len(s) /\ i \in 0 .. Len(s) /\ Len(s) \in Nat
  OBVIOUS
<1>5. g[i] \subseteq g[Len(s)]
  BY <1>1, <1>4, ChartGrows
<1>6. QED
  BY <1>1, <1>3, <1>5 DEF AllParts

LEMMA PartOfAll ==
  ASSUME NEW s \in Seq(Tokens), NEW run, IsRun(run, s), NEW i, NEW j, NEW r,
         <<i, j, r>> \in AllParts(s)
  PROVE  /\ i \in 1 .. Len(s) /\ j \in 1 .. Len(s) /\ i <= j /\ s[i] \in Opens
         /\ PartOf(s, run, j, <<i, j, r>>)
         /\ \A n \in j .. Len(s) : <<i, j, r>> \in Parts(s)[n]
<1>1. PICK g : g = Parts(s) /\ IsChart(g, s)
  BY PartsIs
<1>2. PICK p : p = <<i, j, r>>
  OBVIOUS
<1>3. p[1] = i /\ p[2] = j
  BY <1>2
<1>4. Len(s) \in 0 .. Len(s) /\ Len(s) \in Nat
  OBVIOUS
<1>5. p \in g[Len(s)]
  BY <1>1, <1>2 DEF AllParts
<1>6. PartOf(s, run, Len(s), p)
  BY <1>1, <1>4, <1>5, ChartIsDriven
<1>7. /\ i \in 1 .. Len(s) /\ j \in 1 .. Len(s) /\ i <= j /\ s[i] \in Opens
  BY <1>3, <1>6 DEF PartOf
<1>8. PartOf(s, run, j, p)
  BY <1>3, <1>4, <1>6, PartLater
<1>9. ASSUME NEW n \in j .. Len(s) PROVE p \in g[n]
  <2>1. n \in 0 .. Len(s) /\ p[2] \in Nat /\ p[2] <= n
    BY <1>3, <1>7
  <2>2. QED
    BY <1>1, <1>4, <1>5, <2>1, ChartGrows
<1>10. QED
  BY <1>1, <1>2, <1>7, <1>8, <1>9

LEMMA PartEnded ==
  ASSUME NEW s \in Seq(Tokens), NEW i, NEW j, NEW r, <<i, j, r>> \in AllParts(s),
         NEW n \in 1 .. Len(s), n = j + 1, s[n] = Closing(s[i])
  PROVE  <<i, Container(s[i], r)>> \in Values(s, n)
<1>1. j \in 1 .. Len(s) /\ \A m \in j .. Len(s) : <<i, j, r>> \in Parts(s)[m]
  BY RunOf, PartOfAll
<1>2. n - 1 = j /\ j \in j .. Len(s)
  BY <1>1
<1>3. PICK p : p = <<i, j, r>>
  OBVIOUS
<1>4. p \in Parts(s)[n - 1] /\ p[1] = i /\ p[2] = j /\ p[3] = r
  BY <1>1, <1>2, <1>3
<1>5. \E q \in Parts(s)[n - 1] : /\ q[2] + 1 = n /\ s[n] = Closing(s[q[1]])
                                 /\ <<i, Container(s[i], r)>> = <<q[1], Container(s[q[1]], q[3])>>
  BY <1>4
<1>6. QED
  BY <1>5, ValueIs DEF Values

LEMMA PartGoesOn ==
  ASSUME NEW s \in Seq(Tokens), NEW i, NEW j, NEW r, <<i, j, r>> \in AllParts(s),
         NEW n \in 1 .. Len(s), NEW k, NEW node, <<k, node>> \in Values(s, n),
         Joins(s, i, j, k)
  PROVE  <<i, n, Append(r, Item(s, i, j, node))>> \in AllParts(s)
<1>1. PICK g : g = Parts(s) /\ IsChart(g, s)
  BY PartsIs
<1>2. PICK run : IsRun(run, s)
  BY RunOf
<1>3. PICK m \in Nat : n = m + 1
  OBVIOUS
<1>4. m \in 0 .. Len(s) /\ n - 1 = m /\ Len(s) \in Nat /\ n \in 0 .. Len(s) /\ Len(s) \in 0 .. Len(s)
  BY <1>3
<1>5. /\ i \in 1 .. Len(s) /\ j \in 1 .. Len(s) /\ PartOf(s, run, j, <<i, j, r>>)
      /\ \A l \in j .. Len(s) : <<i, j, r>> \in Parts(s)[l]
  BY <1>2, PartOfAll
<1>6. <<k, node>> \in ValuesTo(s, n, g[m])
  BY <1>1, <1>4 DEF Values
<1>7. \A p \in g[m] : PartOf(s, run, m, p)
  BY <1>1, <1>2, <1>4, ChartIsDriven
<1>8. ValueOf(s, run, n, <<k, node>>)
  BY <1>2, <1>3, <1>6, <1>7, ValuesAreDriven
<1>9. j < n
  BY <1>2, <1>5, <1>8, JoinedIsDriven
<1>10. <<i, j, r>> \in g[m]
  <2>1. m \in j .. Len(s)
    BY <1>3, <1>4, <1>5, <1>9
  <2>2. QED
    BY <1>1, <1>5, <2>1
<1>11. PICK q, v : q = <<i, j, r>> /\ v = <<k, node>>
  OBVIOUS
<1>12. q[1] = i /\ q[2] = j /\ q[3] = r /\ v[1] = k /\ v[2] = node
  BY <1>11
<1>13. PICK p : p = <<i, n, Append(r, Item(s, i, j, node))>>
  OBVIOUS
<1>14. \E q_1 \in g[m], v_1 \in ValuesTo(s, n, g[m]) :
          /\ Joins(s, q_1[1], q_1[2], v_1[1])
          /\ p = <<q_1[1], n, Append(q_1[3], Item(s, q_1[1], q_1[2], v_1[2]))>>
  BY Zenon, <1>6, <1>10, <1>11, <1>12, <1>13
<1>15. p \in PartsTo(s, n, g[m])
  BY Zenon, <1>14, PartIs
<1>16. p \in g[n]
  BY <1>1, <1>4, <1>15 DEF IsChart
<1>17. g[n] \subseteq g[Len(s)]
  BY <1>1, <1>4, ChartGrows
<1>18. QED
  BY <1>1, <1>13, <1>16, <1>17 DEF AllParts

HeldIn(s) == [key : Nat, read : {p[3] : p \in AllParts(s)}]

(* A value that begins at k is the next of a part, and the parser has its  *)
(* key.                                                                    *)
Awaits(s, part, i, j, k) ==
    /\ Joins(s, i, j, k)
    /\ part.key = IF s[i] = "OBJECT_OPEN" THEN NextItem(i, j) ELSE 0

(* The containers that are open begin with tokens b[1], b[2] and so on,    *)
(* and are read up to e[1], e[2] and so on.                                *)
Nested(s, run, open, held, b, e) ==
    /\ open \in Seq(Opens) /\ held \in Seq(HeldIn(s)) /\ Len(held) = Len(open)
    /\ b \in [Nat -> Nat] /\ e \in [Nat -> Nat]
    /\ \A k \in 1 .. Len(open) :
          /\ b[k] \in 1 .. Len(s)
          /\ s[b[k]] = open[k] /\ <<b[k], e[k], held[k].read>> \in AllParts(s)
          /\ Ready(run[b[k] - 1])
          /\ open[k] = "ARRAY_OPEN" => held[k].key = 0
    /\ \A k \in 1 .. Len(open), l \in 1 .. Len(open) :
          l = k + 1 => Awaits(s, held[k], b[k], e[k], b[l])
    /\ open # <<>> => b[1] = 1

(* Where a value may begin.                                                *)
Awaited(s, open, held, b, e, i) ==
    IF open = <<>> THEN i = 1
    ELSE LET d == Len(open) IN Awaits(s, held[d], b[d], e[d], i)

Stands(s, i, open, held, next, node, b, e) ==
    LET d == Len(open)
    IN  /\ i \in 1 .. Len(s) + 1 /\ next \in {"element", "member", "value", "delimiter"}
        /\ next \in {"element", "value"} => Awaited(s, open, held, b, e, i)
        /\ next = "element" /\ open # <<>> => open[d] = "ARRAY_OPEN"
        /\ next \in {"member", "value"} => open # <<>> /\ open[d] = "OBJECT_OPEN"
        /\ next = "member" => /\ i = NextItem(b[d], e[d])
                              /\ b[d] # e[d] => s[e[d] + 1] = "COMMA"
        /\ next = "delimiter" =>
              IF open = <<>> THEN \E n \in 1 .. Len(s) : i = n + 1 /\ <<1, node>> \in Values(s, n)
              ELSE /\ i = e[d] + 1
                   /\ b[d] = e[d] => s[i] \in Closes

Growing(s, run, i, open, held, next, node) ==
    \E b, e : /\ Nested(s, run, open, held, b, e)
              /\ Stands(s, i, open, held, next, node, b, e)

LEMMA ValueBegins ==
  ASSUME NEW s \in Seq(Tokens), NEW n \in 1 .. Len(s), NEW i, NEW node,
         <<i, node>> \in Values(s, n)
  PROVE  i \in 1 .. Len(s) /\ i <= n
<1>1. PICK g : g = Parts(s) /\ IsChart(g, s)
  BY PartsIs
<1>2. PICK run : IsRun(run, s)
  BY RunOf
<1>3. PICK m \in Nat : n = m + 1
  OBVIOUS
<1>4. m \in 0 .. Len(s) /\ n - 1 = m
  BY <1>3
<1>5. <<i, node>> \in ValuesTo(s, n, g[m])
  BY <1>1, <1>4 DEF Values
<1>6. \A p \in g[m] : PartOf(s, run, m, p)
  BY <1>1, <1>2, <1>4, ChartIsDriven
<1>7. ValueOf(s, run, n, <<i, node>>)
  BY <1>2, <1>3, <1>5, <1>6, ValuesAreDriven
<1>8. PICK v : v = <<i, node>>
  OBVIOUS
<1>9. v[1] = i
  BY <1>8
<1>10. QED
  BY <1>7, <1>8, <1>9 DEF ValueOf

LEMMA Replaced ==
  ASSUME NEW S, NEW l \in Seq(S), NEW d \in 1 .. Len(l), NEW x \in S, NEW m,
         m = [l EXCEPT ![d] = x]
  PROVE  /\ m \in Seq(S) /\ Len(m) = Len(l) /\ m[d] = x
         /\ \A k \in 1 .. Len(l) : k # d => m[k] = l[k]
  OBVIOUS

(* The innermost container.                                                *)
IsTop(s, run, open, held, b, e, d) ==
    /\ d \in Nat \ {0} /\ d \in 1 .. Len(open) /\ d = Len(held)
    /\ open[d] \in Opens /\ held[d] \in HeldIn(s)
    /\ held[d].key \in Nat
    /\ b[d] \in 1 .. Len(s) /\ e[d] \in 1 .. Len(s) /\ b[d] <= e[d]
    /\ s[b[d]] = open[d] /\ <<b[d], e[d], held[d].read>> \in AllParts(s)
    /\ PartOf(s, run, e[d], <<b[d], e[d], held[d].read>>)
    /\ Ready(run[b[d] - 1])

LEMMA TopOf ==
  ASSUME NEW s, NEW run, Sound(s, run), NEW open, NEW held, NEW b, NEW e,
         Nested(s, run, open, held, b, e), open # <<>>, NEW d, d = Len(open)
  PROVE  IsTop(s, run, open, held, b, e, d)
<1>1. /\ d \in Nat \ {0} /\ d \in 1 .. Len(open) /\ d = Len(held)
      /\ open[d] \in Opens /\ held[d] \in HeldIn(s)
  <2>1. open \in Seq(Opens) /\ held \in Seq(HeldIn(s)) /\ Len(held) = Len(open)
    BY DEF Nested
  <2>2. Len(open) \in Nat /\ Len(open) # 0
    BY <2>1
  <2>3. QED
    BY <2>1, <2>2
<1>2. held[d].key \in Nat
  BY <1>1 DEF HeldIn
<1>3. /\ b[d] \in 1 .. Len(s)
      /\ s[b[d]] = open[d] /\ <<b[d], e[d], held[d].read>> \in AllParts(s)
      /\ Ready(run[b[d] - 1])
  BY <1>1 DEF Nested
<1>4. PICK i, j, r : i = b[d] /\ j = e[d] /\ r = held[d].read
  OBVIOUS
<1>5. j \in 1 .. Len(s) /\ i <= j /\ PartOf(s, run, j, <<i, j, r>>)
  BY <1>3, <1>4, PartOfAll DEF Sound
<1>6. QED
  BY <1>1, <1>2, <1>3, <1>4, <1>5 DEF IsTop

(* A value was read: the container it stands in grows by it, or it is what *)
(* the text says.                                                          *)
LEMMA ValueHanded ==
  ASSUME NEW s, NEW run, Sound(s, run), NEW open, NEW held, NEW b, NEW e,
         Nested(s, run, open, held, b, e),
         NEW i, Awaited(s, open, held, b, e, i),
         NEW n \in 1 .. Len(s), NEW node, <<i, node>> \in Values(s, n),
         Hand(node, held)
  PROVE  Growing(s, run, n + 1, open, parts', "delimiter", tree')
<1>1. s \in Seq(Tokens) /\ Len(s) \in Nat
  BY DEF Sound
<1>2. /\ open \in Seq(Opens) /\ held \in Seq(HeldIn(s)) /\ Len(held) = Len(open)
      /\ b \in [Nat -> Nat] /\ e \in [Nat -> Nat]
  BY DEF Nested
<1>3. CASE open = <<>>
  <2>1. held = <<>>
    BY <1>2, <1>3
  <2>2. tree' = node /\ parts' = held
    BY <2>1 DEF Hand
  <2>3. i = 1
    BY <1>3 DEF Awaited
  <2>4. Stands(s, n + 1, open, held, "delimiter", node, b, e)
    BY <1>1, <1>3, <2>3 DEF Stands
  <2>5. QED
    BY <2>2, <2>4 DEF Growing
<1>4. CASE open # <<>>
  <2>1. PICK d : d = Len(open)
    OBVIOUS
  <2>2. /\ d \in Nat \ {0} /\ d \in 1 .. Len(open) /\ d = Len(held)
        /\ open[d] \in Opens /\ held[d] \in HeldIn(s)
        /\ held[d].key \in Nat
        /\ b[d] \in 1 .. Len(s) /\ e[d] \in 1 .. Len(s) /\ b[d] <= e[d]
        /\ s[b[d]] = open[d] /\ <<b[d], e[d], held[d].read>> \in AllParts(s)
        /\ PartOf(s, run, e[d], <<b[d], e[d], held[d].read>>)
        /\ Ready(run[b[d] - 1])
    <3>1. IsTop(s, run, open, held, b, e, d)
      BY <1>4, <2>1, TopOf
    <3>2. QED
      BY <3>1 DEF IsTop
  <2>3. Awaits(s, held[d], b[d], e[d], i)
    BY <1>4, <2>1 DEF Awaited
  <2>4. PICK part : part = Extended(held[d], node)
    OBVIOUS
  <2>5. part.key = held[d].key
        /\ part.read = Append(held[d].read, Item(s, b[d], e[d], node))
        /\ part = [key |-> part.key, read |-> part.read]
    <3>1. held[d] = [key |-> held[d].key, read |-> held[d].read]
      BY <2>2 DEF HeldIn
    <3>2. PICK key, read : held[d] = [key |-> key, read |-> read]
      BY <3>1
    <3>3. NextItem(b[d], e[d]) # 0
      BY <2>2 DEF NextItem
    <3>4. Item(s, b[d], e[d], node) = IF key = 0 THEN node ELSE <<key, node>>
      BY <2>3, <3>2, <3>3 DEF Awaits, Item
    <3>5. part = [key |-> key, read |-> Append(read, IF key = 0 THEN node ELSE <<key, node>>)]
      <4>1. PICK h : h = [key |-> key, read |-> read]
        OBVIOUS
      <4>2. part = [h EXCEPT !.read = Append(@, IF h.key = 0 THEN node ELSE <<h.key, node>>)]
        BY <2>4, <3>2, <4>1 DEF Extended
      <4>3. h.key = key /\ h.read = read
        BY <4>1
      <4>4. PICK more : more = Append(read, IF key = 0 THEN node ELSE <<key, node>>)
        OBVIOUS
      <4>5. part = [h EXCEPT !.read = more]
        BY <4>2, <4>3, <4>4
      <4>6. QED
        BY <4>1, <4>4, <4>5
    <3>6. QED
      BY <3>2, <3>4, <3>5
  <2>6. <<b[d], n, part.read>> \in AllParts(s)
    <3>1. Joins(s, b[d], e[d], i)
      BY <2>3 DEF Awaits
    <3>2. <<b[d], n, Append(held[d].read, Item(s, b[d], e[d], node))>> \in AllParts(s)
      BY <1>1, <2>2, <3>1, PartGoesOn
    <3>3. QED
      BY <2>5, <3>2
  <2>7. part \in HeldIn(s)
    <3>1. PICK p : p = <<b[d], n, part.read>>
      OBVIOUS
    <3>2. p \in AllParts(s) /\ p[3] = part.read
      BY <2>6, <3>1
    <3>3. part.read \in {q[3] : q \in AllParts(s)}
      BY <3>2
    <3>4. QED
      BY <2>2, <2>5, <3>3 DEF HeldIn
  <2>8. parts' = [held EXCEPT ![d] = part]
    <3>1. held # <<>>
      BY <2>2
    <3>2. QED
      BY <2>2, <2>4, <3>1 DEF Hand
  <2>9. /\ parts' \in Seq(HeldIn(s)) /\ Len(parts') = Len(open)
        /\ parts'[d] = part
        /\ \A k \in 1 .. Len(open) : k # d => parts'[k] = held[k]
    <3>1. PICK m : m = [held EXCEPT ![d] = part]
      OBVIOUS
    <3>2. d \in 1 .. Len(held) /\ held \in Seq(HeldIn(s))
      BY <1>2, <2>2
    <3>3. /\ m \in Seq(HeldIn(s)) /\ Len(m) = Len(held) /\ m[d] = part
          /\ \A k \in 1 .. Len(held) : k # d => m[k] = held[k]
      BY <2>7, <3>1, <3>2, Replaced
    <3>4. QED
      BY <1>2, <2>8, <3>1, <3>3
  <2>10. PICK f : f = [e EXCEPT ![d] = n]
    OBVIOUS
  <2>11. /\ f \in [Nat -> Nat] /\ f[d] = n
         /\ \A k \in Nat : k # d => f[k] = e[k]
    <3>1. d \in Nat /\ n \in Nat
      BY <1>1, <2>2
    <3>2. QED
      BY <1>2, <2>10, <3>1
  <2>12. ASSUME NEW k \in 1 .. Len(open)
         PROVE  /\ b[k] \in 1 .. Len(s)
                /\ s[b[k]] = open[k] /\ <<b[k], f[k], parts'[k].read>> \in AllParts(s)
                /\ Ready(run[b[k] - 1])
                /\ open[k] = "ARRAY_OPEN" => parts'[k].key = 0
    <3>1. /\ b[k] \in 1 .. Len(s)
          /\ s[b[k]] = open[k] /\ <<b[k], e[k], held[k].read>> \in AllParts(s)
          /\ Ready(run[b[k] - 1])
          /\ open[k] = "ARRAY_OPEN" => held[k].key = 0
      BY DEF Nested
    <3>2. CASE k = d
      BY <2>5, <2>6, <2>9, <2>11, <3>1, <3>2
    <3>3. CASE k # d
      <4>1. parts'[k] = held[k]
        BY <2>9, <3>3
      <4>2. f[k] = e[k]
        <5>1. k \in Nat
          OBVIOUS
        <5>2. QED
          BY <2>11, <3>3, <5>1
      <4>3. QED
        BY Zenon, <3>1, <4>1, <4>2
    <3>4. QED
      BY <3>2, <3>3
  <2>13. ASSUME NEW k \in 1 .. Len(open), NEW l \in 1 .. Len(open), l = k + 1
         PROVE  Awaits(s, parts'[k], b[k], f[k], b[l])
    <3>1. k # d /\ k \in Nat
      BY <2>1, <2>13
    <3>2. Awaits(s, held[k], b[k], e[k], b[l])
      BY <2>13 DEF Nested
    <3>3. QED
      BY <2>9, <2>11, <3>1, <3>2
  <2>14. Nested(s, run, open, parts', b, f)
    <3>1. b[1] = 1
      BY <1>4 DEF Nested
    <3>2. QED
      BY <1>2, <2>9, <2>11, <2>12, <2>13, <3>1 DEF Nested
  <2>15. Stands(s, n + 1, open, parts', "delimiter", tree', b, f)
    <3>1. b[d] # n
      <4>1. e[d] < i
        BY <2>2, <2>3 DEF Awaits, Joins, NextItem
      <4>2. i <= n /\ i \in Nat
        BY <1>1, ValueBegins
      <4>3. QED
        BY <2>2, <4>1, <4>2
    <3>2. n + 1 \in 1 .. Len(s) + 1
      BY <1>1
    <3>3. QED
      BY <1>4, <2>1, <2>11, <3>1, <3>2 DEF Stands
  <2>16. QED
    BY <2>14, <2>15 DEF Growing
<1>5. QED
  BY <1>3, <1>4

(* The brackets that are open are those of the grammar.                    *)
LEMMA ReadyTaken ==
  ASSUME NEW state \in States, NEW type \in Tokens, Ready(state), Taken(state, type) # Wrong,
         type \notin Literals \cup Opens
  PROVE  state.open # <<>> /\ type = Closing(Innermost(state.open))
<1>1. state.expect = "value_or_close" => Innermost(state.open) = "ARRAY_OPEN"
  <2>1. state # Wrong
    <3>1. Wrong.expect = "nothing"
      BY DEF Wrong
    <3>2. QED
      BY <3>1 DEF Ready
  <2>2. QED
    BY <2>1 DEF States
<1>2. QED
  BY <1>1 DEF Ready, Taken, Innermost, Literals, Opens

(* A bracket begins a value.                                               *)
LEMMA OpensTaken ==
  ASSUME NEW state \in States, NEW type \in Opens, Taken(state, type) # Wrong
  PROVE  Ready(state)
<1>1. type \notin Literals /\ type \notin Closes /\ type # "ASSIGN" /\ type # "COMMA" /\ type # "LITERAL_STRING"
  BY DEF Opens, Literals, Closes
<1>2. \A open : Closing(open) \in Closes
  BY DEF Closing, Closes
<1>3. QED
  BY <1>1, <1>2 DEF Taken, Ready

(* The states before a token and behind it.                                *)
LEMMA SoundAt ==
  ASSUME NEW s, NEW run, Sound(s, run), NEW i \in 1 .. Len(s)
  PROVE  /\ s[i] \in Tokens /\ s[i] \in Follows(Before(s, i))
         /\ run[i - 1] \in States /\ run[i] \in States
         /\ run[i] = Taken(run[i - 1], s[i]) /\ run[i] # Wrong
<1>1. s \in Seq(Tokens) /\ IsRun(run, s) /\ i - 1 \in 0 .. Len(s) /\ i \in 0 .. Len(s)
  BY DEF Sound
<1>2. QED
  BY <1>1 DEF Sound, IsRun

(* Where a value is awaited the grammar is ready for it.                   *)
LEMMA AwaitedReady ==
  ASSUME NEW s, NEW run, Sound(s, run), NEW open, NEW held, NEW b, NEW e,
         Nested(s, run, open, held, b, e),
         NEW i \in 1 .. Len(s) + 1, Awaited(s, open, held, b, e, i)
  PROVE  /\ Ready(run[i - 1])
         /\ open = <<>> => run[i - 1].open = <<>>
<1>1. s \in Seq(Tokens) /\ IsRun(run, s)
  BY DEF Sound
<1>2. CASE open = <<>>
  <2>1. i = 1 /\ run[0] = Begun
    BY <1>1, <1>2 DEF Awaited, IsRun
  <2>2. Begun.open = <<>> /\ Ready(Begun)
    BY DEF Begun, Ready
  <2>3. run[i - 1] = Begun
    BY <2>1
  <2>4. QED
    BY <2>2, <2>3
<1>3. CASE open # <<>>
  <2>1. PICK d : d = Len(open)
    OBVIOUS
  <2>2. IsTop(s, run, open, held, b, e, d)
    BY <1>3, <2>1, TopOf
  <2>3. Joins(s, b[d], e[d], i)
    BY <1>3, <2>1 DEF Awaited, Awaits
  <2>4. PICK x \in 1 .. Len(s), y \in 1 .. Len(s), r \in {held[d].read} :
           x = b[d] /\ y = e[d]
    BY <2>2 DEF IsTop
  <2>5. r = held[d].read
    OBVIOUS
  <2>6. PartOf(s, run, y, <<x, y, r>>) /\ Ready(run[x - 1]) /\ Joins(s, x, y, i)
    BY <2>2, <2>3, <2>4, <2>5 DEF IsTop
  <2>7. Leads(s, run, x, y, i)
    BY <1>1, <2>6, Between
  <2>8. QED
    BY <1>3, <2>7 DEF Leads
<1>4. QED
  BY <1>2, <1>3

LEMMA Appended ==
  ASSUME NEW S, NEW l \in Seq(S), NEW x \in S, NEW m, m = Append(l, x), NEW d, d = Len(l) + 1
  PROVE  /\ m \in Seq(S) /\ Len(m) = d /\ m[d] = x /\ m # <<>>
         /\ \A k \in 1 .. Len(l) : m[k] = l[k]
<1>1. m \in Seq(S) /\ Len(m) = d
  OBVIOUS
<1>2. m[d] = x /\ \A k \in 1 .. Len(l) : m[k] = l[k]
  OBVIOUS
<1>3. m # <<>>
  <2>1. Len(l) \in Nat
    OBVIOUS
  <2>2. Len(m) # 0
    BY <1>1, <2>1
  <2>3. QED
    BY <2>2
<1>4. QED
  BY <1>1, <1>2, <1>3

(* A container begins.                                                     *)
LEMMA ContainerEntered ==
  ASSUME NEW s, NEW run, Sound(s, run), NEW open, NEW held, NEW b, NEW e,
         Nested(s, run, open, held, b, e),
         NEW i \in 1 .. Len(s), Awaited(s, open, held, b, e, i), s[i] \in Opens,
         NEW node
  PROVE  Growing(s, run, i + 1, Append(open, s[i]), Append(held, [key |-> 0, read |-> <<>>]),
                 IF s[i] = "ARRAY_OPEN" THEN "element" ELSE "member", node)
<1>1. s \in Seq(Tokens) /\ Len(s) \in Nat
  BY DEF Sound
<1>2. /\ open \in Seq(Opens) /\ held \in Seq(HeldIn(s)) /\ Len(held) = Len(open)
      /\ b \in [Nat -> Nat] /\ e \in [Nat -> Nat] /\ Len(open) \in Nat
  <2>1. /\ open \in Seq(Opens) /\ held \in Seq(HeldIn(s)) /\ Len(held) = Len(open)
        /\ b \in [Nat -> Nat] /\ e \in [Nat -> Nat]
    BY DEF Nested
  <2>2. Len(open) \in Nat
    <3>1. open \in Seq(Opens)
      BY <2>1
    <3>2. QED
      BY <3>1
  <2>3. QED
    BY Zenon, <2>1, <2>2
<1>3. PICK part : part = [key |-> 0, read |-> <<>>]
  OBVIOUS
<1>4. PICK d \in Nat \ {0} : d = Len(open) + 1
  BY <1>2
<1>5. PICK o : o = Append(open, s[i])
  OBVIOUS
<1>6. PICK h : h = Append(held, part)
  OBVIOUS
<1>7. PICK c : c = [b EXCEPT ![d] = i]
  OBVIOUS
<1>8. PICK f : f = [e EXCEPT ![d] = i]
  OBVIOUS
<1>9. <<i, i, part.read>> \in AllParts(s) /\ part.key = 0
  BY <1>1, <1>3, PartBegins
<1>10. part \in HeldIn(s)
  <2>1. PICK p : p = <<i, i, part.read>>
    OBVIOUS
  <2>2. p[3] = part.read /\ p \in AllParts(s)
    BY <1>9, <2>1
  <2>3. part.read \in {q[3] : q \in AllParts(s)}
    BY <2>2
  <2>4. QED
    BY <1>3, <2>3 DEF HeldIn
<1>11. d \in Nat \ {0} /\ d - 1 = Len(open) /\ i \in Nat
  BY <1>2, <1>4
<1>12. /\ o \in Seq(Opens) /\ Len(o) = d /\ o[d] = s[i] /\ o # <<>>
      /\ \A k \in 1 .. Len(open) : o[k] = open[k]
  <2>1. d = Len(open) + 1 /\ open \in Seq(Opens)
    BY <1>2, <1>4
  <2>2. /\ o \in Seq(Opens) /\ Len(o) = d /\ o[d] = s[i] /\ o # <<>>
        /\ \A k \in 1 .. Len(open) : o[k] = open[k]
    <3>1. PICK z \in Opens : z = s[i]
      OBVIOUS
    <3>2. o = Append(open, z)
      BY <1>5, <3>1
    <3>3. /\ o \in Seq(Opens) /\ Len(o) = d /\ o[d] = z /\ o # <<>>
          /\ \A k \in 1 .. Len(open) : o[k] = open[k]
      BY <2>1, <3>2, Appended
    <3>4. QED
      BY <3>1, <3>3
  <2>3. QED
    BY <2>2
<1>13. /\ h \in Seq(HeldIn(s)) /\ Len(h) = d /\ h[d] = part
      /\ \A k \in 1 .. Len(open) : h[k] = held[k]
  <2>1. d = Len(held) + 1 /\ held \in Seq(HeldIn(s))
    BY <1>2, <1>4
  <2>2. /\ h \in Seq(HeldIn(s)) /\ Len(h) = d /\ h[d] = part /\ h # <<>>
        /\ \A k \in 1 .. Len(held) : h[k] = held[k]
    BY <1>10, <1>6, <2>1, Appended
  <2>3. QED
    BY <1>2, <2>2
<1>14. /\ c \in [Nat -> Nat] /\ c[d] = i /\ \A k \in 1 .. Len(open) : c[k] = b[k]
      /\ f \in [Nat -> Nat] /\ f[d] = i /\ \A k \in 1 .. Len(open) : f[k] = e[k]
  <2>1. \A k \in 1 .. Len(open) : k \in Nat /\ k # d
    BY <1>2, <1>4
  <2>2. QED
    BY <1>2, <1>11, <1>7, <1>8, <2>1
<1>15. Ready(run[i - 1])
  BY SoundAt, OpensTaken
<1>16. ASSUME NEW k \in 1 .. d
       PROVE  /\ c[k] \in 1 .. Len(s)
              /\ s[c[k]] = o[k] /\ <<c[k], f[k], h[k].read>> \in AllParts(s)
              /\ Ready(run[c[k] - 1])
              /\ o[k] = "ARRAY_OPEN" => h[k].key = 0
  <2>1. CASE k = d
    BY <1>9, <1>12, <1>13, <1>14, <1>15, <2>1
  <2>2. CASE k # d
    <3>1. k \in 1 .. Len(open)
      BY <1>2, <1>4, <2>2
    <3>2. /\ b[k] \in 1 .. Len(s)
          /\ s[b[k]] = open[k] /\ <<b[k], e[k], held[k].read>> \in AllParts(s)
          /\ Ready(run[b[k] - 1])
          /\ open[k] = "ARRAY_OPEN" => held[k].key = 0
      BY <3>1 DEF Nested
    <3>3. c[k] = b[k] /\ f[k] = e[k] /\ h[k] = held[k] /\ o[k] = open[k]
      BY <1>12, <1>13, <1>14, <3>1
    <3>4. QED
      BY Zenon, <3>2, <3>3
  <2>3. QED
    BY <2>1, <2>2
<1>17. ASSUME NEW k \in 1 .. d, NEW l \in 1 .. d, l = k + 1
       PROVE  Awaits(s, h[k], c[k], f[k], c[l])
  <2>1. k \in 1 .. Len(open)
    BY <1>2, <1>4, <1>17
  <2>2. c[k] = b[k] /\ f[k] = e[k] /\ h[k] = held[k]
    BY <1>13, <1>14, <2>1
  <2>3. CASE l = d
    <3>1. k = Len(open) /\ open # <<>>
      BY <1>2, <1>4, <1>17, <2>1, <2>3
    <3>2. Awaits(s, held[k], b[k], e[k], i)
      BY <3>1 DEF Awaited
    <3>3. QED
      BY <1>14, <2>2, <2>3, <3>2
  <2>4. CASE l # d
    <3>1. l \in 1 .. Len(open)
      BY <1>2, <1>4, <2>4
    <3>2. Awaits(s, held[k], b[k], e[k], b[l])
      BY <1>17, <2>1, <3>1 DEF Nested
    <3>3. c[l] = b[l]
      BY <1>14, <3>1
    <3>4. QED
      BY Zenon, <2>2, <3>2, <3>3
  <2>5. QED
    BY <2>3, <2>4
<1>18. c[1] = 1
  <2>1. CASE open = <<>>
    <3>1. i = 1 /\ d = 1
      BY <1>4, <2>1 DEF Awaited
    <3>2. QED
      BY <1>14, <3>1
  <2>2. CASE open # <<>>
    <3>1. b[1] = 1 /\ 1 \in 1 .. Len(open)
      BY <1>2, <2>2 DEF Nested
    <3>2. QED
      BY <1>14, <3>1
  <2>3. QED
    BY <2>1, <2>2
<1>19. Nested(s, run, o, h, c, f)
  BY <1>12, <1>13, <1>14, <1>16, <1>17, <1>18 DEF Nested
<1>20. NextItem(i, i) = i + 1 /\ i + 1 \in 1 .. Len(s) + 1
  BY <1>1, <1>11 DEF NextItem
<1>21. CASE s[i] = "ARRAY_OPEN"
  <2>1. Awaits(s, part, i, i, i + 1)
    BY <1>9, <1>20, <1>21 DEF Awaits, Joins
  <2>2. Awaited(s, o, h, c, f, i + 1)
    BY <1>12, <1>13, <1>14, <2>1 DEF Awaited
  <2>3. Stands(s, i + 1, o, h, "element", node, c, f)
    BY <1>12, <1>20, <1>21, <2>2 DEF Stands
  <2>4. QED
    BY <1>3, <1>5, <1>6, <1>19, <1>21, <2>3 DEF Growing
<1>22. CASE s[i] # "ARRAY_OPEN"
  <2>1. s[i] = "OBJECT_OPEN"
    BY <1>22 DEF Opens
  <2>2. Stands(s, i + 1, o, h, "member", node, c, f)
    BY <1>12, <1>14, <1>20, <2>1 DEF Stands
  <2>3. QED
    BY <1>3, <1>5, <1>6, <1>19, <1>22, <2>2 DEF Growing
<1>23. QED
  BY <1>21, <1>22

LEMMA ReadValueGrows ==
  ASSUME NEW run, Sound(stream, run), NEW b, NEW e,
         Nested(stream, run, calls, parts, b, e),
         at \in 1 .. Len(stream), Awaited(stream, calls, parts, b, e, at),
         stream[at] \in Literals \cup Opens, ReadValue
  PROVE  Growing(stream, run, at', calls', parts', status', tree')
<1>1. stream \in Seq(Tokens) /\ Len(stream) \in Nat
  BY DEF Sound
<1>2. PICK i \in 1 .. Len(stream) : i = at
  OBVIOUS
<1> DEFINE next == IF stream[i] = "ARRAY_OPEN" THEN "element" ELSE "member"
<1>3. CASE stream[at] \in Opens /\ ~(stream[at] = "OBJECT_OPEN" /\ TokenAt(at + 1) = "OBJECT_CLOSE")
  <2>1. Enter(next)
    BY <1>2, <1>3 DEF ReadValue, Opens
  <2>2. /\ calls' = Append(calls, stream[i])
        /\ parts' = Append(parts, [key |-> 0, read |-> <<>>])
        /\ at' = i + 1 /\ status' = next /\ tree' = tree
    BY <1>2, <2>1 DEF Enter
  <2>3. Growing(stream, run, i + 1, Append(calls, stream[i]),
                Append(parts, [key |-> 0, read |-> <<>>]), next, tree)
    BY <1>2, <1>3, ContainerEntered
  <2>4. QED
    BY Zenon, <2>2, <2>3
<1>4. CASE stream[at] = "OBJECT_OPEN" /\ TokenAt(at + 1) = "OBJECT_CLOSE"
  <2>1. /\ at' = at + 2 /\ Hand(Object(<<>>), parts)
        /\ status' = "delimiter" /\ calls' = calls
    BY <1>4 DEF ReadValue
  <2>2. PICK n \in 1 .. Len(stream) : n = i + 1 /\ stream[n] = "OBJECT_CLOSE" /\ at' = n + 1
    BY <1>1, <1>2, <1>4, <2>1 DEF TokenAt
  <2>3. <<i, i, <<>>>> \in AllParts(stream)
    BY <1>1, <1>2, <1>4, PartBegins DEF Opens
  <2>4. <<i, Container(stream[i], <<>>)>> \in Values(stream, n)
    <3>1. stream[n] = Closing(stream[i])
      BY <1>2, <1>4, <2>2 DEF Closing
    <3>2. QED
      BY <1>1, <2>2, <2>3, <3>1, PartEnded
  <2>5. Container(stream[i], <<>>) = Object(<<>>)
    BY <1>2, <1>4 DEF Container
  <2>6. Growing(stream, run, n + 1, calls, parts', "delimiter", tree')
    BY <1>2, <2>1, <2>4, <2>5, ValueHanded
  <2>7. QED
    BY Zenon, <2>1, <2>2, <2>6
<1>5. CASE stream[at] \in Literals
  <2>1. /\ at' = i + 1 /\ Hand(Leaf(stream, i), parts)
        /\ status' = "delimiter" /\ calls' = calls
    BY <1>2, <1>5 DEF ReadValue, Literals
  <2>2. <<i, Leaf(stream, i)>> \in Values(stream, i)
    BY <1>2, <1>5, ValueIs DEF Values
  <2>3. Growing(stream, run, i + 1, calls, parts', "delimiter", tree')
    BY <1>2, <2>1, <2>2, ValueHanded
  <2>4. QED
    BY Zenon, <2>1, <2>3
<1>6. QED
  BY <1>3, <1>4, <1>5 DEF Literals, Opens

LEMMA Comma == /\ Follows("COMMA") = Literals \cup Opens
               /\ Closes \cap (Literals \cup Opens) = {}
               /\ \A type \in Opens : "COMMA" \notin Follows(type)
               /\ \A type \in Tokens \cup {"JSON_UNKNOWN"} :
                     "ASSIGN" \in Follows(type) => type = "LITERAL_STRING"
BY DEF Follows, Literals, Opens, Closes, Tokens

LEMMA ParseElementGrows ==
  ASSUME NEW run, Sound(stream, run),
         Growing(stream, run, at, calls, parts, status, tree), ParseElement
  PROVE  \/ status' \in {"failed", "crashed"}
         \/ Growing(stream, run, at', calls', parts', status', tree')
<1>1. stream \in Seq(Tokens) /\ Len(stream) \in Nat
  BY DEF Sound
<1>2. PICK b, e : /\ Nested(stream, run, calls, parts, b, e)
                  /\ Stands(stream, at, calls, parts, status, tree, b, e)
  BY DEF Growing
<1>3. /\ status = "element" /\ at \in 1 .. Len(stream) + 1
      /\ Awaited(stream, calls, parts, b, e, at)
      /\ calls # <<>> => calls[Len(calls)] = "ARRAY_OPEN"
  BY <1>2 DEF ParseElement, Stands
<1>4. CASE at > Len(stream)
  BY <1>3, <1>4 DEF ParseElement, Stop
<1>5. CASE at <= Len(stream) /\ calls # <<>> /\ stream[at] \in Closes
  <2>1. status' = "delimiter" /\ at' = at /\ calls' = calls /\ parts' = parts /\ tree' = tree
    BY <1>1, <1>3, <1>5 DEF ParseElement, Stop
  <2>2. PICK d : d = Len(calls)
    OBVIOUS
  <2>3. IsTop(stream, run, calls, parts, b, e, d)
    BY <1>2, <1>5, <2>2, TopOf
  <2>4. PICK x \in 1 .. Len(stream), y \in 1 .. Len(stream) : x = b[d] /\ y = e[d]
    BY <2>3 DEF IsTop
  <2>5. Joins(stream, x, y, at) /\ stream[x] = "ARRAY_OPEN"
    BY <1>3, <1>5, <2>2, <2>3, <2>4 DEF Awaited, Awaits, IsTop
  <2>6. x = y /\ at = y + 1
    <3>1. ASSUME x # y PROVE FALSE
      <4>1. at = y + 2 /\ stream[y + 1] = "COMMA"
        BY <2>5, <3>1 DEF Joins, NextItem
      <4>2. Before(stream, at) = "COMMA"
        BY <4>1 DEF Before
      <4>3. stream[at] \in Follows("COMMA")
        BY <1>3, <1>5, <4>2, SoundAt
      <4>4. QED
        BY <1>5, <4>3, Comma
    <3>2. QED
      BY <2>5, <3>1 DEF Joins, NextItem
  <2>7. Stands(stream, at, calls, parts, "delimiter", tree, b, e)
    BY <1>3, <1>5, <2>2, <2>4, <2>6 DEF Stands
  <2>8. QED
    BY <1>2, <2>1, <2>7 DEF Growing
<1>6. CASE at <= Len(stream) /\ ~(calls # <<>> /\ stream[at] \in Closes)
  <2>1. at \in 1 .. Len(stream)
    BY <1>1, <1>3, <1>6
  <2>2. stream[at] \in Literals \cup Opens
    <3>1. ASSUME stream[at] \notin Literals \cup Opens PROVE FALSE
      <4>1. Ready(run[at - 1]) /\ (calls = <<>> => run[at - 1].open = <<>>)
        BY <1>2, <1>3, AwaitedReady
      <4>2. /\ stream[at] \in Tokens /\ run[at - 1] \in States
            /\ Taken(run[at - 1], stream[at]) # Wrong
        BY <2>1, SoundAt
      <4>3. run[at - 1].open # <<>> /\ stream[at] = Closing(Innermost(run[at - 1].open))
        BY <3>1, <4>1, <4>2, ReadyTaken
      <4>4. stream[at] \in Closes
        BY <4>3 DEF Closing, Closes
      <4>5. QED
        BY <1>6, <4>1, <4>3, <4>4
    <3>2. QED
      BY <3>1
  <2>3. ReadValue
    BY <1>1, <1>3, <1>6, <2>1, <2>2 DEF ParseElement
  <2>4. QED
    BY <1>2, <1>3, <2>1, <2>2, <2>3, ReadValueGrows
<1>7. QED
  BY <1>1, <1>3, <1>4, <1>5, <1>6

LEMMA ParseMemberValueGrows ==
  ASSUME NEW run, Sound(stream, run),
         Growing(stream, run, at, calls, parts, status, tree), ParseMemberValue
  PROVE  \/ status' \in {"failed", "crashed"}
         \/ Growing(stream, run, at', calls', parts', status', tree')
<1>1. stream \in Seq(Tokens) /\ Len(stream) \in Nat
  BY DEF Sound
<1>2. PICK b, e : /\ Nested(stream, run, calls, parts, b, e)
                  /\ Stands(stream, at, calls, parts, status, tree, b, e)
  BY DEF Growing
<1>3. /\ status = "value" /\ at \in 1 .. Len(stream) + 1
      /\ Awaited(stream, calls, parts, b, e, at)
  BY <1>2 DEF ParseMemberValue, Stands
<1>4. CASE TokenAt(at) \in Literals \cup Opens
  <2>1. at \in 1 .. Len(stream) /\ stream[at] \in Literals \cup Opens
    <3>1. at <= Len(stream)
      BY <1>4 DEF TokenAt, Literals, Opens
    <3>2. QED
      BY <1>1, <1>3, <1>4, <3>1 DEF TokenAt
  <2>2. ReadValue
    BY <1>4 DEF ParseMemberValue
  <2>3. QED
    BY <1>2, <1>3, <2>1, <2>2, ReadValueGrows
<1>5. CASE TokenAt(at) \notin Literals \cup Opens
  BY <1>5 DEF ParseMemberValue, Stop
<1>6. QED
  BY <1>4, <1>5

LEMMA ParseMemberGrows ==
  ASSUME NEW run, Sound(stream, run),
         Growing(stream, run, at, calls, parts, status, tree), ParseMember
  PROVE  \/ status' \in {"failed", "crashed"}
         \/ Growing(stream, run, at', calls', parts', status', tree')
<1>1. stream \in Seq(Tokens) /\ Len(stream) \in Nat
  BY DEF Sound
<1>2. PICK b, e : /\ Nested(stream, run, calls, parts, b, e)
                  /\ Stands(stream, at, calls, parts, status, tree, b, e)
  BY DEF Growing
<1>3. PICK d : d = Len(calls)
  OBVIOUS
<1>4. /\ status = "member" /\ at \in 1 .. Len(stream) + 1
      /\ calls # <<>> /\ calls[d] = "OBJECT_OPEN"
      /\ at = NextItem(b[d], e[d])
      /\ b[d] # e[d] => stream[e[d] + 1] = "COMMA"
  BY <1>2, <1>3 DEF ParseMember, Stands
<1>5. CASE at > Len(stream) \/ TokenAt(at + 1) # "ASSIGN"
  BY <1>5 DEF ParseMember, Stop
<1>6. CASE ~(at > Len(stream)) /\ TokenAt(at + 1) = "ASSIGN"
  <2>1. /\ parts' = [parts EXCEPT ![Len(parts)].key = at]
        /\ at' = at + 2 /\ status' = "value" /\ calls' = calls /\ tree' = tree
    BY <1>6 DEF ParseMember
  <2>2. PICK i \in 1 .. Len(stream), n \in 1 .. Len(stream) :
           i = at /\ n = i + 1 /\ stream[n] = "ASSIGN" /\ n - 1 = i
    BY <1>1, <1>4, <1>6 DEF TokenAt
  <2>3. stream[i] = "LITERAL_STRING"
    <3>1. Before(stream, n) = stream[i] /\ stream[i] \in Tokens
      BY <1>1, <2>2 DEF Before
    <3>2. "ASSIGN" \in Follows(stream[i])
      BY <2>2, <3>1, SoundAt
    <3>3. QED
      BY <3>1, <3>2, Comma
  <2>4. IsTop(stream, run, calls, parts, b, e, d)
    BY <1>2, <1>3, <1>4, TopOf
  <2>5. PICK part : part = [parts[d] EXCEPT !.key = i]
    OBVIOUS
  <2>6. part.key = i /\ part.read = parts[d].read /\ part \in HeldIn(stream)
    <3>1. parts[d] \in HeldIn(stream) /\ i \in Nat
      BY <1>1, <2>4 DEF IsTop
    <3>2. QED
      BY <2>5, <3>1 DEF HeldIn
  <2>7. /\ parts \in Seq(HeldIn(stream)) /\ d \in 1 .. Len(parts) /\ Len(parts) = d
        /\ calls \in Seq(Opens) /\ Len(parts) = Len(calls)
        /\ b \in [Nat -> Nat] /\ e \in [Nat -> Nat]
    BY <1>2, <2>4 DEF IsTop, Nested
  <2>8. parts' = [parts EXCEPT ![d] = part]
    BY <2>1, <2>2, <2>5, <2>7
  <2>9. PICK held : held = parts'
    OBVIOUS
  <2>10. /\ held \in Seq(HeldIn(stream)) /\ Len(held) = Len(calls) /\ held[d] = part
         /\ \A k \in 1 .. Len(calls) : k # d => held[k] = parts[k]
    <3>1. held = [parts EXCEPT ![d] = part]
      BY <2>8, <2>9
    <3>2. /\ held \in Seq(HeldIn(stream)) /\ Len(held) = Len(parts) /\ held[d] = part
          /\ \A k \in 1 .. Len(parts) : k # d => held[k] = parts[k]
      <4>1. PICK l : l = parts
        OBVIOUS
      <4>2. l \in Seq(HeldIn(stream)) /\ d \in 1 .. Len(l) /\ part \in HeldIn(stream)
        BY <2>6, <2>7, <4>1
      <4>3. held = [l EXCEPT ![d] = part]
        BY <3>1, <4>1
      <4>4. /\ held \in Seq(HeldIn(stream)) /\ Len(held) = Len(l) /\ held[d] = part
            /\ \A k \in 1 .. Len(l) : k # d => held[k] = l[k]
        BY <4>2, <4>3, Replaced
      <4>5. QED
        BY <4>1, <4>4
    <3>3. QED
      BY <2>7, <3>2
  <2>11. ASSUME NEW k \in 1 .. Len(calls)
         PROVE  /\ b[k] \in 1 .. Len(stream)
                /\ stream[b[k]] = calls[k] /\ <<b[k], e[k], held[k].read>> \in AllParts(stream)
                /\ Ready(run[b[k] - 1])
                /\ calls[k] = "ARRAY_OPEN" => held[k].key = 0
    <3>1. /\ b[k] \in 1 .. Len(stream)
          /\ stream[b[k]] = calls[k] /\ <<b[k], e[k], parts[k].read>> \in AllParts(stream)
          /\ Ready(run[b[k] - 1])
          /\ calls[k] = "ARRAY_OPEN" => parts[k].key = 0
      BY <1>2 DEF Nested
    <3>2. CASE k = d
      <4>1. held[k].read = parts[k].read /\ calls[k] # "ARRAY_OPEN"
        BY <1>4, <2>6, <2>10, <3>2
      <4>2. QED
        BY Zenon, <3>1, <4>1
    <3>3. CASE k # d
      <4>1. held[k] = parts[k]
        BY <2>10, <3>3
      <4>2. QED
        BY Zenon, <3>1, <4>1
    <3>4. QED
      BY <3>2, <3>3
  <2>12. ASSUME NEW k \in 1 .. Len(calls), NEW l \in 1 .. Len(calls), l = k + 1
         PROVE  Awaits(stream, held[k], b[k], e[k], b[l])
    <3>1. k # d
      BY <1>3, <2>12
    <3>2. Awaits(stream, parts[k], b[k], e[k], b[l])
      BY <1>2, <2>12 DEF Nested
    <3>3. QED
      BY <2>10, <3>1, <3>2
  <2>13. Nested(stream, run, calls, held, b, e)
    <3>1. b[1] = 1
      BY <1>2, <1>4 DEF Nested
    <3>2. QED
      BY <2>7, <2>10, <2>11, <2>12, <3>1 DEF Nested
  <2>14. Awaits(stream, part, b[d], e[d], i + 2)
    <3>1. stream[b[d]] = "OBJECT_OPEN"
      BY <1>4, <2>4 DEF IsTop
    <3>2. PICK k \in Nat : k = i + 2 /\ k - 2 = i /\ k - 1 = n
      BY <1>1, <2>2
    <3>3. i = NextItem(b[d], e[d]) /\ k = NextItem(b[d], e[d]) + 2
      BY <1>4, <2>2, <3>2
    <3>4. Joins(stream, b[d], e[d], k)
      BY <1>4, <2>2, <2>3, <3>1, <3>2, <3>3 DEF Joins
    <3>5. Awaits(stream, part, b[d], e[d], k)
      BY <2>6, <3>1, <3>3, <3>4 DEF Awaits
    <3>6. QED
      BY <3>2, <3>5
  <2>15. Stands(stream, i + 2, calls, held, "value", tree, b, e)
    <3>1. i + 2 \in 1 .. Len(stream) + 1
      BY <1>1, <2>2
    <3>2. Awaited(stream, calls, held, b, e, i + 2)
      BY <1>3, <1>4, <2>10, <2>14 DEF Awaited
    <3>3. QED
      BY <1>3, <1>4, <3>1, <3>2 DEF Stands
  <2>16. Growing(stream, run, i + 2, calls, held, "value", tree)
    BY <2>13, <2>15 DEF Growing
  <2>17. QED
    BY Zenon, <2>1, <2>2, <2>9, <2>16
<1>7. QED
  BY <1>5, <1>6

(* A container is left: what it is part of awaits it.                      *)
LEMMA ContainerLeft ==
  ASSUME NEW s, NEW run, Sound(s, run), NEW open, NEW held, NEW b, NEW e,
         Nested(s, run, open, held, b, e), open # <<>>, NEW d, d = Len(open)
  PROVE  /\ Nested(s, run, Below(open), Below(held), b, e)
         /\ Awaited(s, Below(open), Below(held), b, e, b[d])
<1>1. IsTop(s, run, open, held, b, e, d)
  BY TopOf
<1>2. /\ open \in Seq(Opens) /\ held \in Seq(HeldIn(s)) /\ Len(held) = Len(open)
      /\ b \in [Nat -> Nat] /\ e \in [Nat -> Nat]
  BY DEF Nested
<1>3. d \in Nat \ {0} /\ d = Len(held) /\ held # <<>>
  <2>1. d \in Nat \ {0} /\ d = Len(held)
    BY <1>1 DEF IsTop
  <2>2. QED
    BY <2>1
<1>4. PICK o : o = Below(open)
  OBVIOUS
<1>5. PICK h : h = Below(held)
  OBVIOUS
<1>6. PICK c \in Nat : d = c + 1
  BY <1>3
<1>7. /\ o \in Seq(Opens) /\ Len(o) = c /\ \A k \in 1 .. c : o[k] = open[k]
  <2>1. /\ o \in Seq(Opens) /\ Len(o) = Len(open) - 1
        /\ \A k \in 1 .. Len(open) - 1 : o[k] = open[k]
    BY <1>2, <1>4, Popped
  <2>2. Len(open) - 1 = c
    BY <1>6
  <2>3. QED
    BY <2>1, <2>2
<1>8. /\ h \in Seq(HeldIn(s)) /\ Len(h) = c /\ \A k \in 1 .. c : h[k] = held[k]
  <2>1. /\ h \in Seq(HeldIn(s)) /\ Len(h) = Len(held) - 1
        /\ \A k \in 1 .. Len(held) - 1 : h[k] = held[k]
    BY <1>2, <1>3, <1>5, Popped
  <2>2. Len(held) - 1 = c
    BY <1>3, <1>6
  <2>3. QED
    BY <2>1, <2>2
<1>9. ASSUME NEW k \in 1 .. c
      PROVE  /\ b[k] \in 1 .. Len(s)
             /\ s[b[k]] = o[k] /\ <<b[k], e[k], h[k].read>> \in AllParts(s)
             /\ Ready(run[b[k] - 1])
             /\ o[k] = "ARRAY_OPEN" => h[k].key = 0
  <2>1. k \in 1 .. Len(open)
    BY <1>6
  <2>2. /\ b[k] \in 1 .. Len(s)
        /\ s[b[k]] = open[k] /\ <<b[k], e[k], held[k].read>> \in AllParts(s)
        /\ Ready(run[b[k] - 1])
        /\ open[k] = "ARRAY_OPEN" => held[k].key = 0
    BY <2>1 DEF Nested
  <2>3. o[k] = open[k] /\ h[k] = held[k]
    BY <1>7, <1>8
  <2>4. QED
    BY Zenon, <2>2, <2>3
<1>10. ASSUME NEW k \in 1 .. c, NEW l \in 1 .. d, l = k + 1
       PROVE  Awaits(s, h[k], b[k], e[k], b[l])
  <2>1. k \in 1 .. Len(open) /\ l \in 1 .. Len(open)
    BY <1>6
  <2>2. Awaits(s, held[k], b[k], e[k], b[l])
    BY <1>10, <2>1 DEF Nested
  <2>3. h[k] = held[k]
    BY <1>8
  <2>4. QED
    BY Zenon, <2>2, <2>3
<1>11. b[1] = 1
  BY DEF Nested
<1>12. Nested(s, run, o, h, b, e)
  <2>1. \A l \in 1 .. c : l \in 1 .. d
    BY <1>6
  <2>2. QED
    BY <1>2, <1>7, <1>8, <1>9, <1>10, <1>11, <2>1 DEF Nested
<1>13. Awaited(s, o, h, b, e, b[d])
  <2>1. CASE c = 0
    <3>1. o = <<>> /\ d = 1
      BY <1>6, <1>7, <2>1
    <3>2. QED
      BY <1>11, <3>1 DEF Awaited
  <2>2. CASE c # 0
    <3>1. o # <<>> /\ c \in 1 .. c /\ d \in 1 .. d
      BY <1>3, <1>7, <2>2
    <3>2. Awaits(s, h[c], b[c], e[c], b[d])
      BY <1>6, <1>10, <3>1
    <3>3. QED
      BY <1>7, <3>1, <3>2 DEF Awaited
  <2>3. QED
    BY <2>1, <2>2
<1>14. QED
  BY <1>4, <1>5, <1>12, <1>13

LEMMA ParseDelimiterGrows ==
  ASSUME NEW run, Sound(stream, run),
         Growing(stream, run, at, calls, parts, status, tree), ParseDelimiter
  PROVE  \/ status' \in {"failed", "crashed"}
         \/ Growing(stream, run, at', calls', parts', status', tree')
<1>1. stream \in Seq(Tokens) /\ Len(stream) \in Nat /\ IsRun(run, stream)
  BY DEF Sound
<1>2. PICK b, e : /\ Nested(stream, run, calls, parts, b, e)
                  /\ Stands(stream, at, calls, parts, status, tree, b, e)
  BY DEF Growing
<1>3. PICK d : d = Len(calls)
  OBVIOUS
<1>4. /\ status = "delimiter" /\ calls # <<>>
      /\ at \in 1 .. Len(stream) + 1 /\ at = e[d] + 1
      /\ b[d] = e[d] => stream[at] \in Closes
  BY <1>2, <1>3 DEF ParseDelimiter, Stands
<1>5. IsTop(stream, run, calls, parts, b, e, d)
  BY <1>2, <1>3, <1>4, TopOf
<1>6. PICK x \in 1 .. Len(stream), y \in 1 .. Len(stream), r \in {parts[d].read} :
         x = b[d] /\ y = e[d]
  BY <1>5 DEF IsTop
<1>7. r = parts[d].read
  OBVIOUS
<1>8. /\ d \in Nat \ {0} /\ d = Len(parts) /\ calls[d] \in Opens
      /\ stream[x] = calls[d] /\ x <= y
      /\ <<x, y, r>> \in AllParts(stream) /\ PartOf(stream, run, y, <<x, y, r>>)
      /\ Ready(run[x - 1])
  BY <1>5, <1>6, <1>7 DEF IsTop
<1>9. CASE at > Len(stream)
  BY <1>9 DEF ParseDelimiter, Stop
<1>10. CASE ~(at > Len(stream)) /\ stream[at] = "COMMA"
  <2>1. PICK n \in 1 .. Len(stream) : n = at /\ n = y + 1
    BY <1>1, <1>4, <1>6, <1>10
  <2>2. /\ at' = n + 1
        /\ status' = IF calls[d] = "OBJECT_OPEN" THEN "member" ELSE "element"
        /\ calls' = calls /\ parts' = parts /\ tree' = tree
    BY <1>3, <1>10, <2>1 DEF ParseDelimiter
  <2>3. x # y
    BY <1>4, <1>6, <1>10 DEF Closes
  <2>4. NextItem(x, y) = n + 1 /\ stream[y + 1] = "COMMA" /\ n + 1 \in 1 .. Len(stream) + 1
    BY <1>1, <1>10, <2>1, <2>3 DEF NextItem
  <2>5. CASE calls[d] = "OBJECT_OPEN"
    <3>1. Stands(stream, n + 1, calls, parts, "member", tree, b, e)
      BY <1>3, <1>4, <1>6, <2>4, <2>5 DEF Stands
    <3>2. Growing(stream, run, n + 1, calls, parts, "member", tree)
      BY <1>2, <3>1 DEF Growing
    <3>3. QED
      BY Zenon, <2>2, <2>5, <3>2
  <2>6. CASE calls[d] # "OBJECT_OPEN"
    <3>1. calls[d] = "ARRAY_OPEN"
      BY <1>8, <2>6 DEF Opens
    <3>2. parts[d].key = 0
      BY <1>2, <1>5, <3>1 DEF Nested, IsTop
    <3>3. Awaits(stream, parts[d], x, y, n + 1)
      BY <1>8, <2>4, <3>1, <3>2 DEF Awaits, Joins
    <3>4. Awaited(stream, calls, parts, b, e, n + 1)
      BY <1>3, <1>4, <1>6, <3>3 DEF Awaited
    <3>5. Stands(stream, n + 1, calls, parts, "element", tree, b, e)
      BY <1>3, <1>4, <2>4, <3>1, <3>4 DEF Stands
    <3>6. Growing(stream, run, n + 1, calls, parts, "element", tree)
      BY <1>2, <3>5 DEF Growing
    <3>7. QED
      BY Zenon, <2>2, <2>6, <3>6
  <2>7. QED
    BY <2>5, <2>6
<1>11. CASE ~(at > Len(stream)) /\ stream[at] # "COMMA"
  <2>1. PICK n \in 1 .. Len(stream) : n = at /\ n = y + 1
    BY <1>1, <1>4, <1>6, <1>11
  <2>2. /\ at' = n + 1 /\ status' = "delimiter" /\ calls' = Below(calls)
        /\ Hand(Container(calls[d], r), Below(parts))
    BY <1>3, <1>4, <1>7, <1>8, <1>11, <2>1 DEF ParseDelimiter, Container
  <2>3. PICK inner : inner = Inside(run[x - 1], stream[x])
    OBVIOUS
  <2>4. inner # <<>> /\ Innermost(inner) = stream[x]
    <3>1. x - 1 \in 0 .. Len(stream) /\ stream[x] \in Opens
      BY <1>8
    <3>2. QED
      BY <1>1, <2>3, <3>1, StateOf
  <2>5. /\ run[y].open = inner
        /\ run[y].expect \in {"value_or_close", "key_or_close", "delimiter"}
        /\ x # y => run[y].expect = "delimiter"
    <3>1. PICK p : p = <<x, y, r>>
      OBVIOUS
    <3>2. p[1] = x /\ p[2] = y
      BY <3>1
    <3>3. run[y] = State(inner, IF x # y THEN "delimiter"
                                ELSE IF stream[x] = "OBJECT_OPEN" THEN "key_or_close"
                                ELSE "value_or_close")
      BY <1>8, <2>3, <3>1, <3>2 DEF PartOf
    <3>4. QED
      BY <3>3, StateFields
  <2>6. /\ stream[n] \in Tokens /\ run[y] \in States /\ Taken(run[y], stream[n]) # Wrong
    <3>1. n - 1 = y
      BY <2>1
    <3>2. QED
      BY <3>1, SoundAt
  <2>7. stream[n] = Closing(stream[x])
    <3>1. CASE x = y
      <4>1. stream[n] \in Closes
        BY <1>4, <1>6, <2>1, <3>1
      <4>2. QED
        BY <2>4, <2>5, <2>6, <4>1, ClosingTaken
    <3>2. CASE x # y
      BY <1>11, <2>1, <2>4, <2>5, <2>6, <3>2, DelimiterTaken
    <3>3. QED
      BY <3>1, <3>2
  <2>8. <<x, Container(stream[x], r)>> \in Values(stream, n)
    BY <1>1, <1>8, <2>1, <2>7, PartEnded
  <2>9. /\ Nested(stream, run, Below(calls), Below(parts), b, e)
        /\ Awaited(stream, Below(calls), Below(parts), b, e, x)
    BY <1>2, <1>3, <1>4, <1>6, ContainerLeft
  <2>10. Hand(Container(stream[x], r), Below(parts))
    BY <1>8, <2>2
  <2>11. Growing(stream, run, n + 1, Below(calls), parts', "delimiter", tree')
    BY <2>8, <2>9, <2>10, ValueHanded
  <2>12. QED
    BY Zenon, <2>2, <2>11
<1>12. QED
  BY <1>9, <1>10, <1>11

LEMMA ReturnGrows ==
  ASSUME NEW run, Sound(stream, run),
         Growing(stream, run, at, calls, parts, status, tree), Return
  PROVE  \/ status' = "rest_ignored"
         \/ status' = "consumed" /\ tree' \in Derived(stream)
<1>1. PICK b, e : Stands(stream, at, calls, parts, status, tree, b, e)
  BY DEF Growing
<1>2. status = "delimiter" /\ calls = <<>> /\ tree' = tree
  BY DEF Return
<1>3. PICK n \in 1 .. Len(stream) : at = n + 1 /\ <<1, tree>> \in Values(stream, n)
  BY <1>1, <1>2 DEF Stands
<1>4. CASE at > Len(stream)
  <2>1. Len(stream) \in Nat
    BY DEF Sound
  <2>2. n = Len(stream)
    BY <1>3, <1>4, <2>1
  <2>3. PICK v : v = <<1, tree>>
    OBVIOUS
  <2>4. v[1] = 1 /\ v[2] = tree
    BY <2>3
  <2>5. v \in ValuesTo(stream, Len(stream), Parts(stream)[Len(stream) - 1])
    BY <1>3, <2>2, <2>3 DEF Values
  <2>6. tree \in Derived(stream)
    BY Zenon, <2>4, <2>5 DEF Derived
  <2>7. QED
    BY <1>2, <1>4, <2>6 DEF Return
<1>5. CASE ~(at > Len(stream))
  BY <1>5 DEF Return
<1>6. QED
  BY <1>4, <1>5

(* Of a text that is JSON the parser has the tree so far.                  *)
TreeInv ==
    /\ Inv
    /\ IF status = "reading" THEN parts = <<>> ELSE stream # <<>>
    /\ IsJson(stream) =>
          /\ status \in {"element", "member", "value", "delimiter"} =>
                Growing(stream, Run(stream), at, calls, parts, status, tree)
          /\ status = "consumed" => tree \in Derived(stream)

LEMMA EndOfInputTree == TreeInv /\ EndOfInput /\ Inv' => TreeInv'
<1> SUFFICES ASSUME TreeInv, EndOfInput, Inv' PROVE TreeInv'
  OBVIOUS
<1>1. /\ at = 1 /\ calls = <<>> /\ parts = <<>> /\ status' \in {"unclosed", "element"}
      /\ UNCHANGED <<stream, at, calls, parts, tree>> /\ stream # <<>>
  BY DEF EndOfInput, TreeInv, Inv
<1>2. Growing(stream, Run(stream), 1, <<>>, <<>>, "element", tree)
  <2>1. PICK b : b = [n \in Nat |-> 0]
    OBVIOUS
  <2>2. b \in [Nat -> Nat] /\ <<>> \in Seq(Opens) /\ <<>> \in Seq(HeldIn(stream)) /\ Len(<<>>) = 0
    BY <2>1
  <2>3. Nested(stream, Run(stream), <<>>, <<>>, b, b)
    <3>1. \A k \in 1 .. Len(<<>>) : FALSE
      BY <2>2
    <3>2. QED
      BY <2>2, <3>1 DEF Nested
  <2>4. 1 \in 1 .. Len(stream) + 1
    <3>1. Len(stream) \in Nat
      BY DEF TreeInv, Inv
    <3>2. QED
      BY <3>1
  <2>5. Stands(stream, 1, <<>>, <<>>, "element", tree, b, b)
    BY <2>4 DEF Stands, Awaited
  <2>6. QED
    BY <2>3, <2>5 DEF Growing
<1>3. status' = "element" =>
        Growing(stream', Run(stream'), at', calls', parts', status', tree')
  BY <1>1, <1>2
<1>4. QED
  BY <1>1, <1>3 DEF TreeInv

LEMMA ParserStepTree ==
  TreeInv /\ (ParseElement \/ ParseMember \/ ParseMemberValue \/ ParseDelimiter \/ Return) /\ Inv'
     => TreeInv'
<1> SUFFICES ASSUME TreeInv, Inv',
                    ParseElement \/ ParseMember \/ ParseMemberValue \/ ParseDelimiter \/ Return
             PROVE  TreeInv'
  OBVIOUS
<1>1. stream' = stream /\ status \in {"element", "member", "value", "delimiter"}
  BY DEF ParseElement, ParseMember, ParseMemberValue, ParseDelimiter, Return
<1>2. status' # "reading"
  BY <1>1 DEF ParseElement, ParseMember, ParseMemberValue, ParseDelimiter, Return,
              Stop, ReadValue, Enter
<1>3. ASSUME IsJson(stream)
      PROVE  /\ status' \in {"element", "member", "value", "delimiter"} =>
                   Growing(stream, Run(stream), at', calls', parts', status', tree')
             /\ status' = "consumed" => tree' \in Derived(stream)
  <2>1. PICK tr, run : Parsing(stream, tr, run, at, calls, status)
    BY <1>1 DEF TreeInv, Inv
  <2>2. Checked(stream, tr, run)
    BY <2>1 DEF Parsing
  <2>3. stream \in Seq(Tokens) /\ IsRun(run, stream) /\ Run(stream) = run
    BY <2>2, RunIs DEF Checked
  <2>4. run[Len(stream)] # Wrong
    BY <1>3, <2>3 DEF IsJson, State, Wrong
  <2>5. Sound(stream, run)
    <3>1. Len(stream) \in 0 .. Len(stream) /\ \A n \in 0 .. Len(stream) : n <= Len(stream)
      BY <2>3
    <3>2. QED
      BY <2>2, <2>3, <2>4, <3>1 DEF Checked, Sound
  <2>6. Growing(stream, run, at, calls, parts, status, tree)
    BY <1>1, <1>3, <2>3 DEF TreeInv
  <2>7. CASE ParseElement \/ ParseMember \/ ParseMemberValue \/ ParseDelimiter
    <3>1. \/ status' \in {"failed", "crashed"}
          \/ Growing(stream, run, at', calls', parts', status', tree')
      BY <2>5, <2>6, <2>7, ParseElementGrows, ParseMemberGrows, ParseMemberValueGrows,
         ParseDelimiterGrows
    <3>2. ASSUME Growing(stream, run, at', calls', parts', status', tree')
          PROVE  status' \in {"element", "member", "value", "delimiter"}
      BY <3>2 DEF Growing, Stands
    <3>3. QED
      BY <2>3, <3>1, <3>2
  <2>8. CASE Return
    BY <2>5, <2>6, <2>8, ReturnGrows
  <2>9. QED
    BY <1>3, <2>7, <2>8, Zenon
<1>4. QED
  BY <1>1, <1>2, <1>3 DEF TreeInv

LEMMA TreeGrows == ParserSpec => []TreeInv
<1>1. ParserInit => TreeInv
  BY InvInit DEF ParserInit, TreeInv
<1>2. TreeInv /\ [ParserNext]_pvars => TreeInv'
  <2> SUFFICES ASSUME TreeInv, [ParserNext]_pvars PROVE TreeInv'
    OBVIOUS
  <2>1. CASE UNCHANGED pvars
    BY <2>1 DEF TreeInv, Inv, pvars, JsonIsAccepted, ConsumedIsJson
  <2>2. CASE ReadToken
    <3>1. Inv'
      BY <2>2, ReadTokenInv DEF TreeInv
    <3>2. status' \in {"reading", "refused"} /\ parts' = parts /\ status = "reading"
      BY <2>2 DEF ReadToken
    <3>3. stream' # <<>>
      <4>1. PICK type \in Tokens : stream' = Append(stream, type)
        BY <2>2 DEF ReadToken
      <4>2. stream \in Seq(Tokens)
        BY DEF TreeInv, Inv
      <4>3. QED
        BY <4>1, <4>2
    <3>4. QED
      BY <3>1, <3>2, <3>3 DEF TreeInv
  <2>3. CASE EndOfInput
    <3>1. Inv'
      BY <2>3, EndOfInputInv DEF TreeInv
    <3>2. QED
      BY <2>3, <3>1, EndOfInputTree
  <2>4. CASE ParseElement \/ ParseMember \/ ParseMemberValue \/ ParseDelimiter \/ Return
    <3>1. Inv'
      BY <2>4, ParserStepInv DEF TreeInv
    <3>2. QED
      BY <2>4, <3>1, ParserStepTree
  <2>5. QED
    BY <2>1, <2>2, <2>3, <2>4 DEF ParserNext
<1>3. QED
  BY <1>1, <1>2, PTL DEF ParserSpec

(* The tree of a text that parse_token_stream reads to its end is the only *)
(* one that the grammar derives, whatever the text, and the grammar        *)
(* derives none of a text that is turned down or read in part.             *)
THEOREM TreeIsTheGrammars == ParserSpec => []TreeIsDerived
<1>1. TreeInv => TreeIsDerived
  <2> SUFFICES ASSUME TreeInv PROVE TreeIsDerived
    OBVIOUS
  <2>1. Inv /\ JsonIsAccepted /\ ConsumedIsJson /\ stream \in Seq(Tokens)
    BY DEF TreeInv, Inv
  <2>2. ASSUME status # "reading", NEW node \in Derived(stream)
        PROVE  IsJson(stream) /\ Derived(stream) = {node}
    BY <2>1, <2>2, DerivedIsJson DEF TreeInv
  <2>3. status = "consumed" => Derived(stream) = {tree}
    BY <2>1, <2>2 DEF TreeInv, ConsumedIsJson
  <2>4. IsJson(stream) => BeginsJson(stream)
    BY DEF IsJson, BeginsJson, State, Wrong
  <2>5. status \in {"refused", "unclosed", "failed", "rest_ignored"} => Derived(stream) = {}
    <3>1. SUFFICES ASSUME status \in {"refused", "unclosed", "failed", "rest_ignored"}
                   PROVE  \A node \in Derived(stream) : FALSE
      OBVIOUS
    <3>2. ~IsJson(stream)
      BY <2>1, <2>4, <3>1 DEF JsonIsAccepted
    <3>3. QED
      BY <2>2, <3>1, <3>2
  <2>6. QED
    BY <2>3, <2>5 DEF TreeIsDerived
<1>2. QED
  BY <1>1, TreeGrows, PTL

-----------------------------------------------------------------------------
(***************************************************************************)
(* The string cache.  The lists stay linked both ways, and the cache       *)
(* implements one that keeps of each bucket what was asked for last.       *)
(***************************************************************************)

Strings == {NoString} \cup {Content[id] : id \in Ids}

ListType ==
    [most : Slots, least : Slots, prev : [Slots -> 0 .. ListLength],
     next : [Slots -> 0 .. ListLength], id : [Slots -> {0} \cup Ids],
     string : [Slots -> Strings]]

(* The entries of a list are linked, those in use hold identifiers that no *)
(* other entry has and the string of each.  So if one holds identifier 0,  *)
(* all are in use.                                                         *)
GoodList(list) ==
    /\ WellPlaced(list, Places(list))
    /\ \A d \in Used(list), e \in Slots : list.id[d] = list.id[e] => d = e
    /\ \A e \in Used(list) : list.id[e] \in Ids /\ list.string[e] = Content[list.id[e]]
    /\ \A e \in Slots \ Used(list) : list.id[e] = 0

(* The identifier that a call asks for is not in the part of the list that *)
(* the call has seen.                                                      *)
NotSeen ==
    \A e \in Slots :
        \/ cursor # 0 /\ ~(Places(List)[e] < Places(List)[cursor])
        \/ List.id[e] # sought

IInv ==
    /\ lists \in Seq(ListType)
    /\ sought \in {NoCall} \cup Ids /\ cursor \in {Crashed, 0} \cup Slots
    /\ \A b \in DOMAIN lists : GoodList(lists[b])
    /\ sought # NoCall => lists # <<>>
    /\ sought # NoCall /\ cursor # Crashed => NotSeen

-----------------------------------------------------------------------------
(* What a list with its places says, entry by entry.                       *)
LEMMA Reading ==
  ASSUME NEW list \in ListType, NEW p, WellPlaced(list, p)
  PROVE  /\ ListLength \in Nat /\ ListLength > 1 /\ 0 \notin Slots
         /\ p \in [Slots -> Slots] /\ \A e \in Slots : p[e] \in 1 .. ListLength
         /\ \A d, e \in Slots : p[d] = p[e] => d = e
         /\ list.most \in Slots /\ p[list.most] = 1
         /\ list.least \in Slots /\ p[list.least] = ListLength
         /\ \A e \in Slots : list.next[e] \in 0 .. ListLength
         /\ \A e \in Slots : p[e] = ListLength => list.next[e] = 0
         /\ \A e \in Slots : p[e] # ListLength =>
                list.next[e] \in Slots /\ p[list.next[e]] = p[e] + 1
         /\ \A e \in Slots : p[e] # 1 =>
                list.prev[e] \in Slots /\ p[list.prev[e]] = p[e] - 1
<1>1. ListLength \in Nat /\ ListLength > 1
  BY CacheAssumption
<1>2. 0 \notin Slots /\ \A x \in 0 .. ListLength : x # 0 => x \in Slots
  BY <1>1 DEF Slots
<1>3. list.prev \in [Slots -> 0 .. ListLength] /\ list.next \in [Slots -> 0 .. ListLength]
  BY DEF ListType
<1>4. \A e \in Slots : list.prev[e] \in 0 .. ListLength /\ list.next[e] \in 0 .. ListLength
  BY <1>3
<1>5. list.most \in Slots /\ list.least \in Slots
  BY DEF ListType
<1>6. p \in [Slots -> Slots]
  BY DEF WellPlaced
<1>7. \A e \in Slots : p[e] \in 1 .. ListLength
  BY <1>6 DEF Slots
<1>8. QED
  BY <1>1, <1>2, <1>4, <1>5, <1>6, <1>7 DEF WellPlaced

(* Places that fit a list are the only ones: of two, the entry nearest to  *)
(* the front at which they differ would follow an entry at which they      *)
(* agree.                                                                  *)
LEMMA PlacesAgree ==
  ASSUME NEW list \in ListType, NEW p, NEW q, WellPlaced(list, p), WellPlaced(list, q)
  PROVE  p = q
<1> DEFINE T == {p[e] : e \in {g \in Slots : p[g] # q[g]}}
<1>1. p \in [Slots -> Slots] /\ q \in [Slots -> Slots]
  BY Reading
<1>2. \A e \in Slots : p[e] \in 1 .. ListLength /\ q[e] \in 1 .. ListLength
  BY Reading
<1>3. ListLength \in Nat
  BY Reading
<1>4. SUFFICES ASSUME T # {} PROVE FALSE
  BY <1>1
<1>5. T \subseteq Nat
  BY <1>2, <1>3
<1>6. PICK least \in T : \A y \in T : least <= y
  BY <1>4, <1>5, LeastNatural
<1>7. PICK e \in Slots : p[e] # q[e] /\ least = p[e]
  BY <1>6
<1>8. p[e] # 1
  <2>1. p[list.most] = 1 /\ q[list.most] = 1 /\ list.most \in Slots
    BY Reading
  <2>2. \A x, y \in Slots : p[x] = p[y] => x = y
    BY Reading
  <2>3. QED
    BY <1>7, <2>1, <2>2
<1>9. PICK d \in Slots : d = list.prev[e] /\ p[d] = p[e] - 1
  BY <1>8, Reading
<1>10. q[d] = p[d]
  <2>1. ~(least <= p[d])
    BY <1>2, <1>3, <1>7, <1>9
  <2>2. p[d] \notin T
    BY <1>6, <2>1
  <2>3. QED
    BY <2>2
<1>11. list.next[d] = e /\ q[d] # ListLength
  <2>1. p[d] # ListLength
    BY <1>2, <1>3, <1>9
  <2>2. list.next[d] \in Slots /\ p[list.next[d]] = p[d] + 1
    BY <2>1, Reading
  <2>3. p[list.next[d]] = p[e]
    BY <1>2, <1>3, <1>9, <2>2
  <2>4. \A x, y \in Slots : p[x] = p[y] => x = y
    BY Reading
  <2>5. QED
    BY <1>10, <2>1, <2>2, <2>3, <2>4
<1>12. q[e] = q[d] + 1
  BY <1>11, Reading
<1>13. QED
  BY <1>2, <1>3, <1>7, <1>9, <1>10, <1>12

LEMMA PlacesFound ==
  ASSUME NEW list \in ListType, NEW p, WellPlaced(list, p)
  PROVE  Places(list) = p
<1> DEFINE places == {place \in [Slots -> Slots] : WellPlaced(list, place)}
<1>1. p \in places
  BY DEF WellPlaced
<1>2. Places(list) \in places
  BY <1>1 DEF Places
<1>3. QED
  BY <1>2, PlacesAgree

-----------------------------------------------------------------------------
(* The places once an entry has moved to the front.                        *)
ToFront(p, e) ==
    [x \in Slots |-> IF x = e THEN 1 ELSE IF p[x] < p[e] THEN p[x] + 1 ELSE p[x]]

(* Moving an entry to the front: the pointers that make_most_recent        *)
(* changes are enough, whatever the pointer that it leaves.                *)
THEOREM MovesToFront ==
  ASSUME NEW list \in ListType, NEW p, WellPlaced(list, p), NEW e \in Slots
  PROVE  /\ MakeMostRecent(list, e) \in ListType
         /\ MakeMostRecent(list, e).id = list.id
         /\ MakeMostRecent(list, e).string = list.string
         /\ WellPlaced(MakeMostRecent(list, e), ToFront(p, e))
<1> DEFINE m == list.most
           f == list.prev[e]
           n == list.next[e]
           r == ToFront(p, e)
           moved == MakeMostRecent(list, e)
<1>1. ListLength \in Nat /\ ListLength > 1 /\ 0 \notin Slots
  BY Reading
<1>2. /\ p \in [Slots -> Slots] /\ \A x \in Slots : p[x] \in 1 .. ListLength
      /\ p[m] = 1 /\ p[list.least] = ListLength
  BY Reading
<1>3. \A x, y \in Slots : p[x] = p[y] => x = y
  BY Reading
<1>4. m \in Slots /\ list.least \in Slots /\ n \in 0 .. ListLength
  BY Reading
<1>5. \A x \in Slots : r[x] = IF x = e THEN 1 ELSE IF p[x] < p[e] THEN p[x] + 1 ELSE p[x]
  BY DEF ToFront
<1>6. \A x \in Slots : r[x] \in 1 .. ListLength
  BY <1>1, <1>2, <1>5
<1>7. r \in [Slots -> Slots]
  BY <1>6 DEF ToFront, Slots
<1> HIDE DEF r
<1>8. \A x, y \in Slots : r[x] = r[y] => x = y
  BY <1>1, <1>2, <1>3, <1>5
<1>9. CASE e = m
  <2>1. moved = list
    BY <1>9 DEF MakeMostRecent
  <2>2. \A x \in Slots : r[x] = p[x]
    BY <1>1, <1>2, <1>3, <1>5, <1>9
  <2>3. r = p
    BY <1>2, <1>7, <2>2
  <2>4. QED
    BY <2>1, <2>3 DEF r
<1>10. CASE e # m
  <2>1. p[e] # 1 /\ p[e] \in 2 .. ListLength
    BY <1>1, <1>2, <1>3, <1>4, <1>10
  <2>2. f \in Slots /\ p[f] = p[e] - 1 /\ f # e
    BY <1>1, <1>2, <2>1, Reading
  <2>3. n = 0 <=> p[e] = ListLength
    BY <1>1, Reading
  <2>4. n # 0 => n \in Slots /\ p[n] = p[e] + 1
    BY <2>3, Reading
  <2>5. n # 0 => n # m /\ n # e /\ n # f
    BY <1>2, <2>1, <2>2, <2>4
  <2> DEFINE next == [x \in Slots |-> IF x = e THEN m ELSE IF x = f THEN n ELSE list.next[x]]
             prev == [x \in Slots |-> IF x = m THEN e ELSE IF x = n THEN f ELSE list.prev[x]]
             least == IF n = 0 THEN f ELSE list.least
  <2>6. list.next \in [Slots -> 0 .. ListLength] /\ list.prev \in [Slots -> 0 .. ListLength]
    BY DEF ListType
  <2>7. moved = [list EXCEPT !.next = next, !.prev = prev, !.least = least, !.most = e]
    <3>1. next = [[list.next EXCEPT ![f] = n] EXCEPT ![e] = m]
      BY <2>2, <2>6
    <3>2. n # 0 => prev = [[list.prev EXCEPT ![n] = f] EXCEPT ![m] = e]
      BY <1>4, <2>4, <2>5, <2>6
    <3>3. n = 0 => prev = [list.prev EXCEPT ![m] = e]
      BY <1>1, <1>4, <2>6
    <3>4. f # 0
      BY <1>1, <2>2
    <3> HIDE DEF next, prev
    <3>5. CASE n = 0
      BY <1>10, <3>1, <3>3, <3>4, <3>5 DEF MakeMostRecent, ListType
    <3>6. CASE n # 0
      BY <1>10, <3>1, <3>2, <3>4, <3>6 DEF MakeMostRecent, ListType
    <3>7. QED
      BY <3>5, <3>6
  <2>8. /\ \A x \in Slots : next[x] \in 0 .. ListLength /\ prev[x] \in 0 .. ListLength
        /\ next \in [Slots -> 0 .. ListLength] /\ prev \in [Slots -> 0 .. ListLength]
    <3>1. m \in 0 .. ListLength /\ e \in 0 .. ListLength /\ f \in 0 .. ListLength
      BY <1>1, <1>4, <2>2 DEF Slots
    <3>2. ASSUME NEW x \in Slots PROVE next[x] \in 0 .. ListLength
      <4>1. next[x] = IF x = e THEN m ELSE IF x = f THEN n ELSE list.next[x]
        OBVIOUS
      <4>2. list.next[x] \in 0 .. ListLength
        BY <2>6
      <4>3. QED
        BY <1>4, <3>1, <4>1, <4>2
    <3>3. ASSUME NEW x \in Slots PROVE prev[x] \in 0 .. ListLength
      <4>1. prev[x] = IF x = m THEN e ELSE IF x = n THEN f ELSE list.prev[x]
        OBVIOUS
      <4>2. list.prev[x] \in 0 .. ListLength
        BY <2>6
      <4>3. QED
        BY <3>1, <4>1, <4>2
    <3>4. QED
      BY <3>2, <3>3
  <2>9. least \in Slots
    BY <1>4, <2>2
  <2>10. /\ \A x \in Slots : next[x] = IF x = e THEN m ELSE IF x = f THEN n ELSE list.next[x]
         /\ \A x \in Slots : prev[x] = IF x = m THEN e ELSE IF x = n THEN f ELSE list.prev[x]
    OBVIOUS
  <2> HIDE DEF next, prev, moved
  <2>11. /\ moved.most = e /\ moved.least = least /\ moved.next = next /\ moved.prev = prev
         /\ moved.id = list.id /\ moved.string = list.string /\ moved \in ListType
    <3> HIDE DEF least
    <3>1. QED
      BY <2>7, <2>8, <2>9 DEF ListType
  <2>12. r[e] = 1 /\ r[least] = ListLength
    <3>1. r[e] = 1
      BY <1>5
    <3>2. CASE n = 0
      BY <1>1, <1>5, <2>2, <2>3, <3>2
    <3>3. CASE n # 0
      BY <1>1, <1>2, <1>4, <1>5, <2>1, <2>3, <3>3
    <3>4. QED
      BY <3>1, <3>2, <3>3
  <2>13. ASSUME NEW x \in Slots
         PROVE  IF r[x] = ListLength THEN next[x] = 0
                ELSE next[x] # 0 /\ r[next[x]] = r[x] + 1
    <3>1. CASE x = e
      <4>1. r[x] = 1 /\ next[x] = m /\ r[m] = 2 /\ m # 0
        BY <1>1, <1>2, <1>4, <1>5, <1>10, <2>1, <2>10, <3>1
      <4>2. QED
        BY <1>1, <4>1
    <3>2. CASE x = f
      <4>1. next[x] = n /\ r[x] = p[e]
        BY <1>2, <1>5, <2>1, <2>2, <2>10, <3>2
      <4>2. n # 0 => r[n] = p[e] + 1
        BY <1>2, <1>5, <2>1, <2>4, <2>5
      <4>3. QED
        BY <2>3, <4>1, <4>2
    <3>3. CASE x # e /\ x # f
      <4>1. p[x] # p[e] /\ p[x] # p[e] - 1 /\ p[x] \in 1 .. ListLength
        BY <1>2, <1>3, <2>2, <3>3
      <4>2. next[x] = list.next[x]
        BY <2>10, <3>3
      <4>3. CASE p[x] = ListLength
        <5>1. r[x] = ListLength
          BY <1>1, <1>5, <2>1, <3>3, <4>1, <4>3
        <5>2. list.next[x] = 0
          BY <4>3, Reading
        <5>3. QED
          BY <4>2, <5>1, <5>2
      <4>4. CASE p[x] # ListLength
        <5>1. list.next[x] \in Slots /\ p[list.next[x]] = p[x] + 1
          BY <4>4, Reading
        <5>2. list.next[x] # e
          BY <2>1, <4>1, <5>1
        <5>3. r[x] # ListLength
          BY <1>1, <1>5, <2>1, <3>3, <4>1, <4>4
        <5>4. r[list.next[x]] = r[x] + 1
          BY <1>1, <1>5, <2>1, <3>3, <4>1, <5>1, <5>2
        <5>5. QED
          BY <1>1, <4>2, <5>1, <5>3, <5>4
      <4>5. QED
        BY <4>3, <4>4
    <3>4. QED
      BY <3>1, <3>2, <3>3
  <2>14. ASSUME NEW x \in Slots, r[x] # 1
         PROVE  prev[x] # 0 /\ r[prev[x]] = r[x] - 1
    <3>1. x # e
      BY <2>12, <2>14
    <3>2. CASE x = m
      <4>1. prev[x] = e /\ r[m] = 2
        BY <1>1, <1>2, <1>4, <1>5, <1>10, <2>1, <2>10, <3>2
      <4>2. QED
        BY <1>1, <2>12, <3>2, <4>1
    <3>3. CASE x # m /\ x = n
      <4>1. n # 0
        BY <1>1, <3>3
      <4>2. prev[x] = f
        BY <2>10, <3>3
      <4>3. r[f] = p[e] /\ r[x] = p[e] + 1
        BY <1>1, <1>2, <1>5, <2>1, <2>2, <2>4, <2>5, <3>3, <4>1
      <4>4. QED
        BY <1>1, <2>1, <2>2, <4>2, <4>3
    <3>4. CASE x # m /\ x # n
      <4>1. p[x] \in 2 .. ListLength /\ p[x] # p[e]
        BY <1>1, <1>2, <1>3, <1>4, <3>1, <3>4
      <4>2. p[x] # p[e] + 1
        BY <1>1, <1>3, <2>1, <2>3, <2>4, <3>4, <4>1
      <4>3. prev[x] = list.prev[x] /\ list.prev[x] \in Slots /\ p[list.prev[x]] = p[x] - 1
        BY <1>1, <2>10, <3>4, <4>1, Reading
      <4>4. list.prev[x] # e
        BY <2>1, <4>1, <4>2, <4>3
      <4>5. r[list.prev[x]] = r[x] - 1
        BY <1>1, <1>5, <2>1, <3>1, <4>1, <4>2, <4>3, <4>4
      <4>6. QED
        BY <1>1, <4>3, <4>5
    <3>5. QED
      BY <3>2, <3>3, <3>4
  <2>15. WellPlaced(moved, r)
    <3> HIDE DEF least
    <3>1. \A x \in Slots : IF r[x] = ListLength THEN next[x] = 0
                           ELSE next[x] # 0 /\ r[next[x]] = r[x] + 1
      BY <2>13
    <3>2. \A x \in Slots : r[x] # 1 => prev[x] # 0 /\ r[prev[x]] = r[x] - 1
      BY <2>14
    <3>3. QED
      BY <1>7, <1>8, <2>11, <2>12, <3>1, <3>2 DEF WellPlaced
  <2>16. QED
    BY <2>11, <2>15 DEF r, moved
<1>11. QED
  BY <1>9, <1>10

-----------------------------------------------------------------------------
(* The identifiers of a good list and their ranks.                         *)
LEMMA KeptRead ==
  ASSUME NEW list \in ListType, GoodList(list)
  PROVE  /\ DOMAIN KeptIn(list) = {list.id[x] : x \in Used(list)}
         /\ KeptIn(list) = [id \in DOMAIN KeptIn(list) |-> KeptIn(list)[id]]
         /\ \A x \in Used(list) : KeptIn(list)[list.id[x]] = Places(list)[x]
<1> DEFINE slot(id) == CHOOSE e \in Used(list) : list.id[e] = id
<1>1. KeptIn(list) = [id \in {list.id[x] : x \in Used(list)} |-> Places(list)[slot(id)]]
  BY DEF KeptIn
<1>2. ASSUME NEW x \in Used(list) PROVE slot(list.id[x]) = x
  <2>1. slot(list.id[x]) \in Used(list) /\ list.id[slot(list.id[x])] = list.id[x]
    OBVIOUS
  <2>2. QED
    BY <1>2, <2>1 DEF GoodList, Used
<1> HIDE DEF slot
<1>3. QED
  BY <1>1, <1>2

(* Two good lists keep the same if the second moves each identifier as the *)
(* abstract cache does.                                                    *)
LEMMA KeptAsRanked ==
  ASSUME NEW list \in ListType, GoodList(list), NEW new \in ListType, GoodList(new), NEW id,
         \A x \in Used(new) :
            /\ new.id[x] = id \/ new.id[x] \in DOMAIN KeptIn(list)
            /\ Places(new)[x] = Lru!NewRank(KeptIn(list), id, new.id[x])
            /\ Places(new)[x] <= ListLength,
         \A other \in DOMAIN KeptIn(list) \cup {id} :
            \/ \E x \in Used(new) : new.id[x] = other
            \/ ~(Lru!NewRank(KeptIn(list), id, other) <= ListLength)
  PROVE  KeptIn(new) = Lru!Ranked(KeptIn(list), id)
<1> DEFINE rank == KeptIn(list)
           stay == {other \in DOMAIN rank \cup {id} : Lru!NewRank(rank, id, other) <= ListLength}
<1>1. Lru!Ranked(rank, id) = [other \in stay |-> Lru!NewRank(rank, id, other)]
  BY DEF Lru!Ranked
<1>2. /\ DOMAIN KeptIn(new) = {new.id[x] : x \in Used(new)}
      /\ KeptIn(new) = [i \in DOMAIN KeptIn(new) |-> KeptIn(new)[i]]
      /\ \A x \in Used(new) : KeptIn(new)[new.id[x]] = Places(new)[x]
  BY KeptRead
<1> HIDE DEF rank
<1>3. ASSUME NEW other \in stay PROVE \E x \in Used(new) : new.id[x] = other
  BY <1>3 DEF rank
<1>4. DOMAIN KeptIn(new) = stay
  <2>1. ASSUME NEW x \in Used(new) PROVE new.id[x] \in stay
    BY <2>1 DEF rank
  <2> HIDE DEF stay
  <2>2. QED
    BY <1>2, <1>3, <2>1
<1>5. ASSUME NEW other \in stay PROVE KeptIn(new)[other] = Lru!NewRank(rank, id, other)
  <2>1. PICK x \in Used(new) : new.id[x] = other
    BY <1>3
  <2>2. QED
    BY <1>2, <2>1 DEF rank
<1> HIDE DEF stay
<1>6. QED
  BY <1>1, <1>2, <1>4, <1>5 DEF rank

LEMMA FreshIsGood ==
  /\ FreshList \in ListType /\ GoodList(FreshList) /\ KeptIn(FreshList) = Lru!NoneKept
<1> DEFINE p == [e \in Slots |-> e]
<1>1. ListLength \in Nat /\ ListLength > 1 /\ Slots = 1 .. ListLength
  BY CacheAssumption DEF Slots
<1>2. /\ FreshList.most = 1 /\ FreshList.least = ListLength
      /\ FreshList.prev = [e \in Slots |-> e - 1]
      /\ FreshList.next = [e \in Slots |-> IF e < ListLength THEN e + 1 ELSE 0]
      /\ \A e \in Slots : FreshList.id[e] = 0 /\ FreshList.string[e] = NoString
      /\ Used(FreshList) = {}
  BY DEF FreshList, Used
<1>3. FreshList \in ListType
  <2>1. [e \in Slots |-> e - 1] \in [Slots -> 0 .. ListLength]
    BY <1>1
  <2>2. [e \in Slots |-> IF e < ListLength THEN e + 1 ELSE 0] \in [Slots -> 0 .. ListLength]
    BY <1>1
  <2>3. 1 \in Slots /\ ListLength \in Slots
    BY <1>1
  <2>4. QED
    BY <2>1, <2>2, <2>3 DEF FreshList, ListType, Strings
<1>4. WellPlaced(FreshList, p)
  BY <1>1, <1>2 DEF WellPlaced
<1>5. GoodList(FreshList)
  BY <1>2, <1>3, <1>4, PlacesFound DEF GoodList
<1>6. DOMAIN KeptIn(FreshList) = {}
  <2>1. DOMAIN KeptIn(FreshList) = {FreshList.id[x] : x \in Used(FreshList)}
    BY <1>3, <1>5, KeptRead
  <2>2. QED
    BY <1>2, <2>1
<1>7. QED
  BY <1>3, <1>5, <1>6, KeptRead DEF Lru!NoneKept

(* A hit: the list stays good, and the identifier goes to the front.       *)
LEMMA HitKeeps ==
  ASSUME NEW list \in ListType, GoodList(list), NEW e \in Used(list)
  PROVE  LET new == MakeMostRecent(list, e)
         IN  /\ new \in ListType /\ GoodList(new)
             /\ KeptIn(new) = Lru!Ranked(KeptIn(list), list.id[e])
<1> DEFINE new == MakeMostRecent(list, e)
           p == Places(list)
           r == ToFront(p, e)
           id == list.id[e]
<1>1. WellPlaced(list, p) /\ e \in Slots
  BY DEF GoodList, Used
<1>2. new \in ListType /\ new.id = list.id /\ new.string = list.string /\ WellPlaced(new, r)
  BY <1>1, MovesToFront
<1>3. /\ ListLength \in Nat /\ \A x \in Slots : p[x] \in 1 .. ListLength
      /\ \A x, y \in Slots : p[x] = p[y] => x = y
  BY <1>1, Reading
<1>4. \A x \in Slots : r[x] = IF x = e THEN 1 ELSE IF p[x] < p[e] THEN p[x] + 1 ELSE p[x]
  BY DEF ToFront
<1> HIDE DEF new, p, r
<1>2a. Used(new) = Used(list)
  BY <1>2 DEF Used
<1>5. Places(new) = r
  BY <1>2, PlacesFound
<1>6. GoodList(new)
  BY <1>2a, <1>2, <1>5 DEF GoodList
<1>7. /\ DOMAIN KeptIn(list) = {list.id[x] : x \in Used(list)}
      /\ \A x \in Used(list) : KeptIn(list)[list.id[x]] = p[x]
  BY KeptRead DEF p
<1>8. ASSUME NEW x \in Used(list)
      PROVE  r[x] = Lru!NewRank(KeptIn(list), id, list.id[x]) /\ r[x] <= ListLength
  <2>1. id \in DOMAIN KeptIn(list) /\ KeptIn(list)[id] = p[e] /\ KeptIn(list)[list.id[x]] = p[x]
    BY <1>7, <1>8
  <2>2. list.id[x] = id => x = e
    BY <1>8 DEF GoodList, Used
  <2>3. CASE x = e
    BY <1>3, <1>4, <2>3 DEF Used, Lru!NewRank
  <2>4. CASE x # e
    BY <1>3, <1>4, <2>1, <2>2, <2>4 DEF Used, Lru!NewRank
  <2>5. QED
    BY <2>3, <2>4
<1>9. \A other \in DOMAIN KeptIn(list) \cup {id} : \E x \in Used(new) : new.id[x] = other
  BY <1>2a, <1>2, <1>7
<1> HIDE DEF id
<1>10. KeptIn(new) = Lru!Ranked(KeptIn(list), id)
  BY <1>2a, <1>2, <1>5, <1>6, <1>7, <1>8, <1>9, KeptAsRanked
<1>11. QED
  BY <1>2, <1>6, <1>10 DEF new, id

(* The last entry of a list taken for another identifier.                  *)
Claimed(list, id) ==
    [list EXCEPT !.string[list.least] = Content[id], !.id[list.least] = id]

(* A miss: what was asked for longest ago gives way.                       *)
LEMMA MissKeeps ==
  ASSUME NEW list \in ListType, GoodList(list), NEW id \in Ids,
         \A x \in Slots : list.id[x] # id
  PROVE  LET new == MakeMostRecent(Claimed(list, id), list.least)
         IN  /\ new \in ListType /\ GoodList(new)
             /\ KeptIn(new) = Lru!Ranked(KeptIn(list), id)
<1> DEFINE oldest == list.least
           taken == Claimed(list, id)
           new == MakeMostRecent(taken, oldest)
           p == Places(list)
           r == ToFront(p, oldest)
<1>1. WellPlaced(list, p)
  BY DEF GoodList
<1>2. /\ ListLength \in Nat /\ ListLength > 1
      /\ \A x \in Slots : p[x] \in 1 .. ListLength
      /\ \A x, y \in Slots : p[x] = p[y] => x = y
      /\ oldest \in Slots /\ p[oldest] = ListLength
  BY <1>1, Reading
<1>3. Content[id] # NoString
  BY CacheAssumption
<1>4. list.id \in [Slots -> {0} \cup Ids] /\ list.string \in [Slots -> Strings]
  BY DEF ListType
<1>5. taken = [list EXCEPT !.string = [list.string EXCEPT ![oldest] = Content[id]],
                           !.id = [list.id EXCEPT ![oldest] = id]]
  BY <1>4 DEF Claimed, ListType
<1>6. /\ taken \in ListType /\ taken.most = list.most /\ taken.least = list.least
      /\ taken.next = list.next /\ taken.prev = list.prev
      /\ taken.id = [list.id EXCEPT ![oldest] = id]
      /\ taken.string = [list.string EXCEPT ![oldest] = Content[id]]
  <2>1. [list.string EXCEPT ![oldest] = Content[id]] \in [Slots -> Strings]
    BY <1>4 DEF Strings
  <2>2. [list.id EXCEPT ![oldest] = id] \in [Slots -> {0} \cup Ids]
    BY <1>4
  <2>3. QED
    BY <1>5, <2>1, <2>2 DEF ListType
<1>7. WellPlaced(taken, p)
  BY <1>1, <1>6 DEF WellPlaced
<1> HIDE DEF taken, p
<1>8. new \in ListType /\ new.id = taken.id /\ new.string = taken.string /\ WellPlaced(new, r)
  BY <1>2, <1>6, <1>7, MovesToFront
<1>9. \A x \in Slots : r[x] = IF x = oldest THEN 1 ELSE IF p[x] < p[oldest] THEN p[x] + 1 ELSE p[x]
  BY DEF ToFront
<1> HIDE DEF new, r
<1>10. Places(new) = r
  BY <1>8, PlacesFound
<1>11. \A x \in Slots : /\ new.id[x] = IF x = oldest THEN id ELSE list.id[x]
                        /\ new.string[x] = IF x = oldest THEN Content[id] ELSE list.string[x]
                        /\ x \in Used(new) <=> x = oldest \/ x \in Used(list)
  BY <1>3, <1>4, <1>6, <1>8 DEF Used
<1>12. GoodList(new)
  <2>1. \A d \in Used(new), e \in Slots : new.id[d] = new.id[e] => d = e
    BY <1>11 DEF GoodList, Used
  <2>2. \A e \in Used(new) : new.id[e] \in Ids /\ new.string[e] = Content[new.id[e]]
    BY <1>11 DEF GoodList, Used
  <2>3. \A e \in Slots \ Used(new) : new.id[e] = 0
    BY <1>11 DEF GoodList
  <2>4. QED
    BY <1>8, <1>10, <2>1, <2>2, <2>3 DEF GoodList
<1>13. /\ DOMAIN KeptIn(list) = {list.id[x] : x \in Used(list)}
       /\ \A x \in Used(list) : KeptIn(list)[list.id[x]] = p[x]
  BY KeptRead DEF p
<1>14. id \notin DOMAIN KeptIn(list)
  BY <1>13 DEF Used
<1>15. \A x \in Slots : x # oldest => p[x] # ListLength /\ r[x] = p[x] + 1
  BY <1>2, <1>9
<1>16. ASSUME NEW x \in Used(new)
       PROVE  /\ new.id[x] = id \/ new.id[x] \in DOMAIN KeptIn(list)
              /\ r[x] = Lru!NewRank(KeptIn(list), id, new.id[x])
              /\ r[x] <= ListLength
  <2>1. CASE x = oldest
    BY <1>2, <1>9, <1>11, <2>1 DEF Used, Lru!NewRank
  <2>2. CASE x # oldest
    <3>1. new.id[x] = list.id[x] /\ KeptIn(list)[list.id[x]] = p[x] /\ list.id[x] # id
      BY <1>11, <1>13, <1>16, <2>2 DEF Used
    <3>2. QED
      BY <1>2, <1>11, <1>13, <1>14, <1>15, <1>16, <2>2, <3>1 DEF Used, Lru!NewRank
  <2>3. QED
    BY <2>1, <2>2
<1>17. ASSUME NEW other \in DOMAIN KeptIn(list) \cup {id}
       PROVE  \/ \E x \in Used(new) : new.id[x] = other
              \/ ~(Lru!NewRank(KeptIn(list), id, other) <= ListLength)
  <2>1. CASE other = id
    BY <1>2, <1>11, <2>1
  <2>2. CASE other # id
    <3>1. PICK x \in Used(list) : other = list.id[x]
      BY <1>13, <2>2
    <3>2. CASE x # oldest
      BY <1>11, <3>1, <3>2 DEF Used
    <3>3. CASE x = oldest
      <4>1. Lru!NewRank(KeptIn(list), id, other) = ListLength + 1
        BY <1>2, <1>13, <1>14, <2>2, <3>1, <3>3 DEF Lru!NewRank
      <4>2. QED
        BY <1>2, <4>1
    <3>4. QED
      BY <3>2, <3>3
  <2>3. QED
    BY <2>1, <2>2
<1>18. KeptIn(new) = Lru!Ranked(KeptIn(list), id)
  BY <1>8, <1>10, <1>12, <1>16, <1>17, KeptAsRanked
<1>19. QED
  BY <1>8, <1>12, <1>18 DEF new, taken

-----------------------------------------------------------------------------
LEMMA BucketExists ==
  ASSUME NEW id \in Ids, lists \in Seq(ListType), lists # <<>>
  PROVE  BucketOf(id) \in DOMAIN lists /\ lists[BucketOf(id)] \in ListType
<1>1. Len(lists) \in Nat /\ Len(lists) # 0 /\ DOMAIN lists = 1 .. Len(lists)
  OBVIOUS
<1>2. Hash[id] \in Nat
  BY CacheAssumption
<1>3. BucketOf(id) \in 1 .. Len(lists)
  BY <1>1, <1>2 DEF BucketOf
<1>4. QED
  BY <1>1, <1>3

(* A call that returns puts a good list in the place of its list.          *)
LEMMA ReturnKeeps ==
  ASSUME IInv, sought # NoCall, NEW new \in ListType, GoodList(new), NEW string, ReturnString(new, string)
  PROVE  IInv'
<1>1. sought \in Ids /\ lists \in Seq(ListType) /\ lists # <<>>
  BY DEF IInv
<1>2. BucketOf(sought) \in DOMAIN lists
  BY <1>1, BucketExists
<1>3. lists' = [lists EXCEPT ![BucketOf(sought)] = new] /\ sought' = NoCall /\ cursor' = 0
  BY DEF ReturnString
<1>4. lists' \in Seq(ListType) /\ DOMAIN lists' = DOMAIN lists
  BY <1>1, <1>2, <1>3
<1>5. ASSUME NEW b \in DOMAIN lists PROVE GoodList(lists'[b])
  BY <1>1, <1>2, <1>3, <1>5 DEF IInv
<1>6. QED
  BY <1>3, <1>4, <1>5 DEF IInv

(* What a hit and a miss put there.                                        *)
LEMMA CallsTell == NoCall \notin Ids /\ Crashed \notin {0} \cup Slots
  BY CacheAssumption DEF NoCall, Crashed, Slots

LEMMA HitReturns ==
  ASSUME IInv, GetHit
  PROVE  /\ sought \in Ids /\ BucketOf(sought) \in DOMAIN lists /\ IInv'
         /\ \E new : /\ lists' = [lists EXCEPT ![BucketOf(sought)] = new]
                     /\ KeptIn(new) = Lru!Ranked(KeptIn(List), sought)
         /\ answer' = <<sought, Content[sought]>>
<1> DEFINE new == MakeMostRecent(List, cursor)
<1>1. /\ sought \in Ids /\ sought # NoCall /\ cursor \in Used(List) /\ List.id[cursor] = sought
      /\ lists \in Seq(ListType) /\ lists # <<>> /\ ReturnString(new, List.string[cursor])
  BY DEF GetHit, IInv, Used
<1>2. BucketOf(sought) \in DOMAIN lists /\ List \in ListType /\ GoodList(List)
  BY <1>1, BucketExists DEF IInv, List
<1>3. new \in ListType /\ GoodList(new) /\ KeptIn(new) = Lru!Ranked(KeptIn(List), sought)
  BY <1>1, <1>2, HitKeeps
<1>4. List.string[cursor] = Content[sought]
  BY <1>1, <1>2 DEF GoodList
<1> HIDE DEF new
<1>5. IInv'
  BY <1>1, <1>3, ReturnKeeps
<1>6. QED
  BY <1>1, <1>2, <1>3, <1>4, <1>5 DEF ReturnString

LEMMA MissReturns ==
  ASSUME IInv, GetMiss(Content[sought])
  PROVE  /\ sought \in Ids /\ BucketOf(sought) \in DOMAIN lists /\ IInv'
         /\ \E new : /\ lists' = [lists EXCEPT ![BucketOf(sought)] = new]
                     /\ KeptIn(new) = Lru!Ranked(KeptIn(List), sought)
         /\ answer' = <<sought, Content[sought]>>
<1> DEFINE new == MakeMostRecent(Claimed(List, sought), List.least)
<1>1. /\ sought \in Ids /\ sought # NoCall /\ \A x \in Slots : List.id[x] # sought
      /\ lists \in Seq(ListType) /\ lists # <<>> /\ ReturnString(new, Content[sought])
  BY CallsTell DEF GetMiss, IInv, NotSeen, Claimed
<1>2. BucketOf(sought) \in DOMAIN lists /\ List \in ListType /\ GoodList(List)
  BY <1>1, BucketExists DEF IInv, List
<1>3. new \in ListType /\ GoodList(new) /\ KeptIn(new) = Lru!Ranked(KeptIn(List), sought)
  BY <1>1, <1>2, MissKeeps
<1> HIDE DEF new
<1>4. IInv'
  BY <1>1, <1>3, ReturnKeeps
<1>5. QED
  BY <1>1, <1>2, <1>3, <1>4 DEF ReturnString

LEMMA LruCreated ==
  ASSUME NEW strings \in 0 .. MaxStrings, IInv, CreateLru(strings)
  PROVE  /\ IInv' /\ lists = <<>> /\ lists' \in Seq(ListType) /\ Len(lists') # 0
         /\ \A b \in DOMAIN lists' : lists'[b] = FreshList
<1> DEFINE n == IF strings \div 4 < 1 THEN 1 ELSE strings \div 4
<1>1. n \in Nat /\ n # 0
  BY CacheAssumption
<1>2. lists = <<>> /\ lists' = [b \in 1 .. n |-> FreshList] /\ UNCHANGED <<sought, cursor, answer>>
  BY DEF CreateLru
<1> HIDE DEF n
<1>3. lists' \in Seq(ListType) /\ Len(lists') = n /\ DOMAIN lists' = 1 .. n
  BY <1>1, <1>2, FreshIsGood
<1>4. \A b \in DOMAIN lists' : lists'[b] = FreshList
  BY <1>2, <1>3
<1>5. sought' = NoCall /\ cursor' = cursor
  BY <1>2 DEF IInv
<1>6. \A b \in DOMAIN lists' : GoodList(lists'[b])
  BY <1>4, FreshIsGood
<1>7. IInv'
  BY <1>3, <1>5, <1>6 DEF IInv
<1>8. QED
  BY <1>1, <1>2, <1>3, <1>4, <1>7

LEMMA NextKeeps ==
  ASSUME IInv, [CacheNext]_cvars
  PROVE  IInv'
<1>1. ASSUME NEW strings \in 0 .. MaxStrings, CreateLru(strings) PROVE IInv'
  BY <1>1, LruCreated
<1>2. ASSUME NEW id \in Ids, GetBegin(id) PROVE IInv'
  <2> DEFINE list == lists[BucketOf(id)]
  <2>1. lists \in Seq(ListType) /\ lists # <<>> /\ sought' = id /\ cursor' = list.most /\ lists' = lists
    BY <1>2 DEF GetBegin, IInv
  <2>2. list \in ListType /\ GoodList(list)
    BY <2>1, BucketExists DEF IInv
  <2>3. WellPlaced(list, Places(list))
    BY <2>2 DEF GoodList
  <2>4. /\ list.most \in Slots /\ 0 \notin Slots /\ Places(list)[list.most] = 1
        /\ \A e \in Slots : Places(list)[e] \in 1 .. ListLength
    BY <2>2, <2>3, Reading
  <2>5. List' = list
    BY <2>1 DEF List, BucketOf
  <2> HIDE DEF list
  <2>6. NotSeen'
    BY <2>1, <2>4, <2>5 DEF NotSeen
  <2>7. QED
    BY <2>1, <2>4, <2>6 DEF IInv
<1>3. ASSUME GetNext PROVE IInv'
  <2>1. /\ sought \in Ids /\ sought # NoCall /\ cursor \in Slots /\ List.id[cursor] # sought
        /\ lists \in Seq(ListType) /\ lists # <<>> /\ NotSeen
        /\ cursor' = List.next[cursor] /\ lists' = lists /\ sought' = sought
    BY <1>3, CallsTell DEF GetNext, IInv
  <2>2. List \in ListType /\ GoodList(List)
    BY <2>1, BucketExists DEF IInv, List
  <2>3. WellPlaced(List, Places(List))
    BY <2>2 DEF GoodList
  <2> DEFINE p == Places(List)
  <2>4. /\ ListLength \in Nat /\ 0 \notin Slots
        /\ \A e \in Slots : p[e] \in 1 .. ListLength
        /\ \A d, e \in Slots : p[d] = p[e] => d = e
    BY <2>2, <2>3, Reading
  <2>5. /\ p[cursor] = ListLength => List.next[cursor] = 0
        /\ p[cursor] # ListLength => /\ List.next[cursor] \in Slots
                                    /\ p[List.next[cursor]] = p[cursor] + 1
    BY <2>1, <2>2, <2>3, Reading
  <2>6. List' = List
    BY <2>1 DEF List, BucketOf
  <2> HIDE DEF p
  <2>7. NotSeen'
    <3>1. SUFFICES ASSUME NEW e \in Slots, List.id[e] = sought
                   PROVE  cursor' # 0 /\ ~(p[e] < p[cursor'])
      BY <2>1, <2>6 DEF NotSeen, p
    <3>2. e # cursor /\ ~(p[e] < p[cursor])
      BY <2>1, <3>1 DEF NotSeen, p
    <3>3. p[cursor] < p[e]
      BY <2>1, <2>4, <3>2
    <3>4. p[cursor] # ListLength
      BY <2>1, <2>4, <3>3
    <3>5. QED
      BY <2>1, <2>4, <2>5, <3>3, <3>4
  <2>8. cursor' \in {0} \cup Slots
    BY <2>1, <2>5
  <2>9. QED
    BY <2>1, <2>7, <2>8 DEF IInv
<1>4. CASE GetHit
  BY <1>4, HitReturns
<1>5. CASE GetMiss(Content[sought])
  BY <1>5, MissReturns
<1>6. CASE GetUnused
  BY <1>6, CallsTell DEF GetUnused, IInv
<1>7. CASE UNCHANGED cvars
  BY <1>7 DEF cvars, IInv, NotSeen, List, BucketOf
<1>8. QED
  BY <1>1, <1>2, <1>3, <1>4, <1>5, <1>6, <1>7 DEF CacheNext

LEMMA Invariance == CacheSpec => []IInv
<1>1. CacheInit => IInv
  BY DEF CacheInit, IInv
<1>2. QED
  BY <1>1, NextKeeps, PTL DEF CacheSpec

(* The lists of the cache stay linked in both directions, without an entry *)
(* lost or doubled, and no identifier is in a list twice, or with the      *)
(* string of another (make_most_recent, string_id_cache_get).              *)
THEOREM ListsStayLinked == CacheSpec => [](\A b \in DOMAIN lists : GoodList(lists[b]))
<1>1. IInv => \A b \in DOMAIN lists : GoodList(lists[b])
  BY DEF IInv
<1>2. QED
  BY <1>1, Invariance, PTL

-----------------------------------------------------------------------------
(* A step that answers a call is a step of the abstract cache.             *)
LEMMA ReturnIsGet ==
  ASSUME IInv, sought \in Ids, BucketOf(sought) \in DOMAIN lists, NEW new,
         lists' = [lists EXCEPT ![BucketOf(sought)] = new],
         KeptIn(new) = Lru!Ranked(KeptIn(List), sought),
         answer' = <<sought, Content[sought]>>
  PROVE  Lru!Get(sought)
<1> DEFINE kept == [b \in DOMAIN lists |-> KeptIn(lists[b])]
           keptNew == [b \in DOMAIN lists' |-> KeptIn(lists'[b])]
           bucket == BucketOf(sought)
<1>1. lists \in Seq(ListType) /\ Len(lists) \in Nat /\ DOMAIN lists = 1 .. Len(lists)
  BY DEF IInv
<1>2. DOMAIN lists' = DOMAIN lists
  OBVIOUS
<1>3. \A b \in DOMAIN lists : lists'[b] = IF b = bucket THEN new ELSE lists[b]
  BY <1>1
<1>4. keptNew = [kept EXCEPT ![bucket] = Lru!Ranked(kept[bucket], sought)]
  BY <1>2, <1>3 DEF List
<1>5. kept \in Seq({KeptIn(lists[b]) : b \in DOMAIN lists}) /\ Len(kept) = Len(lists)
  BY <1>1
<1>6. kept # <<>>
  BY <1>1, <1>5
<1>7. Lru!BucketOf(sought) = bucket
  BY <1>5 DEF Lru!BucketOf, BucketOf
<1> HIDE DEF bucket
<1>8. QED
  BY <1>4, <1>6, <1>7 DEF Lru!Get

(* A call that takes an unused entry for identifier 0: the place of that   *)
(* entry is free, and 0 is not kept.                                       *)
LEMMA UnusedIsFail ==
  ASSUME IInv, GetUnused
  PROVE  sought \in Ids /\ Lru!Fail(sought)
<1> DEFINE kept == [b \in DOMAIN lists |-> KeptIn(lists[b])]
           bucket == BucketOf(sought)
<1>1. /\ sought \in Ids /\ cursor \in Slots \ Used(List) /\ List.id[cursor] = sought
      /\ lists \in Seq(ListType) /\ lists # <<>> /\ lists' = lists
      /\ answer' = <<sought, NoString>>
  BY DEF GetUnused, IInv, Used
<1>2. bucket \in DOMAIN lists /\ List \in ListType /\ GoodList(List) /\ List = lists[bucket]
  BY <1>1, BucketExists DEF IInv, List
<1>3. sought = 0
  BY <1>1, <1>2 DEF GoodList
<1>4. Len(lists) \in Nat /\ DOMAIN lists = 1 .. Len(lists) /\ Len(lists) # 0
  BY <1>1
<1>5. kept \in Seq({KeptIn(lists[b]) : b \in DOMAIN lists}) /\ Len(kept) = Len(lists) /\ kept # <<>>
  BY <1>4
<1>6. Lru!BucketOf(sought) = bucket
  BY <1>5 DEF Lru!BucketOf, BucketOf
<1>7. kept[bucket] = KeptIn(List)
  BY <1>2
<1>8. /\ DOMAIN KeptIn(List) = {List.id[x] : x \in Used(List)}
      /\ \A x \in Used(List) : KeptIn(List)[List.id[x]] = Places(List)[x]
  BY <1>2, KeptRead
<1>9. /\ Places(List)[cursor] \in 1 .. ListLength
      /\ \A x \in Slots : Places(List)[x] = Places(List)[cursor] => x = cursor
  BY <1>1, <1>2, Reading DEF GoodList
<1>10. \A x \in Used(List) : x \in Slots /\ List.id[x] # 0 /\ Places(List)[x] # Places(List)[cursor]
  BY <1>1, <1>2, <1>3, <1>9 DEF GoodList, Used
<1>11. sought \notin DOMAIN KeptIn(List)
  BY <1>3, <1>8, <1>10
<1>12. \A id \in DOMAIN KeptIn(List) : KeptIn(List)[id] # Places(List)[cursor]
  BY <1>8, <1>10
<1>13. Lru!HasRoom(KeptIn(List))
  BY <1>9, <1>12 DEF Lru!HasRoom
<1> HIDE DEF bucket
<1>14. UNCHANGED kept
  BY <1>1
<1>15. QED
  BY <1>1, <1>3, <1>5, <1>6, <1>7, <1>11, <1>13, <1>14 DEF Lru!Fail

LEMMA Simulates ==
  ASSUME IInv, [CacheNext]_cvars
  PROVE  [Lru!Next]_(Lru!vars)
<1>1. ASSUME NEW strings \in 0 .. MaxStrings, CreateLru(strings) PROVE Lru!Create
  <2> DEFINE keptNew == [b \in DOMAIN lists' |-> KeptIn(lists'[b])]
  <2>1. /\ lists = <<>> /\ lists' \in Seq(ListType) /\ Len(lists') # 0
        /\ \A b \in DOMAIN lists' : lists'[b] = FreshList
    BY <1>1, LruCreated
  <2>2. Len(lists') \in Nat /\ DOMAIN lists' = 1 .. Len(lists')
    BY <2>1
  <2>3. \A b \in DOMAIN lists' : KeptIn(lists'[b]) = Lru!NoneKept
    BY <2>1, FreshIsGood
  <2>4. keptNew \in Seq({Lru!NoneKept}) /\ Len(keptNew) # 0
    BY <2>1, <2>2, <2>3
  <2>5. [b \in DOMAIN lists |-> KeptIn(lists[b])] = <<>>
    BY <2>1
  <2>6. answer' = answer
    BY <1>1 DEF CreateLru
  <2>7. QED
    BY <2>4, <2>5, <2>6 DEF Lru!Create
<1>2. ASSUME NEW id \in Ids, GetBegin(id) PROVE UNCHANGED Lru!vars
  BY <1>2 DEF GetBegin, Lru!vars
<1>3. CASE GetNext
  BY <1>3 DEF GetNext, Lru!vars
<1>4. CASE GetHit
  BY <1>4, HitReturns, ReturnIsGet DEF Lru!Next
<1>5. CASE GetMiss(Content[sought])
  BY <1>5, MissReturns, ReturnIsGet DEF Lru!Next
<1>6. CASE GetUnused
  BY <1>6, UnusedIsFail DEF Lru!Next
<1>7. CASE UNCHANGED cvars
  BY <1>7 DEF cvars, Lru!vars
<1>8. QED
  BY <1>1, <1>2, <1>3, <1>4, <1>5, <1>6, <1>7 DEF CacheNext, Lru!Next

(* For any hash, any length of the lists and any number of buckets, the    *)
(* cache answers with the string of the identifier and keeps in each       *)
(* bucket what was asked for last (string_id_cache_get), except that a     *)
(* call for identifier 0 ends the process while its bucket has room.       *)
THEOREM CacheImplementsLru == CacheSpec => CacheIsLru
<1>1. CacheInit => Lru!Init
  BY DEF CacheInit, Lru!Init
<1>2. QED
  BY <1>1, Simulates, Invariance, PTL DEF CacheSpec, CacheIsLru, Lru!Spec
=============================================================================
