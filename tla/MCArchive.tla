------------------------------ MODULE MCArchive ------------------------------
(* Texts for TLC: every type beside every other in one object and in one    *)
(* array, and objects below arrays below objects three arrays deep.  On two  *)
(* texts queries run.                                                       *)
EXTENDS Archive
MCContent == [id \in 0 .. 7 |-> <<"a", "s", "d", "/", "b", "u", "c", "t">>[id + 1]]
MCHash    == [id \in 0 .. 7 |-> <<0, 2, 4, 6, 1, 3, 5, 7>>[id + 1]]
MCBits    == <<2, 3, 4, 5>>

Narrow == <<"int", 1>>
Wide   == <<"int", 3>>
Text   == <<"string", "s">>

Pairs(S) == {<<"array", <<a, b>>>> : a \in S, b \in S}
Of(S)    == {<<"array", <<a>>>> : a \in S}

(* Objects with values of S, keys a and b.                                  *)
Objects(S) ==
    {<<"object", <<>>>>}
    \cup {<<"object", << <<k, v>> >> >> : k \in {"a", "b"}, v \in S}
    \cup {<<"object", << <<"a", v>>, <<"b", w>> >> >> : v \in S, w \in S}

Leaves == {Null, <<"bool", 1>>, <<"int", 2>>, <<"float", 1>>, Text}
            \cup {<<"int", v>> : v \in {-8, -3, -1, 1, 3, 14}}
Numbers2 == {Null} \cup {<<"int", v>> : v \in {-3, -2, 0, 2, 3, 7}}
Lists  == Pairs(Numbers2) \cup Pairs({Text}) \cup Pairs({Null, <<"bool", 1>>}) \cup {<<"array", <<>>>>}

Flat   == Objects(Leaves \cup Lists)

Tiny   == {<<"object", <<>>>>} \cup {<<"object", << <<"a", v>> >> >> : v \in {Narrow, Text}}
Small  == {Null, Narrow, Wide, Text} \cup Tiny \cup Pairs({Null, Narrow}) \cup Pairs(Tiny)
Inner  == Objects(Small)
Few    == Objects({Narrow, <<"array", <<Null, <<"object", << <<"a", Text>> >> >>, <<"object", << <<"b", Wide>> >> >> >> >>})

Nested == {<< <<"c", a>> >> : a \in Pairs(Few)}
            \cup {<< <<"c", <<"array", <<i, f>> >> >>, <<"d", f>> >> : i \in Inner, f \in Few}

(* Five strings in one bucket, and eight in two.                            *)
MCQueried ==
    LET strings(a, b) == <<"array", << <<"string", a>>, <<"string", b>> >> >>
    IN  {<< << <<"a", Text>>, <<"d", strings("s", "u")>> >> >>,
         << << <<"a", Text>>, <<"b", strings("t", "u")>>, <<"c", Null>>, <<"d", Wide>> >> >>}

MCDocuments ==
    {<<f[2]>> : f \in Flat \cup Inner} \cup {<<n>> : n \in Nested}
    \cup {<<i[2], f[2]>> : i \in Inner, f \in Few}
    \cup MCQueried
=============================================================================
