----------------------------- MODULE MC_TeaLoad -----------------------------
(* TeaLoad on functions nested to three levels, with three bits in a byte  *)
(* of a number, and on every short text of some alphabets.                 *)
EXTENDS TeaLoad

Flags(ks, variadic) ==
    (IF \E i \in DOMAIN ks : ks[i].type = BCDUMP_KGC_FUNC THEN 1 ELSE 0) + variadic
Pt(name, uv, bc, ks, lines) ==
    [name |-> name, head |-> <<1, Len(ks)>>, slots |-> (Byte - 2) * Len(bc),
     flags |-> Flags(ks, IF uv = << >> THEN 0 ELSE PROTO_VARARG), uv |-> uv, bc |-> bc, ks |-> ks, lines |-> lines,
     firstline |-> IF lines = << >> THEN 0 ELSE 9, numline |-> IF lines = << >> THEN 0 ELSE 2]

Num(lo, hi) == [type |-> BCDUMP_KGC_NUM, v |-> <<lo, hi>>]
Text(s) == [type |-> BCDUMP_KGC_STR, v |-> s]
Child(pt) == [type |-> BCDUMP_KGC_FUNC, v |-> pt]

\* Halves of numbers around each bit that is treated specially.
Halves == {0, 1, 3, 4, 63, 64, 127, 128, 191, 192, 254, 255}
Leaf == {Pt(<<5>>, << >>, <<7>>, << >>, << >>), Pt(<<6>>, <<2>>, <<7, 8>>, <<Text(<<0>>)>>, <<3>>)}
Inner == {Pt(<<9, 9>>, << >>, <<1>>, ks, << >>) : ks \in
            {<<Child(a), Num(255, 1), Child(b)>> : a, b \in Leaf}}
Roots ==
    {Pt(<<4>>, << >>, <<2, 2, 2>>, ks, <<1, 1>>) : ks \in
        {<<Child(a), Child(b)>> : a \in Inner, b \in Inner \cup Leaf} \cup {<<Text(<<1, 2, 3, 4>>)>>}}
  \cup {Pt(<< >>, << >>, <<1>>, <<Num(v[1], v[2])>>, << >>) :
           v \in (Halves \X {1}) \cup {<<255, 0>>, <<255, 64>>}}

NameLists == {<< >>, <<<<3>>, <<1, 2, 3, 4, 5, 6>>>>}

-----------------------------------------------------------------------------
(* Texts: strings with expressions, comments, numbers, operators, headers  *)

\* What may be behind a block.
JunkChars == {"\"", "1", "."}

TextsOf(S, n) == UNION {[1..k -> S] : k \in 0..n}

NestedString(depth) ==
    FlattenSeq([n \in 1..depth |-> <<IF n % 2 = 1 THEN "\"" ELSE "'", "$", "{">>])
MCTexts ==
    TextsOf({"\"", "'", "$", "{", "}"}, 5)
  \cup TextsOf({"\"", "\\", "1", "\n"}, 5)
  \cup TextsOf({"/", "*", "\n", "a"}, 5)
  \cup {FlattenSeq(t) : t \in TextsOf({<<"/", "*">>, <<"*", "/">>, <<"a">>, <<"\n">>}, 6)}
  \cup {<<"/", c>> \o b : c \in {"/", "*"}, b \in TextsOf({"\n", "\r", "*", "/"}, 4)}
  \cup TextsOf({"1", ".", "_", "g"}, 5)
  \cup TextsOf({"=", "*", ">", "1"}, 4)
  \cup {a \o b : a \in {<<"#", "!">>, <<"ef", "bb", "bf">>, <<"#">>}, b \in TextsOf({"a", "\n", "\r", "ESC"}, 3)}
  \cup {NestedString(4) \o b : b \in TextsOf({"\"", "'", "{", "}", "1"}, 4)}
  \cup {NestedString(5)}
=============================================================================
