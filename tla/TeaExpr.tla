------------------------------ MODULE TeaExpr ------------------------------
(* What the functions of tea_parse.c that parse an expression emit.  A      *)
(* pattern is a sequence of items: an instruction with its operand; "e", an  *)
(* operand expression; a jump; "here" n, where the last open jump of the      *)
(* pattern but n lands.                                                      *)
EXTENDS Naturals, Sequences

Plain(names) == [i \in DOMAIN names |-> <<names[i], 0>>]

\* and, or, ? :
AndPattern == Plain(<<"e", "JMPFALSE", "POP", "e", "here">>)
OrPattern ==
    Plain(<<"e", "JMPFALSE", "JMP">>) \o <<<<"here", 1>>>> \o Plain(<<"POP", "e", "here">>)
TernaryPattern ==
    Plain(<<"e", "JMPFALSE", "POP", "e", "JMP">>) \o <<<<"here", 1>>>>
        \o Plain(<<"POP", "e", "here">>)

\* a + b, a not in b, -a, a .. b
BinaryPattern == Plain(<<"e", "e", "ADD">>)
NotInPattern == Plain(<<"e", "e", "IN", "NOT">>)
UnaryPattern == Plain(<<"e", "BNOT">>)
RangePattern == Plain(<<"e", "e", "CONSTANT", "RANGE">>)

\* f(a, b), f(a, ...b), f(...a, ...b)
CallPattern == Plain(<<"e", "e", "e">>) \o <<<<"CALL", 2>>>>
SpreadPattern == Plain(<<"e", "e", "e", "SPREAD">>) \o <<<<"CALL", 2>>>>
SpreadTwicePattern == Plain(<<"e", "e", "SPREAD", "e", "SPREAD">>) \o <<<<"CALL", 2>>>>

\* a.b(c), a.new(b), a.b, a.b = c, a.b += c
InvokePattern == Plain(<<"e", "e">>) \o <<<<"INVOKE", 1>>>>
NewPattern == Plain(<<"e", "e">>) \o <<<<"NEW", 1>>>>
AttrPattern == Plain(<<"e", "GETATTR">>)
SetAttrPattern == Plain(<<"e", "e", "SETATTR">>)
AddAttrPattern == Plain(<<"e", "PUSHATTR", "e", "ADD", "SETATTR">>)

\* a[b], a[b] = c, a[b] += c, a[b:]
IndexPattern == Plain(<<"e", "e", "GETIDX">>)
SetIndexPattern == Plain(<<"e", "e", "e", "SETIDX">>)
AddIndexPattern == Plain(<<"e", "e", "PUSHIDX", "e", "ADD", "SETIDX">>)
SlicePattern == Plain(<<"e", "e", "CONSTANT", "CONSTANT", "RANGE", "GETIDX">>)

\* [a, ...b], {k = a}, "{a}"
ListPattern == Plain(<<"LIST", "e", "LISTITEM", "e", "LISTEXTEND">>)
MapPattern == Plain(<<"MAP", "CONSTANT", "e", "MAPFIELD">>)
StringPattern == Plain(<<"LIST", "CONSTANT", "LISTITEM", "e", "LISTITEM",
                         "CONSTANT", "LISTITEM">>) \o <<<<"INVOKE", 0>>>>

\* self.m(a) through super, super.m
SuperPattern == Plain(<<"GETLOCAL", "e", "GETUPVAL">>) \o <<<<"SUPER", 1>>>>
GetSuperPattern == Plain(<<"GETLOCAL", "GETUPVAL", "GETSUPER">>)

LiteralPattern == Plain(<<"KNIL">>)

Patterns == [nil |-> LiteralPattern,
    and |-> AndPattern, or |-> OrPattern, ternary |-> TernaryPattern,
    binary |-> BinaryPattern, notin |-> NotInPattern, unary |-> UnaryPattern,
    range |-> RangePattern, call |-> CallPattern, spread |-> SpreadPattern,
    spreadtwice |-> SpreadTwicePattern, invoke |-> InvokePattern, new |-> NewPattern,
    attr |-> AttrPattern, setattr |-> SetAttrPattern, addattr |-> AddAttrPattern,
    index |-> IndexPattern, setindex |-> SetIndexPattern, addindex |-> AddIndexPattern,
    slice |-> SlicePattern, list |-> ListPattern, map |-> MapPattern,
    string |-> StringPattern, super |-> SuperPattern, getsuper |-> GetSuperPattern]
=============================================================================
