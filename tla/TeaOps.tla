------------------------------- MODULE TeaOps -------------------------------
(* The instructions (tea_bc.h): what the code generator believes of them,   *)
(* and what the interpreter loop (tea_vm.c) does to the stack.              *)
EXTENDS Integers, Sequences

\* name, change of the stack depth, bytes of operands; the position is the opcode
Instructions == <<
    <<"GETLOCAL", 1, 1>>, <<"SETLOCAL", 0, 1>>, <<"CONSTANT", 1, 1>>, <<"POP", -1, 0>>,
    <<"KNIL", 1, 0>>, <<"KTRUE", 1, 0>>, <<"KFALSE", 1, 0>>,
    <<"CALL", 0, 1>>, <<"INVOKE", 0, 2>>, <<"NEW", 0, 1>>, <<"SUPER", 0, 2>>, <<"RETURN", 0, 0>>,
    <<"ADD", -1, 0>>, <<"SUB", -1, 0>>, <<"MUL", -1, 0>>, <<"DIV", -1, 0>>, <<"NEG", 0, 0>>,
    <<"ISEQ", -1, 0>>, <<"ISLT", -1, 0>>, <<"ISLE", -1, 0>>, <<"ISGT", -1, 0>>, <<"ISGE", -1, 0>>,
    <<"JMP", 0, 2>>, <<"JMPFALSE", -1, 2>>, <<"JMPNIL", -1, 2>>, <<"LOOP", 0, 2>>,
    <<"LIST", 1, 0>>, <<"MAP", 1, 0>>, <<"LISTITEM", -1, 0>>, <<"MAPFIELD", -2, 0>>,
    <<"RANGE", -2, 0>>, <<"UNPACK", -1, 1>>, <<"UNPACKREST", -1, 2>>,
    <<"LISTEXTEND", -1, 0>>, <<"SPREAD", 0, 3>>,
    <<"GETATTR", 1, 1>>, <<"PUSHATTR", 0, 1>>, <<"SETATTR", 0, 1>>,
    <<"GETIDX", -1, 0>>, <<"PUSHIDX", 1, 0>>, <<"SETIDX", 0, 0>>, <<"GETSUPER", 1, 1>>,
    <<"GETGLOBAL", 1, 1>>, <<"GETMODULE", 1, 1>>, <<"SETMODULE", 0, 1>>, <<"DEFMODULE", 0, 2>>,
    <<"CLOSURE", 1, 1>>, <<"CLOSEUPVAL", -1, 0>>, <<"GETUPVAL", 1, 1>>, <<"SETUPVAL", 0, 1>>,
    <<"MOD", -1, 0>>, <<"POW", -1, 0>>, <<"NOT", 0, 0>>, <<"IS", -1, 0>>, <<"IN", -1, 0>>,
    <<"BAND", -1, 0>>, <<"BOR", -1, 0>>, <<"BNOT", 1, 0>>, <<"BXOR", -1, 0>>,
    <<"LSHIFT", -1, 0>>, <<"RSHIFT", -1, 0>>,
    <<"GETITER", 1, 1>>, <<"FORITER", 1, 1>>,
    <<"CLASS", 1, 1>>, <<"METHOD", -1, 2>>, <<"INHERIT", 0, 0>>, <<"ISTYPE", 0, 0>>,
    <<"IMPORTNAME", 0, 1>>, <<"IMPORTSTR", 0, 1>>, <<"IMPORTFMT", 0, 0>>,
    <<"IMPORTVAR", 1, 2>>, <<"IMPORTALIAS", 1, 0>>, <<"IMPORTEND", 1, 0>>,
    <<"DEFOPT", 0, 2>>, <<"MULTICASE", 0, 1>>, <<"JMPCMP", 0, 2>>, <<"END", 0, 0>> >>

OpName == [n \in DOMAIN Instructions |-> Instructions[n][1]]
Ops == {OpName[n] : n \in DOMAIN OpName}
Row == [o \in Ops |-> CHOOSE n \in DOMAIN OpName : OpName[n] = o]
Effect == [o \in Ops |-> Instructions[Row[o]][2]]
ArgCount == [o \in Ops |-> Instructions[Row[o]][3]]

\* The bytes the parser does emit and the interpreter reads.
Operands == [o \in Ops |-> IF o \in {"IMPORTVAR", "DEFMODULE"} THEN 1 ELSE ArgCount[o]]

-----------------------------------------------------------------------------
\* What the instructions without a jump take off the stack and put there.
Signatures == {
    [pops |-> 0, pushes |-> 0, ops |-> {"SETLOCAL", "SETUPVAL", "SETMODULE", "DEFMODULE",
                                        "ISTYPE", "IMPORTEND"}],
    [pops |-> 0, pushes |-> 1, ops |-> {"GETLOCAL", "GETUPVAL", "GETMODULE", "GETGLOBAL",
        "CONSTANT", "KNIL", "KTRUE", "KFALSE", "LIST", "MAP", "PUSHATTR", "PUSHIDX", "CLASS",
        "GETITER", "FORITER", "IMPORTNAME", "IMPORTSTR", "IMPORTALIAS", "IMPORTVAR"}],
    [pops |-> 1, pushes |-> 0, ops |-> {"LISTITEM", "LISTEXTEND", "METHOD", "INHERIT"}],
    [pops |-> 1, pushes |-> 1, ops |-> {"NEG", "NOT", "BNOT", "GETATTR", "IMPORTFMT"}],
    [pops |-> 2, pushes |-> 0, ops |-> {"MAPFIELD"}],
    [pops |-> 2, pushes |-> 1, ops |-> {"ADD", "SUB", "MUL", "DIV", "MOD", "POW",
        "BAND", "BOR", "BXOR", "LSHIFT", "RSHIFT", "ISEQ", "ISLT", "ISLE", "ISGT", "ISGE",
        "IS", "IN", "SETATTR", "GETIDX", "GETSUPER"}],
    [pops |-> 3, pushes |-> 1, ops |-> {"RANGE", "SETIDX"}] }

Straight == UNION {s.ops : s \in Signatures}
Signature == [o \in Straight |-> CHOOSE s \in Signatures : o \in s.ops]

\* The calls: the operand that counts the arguments, and what is popped beside them.
Calls == [o \in {"CALL", "NEW", "INVOKE", "SUPER"} |->
    [operand |-> ArgCount[o], pops |-> IF o = "SUPER" THEN 2 ELSE 1]]

ASSUME OpsDistinct == \A m, n \in DOMAIN OpName : OpName[m] = OpName[n] => m = n
=============================================================================
