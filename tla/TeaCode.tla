------------------------------ MODULE TeaCode ------------------------------
(* The parser writes bytecode while it reads (tea_parse.c); the interpreter *)
(* loop runs it (tea_vm.c).                                                 *)
(*                                                                          *)
(* The stack slot of a local variable is its position among the locals the   *)
(* parser has in scope: no instruction creates it.  So the code is right     *)
(* only if, on every path, the stack holds just these values whenever a      *)
(* statement begins.  First a program is parsed, construct by construct,     *)
(* then one of its functions is run, conditions going either way.           *)
(*                                                                          *)
(* A program the parser refuses is not continued; the action that would read *)
(* the refused token is not enabled.  Constants are not numbered, and        *)
(* offsets and counters are taken to fit their bytes.                        *)
EXTENDS TeaOps, TeaExpr, SequencesExt

Text == INSTANCE SourceFlow

CONSTANTS
    Names,      \* of variables
    Infos,      \* the kinds of functions a program may contain (FuncInfo)
    Weight,     \* how much of a program's bound each form of statement takes
    Consts,     \* places in the table of constants
    Exprs,      \* the expressions that are evaluated as a program of their own
    MaxWeight,  \* the bound of a program
    MaxDepth,   \* how deep functions nest
    MaxCases,   \* cases of a switch
    MaxList     \* elements of a list that is spread

ASSUME BoundsOK ==
    /\ Exprs \subseteq DOMAIN Patterns
    /\ \A form \in DOMAIN Weight : Weight[form] \in Nat \ {0}
    /\ {MaxWeight, MaxDepth, MaxCases, MaxList} \subseteq Nat

VARIABLES
    fs,         \* the functions being parsed, the innermost last
    modvars,    \* ls->vstack: the variables of the module
    protos,     \* the functions that are finished
    left,       \* what is left of the bound
    prog,       \* the function that runs
    pc,
    stack,      \* its values: the statements that pushed them
    open,       \* the slots that open upvalues point to
    here        \* the statement that runs

parsing == <<fs, modvars, protos, left>>
running == <<prog, pc, stack, open, here>>
vars == <<parsing, running>>

-----------------------------------------------------------------------------
\* decl is the statement that declares the variable.
Local(x, d, s, i) == [name |-> x, depth |-> d, decl |-> s, isupval |-> FALSE, init |-> i]

\* text and marks are for the properties: the statements as they are written, and
\* for each that can be seen to run where it begins and what is in scope there.
\* ctl holds the constructs that are not yet read to their end, now is the statement
\* code is emitted for, owners where the code of each begins.
fs_init(info) ==
    [info |-> info, locals |-> <<Local("", 0, 0, TRUE)>>, params |-> 0, depth |-> 0,
     loops |-> <<>>, ctl |-> <<>>, code |-> <<>>, slots |-> 1, uvs |-> <<>>,
     text |-> <<>>, marks |-> {}, now |-> 0, owners |-> <<[from |-> 0, stmt |-> 0]>>]

NoCode == [code |-> <<>>, text |-> <<>>, marks |-> {}, owners |-> <<>>, start |-> <<>>,
           slots |-> 0]

Init ==
    /\ fs = <<fs_init("script")>>
    /\ modvars = <<>>
    /\ protos = {}
    /\ left = MaxWeight
    /\ prog = NoCode /\ pc = 0 /\ stack = <<>> /\ open = {} /\ here = 0

F == Last(fs)
InPlace(s, G) == [s EXCEPT ![Len(s)] = G]

-----------------------------------------------------------------------------
(* Emission.  Each function takes the state of the function being parsed     *)
(* and returns the next.                                                     *)
Cell(o) == [op |-> o, arg |-> 0, captures |-> {}]
Byte(a) == [Cell("byte") EXCEPT !.arg = a]
Bytes(as) == [i \in DOMAIN as |-> Byte(as[i])]
Short(n) == <<n \div 256, n % 256>>

bcemit_byte(G, o) == [G EXCEPT !.code = Append(@, Cell(o))]

Counted(G, o) == [bcemit_byte(G, o) EXCEPT !.slots = @ + Effect[o]]

\* An instruction and its operands.
bcemit(G, o, as) == [Counted(G, o) EXCEPT !.code = @ \o Bytes(as)]
bcemit_op(G, o) == bcemit(G, o, <<>>)
bcemit_arg(G, o, a) == bcemit(G, o, <<a>>)
bcemit_jump(G, o) == bcemit(G, o, <<255, 255>>)
bcemit_ops(G, os) == FoldLeft(bcemit_op, G, os)

\* Where the operand of the jump is that was emitted last.
JumpAt(G) == Len(G.code) - 2

\* The two bytes at ofs say how far it is from behind them to the end of the code.
Filled(code, ofs) ==
    LET jmp == Short(Len(code) - ofs - 2)
    IN  [code EXCEPT ![ofs + 1].arg = jmp[1], ![ofs + 2].arg = jmp[2]]
bcpatch_jump(G, ofs) == [G EXCEPT !.code = Filled(@, ofs)]

bcemit_loop(G, start) ==
    [bcemit_op(G, "LOOP") EXCEPT !.code = @ \o Bytes(Short(Len(@) - start + 2))]

bcemit_return(G) ==
    bcemit_op(IF G.info = "init" THEN bcemit_arg(G, "GETLOCAL", 0) ELSE bcemit_op(G, "KNIL"),
              "RETURN")

\* The distance to the last byte of the call, and its count of arguments.
Patched(code, ofs, nargs) ==
    LET pos == Short(Len(code) - 1 - ofs - 3)
    IN  [code EXCEPT ![ofs + 1].arg = pos[1], ![ofs + 2].arg = pos[2], ![ofs + 3].arg = nargs]
arg_patch(G, ofs, nargs) == [G EXCEPT !.code = Patched(@, ofs, nargs)]

\* An expression in a statement leaves one value; any will do.  What is between is looked
\* at where an expression is a program of its own.
expr(G) == bcemit_op(G, "KNIL")

\* One item of a pattern; jumps and spreads are those of the pattern that are open.
Emit(st, o, a) ==
    [st EXCEPT !.f = bcemit(@, o, [i \in 1..Operands[o] |-> IF i = Operands[o] THEN a ELSE 0])]
Jumping(st) == [st EXCEPT !.jumps = Append(@, JumpAt(st.f))]
Spreading(st) == [st EXCEPT !.spreads = Append(@, Len(st.f.code) - 3)]
Calling(st, nargs) ==
    [st EXCEPT !.f = FoldLeft(LAMBDA H, ofs : arg_patch(H, ofs, nargs), @, st.spreads)]
Landing(st, n) ==
    [st EXCEPT !.f = bcpatch_jump(@, st.jumps[Len(st.jumps) - n]),
               !.jumps = RemoveAt(@, Len(@) - n)]

Item(st, item) ==
    LET o == item[1]
        a == item[2]
    IN  CASE o = "e" -> [st EXCEPT !.f = expr(@)]
          [] o = "here" -> Landing(st, a)
          [] o \in {"JMPFALSE", "JMP"} -> Jumping(Emit(st, o, a))
          [] o = "SPREAD" -> Spreading(Emit(st, o, a))
          [] o \in DOMAIN Calls -> Calling(Emit(st, o, a), a)
          [] OTHER -> Emit(st, o, a)

\* The expression e whose operands are the expression e2.
Fresh(G, e) == [f |-> G, jumps |-> <<>>, spreads |-> <<>>, operand |-> Patterns[e]]
Nested(st, item) ==
    IF item[1] = "e" THEN [st EXCEPT !.f = FoldLeft(Item, Fresh(@, "nil"), st.operand).f]
    ELSE Item(st, item)
NestedExpr(G, e, e2) == FoldLeft(Nested, Fresh(G, e2), Patterns[e]).f

-----------------------------------------------------------------------------
(* Scopes and loops                                                         *)
scope_begin(G) == [G EXCEPT !.depth = @ + 1]

\* Fault: what a function has captured is popped like the rest.
scope_closePops(G, d) ==
    LET gone == SelectSeq(G.locals, LAMBDA l : l.depth >= d)
    IN  bcemit_ops(G, [i \in DOMAIN gone |-> "POP"])

\* Code for the locals from depth d on to leave the stack; they stay in scope.
scope_close(G, d) ==
    LET gone == SelectSeq(G.locals, LAMBDA l : l.depth >= d)
    IN  bcemit_ops(G, [i \in DOMAIN gone |->
            IF gone[Len(gone) + 1 - i].isupval THEN "CLOSEUPVAL" ELSE "POP"])

scope_end(G) ==
    LET kept == SelectSeq(G.locals, LAMBDA l : l.depth < G.depth)
    IN  [scope_close(G, G.depth) EXCEPT
            !.locals = kept, !.slots = @ - (Len(G.locals) - Len(kept)), !.depth = @ - 1]

loop_begin(G) ==
    [G EXCEPT !.loops = Append(@, [start |-> Len(G.code), body |-> 0, end |-> -1,
                                   depth |-> G.depth])]
Loop(G) == Last(G.loops)
WithField(loops, f, v) == [loops EXCEPT ![Len(loops)][f] = v]
LoopField(G, f, v) == [G EXCEPT !.loops = WithField(@, f, v)]
BodyHere(G) == LoopField(G, "body", Len(G.code))

\* What a byte of the code is as an opcode.
AsOp(cell) == IF cell.op # "byte" THEN cell.op ELSE OpName[cell.arg + 1]

\* Where loop_end finds the instruction of a break, stepping through the body by the
\* table of operand counts.
BreaksFrom(code, body) ==
    LET found[i \in 0..Len(code) + 4] ==
            IF i >= Len(code) THEN {}
            ELSE LET o == AsOp(code[i + 1])
                 IN  IF o = "END" THEN {i} \cup found[i + 3] ELSE found[i + 1 + ArgCount[o]]
    IN  found[body]

\* The end of the loop with the breaks at these places.
PatchBreaks(H, breaks) ==
    LET n == Len(H.code)
    IN  [H EXCEPT !.loops = Front(@),
            !.code = [i \in DOMAIN @ |->
                CASE i - 1 \in breaks -> Cell("JMP")
                  [] i - 2 \in breaks -> Byte(Short(n - (i - 1) - 2)[1])
                  [] i - 3 \in breaks -> Byte(Short(n - (i - 2) - 2)[2])
                  [] OTHER -> @[i]]]
OutOfLoop(G) ==
    IF Loop(G).end = -1 THEN G ELSE bcemit_op(bcpatch_jump(G, Loop(G).end), "POP")

loop_end(G) ==
    LET H == OutOfLoop(G) IN PatchBreaks(H, BreaksFrom(H.code, Loop(G).body))

-----------------------------------------------------------------------------
(* Variables                                                                *)
var_lookup_local(G, x) ==
    LET is == {i \in DOMAIN G.locals : G.locals[i].name = x}
    IN  IF is = {} \/ ~G.locals[Max(is)].init THEN 0 ELSE Max(is)

\* Only the first variable of that name counts, while it is being declared not at depth 0.
var_lookup_var(x, d) ==
    LET is == {i \in DOMAIN modvars : modvars[i].name = x}
    IN  IF is = {} \/ (d = 0 /\ ~modvars[Min(is)].init) THEN 0 ELSE Min(is)

var_add_local(G, x) == [G EXCEPT !.locals = Append(@, Local(x, G.depth, G.now, FALSE))]
Marked(locals) == [locals EXCEPT ![Len(locals)].init = TRUE]
var_mark(G) == [G EXCEPT !.locals = Marked(@)]
AddMarked(G, x) == var_mark(var_add_local(G, x))
\* An instruction for the local that was added last.
OnLast(G, o) == bcemit_arg(G, o, Len(G.locals) - 1)

\* Names that are declared together, and the parameters of a function.
Lists == {<<x>> : x \in Names} \cup (Names \X Names)
Optional == {<<>>} \cup {<<x>> : x \in Names}

\* A variable that is not yet declared in this scope.
Free(G, x) ==
    IF G.depth = 0 THEN var_lookup_var(x, 0) = 0
    ELSE ~\E i \in {var_lookup_local(G, x)} \ {0} : G.locals[i].depth = G.depth

\* The code that gives the variable of the module declared last its value.
DefineModuleVar(G, n) == bcemit_byte(bcemit_arg(G, "SETMODULE", n - 1), "POP")

\* The innermost function from which x is seen as a local, 0 when there is none.
Home(s, x) ==
    LET ks == {k \in DOMAIN s : var_lookup_local(s[k], x) # 0} IN IF ks = {} THEN 0 ELSE Max(ks)

Resolves(s, x) == Home(s, x) # 0 \/ var_lookup_var(x, Last(s).depth) # 0

\* The upvalues through which the innermost function reaches a local of function k.
Capture(s, k, x) ==
    LET i == var_lookup_local(s[k], x)
        Added(uvs, u) == IF u \in Range(uvs) THEN uvs ELSE Append(uvs, u)
        chain[j \in k + 1..Len(s)] ==
            LET u == [islocal |-> j = k + 1,
                      index |-> IF j = k + 1 THEN i - 1 ELSE chain[j - 1].index]
                uvs == Added(s[j].uvs, u)
            IN  [uvs |-> uvs, index |-> (CHOOSE n \in DOMAIN uvs : uvs[n] = u) - 1]
    IN  [f |-> [j \in DOMAIN s |->
                    CASE j = k -> [s[j] EXCEPT !.locals[i].isupval = TRUE]
                      [] j > k -> [s[j] EXCEPT !.uvs = chain[j].uvs]
                      [] OTHER -> s[j]],
         index |-> chain[Len(s)].index]

Get == [local |-> "GETLOCAL", upvalue |-> "GETUPVAL", module |-> "GETMODULE"]
Set == [local |-> "SETLOCAL", upvalue |-> "SETUPVAL", module |-> "SETMODULE"]

\* The functions s after the innermost has emitted an access, Get or Set, to x.
Named(s, access, x) ==
    LET k == Home(s, x)
        G == Last(s)
    IN  CASE k = Len(s) ->
                InPlace(s, bcemit_arg(G, access.local, var_lookup_local(G, x) - 1))
          [] k \in 1..Len(s) - 1 ->
                LET c == Capture(s, k, x)
                IN  InPlace(c.f, bcemit_arg(Last(c.f), access.upvalue, c.index))
          [] OTHER ->
                InPlace(s, bcemit_arg(G, access.module, var_lookup_var(x, G.depth) - 1))

-----------------------------------------------------------------------------
(* Statements that are read in one go                                       *)
Block == fs # <<>> /\ (F.ctl # <<>> => Last(F.ctl).kind \notin {"class", "subclass"})
Ctl == Last(F.ctl)
In(kind) == fs # <<>> /\ F.ctl # <<>> /\ Ctl.kind = kind

Mark(G) ==
    [G EXCEPT !.marks = @ \cup {[pc |-> Len(G.code), stmt |-> G.now,
                                 scope |-> [i \in DOMAIN G.locals |-> G.locals[i].decl]]}]

\* Code is for statement n from now on.
For(G, n) == [G EXCEPT !.now = n, !.owners = Append(@, [from |-> Len(G.code), stmt |-> n])]

\* The next statement of the text.
Read(kind, blocks) ==
    [For(F, Len(F.text) + 1) EXCEPT
        !.text = Append(@, [kind |-> kind, blocks |-> blocks,
                            up |-> IF F.ctl = <<>> THEN 0 ELSE Ctl.stmt,
                            block |-> IF F.ctl = <<>> THEN 1 ELSE Ctl.block])]
Simple == Mark(Read("simple", 0))

\* A construct whose end is yet to be read; jmp is a jump to be patched then.
Enter(G, kind, jmp) ==
    [G EXCEPT !.ctl = Append(@, [kind |-> kind, stmt |-> G.now, block |-> 1, jmp |-> jmp,
                                 ends |-> <<>>, var |-> -1])]
Leave(G) == [G EXCEPT !.ctl = Front(@)]
Resumed == For(F, Ctl.stmt)

Starts(form, s) ==
    /\ Block /\ form \in DOMAIN Weight /\ left >= Weight[form]
    /\ fs' = s /\ left' = left - Weight[form]
    /\ UNCHANGED <<protos, running>>
Becomes(form, G) == Starts(form, InPlace(fs, G)) /\ UNCHANGED modvars
Ends(G) == fs' = InPlace(fs, G) /\ UNCHANGED <<modvars, protos, left, running>>

\* The n-th variable of a statement gets the value on the top of the stack.
DefineNth(G, x, n) ==
    IF G.depth = 0 THEN DefineModuleVar(G, Len(modvars) + n) ELSE AddMarked(G, x)
Define(G, x) == DefineNth(G, x, 1)
Declares(xs, init) ==
    /\ IsInjective(xs) /\ \A i \in DOMAIN xs : Free(F, xs[i])
    /\ modvars' = IF F.depth # 0 THEN modvars
                  ELSE modvars \o [i \in DOMAIN xs |-> [name |-> xs[i], init |-> init]]

parse_expr_stmt == Becomes("expr", bcemit_op(expr(Simple), "POP"))

\* x on its own, or x = nil.
parse_named ==
    /\ Block
    /\ \E x \in Names, access \in {Get, Set} :
        LET G == IF access = Set THEN expr(Simple) ELSE Simple
            s == Named(InPlace(fs, G), access, x)
        IN  /\ Resolves(fs, x)
            /\ Starts("name", InPlace(s, bcemit_op(Last(s), "POP")))
    /\ UNCHANGED modvars

parse_multiple_assign ==
    /\ Block
    /\ \E x, y \in Names :
        LET G == bcemit_arg(expr(Simple), "UNPACK", 2)
            s == Named(InPlace(fs, G), Set, y)
            t == Named(InPlace(s, bcemit_op(Last(s), "POP")), Set, x)
        IN  /\ Resolves(fs, x) /\ Resolves(fs, y)
            /\ Starts("assign", InPlace(t, bcemit_op(Last(t), "POP")))
    /\ UNCHANGED modvars

parse_var ==
    /\ Block
    /\ \E x \in Names :
        /\ Declares(<<x>>, TRUE)
        /\ Starts("var", InPlace(fs, Define(expr(Simple), x)))

\* Several variables, initialised by nil, from a list, or from a list with a rest.  Those
\* of the module are declared from the last to the first.
parse_vars ==
    /\ Block
    /\ \E x, y \in Names, from \in {"nil", "UNPACK", "UNPACKREST"} :
        LET V == expr(Simple)
            G == CASE from = "nil" -> bcemit_op(V, "KNIL")
                   [] from = "UNPACK" -> bcemit_arg(V, "UNPACK", 2)
                   [] from = "UNPACKREST" -> bcemit(V, "UNPACKREST", <<2, 0>>)
        IN  /\ Declares(IF F.depth = 0 THEN <<y, x>> ELSE <<x, y>>, TRUE)
            /\ Starts("vars", InPlace(fs, DefineNth(DefineNth(G, x, 1), y, 2)))

\* from m import x, y; the names are the constants from k + 1 on.
parse_from ==
    /\ Block
    /\ \E xs \in Lists, k \in Consts :
        LET G == bcemit_op(bcemit_arg(Simple, "IMPORTNAME", k), "POP")
            Imported(H, i) == DefineNth(bcemit_arg(H, "IMPORTVAR", k + i), xs[i], i)
        IN  /\ Declares(xs, TRUE)
            /\ Starts("from", InPlace(fs,
                    bcemit_op(FoldLeft(Imported, G, [i \in DOMAIN xs |-> i]), "IMPORTEND")))

parse_import_name ==
    /\ Block
    /\ \E x \in Names :
        LET G == bcemit_ops(bcemit_arg(Simple, "IMPORTNAME", 0), <<"POP", "IMPORTALIAS">>)
        IN  /\ Declares(<<x>>, TRUE)
            /\ Starts("import", InPlace(fs, bcemit_op(Define(G, x), "IMPORTEND")))

parse_break ==
    /\ Block /\ F.loops # <<>>
    /\ LET G == Mark(Read("break", 0))
       IN  Becomes("break", bcemit_jump(scope_close(G, Loop(G).depth + 1), "END"))

\* Fault: the locals of the body stay on the stack.
parse_continueKeeps ==
    /\ Block /\ F.loops # <<>>
    /\ LET G == Mark(Read("continue", 0)) IN Becomes("continue", bcemit_loop(G, Loop(G).start))

parse_continue ==
    /\ Block /\ F.loops # <<>>
    /\ LET G == Mark(Read("continue", 0))
       IN  Becomes("continue", bcemit_loop(scope_close(G, Loop(G).depth + 1), Loop(G).start))

parse_return(value) ==
    /\ Block /\ F.info # "script" /\ (value => F.info # "init")
    /\ LET G == Mark(Read("return", 0))
       IN  Becomes("return", IF value THEN bcemit_op(expr(G), "RETURN") ELSE bcemit_return(G))

-----------------------------------------------------------------------------
(* Constructs: an action where each block begins and where it ends.         *)
ParseCode == Becomes("block", scope_begin(Enter(Read("block", 1), "block", 0)))
EndCode == In("block") /\ Ends(Leave(scope_end(Resumed)))

parse_if ==
    LET G == bcemit_jump(expr(Read("if", 2)), "JMPFALSE")
    IN  Becomes("if", scope_begin(Enter(bcemit_op(G, "POP"), "if", JumpAt(G))))

\* The first block is left by a jump, and the other path arrives with the condition.
OtherPath(G) == bcemit_op(bcpatch_jump(G, Ctl.jmp), "POP")

\* Fault: the block runs into the next.
ExitNowhere(G) == scope_end(G)

Exit(G) ==
    LET H == bcemit_jump(scope_end(G), "JMP")
    IN  [H EXCEPT !.ctl[Len(H.ctl)].ends = Append(@, JumpAt(H))]
PatchEnds(G) == FoldLeft(bcpatch_jump, G, Last(G.ctl).ends)
NextBlock(G) == [scope_begin(G) EXCEPT !.ctl[Len(G.ctl)].block = @ + 1]

ParseElse ==
    /\ In("if") /\ Ctl.block = 1
    /\ Ends(NextBlock(OtherPath(Exit(Resumed))))
EndIf ==
    /\ In("if")
    /\ Ends(Leave(PatchEnds(IF Ctl.block = 1 THEN OtherPath(Exit(Resumed))
                            ELSE scope_end(Resumed))))

\* The loop is left by the jump emitted last.
Leaves(G) == bcemit_op(LoopField(G, "end", JumpAt(G)), "POP")
Condition(G) == Leaves(bcemit_jump(expr(G), "JMPFALSE"))
Forever(G) == Leaves(bcemit_jump(bcemit_byte(G, "KTRUE"), "JMPFALSE"))

\* while, and while without a condition.
parse_while(kind) ==
    LET L == loop_begin(Read(kind, 1))
        C == IF kind = "forever" THEN Forever(L) ELSE Condition(L)
    IN  Becomes(kind, scope_begin(Enter(BodyHere(C), "while", 0)))
EndWhile ==
    /\ In("while")
    /\ LET G == scope_end(Resumed)
       IN  Ends(Leave(loop_end(bcemit_loop(G, Loop(G).start))))

parse_do == Becomes("do", scope_begin(Enter(BodyHere(loop_begin(Read("do", 1))), "do", 0)))
EndDo ==
    /\ In("do")
    /\ LET G == Condition(scope_end(Resumed))
       IN  Ends(Leave(loop_end(bcemit_loop(G, Loop(G).start))))

\* The loop variable is copied into the scope of the body and back.
\* B has emitted the jump over the third part, where the body will continue.
ForUpdate(B) ==
    LET U == bcemit_loop(bcemit_op(expr(B), "POP"), Loop(B).start)
    IN  BodyHere(bcpatch_jump(LoopField(U, "start", Len(B.code)), JumpAt(B)))
ForCopy(E, x) ==
    [AddMarked(OnLast(scope_begin(E), "GETLOCAL"), x)
        EXCEPT !.ctl[Len(E.ctl)].var = Len(E.locals) - 1]
ForLoop(declares, x) ==
    LET S == expr(scope_begin(Read("for", 1)))
        I == IF declares THEN AddMarked(S, x) ELSE bcemit_op(S, "POP")
        E == Enter(ForUpdate(bcemit_jump(Condition(loop_begin(I)), "JMP")), "for", 0)
    IN  Becomes("for", scope_begin(IF declares THEN ForCopy(E, x) ELSE E))
parse_for == Block /\ \E declares \in BOOLEAN, x \in Names : ForLoop(declares, x)
EndFor ==
    /\ In("for")
    /\ LET G == scope_end(Resumed)
           V == bcemit_arg(OnLast(G, "GETLOCAL"), "SETLOCAL", Ctl.var)
           H == IF Ctl.var = -1 THEN G ELSE scope_end(bcemit_op(V, "POP"))
       IN  Ends(Leave(scope_end(loop_end(bcemit_loop(H, Loop(H).start)))))

\* The sequence and the iterator are locals without a name.
SeqAndIter(G) == AddMarked(OnLast(AddMarked(expr(G), "seq "), "GETITER"), "iter ")
ForInBody(G, xs) ==
    LET U == IF Len(xs) = 1 THEN G ELSE bcemit_arg(G, "UNPACK", Len(xs))
    IN  scope_begin(Enter(BodyHere(FoldLeft(AddMarked, U, xs)), "forin", JumpAt(G)))
parse_for_in ==
    /\ Block
    /\ \E xs \in {l \in Lists : IsInjective(l)} :
        LET L == loop_begin(SeqAndIter(scope_begin(Read("forin", 1))))
        IN  Becomes("forin",
                ForInBody(scope_begin(bcemit_jump(OnLast(L, "FORITER"), "JMPNIL")), xs))
EndForIn ==
    /\ In("forin")
    /\ LET G == scope_end(scope_end(Resumed))
           H == bcpatch_jump(bcemit_loop(G, Loop(G).start), Ctl.jmp)
       IN  Ends(Leave(scope_end(loop_end(H))))

\* A case compares with one value, or with several.
Case(G, values) ==
    LET E == FoldLeft(LAMBDA H, i : expr(H), G, [i \in 1..values |-> i])
    IN  bcemit_jump(IF values = 1 THEN E ELSE bcemit_arg(E, "MULTICASE", values - 1), "JMPCMP")
AtCase(G) == scope_begin([G EXCEPT !.ctl[Len(G.ctl)].jmp = JumpAt(G)])
parse_switch(values) ==
    Becomes("switch", AtCase(Case(Enter(expr(Read("switch", 1)), "switch", 0), values)))
InCase == In("switch") /\ Ctl.jmp # -1
NextCase(values) ==
    /\ InCase /\ Ctl.block < MaxCases
    /\ LET G == Case(bcpatch_jump(Exit(Resumed), Ctl.jmp), values)
       IN  Ends(AtCase([G EXCEPT !.ctl[Len(G.ctl)].block = @ + 1, !.text[G.now].blocks = @ + 1]))

\* The value is popped where no case was taken; then comes the default, if any.
NoCase == [OtherPath(Exit(Resumed)) EXCEPT !.text[Ctl.stmt].blocks = @ + 1]
ParseDefault ==
    /\ InCase
    /\ Ends([NextBlock(NoCase) EXCEPT !.ctl[Len(F.ctl)].jmp = -1])
EndSwitch ==
    /\ In("switch")
    /\ Ends(Leave(PatchEnds(IF Ctl.jmp = -1 THEN scope_end(Resumed) ELSE NoCase)))

-----------------------------------------------------------------------------
(* Functions and classes                                                    *)
Body(info, xs) ==
    LET G == fs_init(info)
    IN  IF info = "getter" THEN G
        ELSE [FoldLeft(AddMarked, scope_begin(G), xs) EXCEPT !.params = Len(xs)]

\* A function as a statement, an initialiser or an expression.  The variable of the first
\* is known in the body, that of the second is not.
FunctionStarts(form, x, xs) ==
    /\ IF form = "anonymous" THEN UNCHANGED modvars ELSE Declares(<<x>>, form = "function")
    /\ LET G == Enter(Simple, form, 0)
           H == IF form = "anonymous" \/ G.depth = 0 THEN G
                ELSE IF form = "function" THEN AddMarked(G, x) ELSE var_add_local(G, x)
       IN  Starts(form, Append(InPlace(fs, H), Body("normal", xs)))
parse_function ==
    /\ Block /\ Len(fs) <= MaxDepth
    /\ \E form \in {"function", "var", "anonymous"}, x \in Names, xs \in Optional :
        FunctionStarts(form, x, xs)

\* With a superclass, it is a local of a scope around the methods.
ClassStarts(x, inherits) ==
    /\ Declares(<<x>>, TRUE)
    /\ LET G == Define(bcemit_arg(Simple, "CLASS", 0), x)
           Class(H) == IF F.depth = 0 THEN bcemit_arg(H, "GETMODULE", Len(modvars))
                       ELSE bcemit_arg(H, "GETLOCAL", var_lookup_local(H, x) - 1)
           S == AddMarked(scope_begin(expr(G)), "super")
           H == IF inherits THEN Enter(bcemit_op(Class(S), "INHERIT"), "subclass", 0)
                ELSE Enter(G, "class", 0)
       IN  Starts("class", InPlace(fs, Class(H)))
parse_class == Block /\ \E x \in Names, inherits \in BOOLEAN : ClassStarts(x, inherits)
EndClass ==
    \/ In("class") /\ Ends(Leave(bcemit_op(Resumed, "POP")))
    \/ In("subclass") /\ Ends(Leave(scope_end(bcemit_op(Resumed, "POP"))))

parse_method ==
    /\ In("class") \/ In("subclass")
    /\ left >= Weight["class"] /\ Len(fs) <= MaxDepth
    /\ \E info \in Infos, xs \in Optional : fs' = Append(InPlace(fs, Enter(Resumed, "method", 0)), Body(info, xs))
    /\ left' = left - Weight["class"]
    /\ UNCHANGED <<modvars, protos, running>>

fs_finish(G) ==
    [code |-> G.code, text |-> G.text, marks |-> G.marks, owners |-> G.owners, slots |-> G.slots,
     start |-> [i \in 1..1 + G.params |-> 0]]

\* The end of a function is a point of its text of its own.  A getter gets no return.
Finished(G) ==
    fs_finish(IF G.info = "getter" THEN G ELSE bcemit_return(Mark(For(G, 0))))

bcemit_closure(G, uvs) ==
    LET H == bcemit_arg(G, "CLOSURE", 0)
    IN  [H EXCEPT !.code[Len(H.code) - 1].captures =
            {uvs[i].index : i \in {n \in DOMAIN uvs : uvs[n].islocal}}]

\* The end of a function: its closure is what the enclosing function goes on with.
parse_body ==
    /\ Len(fs) > 1 /\ F.ctl = <<>>
    /\ LET P == fs[Len(fs) - 1]
           form == Last(P.ctl).kind
           C == bcemit_closure(For(P, Last(P.ctl).stmt), F.uvs)
           D == CASE form = "anonymous" -> bcemit_op(C, "POP")
                  [] form = "method" -> bcemit(C, "METHOD", <<0, 0>>)
                  [] OTHER -> IF C.depth = 0 THEN DefineModuleVar(C, Len(modvars))
                              ELSE var_mark(C)
       IN  /\ fs' = InPlace(Front(fs), Leave(D))
           /\ modvars' = IF form = "var" /\ C.depth = 0
                         THEN [modvars EXCEPT ![Len(modvars)].init = TRUE] ELSE modvars
    /\ protos' = protos \cup {Finished(F)}
    /\ UNCHANGED <<left, running>>

-----------------------------------------------------------------------------
(* Running.  One function of the program runs, called with its arguments.    *)
StmtAt(p, n, otherwise) ==
    IF \E m \in p.marks : m.pc = n THEN (CHOOSE m \in p.marks : m.pc = n).stmt ELSE otherwise

Start(p) ==
    /\ fs' = <<>> /\ modvars' = <<>> /\ protos' = {} /\ left' = 0
    /\ prog' = p /\ pc' = 0 /\ stack' = p.start /\ open' = {}
    /\ here' = StmtAt(p, 0, 0)

\* The whole text was read.
parse_chunk ==
    /\ Len(fs) = 1 /\ F.ctl = <<>>
    /\ \E p \in protos \cup {Finished(F)} : Start(p)

parse_eval ==
    /\ fs = <<fs_init("script")>>
    /\ \E e, e2 \in Exprs : LET G == NestedExpr(Mark(Read("return", 0)), e, e2)
       IN  Start(fs_finish(bcemit_op(G, "RETURN")))

Running == prog.code # <<>>
Instr == prog.code[pc + 1]
Operand(i) == prog.code[pc + 1 + i].arg
Offset == Operand(1) * 256 + Operand(2)
Width == 1 + Operands[Instr.op]

Fetches(ops) == Running /\ pc < Len(prog.code) /\ Instr.op \in ops
Fetch(o) == Fetches({o})

Goto(n) == pc' = n /\ here' = StmtAt(prog, n, here) /\ UNCHANGED parsing
Dropped(n) == SubSeq(stack, 1, Len(stack) - n)
\* The statement the instruction belongs to.
By == LET before == {i \in DOMAIN prog.owners : prog.owners[i].from <= pc}
      IN  prog.owners[Max(before)].stmt
Pushed(n) == [i \in 1..n |-> By]

Advance(s) == Goto(pc + Width) /\ stack' = s /\ UNCHANGED prog
Step(s) == Advance(s) /\ UNCHANGED open

Compute ==
    /\ Fetches(Straight)
    /\ Step(Dropped(Signature[Instr.op].pops) \o Pushed(Signature[Instr.op].pushes))

Pop == Fetch("POP") /\ Step(Dropped(1))

\* All upvalues that point to the slot on top, or above, are closed.
CloseUpval ==
    /\ Fetch("CLOSEUPVAL")
    /\ open' = {u \in open : u < Len(stack) - 1}
    /\ Advance(Dropped(1))

Closure ==
    /\ Fetch("CLOSURE")
    /\ open' = open \cup Instr.captures
    /\ Advance(stack \o Pushed(1))

Call ==
    /\ Fetches(DOMAIN Calls)
    /\ Step(Dropped(Operand(Calls[Instr.op].operand) + Calls[Instr.op].pops) \o Pushed(1))

\* The elements of a list replace it, and the call that follows counts them.
Spread ==
    /\ Fetch("SPREAD")
    /\ \E n \in 0..MaxList :
        /\ stack' = Dropped(1) \o Pushed(n)
        /\ prog' = [prog EXCEPT !.code[pc + Width + Offset + 1].arg = Operand(3) + n - 1]
    /\ Goto(pc + Width) /\ UNCHANGED open

Unpack == Fetches({"UNPACK", "UNPACKREST"}) /\ Step(Dropped(1) \o Pushed(Operand(1)))

MultiCase == Fetch("MULTICASE") /\ Step(Dropped(Operand(1) + 1) \o Pushed(1))

JumpTo(n, s) == Goto(n) /\ stack' = s /\ UNCHANGED <<prog, open>>
Taken == pc + Width + Offset

Jmp == Fetch("JMP") /\ JumpTo(Taken, stack)
LoopBack == Fetch("LOOP") /\ JumpTo(pc + Width - Offset, stack)

\* Other conditions than the one of a loop without any go either way.
JmpFalse ==
    /\ Fetch("JMPFALSE")
    /\ Step(stack) \/ (prog.code[pc].op # "KTRUE" /\ JumpTo(Taken, stack))
JmpNil == Fetch("JMPNIL") /\ (Step(stack) \/ JumpTo(Taken, Dropped(1)))

\* The compared value goes, and the other as well where they are equal.
JmpCmp == Fetch("JMPCMP") /\ (Step(Dropped(2)) \/ JumpTo(Taken, Dropped(1)))

Return ==
    /\ Fetch("RETURN")
    /\ prog' = NoCode /\ pc' = 0 /\ stack' = <<>> /\ open' = {} /\ here' = 0
    /\ UNCHANGED parsing

-----------------------------------------------------------------------------
ParseStatement ==
    \/ parse_expr_stmt \/ parse_named \/ parse_multiple_assign \/ parse_var \/ parse_vars
    \/ parse_from \/ parse_import_name \/ parse_break \/ parse_continue
    \/ \E value \in BOOLEAN : parse_return(value)
    \/ ParseCode \/ parse_if \/ parse_do \/ parse_for \/ parse_for_in
    \/ \E kind \in {"forever", "while"} : parse_while(kind)
    \/ \E values \in 1..2 : parse_switch(values)
    \/ parse_function \/ parse_class \/ parse_method

ParseEnd ==
    \/ EndCode \/ ParseElse \/ EndIf \/ EndWhile \/ EndDo \/ EndFor \/ EndForIn
    \/ \E values \in 1..2 : NextCase(values)
    \/ ParseDefault \/ EndSwitch \/ EndClass \/ parse_body \/ parse_chunk

Execute ==
    \/ Compute \/ Pop \/ CloseUpval \/ Closure \/ Call \/ Spread \/ Unpack \/ MultiCase
    \/ Jmp \/ LoopBack \/ JmpFalse \/ JmpNil \/ JmpCmp \/ Return

Next == ParseStatement \/ ParseEnd \/ parse_eval \/ Execute

Spec == Init /\ [][Next]_vars

-----------------------------------------------------------------------------
TypeOK ==
    /\ \A i \in DOMAIN fs :
        /\ fs[i].depth \in Nat
        /\ \A k \in DOMAIN fs[i].locals : fs[i].locals[k].depth <= fs[i].depth
        /\ fs[i].locals # <<>>
    /\ \A n \in DOMAIN modvars : modvars[n].name \in Names
    /\ left \in 0..MaxWeight
    /\ pc \in 0..Len(prog.code)
    /\ \A n \in DOMAIN stack : stack[n] \in 0..Len(prog.text)
    /\ open \subseteq Nat
    /\ here \in 0..Len(prog.text)

\* Wherever a statement begins, whichever way the program got there, the stack holds
\* the values of the variables in scope, each pushed by its own declaration, and nothing
\* else; and a return finds one value more than that.
StackIsScope ==
    Running => /\ \A m \in prog.marks : m.pc = pc => stack = m.scope
               /\ (pc < Len(prog.code) /\ Instr.op = "RETURN") =>
                    \E m \in prog.marks :
                        m.stmt = here /\ stack # <<>> /\ Front(stack) = m.scope

\* The statements run in an order that the text of the function allows.
FlowAsWritten ==
    [][(prog'.code # <<>> /\ \E m \in prog'.marks : m.pc = pc')
         => here' \in Text!Next(prog'.text, IF Running THEN here ELSE 0)]_vars

\* An upvalue that is open points to a value on the stack: what leaves the stack is closed.
OpenOnStack == Running => \A u \in open : u < Len(stack)

\* What is fetched is an instruction, and never the place of a break that was not filled in.
FetchesCode ==
    Running => pc < Len(prog.code) /\ Instr.op \in Ops \ {"END"}

\* Parser and machine stay well formed to the end of the program.
CodeSound == TypeOK /\ OpenOnStack /\ FetchesCode

\* The stack stays within what the function asked for when it was called.
StackWithinSlots == Running => Len(stack) <= Len(prog.start) + prog.slots
=============================================================================
