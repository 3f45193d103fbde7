------------------------------ MODULE TeaUpval ------------------------------
(***************************************************************************)
(* Closures and upvalues (tea_func.c).  An open upvalue points to a slot of *)
(* the value stack and is linked in T->open_upvalues, highest slot first;  *)
(* leaving a scope, a function or a protected call closes the upvalues from *)
(* some slot on: each takes its slot's value and points to itself.         *)
(*                                                                         *)
(* Abstractions.  Every closure captures one variable.  A stack address is *)
(* the block the stack was allocated in and a slot.  An upvalue that is    *)
(* neither linked nor used by a closure may be reused (collected).         *)
(***************************************************************************)
EXTENDS Integers, Sequences, SequencesExt, FiniteSets

CONSTANTS
    Upval,      \* addresses of upvalues
    Closure,    \* addresses of closures
    None,       \* closure not in use
    Value,      \* values of variables
    Nil,        \* one of them
    MaxStack,   \* bound: height of the stack
    MaxFrames,  \* bound: nested calls
    GcMoves     \* may a gc method, run by an allocation, move the stack

ASSUME UpvalConstantsOK ==
    /\ None \notin Upval \cup Value
    /\ Closure \cap Int = {}
    /\ Nil \in Value
    /\ MaxStack \in Nat
    /\ MaxFrames \in Nat
    /\ GcMoves \in BOOLEAN

VARIABLES
    stack,     \* T->stack .. T->top - 1
    block,     \* which allocation T->stack is, of two
    bases,     \* ci->base of the frames of functions, innermost last
    open,      \* T->open_upvalues
    location,  \* location[u]: uv->location, block 0 is the upvalue itself
    closed,    \* closed[u]: uv->closed
    captures   \* captures[c]: upvalues[0] of closure c

vars == <<stack, block, bases, open, location, closed, captures>>

Blocks == {1, 2}
Own == [block |-> 0, slot |-> 0]

TypeOK ==
    /\ stack \in Seq(Value)
    /\ block \in Blocks
    /\ bases \in Seq(Nat)
    /\ open \in Seq(Upval)
    /\ location \in [Upval -> [block : Blocks, slot : Nat] \cup {Own}]
    /\ closed \in [Upval -> Value]
    /\ captures \in [Closure -> Upval \cup {None}]

Init ==
    /\ stack = <<>>
    /\ block = 1
    /\ bases = <<1>>
    /\ open = <<>>
    /\ location = [u \in Upval |-> Own]
    /\ closed = [u \in Upval |-> Nil]
    /\ captures = [c \in Closure |-> None]

Base == bases[Len(bases)]
Unused(u) == u \notin Range(open) /\ \A c \in Closure : captures[c] # u
Free(c) == captures[c] = None

-----------------------------------------------------------------------------
(* Finding and closing                                                     *)

\* How many upvalues at the front of the list are above slot i.
Above(i) == Cardinality({k \in DOMAIN open : \A j \in 1..k : location[open[j]].slot > i})

\* tea_func_finduv: does an upvalue exist for slot i, and where would it go?
Found(i) == Above(i) < Len(open) /\ location[open[Above(i) + 1]].slot = i

\* Fault: the upvalue is closed without its value.
CloseEmpty(n) ==
    LET k == Above(n - 1)
    IN  /\ open' = SubSeq(open, k + 1, Len(open))
        /\ location' = [u \in Upval |-> IF u \in Range(SubSeq(open, 1, k)) THEN Own ELSE location[u]]
        /\ closed' = closed

\* tea_func_closeuv from slot n on.
Close(n) ==
    LET k == Above(n - 1)
        closing == Range(SubSeq(open, 1, k))
    IN  /\ open' = SubSeq(open, k + 1, Len(open))
        /\ location' = [u \in Upval |-> IF u \in closing THEN Own ELSE location[u]]
        /\ closed' = [u \in Upval |-> IF u \in closing THEN stack[location[u].slot] ELSE closed[u]]

\* Fault: upvalues keep pointing to the old block.
MoveLeavesUpvalues == block' = 3 - block /\ location' = location

\* stack_resize: the stack moves, and open upvalues with it.
Move ==
    /\ block' = 3 - block
    /\ location' = [u \in Upval |-> IF u \in Range(open)
                                    THEN [location[u] EXCEPT !.block = block'] ELSE location[u]]

\* func_newuv: the collector may look at uv->closed from now on.
NewClosed == Nil

-----------------------------------------------------------------------------
(* Variables                                                               *)

Declare(v) ==
    /\ Len(stack) < MaxStack
    /\ stack' = Append(stack, v)
    /\ UNCHANGED <<block, bases, open, location, closed, captures>>

Assign(i, v) ==
    /\ i >= Base
    /\ stack' = [stack EXCEPT ![i] = v]
    /\ UNCHANGED <<block, bases, open, location, closed, captures>>

\* BC_CLOSURE with a local of the running function: tea_func_newT, finduv.
CaptureLocal(c, i) ==
    /\ Free(c)
    /\ i >= Base
    /\ IF Found(i)
       THEN /\ captures' = [captures EXCEPT ![c] = open[Above(i) + 1]]
            /\ UNCHANGED <<block, open, location, closed>>
       ELSE \E u \in Upval, moves \in {FALSE, GcMoves} :
                /\ Unused(u)
                /\ open' = InsertAt(open, Above(i) + 1, u)
                /\ captures' = [captures EXCEPT ![c] = u]
                /\ closed' = [closed EXCEPT ![u] = NewClosed]
                /\ block' = IF moves THEN 3 - block ELSE block
                /\ location' = [w \in Upval |->
                        IF w = u THEN [block |-> block, slot |-> i]
                        ELSE IF w \in Range(open) THEN [location[w] EXCEPT !.block = block']
                        ELSE location[w]]
    /\ UNCHANGED <<stack, bases>>

\* BC_CLOSURE inside closure d, with a variable d captured itself.
CaptureUpvalue(c, d) ==
    /\ Free(c)
    /\ ~Free(d)
    /\ captures' = [captures EXCEPT ![c] = captures[d]]
    /\ UNCHANGED <<stack, block, bases, open, location, closed>>

\* BC_SETUPVAL: through the location, open or closed.
SetUpvalue(c, v) ==
    /\ ~Free(c)
    /\ LET u == captures[c] IN
         IF location[u] = Own
         THEN closed' = [closed EXCEPT ![u] = v] /\ UNCHANGED stack
         ELSE stack' = [stack EXCEPT ![location[u].slot] = v] /\ UNCHANGED closed
    /\ UNCHANGED <<block, bases, open, location, captures>>

\* A closure becomes unreachable.
Forget(c) ==
    /\ ~Free(c)
    /\ captures' = [captures EXCEPT ![c] = None]
    /\ UNCHANGED <<stack, block, bases, open, location, closed>>

-----------------------------------------------------------------------------
(* Scopes and frames                                                       *)

\* End of a local's scope.  The compiler emits BC_POP for a local that no
\* function captures (Local.isupval is clear) and BC_CLOSEUPVAL otherwise.
EndLocal ==
    /\ Len(stack) >= Base
    /\ \/ UNCHANGED <<open, location, closed>> /\ ~Found(Len(stack))
       \/ Close(Len(stack))
    /\ stack' = SubSeq(stack, 1, Len(stack) - 1)
    /\ UNCHANGED <<block, bases, captures>>

Call(n) ==
    /\ Len(bases) < MaxFrames
    /\ n >= Base
    /\ bases' = Append(bases, n)
    /\ UNCHANGED <<stack, block, open, location, closed, captures>>

\* BC_RETURN: close, then move the result to the frame's first slot.
Return ==
    /\ Len(bases) > 1
    /\ Len(stack) >= Base
    /\ Close(Base)
    /\ stack' = Append(SubSeq(stack, 1, Base - 1), stack[Len(stack)])
    /\ bases' = SubSeq(bases, 1, Len(bases) - 1)
    /\ UNCHANGED <<block, captures>>

\* tea_vm_pcall after an error: back to slot n, a frame's first, with the error.
Unwind(k, v) ==
    /\ Len(stack) >= bases[k]
    /\ Close(bases[k])
    /\ stack' = Append(SubSeq(stack, 1, bases[k] - 1), v)
    /\ bases' = SubSeq(bases, 1, k - 1)
    /\ UNCHANGED <<block, captures>>

Grow ==
    /\ Move
    /\ UNCHANGED <<stack, bases, open, closed, captures>>

Next ==
    \/ \E v \in Value : Declare(v)
    \/ \E i \in DOMAIN stack, v \in Value : Assign(i, v)
    \/ \E c \in Closure, i \in DOMAIN stack : CaptureLocal(c, i)
    \/ \E c, d \in Closure : CaptureUpvalue(c, d)
    \/ \E c \in Closure, v \in Value : SetUpvalue(c, v)
    \/ \E c \in Closure : Forget(c)
    \/ EndLocal
    \/ \E n \in 1..Len(stack) + 1 : Call(n)
    \/ Return
    \/ \E k \in 2..Len(bases), v \in Value : Unwind(k, v)
    \/ Grow

Spec == Init /\ [][Next]_vars

-----------------------------------------------------------------------------
(* Properties                                                              *)

\* The list of open upvalues is strictly descending, so no slot has two: the
\* search of tea_func_finduv finds the one that exists, and tea_func_closeuv,
\* which stops at the first one below its limit, misses none.
OpenSorted ==
    \A j, k \in DOMAIN open : j < k => location[open[j]].slot > location[open[k]].slot

\* Every open upvalue points to a slot in use of the stack as it is allocated now,
\* and only linked upvalues point to the stack.
OpenInStack ==
    /\ \A u \in Range(open) : location[u].block = block /\ location[u].slot \in 1..Len(stack)
    /\ \A c \in Closure : ~Free(c) /\ captures[c] \notin Range(open) => location[captures[c]] = Own

\* The list of open upvalues can be searched and cut, and points into the stack.
OpenListSound == TypeOK /\ OpenSorted /\ OpenInStack

\* Closures that captured a variable and the function that declared it see one
\* variable, during its scope and after it, across moves of the stack, returns
\* and errors.
Shown(u) == {c \in Closure : captures[c] = u}
Cell(i) ==
    [names |-> {i} \cup UNION {Shown(u) : u \in {w \in Range(open) : location[w].slot = i}},
     val |-> stack[i]]
ClosedCells ==
    {[names |-> Shown(u), val |-> closed[u]] :
        u \in {w \in Upval : location[w] = Own /\ Shown(w) # {}}}

Variables == INSTANCE CapturedVariables WITH
    cells <- {Cell(i) : i \in DOMAIN stack} \cup ClosedCells,
    height <- Len(stack)

SharedVariables == Variables!Spec
=============================================================================
