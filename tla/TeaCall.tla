------------------------------ MODULE TeaCall ------------------------------
(***************************************************************************)
(* Calls of the virtual machine: the CallInfo array, the value stack as a  *)
(* height and two limits, the C stack of interpreter and native            *)
(* activations, protected calls, and the three overflow checks.            *)
(*                                                                         *)
(* Abstractions.  Values are left out: the stack is its height.  A         *)
(* Teascript function is the number of slots it declares (pt->max_slots),  *)
(* a native one is a function ("C") or a method ("CM").  The collector is  *)
(* left out (TeaGC), so growing the stack moves nothing that matters here. *)
(***************************************************************************)
EXTENDS Integers, Sequences, SequencesExt, FiniteSets

CONSTANTS
    MaxCalls,    \* TEA_MAX_CALLS
    MaxCCalls,   \* TEA_MAX_CCALLS
    CiMin,       \* TEA_CI_MIN
    StackStart,  \* TEA_STACK_START: first size, and what a native call is given
    Extra,       \* TEA_STACK_EXTRA
    Slots,       \* what Teascript functions declare: a set of max_slots
    MetaArgs,    \* most values an operator pushes unchecked to call a method
    NativeVias,  \* how native code and the host make calls: tea_call, tea_pcall
    MaxHeight    \* bound: stack height up to which code pushes

ASSUME CallConstantsOK ==
    /\ {MaxCalls, MaxCCalls, CiMin, StackStart} \subseteq Nat \ {0}
    /\ {Extra, MetaArgs, MaxHeight} \cup Slots \subseteq Nat
    /\ MetaArgs <= Extra
    /\ NativeVias \subseteq {"call", "pcall"}

VARIABLES
    ci,         \* T->ci_base .. T->ci: kind, base, top slot allowed, CALLING flag
    cisize,     \* T->ci_size
    base,       \* T->base
    top,        \* T->top
    stacksize,  \* T->stack_size
    stackmax,   \* T->stack_max
    nccalls,    \* T->nccalls
    native,     \* the C stack above the host: who runs, how it was entered
    exited      \* the panic function was called and the process ended

stackvars == <<base, top, stacksize, stackmax>>
vars == <<ci, cisize, base, top, stacksize, stackmax, nccalls, native, exited>>

Frame == Last(ci)
InHost == native = <<>>
\* The interpreter loop, or native code (the host included), has control.
InTea == ~exited /\ ~InHost /\ Last(native).runs = "exec"
InNative == ~exited /\ ~InTea

Vias == {"bytecode", "call", "pcall"}
Saved == [ci : Nat, base : Nat, nccalls : Nat]

TypeOK ==
    /\ ci \in Seq([kind : {"host", "TEA", "C", "CM"}, base : Nat, limit : Nat, calling : BOOLEAN])
    /\ ci # <<>>
    /\ {cisize, base, top, stacksize, nccalls} \subseteq Nat
    /\ stackmax \in Int
    /\ native \in Seq([runs : {"exec", "cfn"}, via : Vias, at : Nat, slot : Nat, saved : Saved])
    /\ exited \in BOOLEAN

\* stack_init, then the host has control.
Init ==
    /\ ci = <<[kind |-> "host", base |-> 0, limit |-> 0, calling |-> FALSE]>>
    /\ cisize = CiMin
    /\ base = 0
    /\ top = 0
    /\ stacksize = StackStart + Extra
    /\ stackmax = StackStart - 1
    /\ nccalls = 0
    /\ native = <<>>
    /\ exited = FALSE

-----------------------------------------------------------------------------
(* Stack and CallInfo limits                                               *)

\* Fault: only a full stack grows.
GrownSizeWhenFull(t, need) == IF stackmax > t THEN stacksize ELSE 2 * stacksize

\* tea_state_checkstack and tea_state_growstack, from height t.
GrownSize(t, need) ==
    IF stackmax - t > need THEN stacksize
    ELSE IF need <= stacksize THEN 2 * stacksize
    ELSE stacksize + need + Extra

SetStackSize(size) ==
    /\ stacksize' = size
    /\ stackmax' = IF size = stacksize THEN stackmax ELSE size - 1 - Extra

\* tea_state_growci: double when full, then refuse if the array is too large.
GrownCi == IF Len(ci) = cisize THEN 2 * cisize ELSE cisize
CiOverflow == GrownCi > MaxCalls

\* tea_err_throw with the C stack cs, the CallInfo array at size n and the value
\* stack at size s: back to the innermost protected call, where tea_vm_pcall
\* restores the state and tea_state_relimitstack resets the limits, or, without
\* one, out of the process through the panic function.
Fail(cs, n, s) ==
    LET protected == {i \in DOMAIN cs : cs[i].via = "pcall"}
    IN  IF protected = {}
        THEN /\ exited' = TRUE
             /\ UNCHANGED <<ci, cisize, stackvars, nccalls, native>>
        ELSE LET i == CHOOSE i \in protected : \A j \in protected : j <= i
                 p == cs[i]
             IN  /\ native' = SubSeq(cs, 1, i - 1)
                 /\ ci' = SubSeq(ci, 1, p.saved.ci)
                 /\ base' = p.saved.base
                 /\ nccalls' = p.saved.nccalls
                 /\ top' = p.slot + 1
                 /\ stacksize' = s
                 /\ stackmax' = s - 1
                 /\ cisize' = IF n > MaxCalls /\ p.saved.ci < MaxCalls THEN MaxCalls ELSE n
                 /\ UNCHANGED exited

-----------------------------------------------------------------------------
(* Calls.  The callee and its arguments are in the stack from slot to t - 1. *)

Callees == [kind : {"TEA"}, slots : Slots] \cup [kind : {"C", "CM"}, slots : {StackStart}]

\* Fault: the state is saved with the frame of the call.
SavedWithFrame == [ci |-> Len(ci) + 1, base |-> base, nccalls |-> nccalls]

\* What tea_vm_pcall and tea_err_protected restore after an error.
SavedState == [ci |-> Len(ci), base |-> base, nccalls |-> nccalls]

\* The C stack during the call of f: a Teascript function called from bytecode
\* continues in the same vm_execute, any other call is a new activation.
Activations(f, via, slot) ==
    IF f.kind = "TEA" /\ via = "bytecode" THEN native
    ELSE Append(native,
            [runs |-> IF f.kind = "TEA" THEN "exec" ELSE "cfn", via |-> via,
             at |-> Len(ci) + 1, slot |-> slot,
             saved |-> SavedState])

\* Fault: the flag is not cleared when vm_execute starts.
CallerFlagSticky(f, via) == Frame.calling \/ (f.kind = "TEA" /\ via = "bytecode")

\* CIST_CALLING of the caller: set by the call instructions, cleared when
\* vm_execute starts, left alone by native callees.
CallerFlag(f, via) == IF f.kind = "TEA" THEN via = "bytecode" ELSE Frame.calling

\* The new frame of vm_call.
NewFrame(f, slot, t) ==
    [kind |-> f.kind, base |-> slot, limit |-> t + f.slots, calling |-> FALSE]

\* tea_vm_call counts the C call, then vm_call grows the stack and enters the
\* frame; either may overflow.
Enter(f, via, slot, t) ==
    LET counted == nccalls + (IF via = "bytecode" THEN 0 ELSE 1)
        cs == Activations(f, via, slot)
        size == GrownSize(t, f.slots)
    IN  IF via # "bytecode" /\ counted >= MaxCCalls THEN Fail(cs, cisize, stacksize)
        ELSE IF CiOverflow THEN Fail(cs, GrownCi, size)
        ELSE /\ native' = cs
             /\ nccalls' = counted
             /\ cisize' = GrownCi
             /\ SetStackSize(size)
             /\ ci' = Append([ci EXCEPT ![Len(ci)].calling = CallerFlag(f, via)],
                             NewFrame(f, slot, t))
             /\ base' = CASE f.kind = "TEA" -> base
                          [] f.kind = "C" -> slot + 1
                          [] f.kind = "CM" -> slot
             /\ top' = t
             /\ UNCHANGED exited

\* BC_CALL, BC_INVOKE, BC_NEW: the operands are on the stack.
BytecodeCall(f, nargs) ==
    /\ InTea
    /\ top - nargs - 1 > Frame.base
    /\ Enter(f, "bytecode", top - nargs - 1, top)

\* An operator calls a method: the receiver is replaced or pushed above the
\* declared slots, with up to MetaArgs more values, and tea_vm_call runs it.
OperatorCall(f, pushed) ==
    /\ InTea
    /\ top - 1 > Frame.base
    /\ Enter(f, "call", top - 1, top + pushed)

\* tea_call and tea_pcall, from a native function or the host.
NativeCall(f, nargs, via) ==
    /\ InNative
    /\ top - nargs - 1 >= base
    /\ Enter(f, via, top - nargs - 1, top)

-----------------------------------------------------------------------------
(* Running and returning                                                   *)

\* Bytecode pushes within the declared slots; native code through incr_top.
Push ==
    /\ top < MaxHeight
    /\ top' = top + 1
    /\ \/ /\ InTea
          /\ top < Frame.limit
          /\ UNCHANGED <<stacksize, stackmax>>
       \/ /\ InNative
          /\ SetStackSize(IF top + 1 >= stackmax THEN GrownSize(stackmax, 1) ELSE stacksize)
    /\ UNCHANGED <<ci, cisize, base, nccalls, native, exited>>

Pop ==
    /\ InTea \/ InNative
    /\ top > (IF InTea THEN Frame.base + 1 ELSE base)
    /\ top' = top - 1
    /\ UNCHANGED <<ci, cisize, base, stacksize, stackmax, nccalls, native, exited>>

\* Where T->base of the frame below points once the top one is gone.
BaseOf(frame) == frame.base + (IF frame.kind = "C" THEN 1 ELSE 0)

\* A returning frame leaves its result in the callee's slot.  BC_RETURN stays in
\* vm_execute when the caller's flag says it was a bytecode call.
Return ==
    /\ ~exited
    /\ ~InHost
    /\ LET caller == ci[Len(ci) - 1]
           continues == InTea /\ caller.calling
       IN  /\ base' = BaseOf(caller)
           /\ native' = IF continues THEN native ELSE SubSeq(native, 1, Len(native) - 1)
           /\ nccalls' = nccalls - (IF ~continues /\ Last(native).via # "bytecode" THEN 1 ELSE 0)
    /\ ci' = SubSeq(ci, 1, Len(ci) - 1)
    /\ top' = Frame.base + 1
    /\ UNCHANGED <<cisize, stacksize, stackmax, exited>>

\* Any running code may raise an error.
Raise ==
    /\ InTea \/ InNative
    /\ Fail(native, cisize, stacksize)

Exited == exited /\ UNCHANGED vars

Next ==
    \/ \E f \in Callees, nargs \in 0..1 : BytecodeCall(f, nargs)
    \/ \E f \in Callees, pushed \in 0..MetaArgs : OperatorCall(f, pushed)
    \/ \E f \in Callees, nargs \in 0..1, via \in NativeVias : NativeCall(f, nargs, via)
    \/ Push
    \/ Pop
    \/ Return
    \/ Raise
    \/ Exited

Spec == Init /\ [][Next]_vars

-----------------------------------------------------------------------------
(* Properties                                                              *)

\* The C stack and the CallInfo array tell the same story: a Teascript frame was
\* entered by a new vm_execute exactly when its caller's CALLING flag is clear,
\* so BC_RETURN leaves vm_execute exactly when the frame that started it ends.  And
\* T->nccalls counts the tea_vm_call activations on the C stack, so errors neither use
\* up nor extend the C stack's limit.
CStackMatches ==
    /\ \A i \in 2..Len(ci) : ci[i].kind = "TEA" =>
           (ci[i-1].calling <=> \A j \in DOMAIN native : native[j].at # i)
    /\ \A i \in 2..Len(ci) : ci[i].kind \in {"C", "CM"} =>
           \E j \in DOMAIN native : native[j].at = i /\ native[j].runs = "cfn"
    /\ InHost <=> Len(ci) = 1
    /\ nccalls = Cardinality({i \in DOMAIN native : native[i].via # "bytecode"})

\* Native code finds its arguments: whatever calls it made, failed ones included,
\* T->base is where its frame put it.
NativeBase == InNative => base = BaseOf(Frame)

\* Frames, flags, limits and the two stacks agree wherever somebody has control.
CallsAgree == TypeOK /\ CStackMatches /\ NativeBase

\* Where the interpreter runs an operator has room for what it pushes unchecked
\* ("Extra stack space to handle special method calls and other extras").
OperatorRoom == InTea => Frame.limit + MetaArgs <= stacksize

\* No function declares as many slots as the stack has, or up to Extra fewer.  For
\* one that does, tea_state_growstack compares the slots with the size and doubles
\* it, which may leave less than TEA_STACK_EXTRA behind them.
SizesApart == \A s \in Slots : s <= stacksize - Extra \/ s > stacksize

\* While SizesApart it has, except after a caught error and until the stack grows
\* again: while the limits are those of stack_init and stack_resize.
OperatorRoomBeforeErrors == stackmax < stacksize - 1 => OperatorRoom

\* A call is refused for its depth only when TEA_MAX_CALLS frames are in use.
RefusedOnlyWhenDeep == ~exited /\ CiOverflow => Len(ci) >= MaxCalls

\* Calls nest, return one value and recover from errors as AbstractCalls says.
Calls == INSTANCE AbstractCalls WITH
    frames <- [i \in 1..Len(ci)-1 |->
                 [slot |-> ci[i+1].base,
                  protected |-> \E j \in DOMAIN native :
                                   native[j].at = i + 1 /\ native[j].via = "pcall"]],
    height <- top,
    over <- exited

NestedCalls == Calls!Spec
=============================================================================
