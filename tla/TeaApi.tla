------------------------------- MODULE TeaApi -------------------------------
(***************************************************************************)
(* The C API (tea_api.c, tea_lib.c) and the lists below it (tea_list.c):   *)
(* what each function does to the stack frame of the native function that  *)
(* calls it, and to the lists.                                             *)
(*                                                                         *)
(* A state of the API is a record a:                                       *)
(*   frame    the slots from T->base to T->top, slot 0 first               *)
(*   up       the upvalues of the running function                         *)
(*   lists    what each list holds                                         *)
(*   fails    an error was raised; nothing after it is executed            *)
(*   misused  a precondition of the API did not hold (tea_checkapi), or    *)
(*            the function dropped more slots than it has                  *)
(*   strays   a slot behind the items of a list was read or written; what  *)
(*            follows is undefined, and nothing is claimed about it        *)
(* A function of the API is an operator from such a record to the next.    *)
(*                                                                         *)
(* Abstractions.  Numbers are a small set of integers, other values are    *)
(* atoms.  The room above T->top is TeaCall's subject.                     *)
(***************************************************************************)
EXTENDS Integers, SequencesExt

CONSTANTS
    Num,      \* numbers
    List,     \* references to lists
    Fn,       \* a function of the program
    Str,      \* a string of one character
    Iter,     \* a native closure
    Nil, True, False,
    NoValue   \* what a slot above the top reads as: niltv(T)

Atom == {Fn, Str, Iter, Nil, True, False}
Value == Num \cup List \cup Atom

\* Values of different kinds are different, and no value is none.
ASSUME ApiConstantsOK ==
    /\ Num \subseteq Int
    /\ Num \cap List = {} /\ Atom \cap (Num \cup List) = {}
    /\ IsInjective(<<Fn, Str, Iter, Nil, True, False>>)
    /\ NoValue \notin Value

\* The states of the API.
Apis == [frame : Seq(Value), up : Seq(Value), fails : BOOLEAN, misused : BOOLEAN,
         strays : BOOLEAN, lists : [List -> Seq(Value)]]

Bool(b) == IF b THEN True ELSE False

Raise(a) == [a EXCEPT !.fails = TRUE]
Expect(a, cond) == [a EXCEPT !.misused = @ \/ ~cond]

-----------------------------------------------------------------------------
(* Slots                                                                   *)

TEA_REGISTRY_INDEX == -10000
TEA_UPVALUES_INDEX == -11000
tea_upvalue_index(i) == TEA_UPVALUES_INDEX - i

tea_get_top(a) == Len(a.frame)

\* The position in the frame of a slot counted from the base or from the top.
Position(a, idx) == IF idx >= 0 THEN idx + 1 ELSE tea_get_top(a) + 1 + idx

\* May a function be given this slot?  What is above the top reads as no value,
\* what is below the base must not be read.
Valid(a, idx) ==
    \/ idx <= TEA_REGISTRY_INDEX
    \/ Position(a, idx) >= 1

\* index2addr, and what is there.  Below the base there are the slots of others.
index2addr(a, idx) ==
    IF idx <= TEA_UPVALUES_INDEX
    THEN LET n == TEA_UPVALUES_INDEX - idx
         IN IF n < Len(a.up) THEN a.up[n + 1] ELSE NoValue
    ELSE IF Position(a, idx) \in DOMAIN a.frame THEN a.frame[Position(a, idx)] ELSE NoValue

\* index2addr_check: the slot must exist.
Exists(a, idx) == index2addr(a, idx) # NoValue

\* A copy of no value is nil.
ValueAt(a, idx) == IF Exists(a, idx) THEN index2addr(a, idx) ELSE Nil

tea_pop(a, n) ==
    [Expect(a, n <= tea_get_top(a)) EXCEPT !.frame = SubSeq(@, 1, tea_get_top(a) - n)]

\* Push, for tea_push_nil, _bool, _number, _lstring and the new objects.
Push(a, v) == [a EXCEPT !.frame = Append(@, v)]

tea_set_top(a, idx) ==
    LET n == IF idx >= 0 THEN idx ELSE tea_get_top(a) + idx + 1
    IN  [Expect(a, n >= 0) EXCEPT
            !.frame = [p \in 1..n |-> IF p <= tea_get_top(a) THEN @[p] ELSE Nil]]

tea_push_value(a, idx) == Push(Expect(a, Valid(a, idx)), ValueAt(a, idx))

\* copy_slot: write v to a slot or to an upvalue.
CopySlot(a, v, idx) ==
    IF ~Exists(a, idx) THEN Expect(a, FALSE)
    ELSE IF idx <= TEA_UPVALUES_INDEX THEN [a EXCEPT !.up[TEA_UPVALUES_INDEX - idx + 1] = v]
    ELSE [a EXCEPT !.frame[Position(a, idx)] = v]

\* The last nup slots become the upvalues of a new closure, in their order.
tea_push_cclosure(a, fn, nup) ==
    LET top == tea_get_top(a)
    IN  Push([tea_pop(a, nup) EXCEPT !.up = SubSeq(a.frame, top - nup + 1, top)], fn)

tea_replace(a, idx) == tea_pop(CopySlot(a, ValueAt(a, -1), idx), 1)

-----------------------------------------------------------------------------
(* Types                                                                   *)

IsList(v) == v \in List
IsNum(v) == v \in Num
IsNoneNil(v) == v \in {Nil, NoValue}

tea_is_nil(a, idx) == index2addr(a, idx) = Nil
tea_is_nonenil(a, idx) == IsNoneNil(index2addr(a, idx))

\* tea_obj_equal: lists are equal if their items are.
tea_obj_equal(a, v, w) == v = w \/ (IsList(v) /\ IsList(w) /\ a.lists[v] = a.lists[w])

tea_equal(a, i, j) == tea_obj_equal(a, index2addr(a, i), index2addr(a, j))

\* tea_check_list, tea_check_function, tea_check_bool, tea_check_number and the
\* like: any other value is an error.
Check(a, idx, Types) ==
    LET b == Expect(a, Valid(a, idx)) IN IF index2addr(a, idx) \in Types THEN b ELSE Raise(b)

-----------------------------------------------------------------------------
(* Lists                                                                   *)

tea_list_add(lists, l, v) == [lists EXCEPT ![l] = Append(@, v)]

\* The items behind idx are moved up.
tea_list_insert(lists, l, v, idx) ==
    [lists EXCEPT ![l] = [p \in 1..Len(@) + 1 |->
        IF p <= idx THEN @[p] ELSE IF p = idx + 1 THEN v ELSE @[p - 1]]]

\* The items behind idx are moved down.
tea_list_delete(lists, l, idx) ==
    [lists EXCEPT ![l] = [p \in 1..Len(@) - 1 |-> IF p <= idx THEN @[p] ELSE @[p + 1]]]

\* The length is unsigned, so the signed end is compared as if it were: one below 0 is
\* larger than any length and cut like one that is too large or infinite.  The branch
\* for a negative end, behind that test, is never taken.
SliceEnd(len, end) == IF end < 0 \/ end > len THEN len ELSE end

\* The indices a slice reads, in order.  The start is taken as it is.
SliceIndices(len, start, end, step) ==
    LET span == (SliceEnd(len, end) - start) * (IF step > 0 THEN 1 ELSE -1)
        size == IF step > 0 THEN step ELSE -step
    IN  [k \in 1..(IF span > 0 THEN (span + size - 1) \div size ELSE 0) |-> start + (k - 1) * step]

tea_list_slice(a, l, start, end, step, new) ==
    LET items == a.lists[l]
        is == SliceIndices(Len(items), start, end, step)
    IN  IF ToSet(is) \subseteq 0..Len(items) - 1
        THEN Push([a EXCEPT !.lists[new] = [k \in DOMAIN is |-> items[is[k] + 1]]], new)
        ELSE [a EXCEPT !.strays = TRUE]

tea_new_list(a, new) == Push([a EXCEPT !.lists[new] = << >>], new)

\* Strings have a length too; for numbers, functions and the like it is -1.
tea_len(a, idx) ==
    LET v == index2addr(a, idx)
    IN  IF IsList(v) THEN Len(a.lists[v]) ELSE IF v = Str THEN 1 ELSE -1

\* The list in a slot; the items of what is no list are not looked at.
ListAt(a, idx) == index2addr(a, idx)

\* idx < 0 || idx > l->len - 1, in unsigned arithmetic: every index passes the
\* check of an empty list.
OutOfBounds(len, i) == i < 0 \/ (len > 0 /\ i > len - 1)
InList(a, l, i) == IsList(ListAt(a, l)) /\ ~OutOfBounds(tea_len(a, l), i)

\* May item i be touched?
Touch(a, l, i) == [a EXCEPT !.strays = @ \/ i >= tea_len(a, l)]

\* An index that is out of bounds is not an error: nothing is pushed or popped.
tea_get_item(a, l, i) ==
    LET b == Expect(a, IsList(ListAt(a, l)))
    IN  IF ~InList(a, l, i) THEN b
        ELSE IF tea_len(a, l) = 0 THEN Push(Touch(b, l, i), Nil)
        ELSE Push(b, a.lists[ListAt(a, l)][i + 1])

tea_set_item(a, l, i) ==
    LET b == Expect(a, IsList(ListAt(a, l)) /\ tea_get_top(a) >= 1)
    IN  IF ~InList(a, l, i) THEN b
        ELSE IF tea_len(a, l) = 0 THEN tea_pop(Touch(b, l, i), 1)
        ELSE tea_pop([b EXCEPT !.lists[ListAt(a, l)][i + 1] = ValueAt(a, -1)], 1)

tea_add_item(a, l) ==
    IF IsList(ListAt(a, l))
    THEN tea_pop([a EXCEPT !.lists = tea_list_add(@, ListAt(a, l), ValueAt(a, -1))], 1)
    ELSE Expect(a, FALSE)

\* tea_call: the function is below its n arguments, the result replaces them all.
Callee(a, n) == ValueAt(a, -(n + 1))
Arguments(a, n) == SubSeq(a.frame, tea_get_top(a) - n + 1, tea_get_top(a))
Answered(a, n, v) == Push(tea_pop(a, n + 1), v)
=============================================================================
