------------------------------- MODULE TeaLib -------------------------------
(***************************************************************************)
(* The methods of lists (lib_list.c): native functions written with the    *)
(* C API, on their own stack frame.  Those that call a function of the     *)
(* program (map, filter, find, reduce, foreach, sort) and loops over a     *)
(* list are cut at each call: meanwhile the program may change any list.   *)
(*                                                                         *)
(* Abstractions.  The program calls one method at a time; what it does in  *)
(* a callback is to give the lists any contents, and to return any value   *)
(* or raise an error.  A method of the callback is one of those changes.   *)
(***************************************************************************)
EXTENDS TeaApi

CONSTANTS
    l1, l2, New,  \* the receiver, another list, the list a method makes
    Item,         \* items of the receiver
    Other,        \* what l2 holds
    Arg,          \* other arguments
    Answer,       \* what callbacks return
    Key,          \* numbers that are sorted
    MaxLen,       \* bound: longest receiver
    MaxSort,      \* bound: longest list that is sorted
    MaxChange,    \* bound: longest list a callback leaves
    MaxLies       \* bound: answers of a comparator that contradict the order

ASSUME LibConstantsOK ==
    /\ List = {l1, l2, New} /\ l1 # l2 /\ New \notin {l1, l2}
    /\ {MaxLen, MaxSort, MaxLies} \subseteq Nat
    /\ MaxChange \in 0..MaxLen
    /\ -1..MaxLen + 2 \subseteq Num
    /\ Key \subseteq Num
    /\ Other \in Seq(Num)
    /\ Item \cup Arg \cup Answer \subseteq Value

VARIABLES
    api,   \* the frame of the method, and the lists
    job,   \* the method and its local variables
    past   \* what the call began with and what callbacks did

vars == <<api, job, past>>

\* The local variables of auxsort; rest holds the ranges it has to come back to, at
\* names the comparison it waits for.
NoSort == [at |-> "none", l |-> 0, u |-> 0, i |-> 0, j |-> 0, rest |-> << >>]
NoJob == [fn |-> "none", pc |-> "idle", len |-> 0, i |-> 0, sort |-> NoSort]
NoPast == [lists |-> << >>, args |-> << >>, answers |-> << >>,
           changed |-> FALSE, shrunk |-> FALSE, lies |-> 0]

\* No method runs.
Quiet(lists) == [frame |-> << >>, up |-> << >>, fails |-> FALSE, misused |-> FALSE,
                 strays |-> FALSE, lists |-> lists]

Init ==
    /\ api \in {Quiet([l \in List |-> IF l = l1 THEN s ELSE IF l = l2 THEN Other ELSE << >>]) :
                s \in BoundedSeq(Item, MaxLen) \cup BoundedSeq(Key, MaxSort)}
    /\ job = NoJob
    /\ past = NoPast

-----------------------------------------------------------------------------
(* Methods that call nobody                                                *)

\* for(i = 0; i < n; i++) a = Op(a, i)
For(Op(_, _), a, n) ==
    LET turn[k \in 0..n] == IF k = 0 THEN a ELSE Op(turn[k - 1], k - 1)
    IN  IF n <= 0 THEN a ELSE turn[n]

Self(a) == a.frame[1]

\* T->top = T->base + 1
Chain(a) == [Expect(a, tea_get_top(a) >= 1) EXCEPT !.frame = [p \in {1} \cap DOMAIN @ |-> @[p]]]

\* One more item for a list, none taken from the stack.
AddTo(a, l, v) == [a EXCEPT !.lists = tea_list_add(@, l, v)]

\* All items of list l are added to list m.
AddAll(a, l, m) == For(LAMBDA b, i : AddTo(b, m, a.lists[l][i + 1]), a, Len(a.lists[l]))

list_len(a) == Push(a, tea_len(a, 0))

\* Is v a size a list can be made with?  A negative number is a size too large.
IsSize(v) == IsNum(v) /\ v >= 0

list_init(a) == IF tea_get_top(a) > 1 /\ ~IsSize(a.frame[2]) THEN Raise(a) ELSE tea_new_list(a, New)

list_add(a) ==
    Chain(For(LAMBDA b, i : AddTo(b, Self(a), a.frame[i + 2]), a, tea_get_top(a) - 1))

\* Is the item on top the one to remove?  It is popped.
Compare(a) == [a |-> tea_pop(a, 1), found |-> tea_equal(a, 1, 2)]

\* Fault: the last item is not looked at.
ListRemoveNoLast(a) ==
    LET len == tea_len(a, 0)
        Step(s, i) ==
            LET c == Compare(tea_get_item(s.a, 0, i))
                found == s.found \/ c.found
            IN  [found |-> found,
                 a |-> IF found THEN tea_set_item(tea_get_item(c.a, 0, i + 1), 0, i) ELSE c.a]
        all == For(Step, [a |-> a, found |-> FALSE], len - 1)
    IN  IF len = 0 THEN tea_pop(a, 1)
        ELSE IF all.found THEN tea_pop([all.a EXCEPT !.lists[Self(a)] = Front(@)], 1)
        ELSE Raise(all.a)

\* From the item found on, each item is overwritten with the next one.
list_remove(a) ==
    LET len == tea_len(a, 0)
        Step(s, i) ==
            LET c == Compare(tea_get_item(s.a, 0, i))
                found == s.found \/ c.found
            IN  [found |-> found,
                 a |-> IF found THEN tea_set_item(tea_get_item(c.a, 0, i + 1), 0, i) ELSE c.a]
        all == For(Step, [a |-> a, found |-> FALSE], len - 1)
        last == Compare(tea_get_item(all.a, 0, len - 1))
    IN  IF len = 0 THEN tea_pop(a, 1)
        ELSE IF all.found \/ last.found THEN tea_pop([last.a EXCEPT !.lists[Self(a)] = Front(@)], 1)
        ELSE Raise(last.a)

list_delete(a) ==
    IF tea_len(a, 0) = 0 THEN tea_pop(a, 1)
    ELSE IF ~IsNum(a.frame[2]) \/ ~InList(a, 0, a.frame[2]) THEN Raise(a)
    ELSE Chain([a EXCEPT !.lists = tea_list_delete(@, Self(a), a.frame[2])])

list_clear(a) == [a EXCEPT !.lists[Self(a)] = << >>]

list_insert(a) ==
    IF ~IsNum(a.frame[3]) \/ ~InList(a, 0, a.frame[3]) THEN Raise(a)
    ELSE IF a.frame[3] > tea_len(a, 0) THEN Touch(a, 0, a.frame[3])
    ELSE Chain([a EXCEPT !.lists = tea_list_insert(@, Self(a), a.frame[2], a.frame[3])])

\* The length is read once, so a list may extend itself.
list_extend(a) ==
    tea_pop(For(LAMBDA b, i : tea_add_item(tea_get_item(b, 1, i), 0), a, tea_len(a, 1)), 1)

list_reverse(a) ==
    LET len == tea_len(a, 0)
        Step(b, i) ==
            tea_set_item(tea_set_item(
                tea_get_item(tea_get_item(b, 0, i), 0, len - i - 1), 0, i), 0, len - i - 1)
    IN  For(Step, a, len \div 2)

\* The indices of the items equal to slot 1.
Matches(a) == {i \in 0..tea_len(a, 0) - 1 : tea_equal(tea_get_item(a, 0, i), 1, 2)}

\* A search stops at the first match, which it leaves on the stack.
list_contains(a) ==
    IF Matches(a) = {} THEN Push(a, False)
    ELSE Push(tea_get_item(a, 0, Min(Matches(a))), True)

list_count(a) == Push(a, Cardinality(Matches(a)))

list_index(a) ==
    IF Matches(a) = {} THEN Push(a, -1)
    ELSE Push(tea_get_item(a, 0, Min(Matches(a))), Min(Matches(a)))

list_fill(a) ==
    Chain(For(LAMBDA b, i : tea_set_item(tea_push_value(b, 1), 0, i), a, tea_len(a, 0)))

list_copy(a) ==
    [AddAll(a, Self(a), New) EXCEPT !.frame[tea_get_top(a)] = New]

\* flatten: the items of a list, those of lists among them one by one.
flatten[a \in Apis, src \in Nat, len \in Nat] ==
    LET Step(b, i) ==
            LET c == tea_get_item(b, src, i)
            IN  tea_pop(IF IsList(ListAt(c, -1))
                        THEN flatten[c, tea_get_top(c) - 1, tea_len(c, -1)]
                        ELSE tea_add_item(tea_push_value(c, -1), 1), 1)
    IN  For(Step, a, len)

list_flat(a) == flatten[tea_new_list(a, New), 0, tea_len(a, 0)]

list_opadd(a) ==
    IF ~IsList(a.frame[1]) \/ ~IsList(a.frame[2]) THEN Raise(a)
    ELSE Push(AddAll(AddAll(a, a.frame[1], New), a.frame[2], New), New)

\* list[i], list[i] = v: an index may count from the end.
FromEnd(a, i) == IF i < 0 THEN tea_len(a, 0) + i ELSE i
GoodIndex(a) == IsNum(a.frame[2]) /\ FromEnd(a, a.frame[2]) \in 0..tea_len(a, 0) - 1

tea_meta_getindex(a) ==
    IF GoodIndex(a) THEN tea_get_item(a, 0, FromEnd(a, a.frame[2])) ELSE Raise(a)

tea_meta_setindex(a) ==
    IF GoodIndex(a) THEN Push(tea_set_item(a, 0, FromEnd(a, a.frame[2])), a.frame[3]) ELSE Raise(a)

list_iter(a) == tea_push_cclosure(Push(a, 0), Iter, 2)

\* The iterator's upvalues are the list and the next index.
list_iternext(a) ==
    IF a.up[2] >= Len(a.lists[a.up[1]]) THEN Push(a, Nil)
    ELSE tea_replace(Push(tea_get_item(a, tea_upvalue_index(0), a.up[2]), a.up[2] + 1),
                     tea_upvalue_index(1))

Simple == {"len", "new", "add", "remove", "delete", "clear", "insert", "extend", "reverse",
           "contains", "count", "index", "fill", "copy", "flat", "[]", "[]="}

Run(fn, a) ==
    CASE fn = "len" -> list_len(a)            [] fn = "new" -> list_init(a)
      [] fn = "add" -> list_add(a)            [] fn = "remove" -> list_remove(a)
      [] fn = "delete" -> list_delete(a)      [] fn = "clear" -> list_clear(a)
      [] fn = "insert" -> list_insert(a)      [] fn = "extend" -> list_extend(a)
      [] fn = "reverse" -> list_reverse(a)    [] fn = "contains" -> list_contains(a)
      [] fn = "count" -> list_count(a)        [] fn = "index" -> list_index(a)
      [] fn = "fill" -> list_fill(a)          [] fn = "copy" -> list_copy(a)
      [] fn = "flat" -> list_flat(a)          [] fn = "+" -> list_opadd(a)
      [] fn = "[]" -> tea_meta_getindex(a)    [] fn = "[]=" -> tea_meta_setindex(a)

\* How many arguments each method takes: list_reg.
Arity(fn) ==
    CASE fn \in {"len", "clear", "reverse", "copy", "flat"} -> {0}
      [] fn \in {"new", "sort"} -> {0, 1}
      [] fn = "add" -> {0, 1, 2}
      [] fn \in {"insert", "[]="} -> {2}
      [] OTHER -> {1}

\* A list is made part of itself by no method, and appended to itself by extend and +.
ArgsOf(fn) ==
    UNION {[1..n -> IF fn \in {"extend", "+"} THEN Arg \cup {l1} ELSE Arg] : n \in Arity(fn)}

\* A method is called with its receiver and arguments as its frame.
Enter(me, args) == [api EXCEPT !.frame = <<me>> \o args]

After(a, pc) ==
    IF a.fails THEN "raised" ELSE IF a.strays \/ a.misused THEN "strayed" ELSE pc

Starts(fn, args, a, pc) ==
    /\ api' = a
    /\ job' = [NoJob EXCEPT !.fn = fn, !.pc = After(a, pc), !.len = Len(api.lists[l1])]
    /\ past' = [NoPast EXCEPT !.lists = api.lists, !.args = args]

Idle == job.pc = "idle" /\ Len(api.lists[l1]) <= MaxLen

CallSimple ==
    /\ Idle
    /\ \E fn \in Simple : \E args \in ArgsOf(fn) :
         Starts(fn, args, Run(fn, Enter(l1, args)), "done")

\* list[start:end:step], of a list of the receiver's length.
CallSlice ==
    /\ Idle
    /\ \E start \in -1..MaxLen, end \in -1..MaxLen + 1, step \in {-1, 1, 2} :
         Starts("slice", <<start, end, step>>,
                tea_list_slice(Enter(l1, << >>), l1, start, end, step, New), "done")

\* An operator is a static method: either operand may be the list.
CallPlus ==
    /\ Idle
    /\ \E args \in ArgsOf("+"), left \in {l1, Nil} :
         Starts("+", <<left>> \o args, Run("+", Enter(left, args)), "done")

-----------------------------------------------------------------------------
(* Methods that call a function for each item                              *)

Loops == {"find", "map", "filter", "reduce", "foreach"}

\* Fault: map and filter make no list.
OpenedNoList(fn, a) ==
    LET b == IF fn = "filter" THEN a ELSE Check(Check(a, 0, List), 1, {Fn})
    IN  IF fn # "reduce" THEN b
        ELSE IF tea_len(b, 0) = 0 THEN tea_pop(b, 1) ELSE tea_get_item(b, 0, 0)

\* What precedes the loop.  filter does not check its argument.
Opened(fn, a) ==
    LET b == IF fn = "filter" THEN a ELSE Check(Check(a, 0, List), 1, {Fn})
    IN  CASE fn \in {"map", "filter"} -> tea_new_list(b, New)
          [] fn = "reduce" -> IF tea_len(b, 0) = 0 THEN tea_pop(b, 1) ELSE tea_get_item(b, 0, 0)
          [] OTHER -> b

CallLoop ==
    /\ Idle
    /\ \E fn \in Loops : \E args \in ArgsOf(fn) :
         LET empty == fn = "reduce" /\ api.lists[l1] = << >>
             a == Opened(fn, Enter(l1, args))
         IN  /\ api' = a
             /\ job' = [NoJob EXCEPT !.fn = fn, !.pc = After(a, IF empty THEN "done" ELSE "turn"),
                                     !.len = Len(api.lists[l1]),
                                     !.i = IF fn = "reduce" THEN 1 ELSE 0]
             /\ past' = [NoPast EXCEPT !.lists = api.lists, !.args = args]

\* Fault: the pivot is looked for on top, where the function is now.
PushedFunction(fn, a, i) ==
    LET f == tea_push_value(a, 1)
    IN  tea_get_item(IF fn = "reduce" THEN tea_push_value(f, -1) ELSE f, 0, i)

\* The function and its arguments; the length is the one the loop began with.
Pushed(fn, a, i) ==
    LET f == tea_push_value(a, 1)
    IN  tea_get_item(IF fn = "reduce" THEN tea_push_value(f, -2) ELSE f, 0, i)

Takes == IF job.fn \in {"reduce", "sort"} THEN 2 ELSE 1

\* Only functions can be called.
Calls(a) ==
    /\ api' = a
    /\ job' = [job EXCEPT !.pc = After(a, IF Callee(a, Takes) = Fn THEN "called" ELSE "raised")]

Turn ==
    /\ job.pc = "turn" /\ job.fn \in Loops /\ job.i < job.len
    /\ Calls(Pushed(job.fn, api, job.i))
    /\ UNCHANGED past

\* Fault: filter keeps the answer, not the item.
UsedAnswerKept(fn, a, i) ==
    LET yes == ValueAt(a, -1) = True
    IN  CASE fn \in {"map", "filter"} -> tea_add_item(a, 2)
          [] fn = "reduce" -> tea_replace(a, -2)
          [] fn = "foreach" -> tea_pop(a, 1)
          [] fn = "find" -> IF yes THEN tea_get_item(tea_pop(a, 1), 0, i) ELSE tea_pop(a, 1)

\* What a loop does with the answer on top.
UsedAnswer(fn, a, i) ==
    LET b == Check(a, -1, {True, False})
        yes == ValueAt(a, -1) = True
    IN  CASE fn = "map" -> tea_add_item(a, 2)
          [] fn = "reduce" -> tea_replace(a, -2)
          [] fn = "foreach" -> tea_pop(a, 1)
          [] fn = "find" -> IF yes THEN tea_get_item(tea_pop(b, 1), 0, i) ELSE tea_pop(b, 1)
          [] fn = "filter" -> IF yes THEN tea_add_item(tea_get_item(tea_pop(b, 1), 0, i), 2)
                              ELSE tea_pop(b, 1)

UseAnswer ==
    /\ job.pc = "answered" /\ job.fn \in Loops
    /\ api' = UsedAnswer(job.fn, api, job.i)
    /\ job' = [job EXCEPT !.i = @ + 1, !.pc =
                   After(api', IF job.fn = "find" /\ ValueAt(api, -1) = True THEN "done" ELSE "turn")]
    /\ UNCHANGED past

Closed(fn, a) ==
    CASE fn \in {"map", "filter"} -> tea_push_value(a, 2)
      [] fn = "find" -> Push(a, Nil)
      [] fn = "foreach" -> tea_set_top(a, 1)
      [] fn = "reduce" -> a

Finish ==
    /\ job.pc = "turn" /\ job.fn \in Loops /\ job.i >= job.len
    /\ api' = Closed(job.fn, api)
    /\ job' = [job EXCEPT !.pc = "done"]
    /\ UNCHANGED past

-----------------------------------------------------------------------------
(* Sorting                                                                 *)

\* The next comparison, or none; the items compared are on the stack.
Wait(a, s, at) == [a |-> a, s |-> [s EXCEPT !.at = at]]
Items(a, i, j) == tea_get_item(tea_get_item(a, 0, i), 0, j)
set2(a, i, j) == tea_set_item(tea_set_item(a, 0, i), 0, j)

\* while(l < u): the range, else the one to come back to, else list_sort's end.
Ranges(a, s) ==
    IF s.l < s.u THEN Wait(Items(a, s.l, s.u), s, "lu")
    ELSE IF s.rest = << >> THEN Wait(Chain(a), s, "none")
    ELSE LET r == Last(s.rest)
         IN  Wait(Items(a, r[1], r[2]),
                  [s EXCEPT !.l = r[1], !.u = r[2], !.rest = Front(@)], "lu")

Break(a, s) == Ranges(a, [s EXCEPT !.l = s.u])

\* repeat ++i until a[i] >= P, repeat --j until a[j] <= P
Up(a, s) == Wait(tea_get_item(a, 0, s.i + 1), [s EXCEPT !.i = @ + 1], "up")
Down(a, s) == Wait(tea_get_item(a, 0, s.j - 1), [s EXCEPT !.j = @ - 1], "down")

\* The three items at l, i and u are in order: the middle one is the pivot.
Pivot(a, s) ==
    IF s.u - s.l = 2 THEN Break(a, s)
    ELSE LET p == tea_push_value(tea_get_item(a, 0, s.i), -1)
             b == set2(tea_get_item(p, 0, s.u - 1), s.i, s.u - 1)
         IN  Up(b, [s EXCEPT !.i = s.l, !.j = s.u - 1])

\* The pivot is put between the halves; the smaller one is sorted first.
Halves(a, s) ==
    LET b == set2(Items(tea_pop(a, 3), s.u - 1, s.i), s.u - 1, s.i)
        low == <<s.l, s.i - 1>>
        high == <<s.i + 1, s.u>>
        first == IF s.i - s.l < s.u - s.i THEN low ELSE high
        second == IF first = low THEN high ELSE low
    IN  Ranges(b, [s EXCEPT !.l = first[1], !.u = first[2], !.rest =
                       IF second[1] < second[2] THEN Append(@, second) ELSE @])

\* Up to the next comparison, given the result of this one.
auxsort(a, s, less) ==
    CASE s.at = "lu" ->
            LET b == IF less THEN set2(a, s.l, s.u) ELSE tea_pop(a, 2)
                m == [s EXCEPT !.i = (s.l + s.u) \div 2]
            IN  IF s.u - s.l = 1 THEN Break(b, s) ELSE Wait(Items(b, m.i, s.l), m, "il")
      [] s.at = "il" -> IF less THEN Pivot(set2(a, s.i, s.l), s)
                        ELSE Wait(tea_get_item(tea_pop(a, 1), 0, s.u), s, "ui")
      [] s.at = "ui" -> Pivot(IF less THEN set2(a, s.i, s.u) ELSE tea_pop(a, 2), s)
      [] s.at = "up" -> IF ~less THEN Down(a, s)
                        ELSE IF s.i > s.u THEN Wait(Raise(a), s, "none") ELSE Up(tea_pop(a, 1), s)
      [] s.at = "down" -> IF less THEN IF s.j < s.l THEN Wait(Raise(a), s, "none")
                                       ELSE Down(tea_pop(a, 1), s)
                          ELSE IF s.j < s.i THEN Halves(a, s) ELSE Up(set2(a, s.i, s.j), s)

\* The slots compared.
Compared(at) ==
    CASE at \in {"lu", "ui", "up"} -> <<-1, -2>>
      [] at = "il" -> <<-2, -1>>
      [] at = "down" -> <<-3, -1>>

Resumed(r) ==
    /\ api' = r.a
    /\ job' = [job EXCEPT !.sort = r.s,
                          !.pc = After(r.a, IF r.s.at = "none" THEN "done" ELSE "turn")]

CallSort ==
    /\ job.pc = "idle"
    /\ \A p \in DOMAIN api.lists[l1] : api.lists[l1][p] \in Key
    /\ \E args \in ArgsOf("sort") :
         LET a == Enter(l1, args)
             b == IF tea_is_nonenil(a, 1) THEN a ELSE Check(a, 1, {Fn})
             r == Ranges(tea_set_top(b, 2), [NoSort EXCEPT !.u = tea_len(a, 0) - 1])
         IN  /\ api' = IF b.fails THEN b ELSE r.a
             /\ job' = [NoJob EXCEPT !.fn = "sort", !.sort = r.s, !.len = tea_len(a, 0), !.pc =
                            After(api', IF r.s.at = "none" THEN "done" ELSE "turn")]
             /\ past' = [NoPast EXCEPT !.lists = api.lists, !.args = args]

\* Fault: the second slot is not moved by the function and the first argument.
CompareByCallOff ==
    /\ job.pc = "turn" /\ job.fn = "sort" /\ ~tea_is_nil(api, 1)
    /\ LET c == Compared(job.sort.at)
       IN  Calls(tea_push_value(tea_push_value(tea_push_value(api, 1), c[1] - 1), c[2]))
    /\ UNCHANGED past

\* sort_comp: by calling the comparator, or as numbers.
CompareByCall ==
    /\ job.pc = "turn" /\ job.fn = "sort" /\ ~tea_is_nil(api, 1)
    /\ LET c == Compared(job.sort.at)
       IN  Calls(tea_push_value(tea_push_value(tea_push_value(api, 1), c[1] - 1), c[2] - 2))
    /\ UNCHANGED past

CompareNumbers ==
    /\ job.pc = "turn" /\ job.fn = "sort" /\ tea_is_nil(api, 1)
    /\ LET c == Compared(job.sort.at)
           a == Check(Check(api, c[1], Num), c[2], Num)
       IN  IF a.fails THEN Resumed(Wait(a, job.sort, "none"))
           ELSE Resumed(auxsort(a, job.sort, ValueAt(a, c[1]) < ValueAt(a, c[2])))
    /\ UNCHANGED past

UseComparison ==
    /\ job.pc = "answered" /\ job.fn = "sort"
    /\ LET a == Check(api, -1, {True, False})
       IN  IF a.fails THEN Resumed(Wait(a, job.sort, "none"))
           ELSE Resumed(auxsort(tea_pop(a, 1), job.sort, ValueAt(a, -1) = True))
    /\ UNCHANGED past

-----------------------------------------------------------------------------
(* A loop of the program over a list, and its functions                    *)

CallIter ==
    /\ Idle
    /\ Starts("iter", << >>, list_iter(Enter(l1, << >>)), "next")

\* The loop ends with the first nil.
NextItem ==
    /\ job.pc = "next"
    /\ api' = list_iternext([api EXCEPT !.frame = << >>])
    /\ LET v == ValueAt(api', -1)
       IN  IF v = Nil THEN job' = [job EXCEPT !.pc = "done"] /\ UNCHANGED past
           ELSE /\ job' = [job EXCEPT !.pc = "body"]
                /\ past' = [past EXCEPT !.answers = Append(@, v)]

EndBody ==
    /\ job.pc = "body"
    /\ job' = [job EXCEPT !.pc = "next"]
    /\ UNCHANGED <<api, past>>

\* A function of the program, or the body of the loop, changes the list.  Bound: the
\* comparator of a sort changes it once.
ChangeList ==
    /\ job.pc \in {"called", "body"}
    /\ past.changed => job.fn # "sort"
    /\ \E c \in BoundedSeq(IF job.fn = "sort" THEN Key ELSE Item, MaxChange) :
         /\ c # api.lists[l1]
         /\ api' = [api EXCEPT !.lists[l1] = c]
         /\ past' = [past EXCEPT !.changed = TRUE, !.shrunk = @ \/ Len(c) < Len(api.lists[l1])]
    /\ UNCHANGED job

\* What an honest comparator says of its arguments.
Order(v, w) == Bool(IsNum(v) /\ IsNum(w) /\ v < w)

AnswerCall ==
    /\ job.pc = "called"
    /\ \E v \in Answer :
         LET args == Arguments(api, Takes)
             lie == job.fn = "sort" /\ v # Order(args[1], args[2])
         IN  /\ lie => past.lies < MaxLies
             /\ api' = Answered(api, Takes, v)
             /\ past' = [past EXCEPT !.lies = IF lie THEN @ + 1 ELSE @,
                                     !.answers = IF job.fn = "sort" THEN @ ELSE Append(@, v)]
    /\ job' = [job EXCEPT !.pc = "answered"]

\* A method is left with its last slot as its value, or with an error.  The next one is
\* called with the lists of before: they are all initial states, and a list has no
\* other memory.
Leave ==
    /\ api' = Quiet(past.lists)
    /\ job' = NoJob
    /\ past' = NoPast

Return == job.pc \in {"done", "raised"} /\ Leave

RaiseInCall == job.pc = "called" /\ Leave

\* Where a slot behind the items was touched, or the API misused, the model stops.
Strayed ==
    /\ job.pc = "strayed"
    /\ UNCHANGED vars

Next ==
    \/ CallSimple \/ CallPlus \/ CallSlice
    \/ CallLoop \/ Turn \/ UseAnswer \/ Finish
    \/ CallSort \/ CompareByCall \/ CompareNumbers \/ UseComparison
    \/ CallIter \/ NextItem \/ EndBody
    \/ ChangeList \/ AnswerCall \/ RaiseInCall
    \/ Return \/ Strayed

Spec == Init /\ [][Next]_vars

-----------------------------------------------------------------------------
(* Properties                                                              *)

\* Lists hold values, the frame of a running method too, and a sort's bounds stay
\* close to the list.
TypeOK ==
    /\ api.frame \in Seq(Value) /\ api.up \in Seq(Value)
    /\ api.lists \in [List -> Seq(Value)]
    /\ {api.fails, api.misused, api.strays, past.changed, past.shrunk} \subseteq BOOLEAN
    /\ job.pc \in {"idle", "turn", "called", "answered", "next", "body",
                   "done", "raised", "strayed"}
    /\ job.sort.i \in 0..job.len + 1 /\ job.sort.j \in -2..job.len

Result == Last(api.frame)
Ended(fns) == job.fn \in fns /\ job.pc \in {"done", "raised"}
Before == past.lists[l1]

\* The items at some positions, in order.
TheOne(set) == CHOOSE x \in set : TRUE
Chosen(s, at) ==
    [k \in 1..Cardinality(at) |->
        s[TheOne({p \in at : Cardinality({q \in at : q <= p}) = k})]]

\* A loop that calls a function for each item, and a loop of the program over the list,
\* has gone over each item once when it is over, and its value is made of the answers.
LoopResults ==
    Ended(Loops \cup {"iter"}) /\ job.pc = "done" /\ ~past.changed =>
        LET n == Len(past.answers)
            yes == {p \in 1..n : past.answers[p] = True}
            nils == {p \in DOMAIN Before : Before[p] = Nil}
        IN  /\ api.lists[l1] = Before
            /\ job.fn \in {"map", "filter", "foreach"} => n = Len(Before)
            /\ job.fn = "map" => Result = New /\ api.lists[New] = past.answers
            /\ job.fn = "filter" => Result = New /\ api.lists[New] = Chosen(Before, yes)
            /\ job.fn = "find" =>
                 IF yes = {} THEN n = Len(Before) /\ Result = Nil
                 ELSE yes = {n} /\ Result = Before[n]
            /\ job.fn = "foreach" => Result = l1
            /\ job.fn = "reduce" =>
                 Result = IF Before = << >> THEN l1 ELSE IF n = 0 THEN Before[1] ELSE past.answers[n]
            /\ job.fn = "iter" =>
                 past.answers = SubSeq(Before, 1, IF nils = {} THEN Len(Before) ELSE Min(nils) - 1)

\* However the list grows or changes under the loop, it is the function given that is
\* called, with the item that is now next and, for reduce, with its last answer; the
\* loop makes no more turns than the list had items.
CalledWithItems ==
    [][ job.fn \in Loops /\ job'.pc = "called" /\ job.pc = "turn" /\ ~past.shrunk =>
          /\ Callee(api', Takes) = past.args[1]
          /\ ValueAt(api', -1) = api.lists[l1][job.i + 1]
          /\ job.fn = "reduce" =>
               ValueAt(api', -2) = IF past.answers = << >> THEN Before[1] ELSE Last(past.answers)
          /\ job.i < Len(Before) ]_vars

\* Whatever its comparator answers, sort only moves items; with one that keeps to the
\* order, or none, they end up sorted.
SortsItems ==
    job.fn = "sort" /\ ~past.changed =>
        /\ ToBag(api.lists[l1]) = ToBag(Before)
        /\ job.pc = "done" /\ past.lies = 0 =>
             \A p \in 1..job.len - 1 : api.lists[l1][p] <= api.lists[l1][p + 1]

\* A comparator is called with two items of the list, whatever it answers.
AlwaysComparesItems ==
    job.fn = "sort" /\ job.pc = "called" /\ ~past.changed =>
        /\ Callee(api, 2) = past.args[1]
        /\ ToSet(Arguments(api, 2)) \subseteq ToSet(Before)

\* Sort keeps to the API, whatever its comparator answers.  One that contradicts the
\* order several times can make auxsort pop more than it pushed, the receiver at last.
SortKeepsApi == job.fn = "sort" /\ api.misused => past.shrunk

\* As above, while the comparator keeps to the order of its arguments.
ComparesItems == past.lies = 0 => AlwaysComparesItems

\* Sorting works, on whatever list and with whatever comparator.
SortWorks == SortsItems /\ ComparesItems

\* A loop over a list, of a method or of the program, uses the API as it must, whatever
\* functions do to the list but shorten it, and up to the error it may end with.  sort
\* of a list that stays as it is touches nothing behind its items whatever its
\* comparator answers, and misuses nothing while that keeps to the order.
CallersKeepApi ==
    /\ job.fn \in Loops /\ ~past.shrunk => ~api.misused /\ ~api.strays
    /\ job.fn = "iter" => ~api.misused /\ ~api.strays
    /\ job.fn = "sort" /\ ~past.changed => ~api.strays /\ (past.lies = 0 => ~api.misused)

\* The methods keep to the API.  The exceptions: extend of a value that is no list,
\* insert into an empty list, slices that start outside of the list, functions that
\* shorten the list under a loop, and comparators that contradict the order.
ApiKept ==
    /\ TypeOK
    /\ CallersKeepApi
    /\ api.misused => \/ past.shrunk
                      \/ job.fn = "sort" /\ past.lies > 0
                      \/ job.fn = "extend" /\ past.args[1] \notin List
    /\ api.strays =>
         \/ past.shrunk
         \/ job.fn = "insert" /\ Before = << >>
         \/ job.fn = "slice" /\ past.args[1] \notin 0..Len(Before) - 1

\* Unless a function shortens the list, no method touches what is behind its items:
\* an index given by the program is checked.
StaysInList == api.strays => past.shrunk
=============================================================================
