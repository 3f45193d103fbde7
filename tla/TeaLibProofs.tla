---------------------------- MODULE TeaLibProofs ----------------------------
(***************************************************************************)
(* The methods of lists that call functions keep their frame in shape and  *)
(* have the results they should, for lists of any length and any answers.  *)
(*                                                                         *)
(* A method is C code that leaves values on the frame between two calls    *)
(* and finds them again by their index; what it finds depends on what it   *)
(* pushed, on what the calls left and on lists that those may change.      *)
(* LibInv says what is where at each step.                                 *)
(***************************************************************************)
EXTENDS TeaLib, TeaLemmas

\* The items of every list.
Lists == [List -> Seq(Value)]
\* A state of the API in which a method goes on.
Good(a) == a \in Apis /\ ~a.fails /\ ~a.misused /\ ~a.strays

\* The ranges of a sort, and the types of the state.
Range2 == Int \X Int
Sorts == [at : {"none", "lu", "il", "ui", "up", "down"},
          l : Int, u : Int, i : Int, j : Int, rest : Seq(Range2)]
Fns == Simple \cup Loops \cup {"none", "slice", "+", "sort", "iter"}
Pcs == {"idle", "turn", "called", "answered", "next", "body", "done", "raised", "strayed"}
Jobs == [fn : Fns, pc : Pcs, len : Nat, i : Nat, sort : Sorts]
Pasts == [lists : Lists \cup {<< >>}, args : Seq(Value), answers : Seq(Value),
          changed : BOOLEAN, shrunk : BOOLEAN, lies : Nat]

\* Types; a method that has ended left the API as it found it.
Typed ==
    /\ job \in Jobs /\ past \in Pasts
    /\ past.shrunk => past.changed
    /\ job.pc = "idle" => api.lists \in Lists /\ api = Quiet(api.lists)
    /\ job.pc # "idle" => past.lists \in Lists
    /\ job.fn = "sort" /\ job.pc \in {"turn", "called", "answered"} => job.sort.at # "none"

-----------------------------------------------------------------------------
(* The invariant: methods that call a function for each item *)

\* A method is between two steps of its loop.
Running == job.pc \in {"turn", "called", "answered"}
Looping == job.fn \in Loops /\ Running

\* The slots a loop keeps, the answers it has used, what reduce has so far and
\* the items that were answered with true.
Base == IF job.fn \in {"find", "foreach"} THEN 2 ELSE 3
Used == IF job.fn = "reduce" THEN job.i - 1 ELSE job.i
Acc == IF past.answers = << >> THEN Before[1] ELSE Last(past.answers)
Yes(n) == {p \in 1..n : past.answers[p] = True}

\* One answer for each item gone over; reduce starts at the second.
LoopCounts ==
    Looping =>
        /\ Len(past.args) = 1
        /\ job.len = Len(Before) /\ job.i <= job.len
        /\ job.fn = "reduce" => job.i >= 1
        /\ Len(past.answers) = IF job.pc = "answered" THEN Used + 1 ELSE Used
        /\ job.pc # "turn" => job.i < job.len

\* The frame at each turn, for lists that did not lose items meanwhile: the
\* receiver, the function, what is being made, and the call or its answer.
LoopFrame ==
    Looping /\ ~past.shrunk =>
        /\ Good(api) /\ Len(api.lists[l1]) >= job.len
        /\ Len(api.frame) = Base + (IF job.pc = "turn" THEN 0 ELSE IF job.pc = "called" THEN 1 + Takes ELSE 1)
        /\ api.frame[1] = l1 /\ api.frame[2] = past.args[1]
        /\ job.fn \in {"map", "filter"} => api.frame[3] = New
        /\ job.fn = "reduce" /\ job.pc = "turn" => api.frame[3] = Acc
        /\ job.pc = "answered" => api.frame[Base + 1] = Last(past.answers)

\* What a loop has made of the items gone over.
LoopMakes ==
    Looping /\ ~past.changed =>
        /\ api.lists[l1] = Before
        /\ job.fn = "map" => api.lists[New] = SubSeq(past.answers, 1, job.i)
        /\ job.fn = "filter" => api.lists[New] = Chosen(Before, Yes(job.i))
        /\ job.fn = "find" => Yes(job.i) = {}

\* The upvalues of an iterator: the list and the items it has given.
IterUp ==
    job.fn = "iter" /\ job.pc \in {"next", "body"} =>
        /\ Good(api) /\ Len(api.lists[l1]) <= MaxLen
        /\ Len(api.up) = 2 /\ api.up[1] = l1 /\ api.up[2] = Len(past.answers)

\* An iterator has given the first items, and none was nil.
IterItems ==
    job.fn = "iter" /\ job.pc \in {"next", "body"} /\ ~past.changed =>
        /\ api.lists[l1] = Before
        /\ Len(past.answers) <= Len(Before)
        /\ \A p \in 1..Len(past.answers) : past.answers[p] = Before[p] /\ Before[p] # Nil

-----------------------------------------------------------------------------
(* The invariant: sort *)

\* Where the local variables of auxsort are at each of its comparisons.
SortBounds(s, n) ==
    /\ s.at # "none"
    /\ s.l \in 0..n-1 /\ s.u \in 0..n-1 /\ s.l < s.u
    /\ s.at \in {"il", "ui"} => s.u - s.l >= 2 /\ s.i = (s.l + s.u) \div 2
    /\ s.at \in {"up", "down"} => s.u - s.l >= 3 /\ s.i \in s.l + 1..s.u + 1
    /\ s.at = "up" => s.j \in s.l + 1..s.u - 1
    /\ s.at = "down" => s.j \in s.l - 1..s.u - 2
    /\ \A k \in DOMAIN s.rest : 0 <= s.rest[k][1] /\ s.rest[k][1] < s.rest[k][2] /\ s.rest[k][2] < n

\* The slots auxsort has at each comparison, apart from the call: past an end of
\* the list, which a comparator may lead it to, get_item pushes nothing.
Own(s, n) ==
    CASE s.at \in {"lu", "il", "ui"} -> 4
      [] s.at = "up" -> IF s.i < n THEN 4 ELSE 3
      [] s.at = "down" -> IF s.i < n THEN IF s.j >= 0 THEN 5 ELSE 4 ELSE IF s.j >= 0 THEN 4 ELSE 3

\* The receiver, the comparator or nil, and copies of the items compared.
SortSlots(fr, s, its, f) ==
    LET n == Len(its) IN
    /\ fr[1] = l1 /\ fr[2] = f
    /\ s.at = "lu" => fr[3] = its[s.l + 1] /\ fr[4] = its[s.u + 1]
    /\ s.at = "il" => fr[3] = its[s.i + 1] /\ fr[4] = its[s.l + 1]
    /\ s.at = "ui" => fr[3] = its[s.i + 1] /\ fr[4] = its[s.u + 1]
    /\ s.at \in {"up", "down"} => fr[3] = its[s.u] /\ (s.i < n => fr[4] = its[s.i + 1])
    /\ s.at = "down" /\ s.j >= 0 => fr[Own(s, n)] = its[s.j + 1]

\* A comparator that contradicts the order has made auxsort pop a slot too many:
\* an item is where the comparator was.
Lost(fr, s) == s.at = "lu" /\ Len(fr) = 3 /\ fr[1] = l1 /\ fr[2] \in Num

\* What is not in one of the ranges R is in order; the ranges are apart.
Covered(R, p, q) == \E k \in DOMAIN R : R[k][1] <= p /\ q <= R[k][2]
Ordered(its, R) ==
    \A p, q \in 0..Len(its) - 1 : p < q => its[p + 1] <= its[q + 1] \/ Covered(R, p, q)
Apart(R) == \A j, k \in DOMAIN R : j # k => R[j][2] < R[k][1] \/ R[k][2] < R[j][1]

\* The ranges still to be sorted, the current one last.
Pending(s) == Append(s.rest, <<s.l, s.u>>)

\* What auxsort knows of the items at each comparison.
SortKnows(s, its) ==
    /\ Apart(Pending(s)) /\ Ordered(its, Pending(s))
    /\ s.at = "il" => its[s.l + 1] <= its[s.u + 1]
    /\ s.at = "ui" => its[s.l + 1] <= its[s.u + 1] /\ its[s.l + 1] <= its[s.i + 1]
    /\ s.at \in {"up", "down"} =>
         /\ s.i <= s.u - 1
         /\ \A k \in s.l..s.i - 1 : its[k + 1] <= its[s.u]
    /\ s.at = "up" => \A k \in s.j..s.u : its[k + 1] >= its[s.u]
    /\ s.at = "down" =>
         /\ s.j >= s.l
         /\ its[s.i + 1] >= its[s.u]
         /\ \A k \in s.j + 1..s.u : its[k + 1] >= its[s.u]

\* The comparator, and the slots of a call.
Comparator == IF Len(past.args) = 1 THEN past.args[1] ELSE Nil
Extra == IF job.pc = "turn" THEN 0 ELSE IF job.pc = "called" THEN 3 ELSE 1

\* Nothing behind the items is touched and, while the comparator keeps to the order,
\* the API is used as it must.
Tidy(a, honest) == ~a.strays /\ (honest => ~a.misused)

\* The items are those there were, and are in order in the end.
SortItems ==
    job.fn = "sort" /\ job.pc # "idle" /\ ~past.changed =>
        /\ api \in Apis
        /\ api.lists[l1] \in Seq(Key) /\ job.len = Len(Before) /\ Len(api.lists[l1]) = job.len
        /\ ToBag(api.lists[l1]) = ToBag(Before)
        /\ job.pc = "done" /\ past.lies = 0 => Ordered(api.lists[l1], << >>)
        /\ Tidy(api, past.lies = 0)

\* A sort of a list that nothing else changes.
Sorting == job.fn = "sort" /\ Running /\ ~past.changed
D == Own(job.sort, job.len)

\* The frame of a sort at each comparison.
SortFrame ==
    Sorting =>
        /\ Good(api) /\ Comparator \in {Fn, Nil}
        /\ SortBounds(job.sort, job.len)
        /\ \/ /\ Len(api.frame) = D + Extra
              /\ SortSlots(api.frame, job.sort, api.lists[l1], Comparator)
           \/ /\ Lost(api.frame, job.sort) /\ job.pc = "turn" /\ past.lies > 0
        /\ past.lies = 0 => SortKnows(job.sort, api.lists[l1])

\* The call of the comparator, and its answer.
SortCall ==
    Sorting =>
        /\ job.pc # "turn" => Comparator = Fn
        /\ job.pc = "called" =>
             /\ api.frame[D + 1] = Fn
             /\ api.frame[D + 2] = api.frame[D + 1 + Compared(job.sort.at)[1]]
             /\ api.frame[D + 3] = api.frame[D + 1 + Compared(job.sort.at)[2]]
        /\ job.pc = "answered" /\ past.lies = 0 =>
             api.frame[D + 1] = Order(api.frame[D + 1 + Compared(job.sort.at)[1]],
                                      api.frame[D + 1 + Compared(job.sort.at)[2]])

\* Values of different kinds differ.
LEMMA Kinds ==
    /\ Num \subseteq Int
    /\ Num \cap List = {} /\ Atom \cap (Num \cup List) = {}
    /\ Fn # Str /\ Fn # Iter /\ Fn # Nil /\ Fn # True /\ Fn # False
    /\ Str # Iter /\ Str # Nil /\ Str # True /\ Str # False
    /\ Iter # Nil /\ Iter # True /\ Iter # False
    /\ Nil # True /\ Nil # False /\ True # False
    /\ NoValue \notin Value
    /\ List = {l1, l2, New} /\ l1 # l2 /\ l1 # New /\ l2 # New
    /\ Num \subseteq Value /\ List \subseteq Value /\ Atom \subseteq Value
<1> DEFINE s == <<Fn, Str, Iter, Nil, True, False>>
<1>1. \A i, j \in 1..6 : s[i] = s[j] => i = j
  BY ApiConstantsOK DEF IsInjective
<1>2. \A i \in 1..6 : \A j \in 1..6 : i < j => s[i] # s[j]
  BY <1>1
<1>3. /\ Fn # Str /\ Fn # Iter /\ Fn # Nil /\ Fn # True /\ Fn # False
    /\ Str # Iter /\ Str # Nil /\ Str # True /\ Str # False
    /\ Iter # Nil /\ Iter # True /\ Iter # False
    /\ Nil # True /\ Nil # False /\ True # False
  BY <1>1
<1> QED
  BY <1>3, ApiConstantsOK, LibConstantsOK DEF Value, Atom

-----------------------------------------------------------------------------
(* The API *)

\* A state of the API with another frame.
LEMMA WithFrame ==
    ASSUME NEW a \in Apis, NEW fr \in Seq(Value)
    PROVE  LET b == [a EXCEPT !.frame = fr] IN
           /\ b \in Apis /\ b.frame = fr /\ b.up = a.up /\ b.lists = a.lists
           /\ b.fails = a.fails /\ b.misused = a.misused /\ b.strays = a.strays
BY DEF Apis

\* The same with other upvalues.
LEMMA WithUp ==
    ASSUME NEW a \in Apis, NEW up \in Seq(Value)
    PROVE  LET b == [a EXCEPT !.up = up] IN
           /\ b \in Apis /\ b.frame = a.frame /\ b.up = up /\ b.lists = a.lists
           /\ b.fails = a.fails /\ b.misused = a.misused /\ b.strays = a.strays
BY DEF Apis

\* The same with other lists.
LEMMA WithLists ==
    ASSUME NEW a \in Apis, NEW ls \in Lists
    PROVE  LET b == [a EXCEPT !.lists = ls] IN
           /\ b \in Apis /\ b.frame = a.frame /\ b.up = a.up /\ b.lists = ls
           /\ b.fails = a.fails /\ b.misused = a.misused /\ b.strays = a.strays
BY DEF Apis, Lists

\* The types of its parts.
LEMMA GoodOK ==
    ASSUME NEW a, Good(a)
    PROVE  /\ a \in Apis /\ a.frame \in Seq(Value) /\ Len(a.frame) \in Nat
           /\ a.up \in Seq(Value) /\ Len(a.up) \in Nat
           /\ a.lists \in Lists
           /\ \A l \in List : a.lists[l] \in Seq(Value) /\ Len(a.lists[l]) \in Nat
           /\ \A p \in 1..Len(a.frame) : a.frame[p] \in Value
BY DEF Good, Apis, Lists

\* b is a with v pushed.
Grown(a, b, v) ==
    /\ Good(b) /\ b.up = a.up /\ b.lists = a.lists
    /\ Len(b.frame) = Len(a.frame) + 1 /\ b.frame[Len(a.frame) + 1] = v
    /\ \A p \in 1..Len(a.frame) : b.frame[p] = a.frame[p]

\* b is a without its last n slots.
Dropped(a, b, n) ==
    /\ Good(b) /\ b.up = a.up /\ b.lists = a.lists
    /\ Len(b.frame) = Len(a.frame) - n
    /\ \A p \in 1..Len(a.frame) - n : b.frame[p] = a.frame[p]

\* A precondition that holds changes nothing.
LEMMA ExpectTrue ==
    ASSUME NEW a, Good(a), NEW c, c
    PROVE  Expect(a, c) = a
BY DEF Good, Apis, Expect

\* tea_push_*
LEMMA PushGood ==
    ASSUME NEW a, Good(a), NEW v \in Value
    PROVE  Grown(a, Push(a, v), v)
<1>1. a \in Apis /\ a.frame \in Seq(Value)
  BY GoodOK
<1>2. /\ Append(a.frame, v) \in Seq(Value) /\ Len(Append(a.frame, v)) = Len(a.frame) + 1
      /\ Append(a.frame, v)[Len(a.frame) + 1] = v
      /\ \A p \in 1..Len(a.frame) : Append(a.frame, v)[p] = a.frame[p]
  BY <1>1
<1> DEFINE fr == Append(a.frame, v)
<1> HIDE DEF fr
<1>3. /\ fr \in Seq(Value) /\ Len(fr) = Len(a.frame) + 1 /\ fr[Len(a.frame) + 1] = v
      /\ \A p \in 1..Len(a.frame) : fr[p] = a.frame[p]
  BY <1>2 DEF fr
<1>4. Push(a, v) = [a EXCEPT !.frame = fr]
  BY DEF Push, fr
<1> DEFINE b == [a EXCEPT !.frame = fr]
<1>5. /\ b \in Apis /\ b.frame = fr /\ b.up = a.up /\ b.lists = a.lists
      /\ b.fails = a.fails /\ b.misused = a.misused /\ b.strays = a.strays
  BY <1>1, <1>3, WithFrame
<1> HIDE DEF b
<1>6. Grown(a, b, v)
  BY <1>3, <1>5 DEF Good, Grown
<1> QED
  BY <1>4, <1>6 DEF b

\* tea_pop
LEMMA PopGood ==
    ASSUME NEW a, Good(a), NEW n \in 0..Len(a.frame)
    PROVE  Dropped(a, tea_pop(a, n), n)
<1>1. a \in Apis /\ a.frame \in Seq(Value) /\ Len(a.frame) \in Nat
  BY GoodOK
<1> DEFINE fr == SubSeq(a.frame, 1, Len(a.frame) - n)
<1>2. fr \in Seq(Value) /\ Len(fr) = Len(a.frame) - n /\ \A p \in 1..Len(a.frame) - n : fr[p] = a.frame[p]
  BY <1>1
<1>3. Expect(a, n <= tea_get_top(a)) = a
  BY <1>1 DEF Good, Apis, Expect, tea_get_top
<1>4. tea_pop(a, n) = [a EXCEPT !.frame = fr]
  BY <1>3 DEF tea_pop, tea_get_top
<1> HIDE DEF fr
<1> DEFINE b == [a EXCEPT !.frame = fr]
<1>5. /\ b \in Apis /\ b.frame = fr /\ b.up = a.up /\ b.lists = a.lists
      /\ b.fails = a.fails /\ b.misused = a.misused /\ b.strays = a.strays
  BY <1>1, <1>2, WithFrame
<1> HIDE DEF b
<1>6. Dropped(a, b, n)
  BY <1>2, <1>5 DEF Good, Dropped
<1> QED
  BY <1>4, <1>6 DEF b

\* Slots counted from the base and from the top.
LEMMA FromBase ==
    ASSUME NEW a, Good(a), NEW p \in 1..Len(a.frame)
    PROVE  /\ index2addr(a, p - 1) = a.frame[p] /\ ValueAt(a, p - 1) = a.frame[p]
           /\ Exists(a, p - 1) /\ Valid(a, p - 1)
<1>1. a.frame \in Seq(Value) /\ Len(a.frame) \in Nat /\ a.frame[p] \in Value
  BY GoodOK
<1>2. p - 1 >= 0 /\ (p - 1) + 1 = p /\ p \in DOMAIN a.frame /\ ~(p - 1 <= -11000) /\ p >= 1
  BY <1>1
<1>3. index2addr(a, p - 1) = a.frame[p] /\ Valid(a, p - 1)
  BY <1>2 DEF index2addr, Valid, Position, TEA_UPVALUES_INDEX, TEA_REGISTRY_INDEX
<1> QED
  BY <1>1, <1>3, Kinds DEF ValueAt, Exists

\* index2addr counts from the top for negative indices.
LEMMA FromTop ==
    ASSUME NEW a, Good(a), NEW k \in Int, k < 0, k >= -100, Len(a.frame) + 1 + k >= 1
    PROVE  /\ index2addr(a, k) = a.frame[Len(a.frame) + 1 + k]
           /\ ValueAt(a, k) = a.frame[Len(a.frame) + 1 + k]
           /\ Exists(a, k) /\ Valid(a, k)
<1>1. a.frame \in Seq(Value) /\ Len(a.frame) \in Nat
  BY GoodOK
<1> DEFINE p == Len(a.frame) + 1 + k
<1>2. p \in 1..Len(a.frame) /\ p \in DOMAIN a.frame
  BY <1>1
<1>3. a.frame[p] \in Value /\ Position(a, k) = p
  BY <1>1, <1>2 DEF Position, tea_get_top
<1>4. ~(k <= TEA_UPVALUES_INDEX)
  BY DEF TEA_UPVALUES_INDEX
<1>5. index2addr(a, k) = a.frame[p] /\ Valid(a, k)
  BY <1>2, <1>3, <1>4 DEF index2addr, Valid
<1> QED
  BY <1>3, <1>5, Kinds DEF ValueAt, Exists

\* A slot counted from either end.
LEMMA SlotValue ==
    ASSUME NEW a, Good(a), NEW p \in 1..Len(a.frame), NEW k \in Int,
           k = p - 1 \/ (k = p - Len(a.frame) - 1 /\ Len(a.frame) < 100)
    PROVE  ValueAt(a, k) = a.frame[p] /\ index2addr(a, k) = a.frame[p] /\ Valid(a, k) /\ Exists(a, k)
<1>1. a.frame \in Seq(Value) /\ Len(a.frame) \in Nat
  BY GoodOK
<1>2. CASE k = p - 1
  BY <1>2, FromBase
<1>3. CASE k = p - Len(a.frame) - 1 /\ Len(a.frame) < 100
  <2> DEFINE n == Len(a.frame)
  <2>0. n \in Nat /\ n < 100 /\ p \in 1..n /\ k = p - n - 1
    BY <1>1, <1>3
  <2> HIDE DEF n
  <2>1. k < 0 /\ k >= -100 /\ n + 1 + k = p /\ p >= 1
    BY <2>0
  <2> QED
    BY <2>1, FromTop DEF n
<1> QED
  BY <1>2, <1>3

\* tea_push_value
LEMMA PushValueGood ==
    ASSUME NEW a, Good(a), NEW k \in Int, NEW p \in 1..Len(a.frame),
           k = p - 1 \/ (k = p - Len(a.frame) - 1 /\ Len(a.frame) < 100)
    PROVE  Grown(a, tea_push_value(a, k), a.frame[p])
<1>1. a.frame \in Seq(Value) /\ Len(a.frame) \in Nat /\ a.frame[p] \in Value
  BY GoodOK
<1>2. ValueAt(a, k) = a.frame[p] /\ Valid(a, k)
  BY SlotValue
<1>3. Expect(a, Valid(a, k)) = a
  BY <1>2 DEF Good, Apis, Expect
<1>4. tea_push_value(a, k) = Push(a, a.frame[p])
  BY <1>2, <1>3 DEF tea_push_value
<1> QED
  BY <1>1, <1>4, PushGood

\* The list in a slot.
LEMMA ListIn ==
    ASSUME NEW a, Good(a), NEW k \in Nat, k < Len(a.frame), a.frame[k + 1] \in List
    PROVE  /\ ListAt(a, k) = a.frame[k + 1] /\ IsList(ListAt(a, k))
           /\ tea_len(a, k) = Len(a.lists[a.frame[k + 1]])
<1>1. k + 1 \in 1..Len(a.frame) /\ (k + 1) - 1 = k
  BY GoodOK
<1>2. index2addr(a, k) = a.frame[k + 1]
  BY <1>1, FromBase
<1> QED
  BY <1>2 DEF ListAt, IsList, tea_len

\* tea_get_item pushes an item,
LEMMA GetItemGood ==
    ASSUME NEW a, Good(a), Len(a.frame) >= 1, NEW l \in List, a.frame[1] = l,
           NEW i \in 0..Len(a.lists[l]) - 1
    PROVE  Grown(a, tea_get_item(a, 0, i), a.lists[l][i + 1])
<1>1. ListAt(a, 0) = l /\ IsList(ListAt(a, 0)) /\ tea_len(a, 0) = Len(a.lists[l])
  BY ListIn, GoodOK
<1>2. a.lists[l] \in Seq(Value) /\ Len(a.lists[l]) \in Nat /\ a.lists[l][i + 1] \in Value
  BY GoodOK
<1>3. Expect(a, IsList(ListAt(a, 0))) = a
  BY <1>1 DEF Good, Apis, Expect
<1>4. tea_get_item(a, 0, i) = Push(a, a.lists[l][i + 1])
  BY <1>1, <1>2, <1>3 DEF tea_get_item, InList, OutOfBounds
<1> QED
  BY <1>2, <1>4, PushGood

\* or nothing at all when there is no such item.
LEMMA GetItemNone ==
    ASSUME NEW a, Good(a), Len(a.frame) >= 1, NEW l \in List, a.frame[1] = l,
           NEW i \in Int, i < 0 \/ i >= Len(a.lists[l]), Len(a.lists[l]) > 0
    PROVE  tea_get_item(a, 0, i) = a
<1>1. ListAt(a, 0) = l /\ IsList(ListAt(a, 0)) /\ tea_len(a, 0) = Len(a.lists[l])
  BY ListIn, GoodOK
<1>2. Len(a.lists[l]) \in Nat
  BY GoodOK
<1>3. Expect(a, IsList(ListAt(a, 0))) = a
  BY <1>1 DEF Good, Apis, Expect
<1> QED
  BY <1>1, <1>2, <1>3 DEF tea_get_item, InList, OutOfBounds

\* One item of a list replaced.
Put(ls, l, i, v) == [ls EXCEPT ![l][i + 1] = v]

\* Replacing an item leaves the others.
LEMMA PutOK ==
    ASSUME NEW ls \in Lists, NEW l \in List, NEW i \in 0..Len(ls[l]) - 1, NEW v \in Value
    PROVE  /\ Put(ls, l, i, v) \in Lists
           /\ \A m \in List : m # l => Put(ls, l, i, v)[m] = ls[m]
           /\ Put(ls, l, i, v)[l] = [ls[l] EXCEPT ![i + 1] = v]
           /\ Len(Put(ls, l, i, v)[l]) = Len(ls[l])
<1>1. ls[l] \in Seq(Value) /\ Len(ls[l]) \in Nat
  BY DEF Lists
<1>2. [ls[l] EXCEPT ![i + 1] = v] \in Seq(Value) /\ Len([ls[l] EXCEPT ![i + 1] = v]) = Len(ls[l])
  BY <1>1
<1> QED
  BY <1>2 DEF Lists, Put

\* b is a with its last slot moved to the list.
Moved(a, b, l, i) ==
    /\ Good(b) /\ b.up = a.up /\ b.lists = Put(a.lists, l, i, a.frame[Len(a.frame)])
    /\ Len(b.frame) = Len(a.frame) - 1
    /\ \A p \in 1..Len(a.frame) - 1 : b.frame[p] = a.frame[p]

\* tea_set_item takes the top slot,
LEMMA SetItemGood ==
    ASSUME NEW a, Good(a), Len(a.frame) >= 1, NEW l \in List, a.frame[1] = l,
           NEW i \in 0..Len(a.lists[l]) - 1
    PROVE  Moved(a, tea_set_item(a, 0, i), l, i)
<1>1. ListAt(a, 0) = l /\ IsList(ListAt(a, 0)) /\ tea_len(a, 0) = Len(a.lists[l])
  BY ListIn, GoodOK
<1>2. /\ a \in Apis /\ a.lists \in Lists /\ Len(a.lists[l]) \in Nat /\ Len(a.frame) \in Nat
      /\ a.frame[Len(a.frame)] \in Value
  BY GoodOK
<1>3. ValueAt(a, -1) = a.frame[Len(a.frame)]
  <2>1. -1 \in Int /\ -1 < 0 /\ -1 >= -100 /\ Len(a.frame) + 1 + (-1) = Len(a.frame)
    BY <1>2
  <2> QED
    BY <2>1, FromTop
<1>4. Expect(a, IsList(ListAt(a, 0)) /\ tea_get_top(a) >= 1) = a
  BY <1>1 DEF Good, Apis, Expect, tea_get_top
<1> DEFINE v == a.frame[Len(a.frame)]
           b == [a EXCEPT !.lists = Put(a.lists, l, i, v)]
<1>5. /\ b \in Apis /\ b.frame = a.frame /\ b.up = a.up /\ b.lists = Put(a.lists, l, i, v)
      /\ b.fails = a.fails /\ b.misused = a.misused /\ b.strays = a.strays
  BY <1>2, PutOK, WithLists
<1>6. b = [a EXCEPT !.lists[l][i + 1] = v]
  BY DEF Put
<1>7. InList(a, 0, i) /\ tea_len(a, 0) # 0
  BY <1>1, <1>2 DEF InList, OutOfBounds
<1>8. tea_set_item(a, 0, i) = tea_pop([a EXCEPT !.lists[l][i + 1] = v], 1)
  BY <1>1, <1>3, <1>4, <1>7 DEF tea_set_item
<1> HIDE DEF b
<1>9. Good(b) /\ 1 \in 0..Len(b.frame)
  BY <1>2, <1>5 DEF Good
<1>10. Dropped(b, tea_pop(b, 1), 1)
  BY <1>9, PopGood
<1>11. Moved(a, tea_pop(b, 1), l, i)
  BY <1>5, <1>10 DEF Dropped, Moved
<1> QED
  BY <1>6, <1>8, <1>11 DEF b

\* or leaves it there when there is no such item.
LEMMA SetItemNone ==
    ASSUME NEW a, Good(a), Len(a.frame) >= 1, NEW l \in List, a.frame[1] = l,
           NEW i \in Int, i < 0 \/ i >= Len(a.lists[l]), Len(a.lists[l]) > 0
    PROVE  tea_set_item(a, 0, i) = a
<1>1. ListAt(a, 0) = l /\ IsList(ListAt(a, 0)) /\ tea_len(a, 0) = Len(a.lists[l])
  BY ListIn, GoodOK
<1>2. Len(a.lists[l]) \in Nat
  BY GoodOK
<1>3. Expect(a, IsList(ListAt(a, 0)) /\ tea_get_top(a) >= 1) = a
  BY <1>1 DEF Good, Apis, Expect, tea_get_top
<1> QED
  BY <1>1, <1>2, <1>3 DEF tea_set_item, InList, OutOfBounds

\* tea_list_add
LEMMA ListAddIs ==
    ASSUME NEW ls \in Lists, NEW l \in List, NEW v \in Value
    PROVE  /\ tea_list_add(ls, l, v) \in Lists
           /\ tea_list_add(ls, l, v)[l] = Append(ls[l], v)
           /\ \A m \in List : m # l => tea_list_add(ls, l, v)[m] = ls[m]
<1>1. ls[l] \in Seq(Value) /\ Append(ls[l], v) \in Seq(Value)
  BY DEF Lists
<1> QED
  BY <1>1 DEF Lists, tea_list_add

\* The value on top is added to the new list, in slot 2.
LEMMA AddItemGood ==
    ASSUME NEW a, Good(a), Len(a.frame) >= 3, a.frame[3] = New
    PROVE  LET b == tea_add_item(a, 2)
           IN  /\ Good(b) /\ b.up = a.up
               /\ Len(b.frame) = Len(a.frame) - 1
               /\ \A p \in 1..Len(a.frame) - 1 : b.frame[p] = a.frame[p]
               /\ b.lists = tea_list_add(a.lists, New, a.frame[Len(a.frame)])
<1> DEFINE v == a.frame[Len(a.frame)]
           ls == tea_list_add(a.lists, New, v)
           b == [a EXCEPT !.lists = ls]
<1>1. ListAt(a, 2) = New /\ IsList(ListAt(a, 2))
  <2>1. 2 \in Nat /\ 2 < Len(a.frame) /\ a.frame[2 + 1] = New /\ New \in List
    BY Kinds, GoodOK
  <2> QED
    BY <2>1, ListIn
<1>2. /\ a \in Apis /\ a.lists \in Lists /\ Len(a.frame) \in Nat /\ v \in Value
  BY GoodOK
<1>3. ValueAt(a, -1) = v
  <2>1. -1 \in Int /\ -1 < 0 /\ -1 >= -100 /\ Len(a.frame) + 1 + (-1) = Len(a.frame)
    BY <1>2
  <2> QED
    BY <2>1, FromTop
<1>5. ls \in Lists
  BY <1>2, ListAddIs, Kinds
<1>6. tea_add_item(a, 2) = tea_pop([a EXCEPT !.lists = tea_list_add(@, New, v)], 1)
  BY <1>1, <1>3 DEF tea_add_item
<1>7. b = [a EXCEPT !.lists = tea_list_add(@, New, v)]
  OBVIOUS
<1> HIDE DEF ls, v
<1>8. /\ b \in Apis /\ b.frame = a.frame /\ b.up = a.up /\ b.lists = ls
      /\ b.fails = a.fails /\ b.misused = a.misused /\ b.strays = a.strays
  BY <1>2, <1>5, WithLists
<1> HIDE DEF b
<1>9. Good(b) /\ 1 \in 0..Len(b.frame)
  BY <1>2, <1>8 DEF Good
<1>10. Dropped(b, tea_pop(b, 1), 1)
  BY <1>9, PopGood
<1>11. tea_add_item(a, 2) = tea_pop(b, 1)
  BY <1>6, <1>7
<1> QED
  BY <1>8, <1>10, <1>11 DEF Dropped, ls, v

-----------------------------------------------------------------------------
(* Chosen items *)

\* With one more position behind those chosen, one more item is chosen.
LEMMA ChosenNext ==
    ASSUME NEW s, NEW n \in Nat, NEW at, at \subseteq 1..n
    PROVE  /\ Cardinality(at) \in Nat
           /\ Chosen(s, at \cup {n + 1}) =
                [k \in 1..Cardinality(at) + 1 |->
                    IF k <= Cardinality(at) THEN Chosen(s, at)[k] ELSE s[n + 1]]
<1> DEFINE at1 == at \cup {n + 1}
           Upto(p) == {q \in at : q <= p}
           Upto1(p) == {q \in at1 : q <= p}
           c == Cardinality(at)
<1>1. IsFiniteSet(1..n) /\ IsFiniteSet(at)
  <2>1. 1 \in Int /\ n \in Int
    OBVIOUS
  <2>2. IsFiniteSet(1..n)
    BY <2>1, FS_Interval
  <2> QED
    BY <2>2, FS_Subset
<1>2. c \in Nat /\ Cardinality(at1) = c + 1
  <2>1. n + 1 \notin at
    OBVIOUS
  <2> QED
    BY <1>1, <2>1, FS_AddElement, FS_CardinalityType
<1>3. \A p \in at : Upto1(p) = Upto(p)
  OBVIOUS
<1>4. \A p \in at : Cardinality(Upto(p)) \in Nat /\ Cardinality(Upto(p)) <= c
  BY <1>1, FS_Subset, FS_CardinalityType
<1>5. Upto1(n + 1) = at1
  <2>1. \A q \in at1 : q <= n + 1
    OBVIOUS
  <2> QED
    BY <2>1
<1> DEFINE r(p) == Cardinality(Upto(p))
           r1(p) == Cardinality(Upto1(p))
<1>0. /\ \A p \in at : r1(p) = r(p) /\ r(p) \in Nat /\ r(p) <= c
      /\ r1(n + 1) = c + 1 /\ n + 1 \notin at /\ c \in Nat
  BY <1>2, <1>3, <1>4, <1>5
<1> HIDE DEF r, r1, c
<1>6. ASSUME NEW k \in 1..c
      PROVE  {p \in at1 : r1(p) = k} = {p \in at : r(p) = k}
  <2>1. k # c + 1
    BY <1>0
  <2>2. ASSUME NEW p \in at1, r1(p) = k PROVE p \in at /\ r(p) = k
    BY <1>0, <2>1, <2>2
  <2>3. ASSUME NEW p \in at, r(p) = k PROVE p \in at1 /\ r1(p) = k
    BY <1>0, <2>3
  <2> QED
    BY <2>2, <2>3
<1>7. {p \in at1 : r1(p) = c + 1} = {n + 1}
  <2>1. ASSUME NEW p \in at1, r1(p) = c + 1 PROVE p = n + 1
    BY <1>0, <2>1
  <2>2. n + 1 \in at1
    OBVIOUS
  <2> QED
    BY <1>0, <2>1, <2>2
<1>8. TheOne({n + 1}) = n + 1
  BY DEF TheOne
<1>9. Chosen(s, at) = [k \in 1..c |-> s[TheOne({p \in at : r(p) = k})]]
  BY DEF Chosen, r, c
<1>10. Chosen(s, at1) = [k \in 1..c + 1 |-> s[TheOne({p \in at1 : r1(p) = k})]]
  BY <1>2 DEF Chosen, r1
<1> DEFINE N(k) == {p \in at : r(p) = k}
           N1(k) == {p \in at1 : r1(p) = k}
<1>11. \A k \in 1..c : N1(k) = N(k)
  BY <1>6
<1>12. N1(c + 1) = {n + 1}
  BY <1>7
<1>13. Chosen(s, at) = [k \in 1..c |-> s[TheOne(N(k))]] /\ Chosen(s, at1) = [k \in 1..c + 1 |-> s[TheOne(N1(k))]]
  BY <1>9, <1>10
<1> HIDE DEF N, N1, at1
<1>14. \A k \in 1..c + 1 : s[TheOne(N1(k))] = IF k <= c THEN Chosen(s, at)[k] ELSE s[n + 1]
  <2>1. ASSUME NEW k \in 1..c + 1, k <= c PROVE s[TheOne(N1(k))] = Chosen(s, at)[k]
    BY <1>2, <1>11, <1>13, <2>1
  <2>2. ASSUME NEW k \in 1..c + 1, ~(k <= c) PROVE s[TheOne(N1(k))] = s[n + 1]
    <3>1. k = c + 1
      BY <1>2, <2>2
    <3> QED
      BY <1>8, <1>12, <3>1
  <2> QED
    BY <2>1, <2>2
<1> QED
  BY <1>2, <1>13, <1>14 DEF c, at1

\* None is chosen of no positions.
LEMMA ChosenNone == \A s : Chosen(s, {}) = << >>
<1>1. Cardinality({}) = 0
  BY FS_EmptySet
<1>2. ASSUME NEW s PROVE Chosen(s, {}) = << >>
  <2>1. DOMAIN Chosen(s, {}) = {}
    BY <1>1 DEF Chosen
  <2>2. Chosen(s, {}) = [k \in {} |-> 0]
    BY <2>1, <1>1 DEF Chosen
  <2> QED
    BY <2>2
<1> QED
  BY <1>2

\* What filter makes.
LEMMA ChosenAppend ==
    ASSUME NEW s \in Seq(Value), NEW n \in Nat, n + 1 <= Len(s), NEW at, at \subseteq 1..n,
           NEW t \in Seq(Value), t = Chosen(s, at)
    PROVE  Append(t, s[n + 1]) = Chosen(s, at \cup {n + 1})
<1>1. /\ Cardinality(at) \in Nat
      /\ Chosen(s, at \cup {n + 1}) =
            [k \in 1..Cardinality(at) + 1 |-> IF k <= Cardinality(at) THEN t[k] ELSE s[n + 1]]
  BY ChosenNext
<1>2. DOMAIN t = 1..Cardinality(at)
  BY DEF Chosen
<1>3. Len(t) = Cardinality(at)
  BY <1>1, <1>2
<1> DEFINE v == s[n + 1]
           c == Cardinality(at)
<1>4. c \in Nat /\ c = Len(t) /\ Chosen(s, at \cup {n + 1}) = [k \in 1..c + 1 |-> IF k <= c THEN t[k] ELSE v]
  BY <1>1, <1>3
<1> HIDE DEF v, c
<1>5. Append(t, v) = [k \in 1..c + 1 |-> IF k <= c THEN t[k] ELSE v]
  <2>1. v \in Value
    BY DEF v
  <2> DEFINE u == Append(t, v)
  <2>2. /\ u \in Seq(Value) /\ Len(u) = c + 1 /\ u[c + 1] = v
        /\ \A k \in 1..c : u[k] = t[k]
    BY <1>4, <2>1
  <2> HIDE DEF u
  <2>3. DOMAIN u = 1..c + 1 /\ u = [k \in DOMAIN u |-> u[k]]
    BY <2>2
  <2>4. \A k \in 1..c + 1 : u[k] = IF k <= c THEN t[k] ELSE v
    BY <1>4, <2>2
  <2>5. u = [k \in 1..c + 1 |-> IF k <= c THEN t[k] ELSE v]
    BY <2>3, <2>4
  <2> QED
    BY <2>5 DEF u
<1> QED
  BY <1>4, <1>5 DEF v

-----------------------------------------------------------------------------
(* Calls and checks *)

\* The checks of arguments raise an error or change nothing.
LEMMA CheckGood ==
    ASSUME NEW a, Good(a), NEW k \in Int, NEW T, Valid(a, k)
    PROVE  /\ index2addr(a, k) \in T => Check(a, k, T) = a
           /\ index2addr(a, k) \notin T => Check(a, k, T) = Raise(a)
           /\ index2addr(a, k) \notin T => Check(a, k, T).fails
           /\ Check(a, k, T).frame = a.frame
<1>1. Expect(a, Valid(a, k)) = a
  BY DEF Good, Apis, Expect
<1>2. Raise(a).fails /\ Raise(a).frame = a.frame
  BY DEF Good, Apis, Raise
<1> QED
  BY <1>1, <1>2 DEF Check

\* An error stays.
LEMMA FailsKept ==
    ASSUME NEW a, Good(a)
    PROVE  LET b == Raise(a) IN
           /\ b.fails /\ tea_new_list(b, New).fails /\ tea_pop(b, 1).fails
           /\ tea_get_item(b, 0, 0).fails
<1> DEFINE b == Raise(a)
<1>1. b = [a EXCEPT !.fails = TRUE]
  BY DEF Raise
<1>2. \A c, v : /\ DOMAIN c = DOMAIN a /\ c.fails => Push(c, v).fails /\ DOMAIN Push(c, v) = DOMAIN a
                /\ DOMAIN c = DOMAIN a /\ c.fails => Expect(c, v).fails /\ DOMAIN Expect(c, v) = DOMAIN a
  BY DEF Good, Apis, Push, Expect
<1>3. DOMAIN b = DOMAIN a /\ b.fails
  BY <1>1 DEF Good, Apis
<1> DEFINE d == [b EXCEPT !.lists[New] = << >>]
<1>4. d.fails /\ DOMAIN d = DOMAIN a
  BY <1>3 DEF Good, Apis
<1>5. tea_new_list(b, New) = Push(d, New)
  BY DEF tea_new_list
<1>6. tea_new_list(b, New).fails
  BY <1>2, <1>4, <1>5
<1>7. tea_pop(b, 1).fails
  <2> DEFINE e == Expect(b, 1 <= tea_get_top(b))
  <2>1. e.fails /\ DOMAIN e = DOMAIN a
    BY <1>2, <1>3
  <2>2. tea_pop(b, 1) = [e EXCEPT !.frame = SubSeq(@, 1, tea_get_top(b) - 1)]
    BY DEF tea_pop
  <2> HIDE DEF e
  <2> QED
    BY <2>1, <2>2 DEF Good, Apis
<1>8. tea_get_item(b, 0, 0).fails
  <2> DEFINE e == Expect(b, IsList(ListAt(b, 0)))
  <2>1. e.fails /\ DOMAIN e = DOMAIN a
    BY <1>2, <1>3
  <2>2. Touch(e, 0, 0).fails /\ DOMAIN Touch(e, 0, 0) = DOMAIN a
    <3> HIDE DEF e
    <3> QED
      BY <2>1 DEF Good, Apis, Touch
  <2>3. \/ tea_get_item(b, 0, 0) = e
        \/ tea_get_item(b, 0, 0) = Push(Touch(e, 0, 0), Nil)
        \/ tea_get_item(b, 0, 0) = Push(e, b.lists[ListAt(b, 0)][0 + 1])
    BY DEF tea_get_item
  <2> HIDE DEF e
  <2> QED
    BY <1>2, <2>1, <2>2, <2>3
<1> HIDE DEF b
<1> QED
  BY <1>3, <1>6, <1>7, <1>8 DEF b

\* A call goes on only if nothing is wrong.
LEMMA AfterIs ==
    ASSUME NEW a, NEW pc
    PROVE  /\ After(a, pc) \in {"raised", "strayed", pc}
           /\ Good(a) => After(a, pc) = pc
           /\ After(a, pc) \notin {"raised", "strayed"} => ~a.fails /\ ~a.misused /\ ~a.strays
BY DEF After, Good

\* What is called is a function, or the method does not go on.
LEMMA CallsIs ==
    ASSUME job \in Jobs, NEW a, Calls(a)
    PROVE  /\ api' = a /\ job' \in Jobs
           /\ job'.fn = job.fn /\ job'.len = job.len /\ job'.i = job.i /\ job'.sort = job.sort
           /\ job'.pc \in {"called", "raised", "strayed"}
           /\ job'.pc = "called" => Callee(a, Takes) = Fn
<1> DEFINE pc == After(a, IF Callee(a, Takes) = Fn THEN "called" ELSE "raised")
<1>1. pc \in {"called", "raised", "strayed"} /\ (pc = "called" => Callee(a, Takes) = Fn)
  BY AfterIs
<1>2. api' = a /\ job' = [job EXCEPT !.pc = pc]
  BY DEF Calls
<1> HIDE DEF pc
<1>3. pc \in Pcs
  BY <1>1 DEF Pcs
<1> QED
  BY <1>1, <1>2, <1>3 DEF Jobs

\* The API when no method runs.
LEMMA QuietGood ==
    ASSUME NEW ls \in Lists
    PROVE  Good(Quiet(ls)) /\ Quiet(ls).frame = << >> /\ Quiet(ls).up = << >> /\ Quiet(ls).lists = ls
<1>1. << >> \in Seq(Value)
  OBVIOUS
<1>2. Quiet(ls).frame = << >> /\ Quiet(ls).up = << >> /\ Quiet(ls).lists = ls
  BY DEF Quiet
<1>3. Quiet(ls).fails = FALSE /\ Quiet(ls).misused = FALSE /\ Quiet(ls).strays = FALSE
  BY DEF Quiet
<1>4. Quiet(ls) \in Apis
  BY <1>1 DEF Quiet, Apis, Lists
<1> QED
  BY <1>2, <1>3, <1>4 DEF Good

\* The frame a method begins with.
LEMMA EnterGood ==
    ASSUME Typed, job.pc = "idle", NEW me \in Value, NEW args \in Seq(Value)
    PROVE  LET a == Enter(me, args) IN
           /\ Good(a) /\ Len(a.frame) = Len(args) + 1 /\ a.frame[1] = me
           /\ \A p \in 1..Len(args) : a.frame[p + 1] = args[p]
           /\ a.up = << >> /\ a.lists = api.lists /\ api.lists \in Lists
<1> DEFINE fr == <<me>> \o args
           a == [api EXCEPT !.frame = fr]
<1>1. /\ fr \in Seq(Value) /\ Len(fr) = Len(args) + 1 /\ fr[1] = me
      /\ \A p \in 1..Len(args) : fr[p + 1] = args[p]
  OBVIOUS
<1>2. api.lists \in Lists /\ api = Quiet(api.lists)
  BY DEF Typed
<1>4. api \in Apis /\ api.up = << >> /\ ~api.fails /\ ~api.misused /\ ~api.strays
  BY <1>2, QuietGood DEF Good
<1>5. Enter(me, args) = a
  BY DEF Enter
<1> HIDE DEF fr
<1>6. /\ a \in Apis /\ a.frame = fr /\ a.up = api.up /\ a.lists = api.lists
      /\ a.fails = api.fails /\ a.misused = api.misused /\ a.strays = api.strays
  BY <1>1, <1>4, WithFrame
<1> HIDE DEF a
<1> QED
  BY <1>1, <1>2, <1>4, <1>5, <1>6 DEF Good

-----------------------------------------------------------------------------
(* Loops *)

\* Loops.
LoopInv == LoopCounts /\ LoopFrame /\ LoopMakes /\ LoopResults

\* A new list is empty and on top.
LEMMA NewListGood ==
    ASSUME NEW a, Good(a)
    PROVE  LET b == tea_new_list(a, New) IN
           /\ Good(b) /\ b.up = a.up /\ Len(b.frame) = Len(a.frame) + 1 /\ b.frame[Len(a.frame) + 1] = New
           /\ \A p \in 1..Len(a.frame) : b.frame[p] = a.frame[p]
           /\ b.lists[New] = << >> /\ \A m \in List : m # New => b.lists[m] = a.lists[m]
<1> DEFINE ls == [a.lists EXCEPT ![New] = << >>]
           c == [a EXCEPT !.lists = ls]
           b == tea_new_list(a, New)
<1>1. a \in Apis /\ a.lists \in Lists /\ New \in List /\ New \in Value /\ << >> \in Seq(Value)
  BY GoodOK, Kinds
<1>2. ls \in Lists /\ ls[New] = << >> /\ \A m \in List : m # New => ls[m] = a.lists[m]
  BY <1>1 DEF Lists
<1>3. b = Push(c, New)
  BY DEF tea_new_list
<1> HIDE DEF ls
<1>4. /\ c \in Apis /\ c.frame = a.frame /\ c.up = a.up /\ c.lists = ls
      /\ c.fails = a.fails /\ c.misused = a.misused /\ c.strays = a.strays
  BY <1>1, <1>2, WithLists
<1> HIDE DEF c
<1>5. Grown(c, Push(c, New), New)
  BY <1>1, <1>4, PushGood DEF Good
<1> HIDE DEF b
<1>6. Grown(c, b, New)
  BY <1>3, <1>5
<1>7. /\ Good(b) /\ b.up = a.up /\ Len(b.frame) = Len(a.frame) + 1 /\ b.frame[Len(a.frame) + 1] = New
      /\ \A p \in 1..Len(a.frame) : b.frame[p] = a.frame[p]
      /\ b.lists[New] = << >> /\ \A m \in List : m # New => b.lists[m] = a.lists[m]
  BY <1>2, <1>4, <1>6 DEF Grown
<1> QED
  BY <1>7 DEF b

\* What precedes the loop: a list is made, or the first item is taken, or it fails.
LEMMA OpenedIs ==
    ASSUME NEW a, Good(a), Len(a.frame) = 2, a.frame[1] = l1, NEW fn \in Loops,
           NEW b, b = Opened(fn, a), ~b.fails \/ fn = "filter" \/ a.frame[2] = Fn
    PROVE  /\ Good(b)
           /\ fn \in {"find", "foreach"} => b = a
           /\ fn \in {"map", "filter"} =>
                /\ Len(b.frame) = 3 /\ b.frame[1] = l1 /\ b.frame[2] = a.frame[2] /\ b.frame[3] = New
                /\ b.lists[New] = << >> /\ \A m \in List : m # New => b.lists[m] = a.lists[m]
           /\ fn = "reduce" /\ a.lists[l1] # << >> => Grown(a, b, a.lists[l1][1])
           /\ fn = "reduce" /\ a.lists[l1] = << >> => Dropped(a, b, 1)
<1> DEFINE c == Check(a, 0, List)
           d == Check(c, 1, {Fn})
           e == IF fn = "filter" THEN a ELSE d
<1>1. /\ index2addr(a, 0) = a.frame[1] /\ Valid(a, 0)
      /\ index2addr(a, 1) = a.frame[2] /\ Valid(a, 1)
  <2>1. 1 \in 1..Len(a.frame) /\ 2 \in 1..Len(a.frame) /\ 1 - 1 = 0 /\ 2 - 1 = 1
    OBVIOUS
  <2> QED
    BY <2>1, FromBase
<1>2. c = a
  BY <1>1, CheckGood, Kinds
<1>3. d = a \/ d = Raise(a)
  BY <1>1, <1>2, CheckGood
<1>4. b = CASE fn \in {"map", "filter"} -> tea_new_list(e, New)
            [] fn = "reduce" -> IF tea_len(e, 0) = 0 THEN tea_pop(e, 1) ELSE tea_get_item(e, 0, 0)
            [] OTHER -> e
  BY DEF Opened
<1> HIDE DEF e, d, c
<1>5. e = a \/ e = Raise(a)
  BY <1>3 DEF e
<1>6. \/ fn \in {"map", "filter"} /\ b = tea_new_list(e, New)
      \/ fn = "reduce" /\ tea_len(e, 0) = 0 /\ b = tea_pop(e, 1)
      \/ fn = "reduce" /\ tea_len(e, 0) # 0 /\ b = tea_get_item(e, 0, 0)
      \/ fn \in {"find", "foreach"} /\ b = e
  BY <1>4 DEF Loops
<1>7. e = a
  <2>1. fn = "filter" \/ a.frame[2] = Fn => e = a
    BY <1>1, <1>2, CheckGood DEF e, d
  <2> QED
    BY <1>5, <1>6, <2>1, FailsKept
<1>8. tea_len(a, 0) = Len(a.lists[l1]) /\ a.lists[l1] \in Seq(Value) /\ Len(a.lists[l1]) \in Nat
  <2>1. 0 \in Nat /\ 0 < Len(a.frame) /\ 0 + 1 = 1
    OBVIOUS
  <2> QED
    BY <2>1, ListIn, GoodOK, Kinds
<1>9. CASE fn \in {"map", "filter"}
  <2> DEFINE t == tea_new_list(a, New)
  <2>1. b = t
    BY <1>6, <1>7, <1>9
  <2>2. /\ Good(t) /\ Len(t.frame) = Len(a.frame) + 1 /\ t.frame[Len(a.frame) + 1] = New
        /\ \A p \in 1..Len(a.frame) : t.frame[p] = a.frame[p]
        /\ t.lists[New] = << >> /\ \A m \in List : m # New => t.lists[m] = a.lists[m]
    BY NewListGood
  <2> HIDE DEF t
  <2>3. /\ Len(t.frame) = 3 /\ t.frame[3] = New /\ t.frame[1] = l1 /\ t.frame[2] = a.frame[2]
    <3>1. 1 \in 1..Len(a.frame) /\ 2 \in 1..Len(a.frame) /\ Len(a.frame) + 1 = 3
      OBVIOUS
    <3> QED
      BY <2>2, <3>1
  <2> QED
    BY <1>9, <2>1, <2>2, <2>3, Kinds DEF Loops
<1>10. CASE fn = "reduce" /\ a.lists[l1] # << >>
  <2>1. b = tea_get_item(a, 0, 0) /\ 0 \in 0..Len(a.lists[l1]) - 1
    BY <1>6, <1>7, <1>8, <1>10
  <2>2. Grown(a, b, a.lists[l1][0 + 1])
    BY <2>1, GetItemGood, Kinds
  <2> QED
    BY <1>10, <2>2 DEF Grown
<1>11. CASE fn = "reduce" /\ a.lists[l1] = << >>
  <2>1. b = tea_pop(a, 1) /\ 1 \in 0..Len(a.frame)
    BY <1>6, <1>7, <1>8, <1>11
  <2>2. Dropped(a, b, 1)
    BY <2>1, PopGood
  <2> QED
    BY <1>11, <2>2 DEF Dropped
<1>12. CASE fn \in {"find", "foreach"}
  BY <1>6, <1>7, <1>12
<1> QED
  BY <1>9, <1>10, <1>11, <1>12 DEF Loops

\* The state when no method runs.
LEMMA NoneOK ==
    /\ NoSort \in Sorts /\ NoJob \in Jobs /\ NoPast \in Pasts
    /\ NoJob.pc = "idle" /\ NoJob.fn = "none" /\ NoJob.i = 0
    /\ NoPast.answers = << >> /\ ~NoPast.changed /\ ~NoPast.shrunk /\ NoPast.lies = 0
<1>1. \A S : << >> \in Seq(S)
  OBVIOUS
<1>2. NoSort \in Sorts
  BY <1>1 DEF NoSort, Sorts
<1>3. NoJob \in Jobs
  BY <1>2 DEF NoJob, Jobs, Fns, Pcs
<1>4. NoPast \in Pasts
  BY <1>1 DEF NoPast, Pasts
<1> QED
  BY <1>2, <1>3, <1>4 DEF NoJob, NoPast

\* Loops take one argument.
LEMMA LoopArgs ==
    ASSUME NEW fn \in Loops, NEW args \in ArgsOf(fn)
    PROVE  args \in Seq(Value) /\ Len(args) = 1
<1>1. Arity(fn) = {1}
  BY DEF Arity, Loops
<1>2. fn \notin {"extend", "+"}
  BY DEF Loops
<1>3. args \in [1..1 -> Arg]
  BY <1>1, <1>2 DEF ArgsOf
<1>4. Arg \subseteq Value
  BY LibConstantsOK
<1> QED
  BY <1>3, <1>4

\* What a call begins with, whatever the method.
LEMMA BeginOK ==
    ASSUME Typed, job.pc = "idle", NEW args \in Seq(Value),
           job' \in Jobs, job'.pc # "idle",
           past' = [NoPast EXCEPT !.lists = api.lists, !.args = args],
           job'.fn = "sort" /\ job'.pc \in {"turn", "called", "answered"} => job'.sort.at # "none"
    PROVE  /\ Typed'
           /\ past'.lists = api.lists /\ past'.args = args /\ past'.answers = << >>
           /\ ~past'.changed /\ ~past'.shrunk /\ past'.lies = 0
           /\ api.lists \in Lists
<1>1. api.lists \in Lists
  BY DEF Typed
<1>2. /\ past' \in Pasts /\ past'.lists = api.lists /\ past'.args = args /\ past'.answers = << >>
      /\ past'.changed = NoPast.changed /\ past'.shrunk = NoPast.shrunk /\ past'.lies = 0
  BY <1>1, NoneOK DEF Pasts
<1> QED
  BY <1>1, <1>2, NoneOK DEF Typed

\* A loop starts (list_map, list_filter, list_find, list_foreach, list_reduce).
LEMMA CallLoopStep ==
    ASSUME Typed, CallLoop
    PROVE  Typed' /\ LoopInv' /\ job'.fn \in Loops
<1>0. PICK fn \in Loops : \E args \in ArgsOf(fn) :
         LET empty == fn = "reduce" /\ api.lists[l1] = << >>
             a == Opened(fn, Enter(l1, args))
         IN  /\ api' = a
             /\ job' = [NoJob EXCEPT !.fn = fn, !.pc = After(a, IF empty THEN "done" ELSE "turn"),
                                     !.len = Len(api.lists[l1]),
                                     !.i = IF fn = "reduce" THEN 1 ELSE 0]
             /\ past' = [NoPast EXCEPT !.lists = api.lists, !.args = args]
  BY DEF CallLoop
<1>1. PICK args \in ArgsOf(fn) :
         LET empty == fn = "reduce" /\ api.lists[l1] = << >>
             a == Opened(fn, Enter(l1, args))
         IN  /\ api' = a
             /\ job' = [NoJob EXCEPT !.fn = fn, !.pc = After(a, IF empty THEN "done" ELSE "turn"),
                                     !.len = Len(api.lists[l1]),
                                     !.i = IF fn = "reduce" THEN 1 ELSE 0]
             /\ past' = [NoPast EXCEPT !.lists = api.lists, !.args = args]
  BY <1>0
<1> DEFINE a == Enter(l1, args)
           b == Opened(fn, a)
           empty == fn = "reduce" /\ api.lists[l1] = << >>
           pc == After(b, IF empty THEN "done" ELSE "turn")
           i == IF fn = "reduce" THEN 1 ELSE 0
<1>2. job.pc = "idle"
  BY DEF CallLoop, Idle
<1>3. args \in Seq(Value) /\ Len(args) = 1 /\ l1 \in Value
  BY LoopArgs, Kinds
<1>4. /\ Good(a) /\ Len(a.frame) = 2 /\ a.frame[1] = l1 /\ a.frame[2] = args[1]
      /\ a.lists = api.lists /\ api.lists \in Lists
  <2>1. 1 \in 1..Len(args) /\ 1 + 1 = 2 /\ Len(args) + 1 = 2
    BY <1>3
  <2>2. /\ Good(a) /\ Len(a.frame) = Len(args) + 1 /\ a.frame[1] = l1
        /\ \A p \in 1..Len(args) : a.frame[p + 1] = args[p]
        /\ a.lists = api.lists /\ api.lists \in Lists
    BY <1>2, <1>3, EnterGood
  <2>3. a.frame[1 + 1] = args[1]
    BY <2>1, <2>2
  <2> QED
    BY <2>1, <2>2, <2>3
<1>5. /\ api' = b /\ past' = [NoPast EXCEPT !.lists = api.lists, !.args = args]
      /\ job' = [NoJob EXCEPT !.fn = fn, !.pc = pc, !.len = Len(api.lists[l1]), !.i = i]
  BY <1>1
<1>6. pc \in {"raised", "strayed", "turn", "done"} /\ pc \in Pcs \ {"idle"}
  BY AfterIs DEF Pcs
<1>7. pc \in {"turn", "done"} => ~b.fails /\ pc = IF empty THEN "done" ELSE "turn"
  BY AfterIs
<1>8. api.lists[l1] \in Seq(Value) /\ Len(api.lists[l1]) \in Nat /\ fn \in Fns /\ i \in Nat
  BY <1>4, Kinds DEF Lists, Fns
<1> HIDE DEF pc, i, a, b
<1>9. /\ job' \in Jobs /\ job'.fn = fn /\ job'.pc = pc /\ job'.len = Len(api.lists[l1]) /\ job'.i = i
      /\ job'.pc # "idle"
  BY <1>5, <1>6, <1>8, NoneOK DEF Jobs
<1>10. fn # "sort"
  BY DEF Loops
<1>11. /\ Typed'
       /\ job'.fn = fn /\ job'.pc = pc /\ job'.len = Len(api.lists[l1]) /\ job'.i = i
       /\ past'.lists = api.lists /\ past'.args = args /\ past'.answers = << >>
       /\ ~past'.changed /\ ~past'.shrunk
  BY <1>2, <1>3, <1>5, <1>6, <1>8, <1>9, <1>10, NoneOK, BeginOK
<1>12. Before' = api.lists[l1]
  BY <1>11 DEF Before
<1>13. CASE pc \in {"raised", "strayed"}
  BY <1>11, <1>13 DEF LoopInv, LoopCounts, LoopFrame, LoopMakes, LoopResults, Looping, Running, Ended
<1>14. ASSUME pc \in {"turn", "done"}
       PROVE  /\ Good(b)
              /\ fn \in {"find", "foreach"} => b = a
              /\ fn \in {"map", "filter"} =>
                   /\ Len(b.frame) = 3 /\ b.frame[1] = l1 /\ b.frame[2] = a.frame[2] /\ b.frame[3] = New
                   /\ b.lists[New] = << >> /\ \A m \in List : m # New => b.lists[m] = a.lists[m]
              /\ fn = "reduce" /\ a.lists[l1] # << >> => Grown(a, b, a.lists[l1][1])
              /\ fn = "reduce" /\ a.lists[l1] = << >> => Dropped(a, b, 1)
  BY <1>4, <1>7, <1>14, OpenedIs DEF b
<1>15. CASE pc = "turn"
  <2>1. LoopCounts'
    <3>1. fn = "reduce" => api.lists[l1] # << >> /\ Len(api.lists[l1]) >= 1
      BY <1>7, <1>8, <1>15
    <3> QED
      BY <1>3, <1>8, <1>11, <1>12, <1>15, <3>1 DEF LoopCounts, Used, i
  <2>2. LoopFrame'
    <3>0. Base' = IF fn \in {"find", "foreach"} THEN 2 ELSE 3
      BY <1>11 DEF Base
    <3>1. CASE fn \in {"find", "foreach"}
      <4>1. /\ Good(b) /\ Len(b.frame) = 2 /\ b.frame[1] = l1 /\ b.frame[2] = args[1]
            /\ b.lists[l1] = api.lists[l1]
        BY <1>4, <1>14, <1>15, <3>1
      <4> QED
        BY <1>5, <1>8, <1>11, <1>15, <3>0, <3>1, <4>1 DEF LoopFrame
    <3>2. CASE fn \in {"map", "filter"}
      <4>1. /\ Good(b) /\ Len(b.frame) = 3 /\ b.frame[1] = l1 /\ b.frame[2] = args[1] /\ b.frame[3] = New
            /\ b.lists[l1] = api.lists[l1]
        BY <1>4, <1>14, <1>15, <3>2, Kinds
      <4> QED
        BY <1>5, <1>8, <1>11, <1>15, <3>0, <3>2, <4>1 DEF LoopFrame
    <3>3. CASE fn = "reduce"
      <4>1. Grown(a, b, a.lists[l1][1])
        BY <1>4, <1>7, <1>14, <1>15, <3>3
      <4>2. Acc' = a.lists[l1][1]
        BY <1>4, <1>11, <1>12 DEF Acc
      <4> QED
        BY <1>4, <1>5, <1>11, <1>15, <3>0, <3>3, <1>8, <4>1, <4>2 DEF LoopFrame, Grown
    <3> QED
      BY <3>1, <3>2, <3>3 DEF Loops
  <2>3. LoopMakes'
    <3>1. b.lists[l1] = api.lists[l1] /\ (fn \in {"map", "filter"} => b.lists[New] = << >>)
      BY <1>4, <1>7, <1>14, <1>15, Kinds DEF Loops, Grown
    <3>2. i = 0 \/ fn = "reduce"
      BY DEF i
    <3>3. SubSeq(past'.answers, 1, 0) = << >> /\ \A m : (Yes(0))' = {}
      BY <1>11 DEF Yes
    <3> QED
      BY <1>5, <1>11, <1>12, <3>1, <3>2, <3>3, ChosenNone DEF LoopMakes
  <2>4. LoopResults'
    BY <1>11, <1>15 DEF LoopResults, Ended
  <2> QED
    BY <1>11, <2>1, <2>2, <2>3, <2>4 DEF LoopInv
<1>16. CASE pc = "done"
  <2>1. fn = "reduce" /\ api.lists[l1] = << >> /\ Dropped(a, b, 1)
    BY <1>4, <1>7, <1>14, <1>16
  <2>2. Len(b.frame) = 1 /\ b.frame[1] = l1 /\ b.lists[l1] = api.lists[l1]
    BY <1>4, <2>1 DEF Dropped
  <2>3. Result' = l1
    BY <1>5, <2>2 DEF Result, Last
  <2>4. LoopResults'
    BY <1>5, <1>11, <1>12, <2>1, <2>2, <2>3 DEF LoopResults
  <2> QED
    BY <1>11, <1>16, <2>4 DEF LoopInv, LoopCounts, LoopFrame, LoopMakes, Looping, Running
<1> QED
  BY <1>6, <1>11, <1>13, <1>15, <1>16

\* What is called, and with what: the function is given the item that is next and, for
\* reduce, the last answer.
LEMMA PushedIs ==
    ASSUME NEW a, Good(a), NEW fn \in Loops, NEW i \in Nat,
           NEW n \in Nat, n >= 1, n <= 2, Len(a.frame) >= 2, Len(a.frame) <= 3,
           fn = "reduce" => n = 2 /\ Len(a.frame) = 3, fn # "reduce" => n = 1,
           a.frame[1] = l1, i < Len(a.lists[l1])
    PROVE  LET c == Pushed(fn, a, i)
               base == Len(a.frame)
           IN  /\ Good(c) /\ c.lists = a.lists
               /\ Len(c.frame) = base + 1 + n
               /\ \A p \in 1..base : c.frame[p] = a.frame[p]
               /\ Callee(c, n) = a.frame[2]
               /\ ValueAt(c, -1) = a.lists[l1][i + 1]
               /\ fn = "reduce" => ValueAt(c, -2) = a.frame[3]
<1> DEFINE c == Pushed(fn, a, i)
           base == Len(a.frame)
<1> DEFINE f == tea_push_value(a, 1)
           g == IF fn = "reduce" THEN tea_push_value(f, -2) ELSE f
<1>1. c = tea_get_item(g, 0, i)
  BY DEF Pushed
<1>2. Grown(a, f, a.frame[2])
  <2>1. 1 \in Int /\ 2 \in 1..Len(a.frame) /\ 1 = 2 - 1
    OBVIOUS
  <2> QED
    BY <2>1, PushValueGood
<1> HIDE DEF f, c
<1>0. /\ Len(a.frame) = base /\ (fn = "reduce" => n = 2 /\ base = 3) /\ (fn # "reduce" => n = 1)
      /\ base \in Nat /\ base >= 2 /\ base <= 3 /\ n \in Nat /\ n >= 1 /\ n <= 2
  BY GoodOK
<1> HIDE DEF base
<1>3. Good(f) /\ f.lists = a.lists /\ Len(f.frame) = base + 1 /\ f.frame[base + 1] = a.frame[2]
      /\ \A p \in 1..base : f.frame[p] = a.frame[p]
  BY <1>0, <1>2 DEF Grown
<1>4. fn = "reduce" => Grown(f, g, a.frame[3])
  <2>1. SUFFICES ASSUME fn = "reduce" PROVE Grown(f, tea_push_value(f, -2), a.frame[3])
    BY DEF g
  <2>2. -2 \in Int /\ 3 \in 1..Len(f.frame) /\ -2 = 3 - Len(f.frame) - 1 /\ Len(f.frame) < 100 /\ f.frame[3] = a.frame[3]
    BY <1>0, <1>3, <2>1
  <2> QED
    BY <1>3, <2>2, PushValueGood
<1>5. fn # "reduce" => g = f
  BY DEF g
<1> HIDE DEF g
<1>6. /\ Good(g) /\ g.lists = a.lists /\ Len(g.frame) = base + n /\ g.frame[base + 1] = a.frame[2]
      /\ \A p \in 1..base : g.frame[p] = a.frame[p]
      /\ fn = "reduce" => g.frame[base + 2] = a.frame[3]
  <2>1. CASE fn = "reduce"
    BY <1>0, <1>3, <1>4, <2>1 DEF Grown
  <2>2. CASE fn # "reduce"
    BY <1>0, <1>3, <1>5, <2>2
  <2> QED
    BY <2>1, <2>2
<1>7. Grown(g, c, a.lists[l1][i + 1])
  <2>1. i \in 0..Len(g.lists[l1]) - 1 /\ Len(g.frame) >= 1 /\ g.frame[1] = l1 /\ l1 \in List
    BY <1>0, <1>6, GoodOK, Kinds, SMTT(20)
  <2> QED
    BY <1>1, <1>6, <2>1, GetItemGood
<1>8. /\ Good(c) /\ c.lists = a.lists /\ Len(c.frame) = base + 1 + n
      /\ \A p \in 1..base : c.frame[p] = a.frame[p]
      /\ c.frame[base + 1] = a.frame[2]
      /\ c.frame[base + 1 + n] = a.lists[l1][i + 1]
      /\ fn = "reduce" => c.frame[base + n] = a.frame[3]
  <2>1. Len(g.frame) + 1 = base + 1 + n /\ base + 1 \in 1..Len(g.frame) /\ 1..base \subseteq 1..Len(g.frame)
        /\ base + n \in 1..Len(g.frame)
    BY <1>0, <1>6
  <2>2. /\ Good(c) /\ c.lists = g.lists /\ Len(c.frame) = base + 1 + n
        /\ c.frame[base + 1 + n] = a.lists[l1][i + 1]
        /\ \A p \in 1..Len(g.frame) : c.frame[p] = g.frame[p]
    BY <1>7, <2>1 DEF Grown
  <2>3. fn = "reduce" => base + n = base + 2
    BY <1>0
  <2> QED
    BY <1>6, <2>1, <2>2, <2>3
<1> DEFINE L == Len(c.frame)
<1>9. /\ L = base + 1 + n /\ L < 100 /\ base + 1 \in 1..L /\ base + 1 + n \in 1..L /\ base + n \in 1..L
      /\ -(n + 1) \in Int /\ -(n + 1) = (base + 1) - L - 1
      /\ -1 \in Int /\ -2 \in Int /\ -1 = (base + 1 + n) - L - 1 /\ -2 = (base + n) - L - 1
  <2>1. L = base + 1 + n
    BY <1>8
  <2> HIDE DEF L
  <2> QED
    BY <1>0, <2>1
<1>10. Callee(c, n) = a.frame[2]
  <2>2. ValueAt(c, -(n + 1)) = c.frame[base + 1]
    BY <1>8, <1>9, SlotValue
  <2> QED
    BY <1>8, <2>2 DEF Callee
<1>11. ValueAt(c, -1) = a.lists[l1][i + 1]
  <2>2. ValueAt(c, -1) = c.frame[base + 1 + n]
    BY <1>8, <1>9, SlotValue
  <2> QED
    BY <1>8, <2>2
<1>12. fn = "reduce" => ValueAt(c, -2) = a.frame[3]
  <2>2. ValueAt(c, -2) = c.frame[base + n]
    BY <1>8, <1>9, SlotValue
  <2> QED
    BY <1>8, <2>2
<1> QED
  BY <1>0, <1>8, <1>10, <1>11, <1>12 DEF base, c

\* A turn pushes the function and the items to call it with.
LEMMA TurnPushes ==
    ASSUME Typed, LoopInv, Turn, ~past.shrunk
    PROVE  /\ Good(api') /\ api'.lists = api.lists
           /\ Len(api'.frame) = Base + 1 + Takes
           /\ \A p \in 1..Base : api'.frame[p] = api.frame[p]
           /\ Callee(api', Takes) = past.args[1]
           /\ ValueAt(api', -1) = api.lists[l1][job.i + 1]
           /\ job.fn = "reduce" => ValueAt(api', -2) = Acc
<1>1. job.pc = "turn" /\ job.fn \in Loops /\ job.i < job.len /\ Calls(Pushed(job.fn, api, job.i))
  BY DEF Turn
<1>2. api' = Pushed(job.fn, api, job.i) /\ job.i \in Nat /\ job.len \in Nat
  BY <1>1, CallsIs DEF Typed, Jobs
<1>3. /\ Good(api) /\ Len(api.lists[l1]) >= job.len /\ Len(api.frame) = Base
      /\ api.frame[1] = l1 /\ api.frame[2] = past.args[1]
      /\ job.fn = "reduce" => api.frame[3] = Acc
  BY <1>1 DEF LoopInv, LoopFrame, Looping, Running, Base
<1>4. job.i < Len(api.lists[l1]) /\ Len(api.lists[l1]) \in Nat
  BY <1>1, <1>2, <1>3, GoodOK, Kinds
<1>5. Takes = IF job.fn = "reduce" THEN 2 ELSE 1
  BY <1>1 DEF Takes, Loops
<1>6. Base = IF job.fn \in {"find", "foreach"} THEN 2 ELSE 3
  BY DEF Base
<1>7. /\ Takes \in Nat /\ Takes >= 1 /\ Takes <= 2 /\ (job.fn # "reduce" => Takes = 1)
      /\ Len(api.frame) >= 2 /\ Len(api.frame) <= 3
      /\ job.fn = "reduce" => Takes = 2 /\ Len(api.frame) = 3
  BY <1>3, <1>5, <1>6
<1>8. LET c == Pushed(job.fn, api, job.i)
          base == Len(api.frame)
      IN  /\ Good(c) /\ c.lists = api.lists
          /\ Len(c.frame) = base + 1 + Takes
          /\ \A p \in 1..base : c.frame[p] = api.frame[p]
          /\ Callee(c, Takes) = api.frame[2]
          /\ ValueAt(c, -1) = api.lists[l1][job.i + 1]
          /\ job.fn = "reduce" => ValueAt(c, -2) = api.frame[3]
  BY <1>1, <1>2, <1>3, <1>4, <1>7, PushedIs
<1> QED
  BY <1>2, <1>3, <1>8

\* A turn of a loop.
LEMMA TurnStep ==
    ASSUME Typed, LoopInv, Turn
    PROVE  Typed' /\ LoopInv' /\ job'.fn \in Loops
<1>1. job.pc = "turn" /\ job.fn \in Loops /\ job.i < job.len /\ past' = past
  BY DEF Turn
<1>2. /\ job' \in Jobs /\ job'.fn = job.fn /\ job'.len = job.len /\ job'.i = job.i
      /\ job'.pc \in {"called", "raised", "strayed"}
  BY CallsIs DEF Turn, Typed
<1>3. Typed'
  BY <1>1, <1>2 DEF Typed, Loops
<1>4. CASE job'.pc \in {"raised", "strayed"}
  BY <1>1, <1>2, <1>3, <1>4 DEF LoopInv, LoopCounts, LoopFrame, LoopMakes, LoopResults, Looping, Running, Ended
<1>5. CASE job'.pc = "called"
  <2>1. LoopCounts'
    BY <1>1, <1>2, <1>5 DEF LoopInv, LoopCounts, Looping, Running, Before, Used
  <2>2. LoopFrame'
    <3>1. SUFFICES ASSUME ~past.shrunk PROVE LoopFrame'
      BY <1>1 DEF LoopFrame
    <3>2. /\ Good(api') /\ api'.lists = api.lists /\ Len(api'.frame) = Base + 1 + Takes
          /\ \A p \in 1..Base : api'.frame[p] = api.frame[p]
      BY <3>1, TurnPushes
    <3>3. Base' = Base /\ Takes' = Takes /\ Base \in {2, 3} /\ Takes \in {1, 2} /\ (job.fn \in {"map", "filter"} => Base = 3)
      BY <1>2 DEF Base, Takes
    <3>4. /\ api.frame[1] = l1 /\ api.frame[2] = past.args[1] /\ (job.fn \in {"map", "filter"} => api.frame[3] = New)
          /\ Len(api.lists[l1]) >= job.len
      BY <1>1, <3>1 DEF LoopInv, LoopFrame, Looping, Running
    <3>5. Len(api'.frame) = Base + (1 + Takes)
      BY <3>2, <3>3
    <3> QED
      BY <1>1, <1>2, <1>5, <3>2, <3>3, <3>4, <3>5 DEF LoopFrame
  <2>3. LoopMakes'
    <3>1. SUFFICES ASSUME ~past.changed PROVE LoopMakes'
      BY <1>1 DEF LoopMakes
    <3>2. api'.lists = api.lists
      BY <3>1, TurnPushes DEF Typed
    <3> QED
      BY <1>1, <1>2, <1>5, <3>2 DEF LoopInv, LoopMakes, Looping, Running, Before, Yes
  <2>4. LoopResults'
    BY <1>1, <1>2, <1>5 DEF LoopResults, Ended
  <2> QED
    BY <1>1, <1>2, <1>3, <2>1, <2>2, <2>3, <2>4 DEF LoopInv
<1> QED
  BY <1>2, <1>4, <1>5

\* The value on top replaces the one below it.
LEMMA ReplaceGood ==
    ASSUME NEW a, Good(a), Len(a.frame) >= 2, Len(a.frame) < 100
    PROVE  LET b == tea_replace(a, -2)
               n == Len(a.frame)
           IN  /\ Good(b) /\ b.up = a.up /\ b.lists = a.lists
               /\ Len(b.frame) = n - 1 /\ b.frame[n - 1] = a.frame[n]
               /\ \A p \in 1..n - 2 : b.frame[p] = a.frame[p]
<1> DEFINE n == Len(a.frame)
           v == a.frame[n]
           fr == [a.frame EXCEPT ![n - 1] = v]
           c == [a EXCEPT !.frame = fr]
<1>1. /\ a \in Apis /\ a.frame \in Seq(Value) /\ n \in Nat /\ n >= 2 /\ n < 100 /\ v \in Value
  BY GoodOK
<1>2. /\ -1 \in Int /\ -2 \in Int /\ n \in 1..n /\ n - 1 \in 1..n
      /\ -1 = n - n - 1 /\ -2 = (n - 1) - n - 1
  <2> HIDE DEF n
  <2> QED
    BY <1>1
<1>3. ValueAt(a, -1) = v /\ Exists(a, -2)
  BY <1>1, <1>2, SlotValue
<1>4. Position(a, -2) = n - 1 /\ ~(-2 <= TEA_UPVALUES_INDEX)
  <2>1. n + 1 + (-2) = n - 1 /\ ~(-2 >= 0)
    BY <1>1
  <2> QED
    BY <2>1 DEF Position, tea_get_top, TEA_UPVALUES_INDEX
<1>5. CopySlot(a, v, -2) = [a EXCEPT !.frame[n - 1] = v]
  BY <1>3, <1>4 DEF CopySlot
<1>6. CopySlot(a, v, -2) = c
  BY <1>5
<1>7. /\ fr \in Seq(Value) /\ Len(fr) = n /\ fr[n - 1] = v
      /\ \A p \in 1..n - 2 : fr[p] = a.frame[p]
  BY <1>1, <1>2
<1> HIDE DEF fr
<1>8. /\ c \in Apis /\ c.frame = fr /\ c.up = a.up /\ c.lists = a.lists
      /\ c.fails = a.fails /\ c.misused = a.misused /\ c.strays = a.strays
  BY <1>1, <1>7, WithFrame
<1> HIDE DEF c
<1>9. Good(c) /\ 1 \in 0..Len(c.frame)
  BY <1>1, <1>7, <1>8 DEF Good
<1>10. Dropped(c, tea_pop(c, 1), 1)
  BY <1>9, PopGood
<1>11. tea_replace(a, -2) = tea_pop(c, 1)
  BY <1>3, <1>6 DEF tea_replace
<1> DEFINE b == tea_pop(c, 1)
<1> HIDE DEF b, v, n
<1>12. /\ Good(b) /\ b.up = a.up /\ b.lists = a.lists /\ Len(b.frame) = n - 1
       /\ \A p \in 1..n - 1 : b.frame[p] = fr[p]
  BY <1>7, <1>8, <1>10 DEF Dropped, b
<1>13. /\ Good(b) /\ b.up = a.up /\ b.lists = a.lists
       /\ Len(b.frame) = n - 1 /\ b.frame[n - 1] = v
       /\ \A p \in 1..n - 2 : b.frame[p] = a.frame[p]
  BY <1>1, <1>7, <1>12
<1> QED
  BY <1>11, <1>13 DEF b, n, v

\* What a loop does with an answer, unless it fails.
LEMMA UsedAnswerIs ==
    ASSUME NEW a, Good(a), NEW fn \in Loops, NEW i \in Nat,
           Len(a.frame) = (IF fn \in {"find", "foreach"} THEN 2 ELSE 3) + 1,
           a.frame[1] = l1, fn \in {"map", "filter"} => a.frame[3] = New, i < Len(a.lists[l1]),
           NEW b, b = UsedAnswer(fn, a, i),
           ~b.fails \/ fn \notin {"find", "filter"} \/ a.frame[Len(a.frame)] \in {True, False}
    PROVE  LET n == Len(a.frame)
               top == a.frame[n]
               item == a.lists[l1][i + 1]
           IN  /\ Good(b)
               /\ fn \in {"find", "filter"} => top \in {True, False}
               /\ fn = "find" /\ top = True =>
                    Len(b.frame) = n /\ b.frame[n] = item /\ b.lists = a.lists
               /\ fn # "find" \/ top # True =>
                    /\ Len(b.frame) = n - 1 /\ b.frame[1] = l1 /\ b.frame[2] = a.frame[2]
                    /\ fn \in {"map", "filter"} => b.frame[3] = New
                    /\ fn = "reduce" => b.frame[3] = top
               /\ fn = "map" => b.lists = tea_list_add(a.lists, New, top)
               /\ fn = "filter" /\ top = True => b.lists = tea_list_add(a.lists, New, item)
               /\ fn # "map" /\ (fn # "filter" \/ top # True) => b.lists = a.lists
<1> DEFINE n == Len(a.frame)
           top == a.frame[n]
           item == a.lists[l1][i + 1]
           yes == ValueAt(a, -1) = True
           c == Check(a, -1, {True, False})
<1>1. /\ n \in Nat /\ n \in {3, 4} /\ (fn \in {"map", "filter", "reduce"} => n = 4) /\ (fn \in {"find", "foreach"} => n = 3)
      /\ a.frame[1] = l1 /\ l1 \in List /\ New \in List /\ l1 # New /\ i \in 0..Len(a.lists[l1]) - 1
      /\ a.lists[l1] \in Seq(Value)
  BY GoodOK, Kinds
<1>2. index2addr(a, -1) = top /\ ValueAt(a, -1) = top /\ Valid(a, -1)
  <2>1. -1 \in Int /\ n \in 1..n /\ -1 = n - n - 1 /\ n < 100
    <3> HIDE DEF n
    <3> QED
      BY <1>1
  <2> QED
    BY <2>1, SlotValue
<1>3. (top \in {True, False} => c = a) /\ (top \notin {True, False} => c = Raise(a))
  <2>1. -1 \in Int
    OBVIOUS
  <2> QED
    BY <1>2, <2>1, CheckGood
<1>4. \/ fn = "map" /\ b = tea_add_item(a, 2)
      \/ fn = "reduce" /\ b = tea_replace(a, -2)
      \/ fn = "foreach" /\ b = tea_pop(a, 1)
      \/ fn = "find" /\ yes /\ b = tea_get_item(tea_pop(c, 1), 0, i)
      \/ fn = "find" /\ ~yes /\ b = tea_pop(c, 1)
      \/ fn = "filter" /\ yes /\ b = tea_add_item(tea_get_item(tea_pop(c, 1), 0, i), 2)
      \/ fn = "filter" /\ ~yes /\ b = tea_pop(c, 1)
  BY DEF UsedAnswer, Loops
<1> HIDE DEF yes, c
<1>5. yes <=> top = True
  BY <1>2 DEF yes
<1>6. yes => c = a
  BY <1>3, <1>5
<1>7. fn \in {"find", "filter"} => c = a /\ top \in {True, False}
  <2>1. CASE yes
    BY <1>5, <1>6, <2>1
  <2>2. CASE ~yes /\ fn \in {"find", "filter"}
    <3>1. b = tea_pop(c, 1)
      BY <1>4, <2>2
    <3>2. tea_pop(Raise(a), 1).fails
      BY FailsKept
    <3>3. top \in {True, False} \/ ~b.fails
      BY <2>2
    <3> QED
      BY <1>3, <3>1, <3>2, <3>3
  <2> QED
    BY <2>1, <2>2
<1> DEFINE d == tea_pop(a, 1)
<1>8. Dropped(a, d, 1)
  <2>1. 1 \in 0..Len(a.frame)
    BY <1>1
  <2> QED
    BY <2>1, PopGood
<1>9. /\ Good(d) /\ Len(d.frame) = n - 1 /\ d.frame[1] = l1 /\ d.frame[2] = a.frame[2] /\ d.lists = a.lists
      /\ n = 4 => d.frame[3] = a.frame[3]
  BY <1>1, <1>8 DEF Dropped
<1> DEFINE e == tea_get_item(d, 0, i)
<1>10. Grown(d, e, item)
  <2>1. Len(d.frame) >= 1 /\ i \in 0..Len(d.lists[l1]) - 1
    BY <1>1, <1>9, SMTT(20)
  <2> QED
    BY <1>1, <1>9, <2>1, GetItemGood
<1> HIDE DEF d, e
<1>11. /\ Good(e) /\ Len(e.frame) = n /\ e.frame[1] = l1 /\ e.frame[2] = a.frame[2] /\ e.lists = a.lists
       /\ e.frame[n] = item
       /\ n = 4 => e.frame[3] = a.frame[3]
  <2>1. Len(d.frame) + 1 = n /\ n - 1 \in Nat /\ n - 1 >= 2
    BY <1>1, <1>9
  <2> QED
    BY <1>1, <1>9, <1>10, <2>1, SMTT(20) DEF Grown
<1>12. CASE fn = "map"
  <2>1. b = tea_add_item(a, 2) /\ Len(a.frame) >= 3 /\ a.frame[3] = New /\ n = 4
    BY <1>1, <1>4, <1>12
  <2>2. /\ Good(b) /\ Len(b.frame) = n - 1
        /\ \A p \in 1..n - 1 : b.frame[p] = a.frame[p]
        /\ b.lists = tea_list_add(a.lists, New, top)
    BY <2>1, AddItemGood
  <2> QED
    BY <1>1, <1>12, <2>1, <2>2
<1>13. CASE fn = "reduce"
  <2>1. b = tea_replace(a, -2) /\ n = 4 /\ n >= 2 /\ n < 100
    BY <1>1, <1>4, <1>13
  <2>2. /\ Good(b) /\ b.lists = a.lists
        /\ Len(b.frame) = n - 1 /\ b.frame[n - 1] = top
        /\ \A p \in 1..n - 2 : b.frame[p] = a.frame[p]
    BY <2>1, ReplaceGood
  <2> QED
    BY <1>1, <1>13, <2>1, <2>2
<1>14. CASE fn = "foreach"
  BY <1>1, <1>4, <1>9, <1>14 DEF d
<1>15. CASE fn = "find" /\ yes
  <2>1. b = e
    BY <1>4, <1>7, <1>15 DEF d, e
  <2> QED
    BY <1>5, <1>7, <1>11, <1>15, <2>1
<1>16. CASE fn = "find" /\ ~yes
  <2>1. b = d
    BY <1>4, <1>7, <1>16 DEF d
  <2> QED
    BY <1>5, <1>7, <1>9, <1>16, <2>1
<1>17. CASE fn = "filter" /\ yes
  <2>1. b = tea_add_item(e, 2) /\ Len(e.frame) >= 3 /\ e.frame[3] = New /\ n = 4
    BY <1>1, <1>4, <1>7, <1>11, <1>17 DEF d, e
  <2>2. /\ Good(b) /\ Len(b.frame) = Len(e.frame) - 1
        /\ \A p \in 1..Len(e.frame) - 1 : b.frame[p] = e.frame[p]
        /\ b.lists = tea_list_add(e.lists, New, e.frame[Len(e.frame)])
    BY <1>11, <2>1, AddItemGood, SMTT(20)
  <2>3. /\ Len(b.frame) = 3 /\ b.frame[1] = l1 /\ b.frame[2] = a.frame[2] /\ b.frame[3] = New
        /\ b.lists = tea_list_add(a.lists, New, item)
    BY <1>1, <1>11, <1>17, <2>1, <2>2
  <2> QED
    BY <1>5, <1>7, <1>17, <2>1, <2>2, <2>3
<1>18. CASE fn = "filter" /\ ~yes
  <2>1. b = d
    BY <1>4, <1>7, <1>18 DEF d
  <2> QED
    BY <1>1, <1>5, <1>7, <1>9, <1>18, <2>1
<1> QED
  BY <1>12, <1>13, <1>14, <1>15, <1>16, <1>17, <1>18 DEF Loops

\* What a loop does with an answer.
LEMMA UseAnswerKeeps ==
    ASSUME Typed, LoopInv, UseAnswer, ~past.shrunk, job'.pc \in {"turn", "done"}
    PROVE  LET item == api.lists[l1][job.i + 1]
               v == Last(past.answers)
           IN  /\ Good(api') /\ item \in Value /\ v \in Value
               /\ job'.pc = "done" <=> job.fn = "find" /\ v = True
               /\ job.fn \in {"find", "filter"} => v \in {True, False}
               /\ job.fn = "find" /\ v = True =>
                    Len(api'.frame) = 3 /\ api'.frame[3] = item
               /\ job'.pc = "turn" =>
                    /\ Len(api'.frame) = Base /\ api'.frame[1] = l1 /\ api'.frame[2] = past.args[1]
                    /\ job.fn \in {"map", "filter"} => api'.frame[3] = New
                    /\ job.fn = "reduce" => api'.frame[3] = v
               /\ job.fn = "map" => api'.lists = tea_list_add(api.lists, New, v)
               /\ job.fn = "filter" /\ v = True => api'.lists = tea_list_add(api.lists, New, item)
               /\ job.fn # "map" /\ (job.fn # "filter" \/ v # True) => api'.lists = api.lists
<1> DEFINE fn == job.fn
           item == api.lists[l1][job.i + 1]
           v == Last(past.answers)
           b == UsedAnswer(fn, api, job.i)
           n == Len(api.frame)
           to == IF fn = "find" /\ ValueAt(api, -1) = True THEN "done" ELSE "turn"
<1>1. job.pc = "answered" /\ fn \in Loops /\ api' = b /\ job'.pc = After(b, to)
  <2>1. job \in Jobs
    BY DEF Typed
  <2> QED
    BY <2>1 DEF UseAnswer, Jobs
<1>2. job'.pc = to /\ ~b.fails
  BY <1>1, AfterIs
<1>3. /\ Good(api) /\ Len(api.lists[l1]) >= job.len /\ n = Base + 1
      /\ api.frame[1] = l1 /\ api.frame[2] = past.args[1]
      /\ fn \in {"map", "filter"} => api.frame[3] = New
      /\ api.frame[n] = v
  BY <1>1 DEF LoopInv, LoopFrame, Looping, Running
<1>4. Base = IF fn \in {"find", "foreach"} THEN 2 ELSE 3
  BY DEF Base
<1>5. job.i \in Nat /\ job.len \in Nat /\ job.i < job.len
  BY <1>1 DEF Typed, Jobs, LoopInv, LoopCounts, Looping, Running
<1>6. job.i < Len(api.lists[l1]) /\ Len(api.lists[l1]) \in Nat /\ api.lists[l1] \in Seq(Value)
  BY <1>3, <1>5, GoodOK, Kinds
<1>7. item \in Value /\ v \in Value /\ n \in Nat /\ n >= 3 /\ n < 100
  BY <1>3, <1>4, <1>5, <1>6, GoodOK
<1>8. ValueAt(api, -1) = v
  <2>1. -1 \in Int /\ n \in 1..n /\ -1 = n - n - 1
    <3> HIDE DEF n
    <3> QED
      BY <1>7
  <2> QED
    BY <1>3, <1>7, <2>1, SlotValue
<1>9. LET top == api.frame[n]
      IN   /\ Good(b)
           /\ fn \in {"find", "filter"} => top \in {True, False}
           /\ fn = "find" /\ top = True =>
                Len(b.frame) = n /\ b.frame[n] = item /\ b.lists = api.lists
           /\ fn # "find" \/ top # True =>
                /\ Len(b.frame) = n - 1 /\ b.frame[1] = l1 /\ b.frame[2] = api.frame[2]
                /\ fn \in {"map", "filter"} => b.frame[3] = New
                /\ fn = "reduce" => b.frame[3] = top
           /\ fn = "map" => b.lists = tea_list_add(api.lists, New, top)
           /\ fn = "filter" /\ top = True => b.lists = tea_list_add(api.lists, New, item)
           /\ fn # "map" /\ (fn # "filter" \/ top # True) => b.lists = api.lists
  <2>1. Len(api.frame) = (IF fn \in {"find", "foreach"} THEN 2 ELSE 3) + 1
    BY <1>3, <1>4
  <2>2. /\ Good(api) /\ api.frame[1] = l1 /\ (fn \in {"map", "filter"} => api.frame[3] = New)
        /\ job.i \in Nat /\ job.i < Len(api.lists[l1]) /\ fn \in Loops
        /\ b = UsedAnswer(fn, api, job.i) /\ ~b.fails
    BY <1>1, <1>2, <1>3, <1>5, <1>6
  <2> HIDE DEF b, fn
  <2> QED
    BY <2>1, <2>2, UsedAnswerIs, SMTT(40)
<1> HIDE DEF b, v, item
<1>10. n - 1 = Base /\ (fn = "find" => n = 3)
  BY <1>3, <1>4
<1>11. job'.pc = "done" <=> fn = "find" /\ v = True
  BY <1>2, <1>8
<1>12. /\ Good(api') /\ item \in Value /\ v \in Value
       /\ fn \in {"find", "filter"} => v \in {True, False}
       /\ fn = "find" /\ v = True =>
            Len(api'.frame) = 3 /\ api'.frame[3] = item
       /\ job'.pc = "turn" =>
            /\ Len(api'.frame) = Base /\ api'.frame[1] = l1 /\ api'.frame[2] = past.args[1]
            /\ fn \in {"map", "filter"} => api'.frame[3] = New
            /\ fn = "reduce" => api'.frame[3] = v
       /\ fn = "map" => api'.lists = tea_list_add(api.lists, New, v)
       /\ fn = "filter" /\ v = True => api'.lists = tea_list_add(api.lists, New, item)
       /\ fn # "map" /\ (fn # "filter" \/ v # True) => api'.lists = api.lists
  BY <1>1, <1>3, <1>7, <1>9, <1>10, <1>11
<1> QED
  BY <1>11, <1>12 DEF v, item

\* One more item of a prefix.
LEMMA SubSeqNext ==
    ASSUME NEW s \in Seq(Value), NEW n \in Nat, n + 1 <= Len(s)
    PROVE  SubSeq(s, 1, n + 1) = Append(SubSeq(s, 1, n), s[n + 1])
<1> DEFINE t == SubSeq(s, 1, n)
           u == SubSeq(s, 1, n + 1)
           w == Append(t, s[n + 1])
<1>1. t \in Seq(Value) /\ Len(t) = n /\ \A p \in 1..n : t[p] = s[p]
  OBVIOUS
<1>2. u \in Seq(Value) /\ Len(u) = n + 1 /\ \A p \in 1..n + 1 : u[p] = s[p]
  OBVIOUS
<1>3. s[n + 1] \in Value
  OBVIOUS
<1> HIDE DEF t, u
<1>4. w \in Seq(Value) /\ Len(w) = n + 1 /\ w[n + 1] = s[n + 1] /\ \A p \in 1..n : w[p] = t[p]
  BY <1>1, <1>3
<1> HIDE DEF w
<1>5. Len(u) = Len(w) /\ \A p \in 1..Len(u) : u[p] = w[p]
  BY <1>1, <1>2, <1>4
<1>6. u = w
  BY <1>2, <1>4, <1>5
<1> QED
  BY <1>6 DEF u, w, t

\* One more answer.
LEMMA YesNext ==
    ASSUME past \in Pasts, NEW n \in Nat
    PROVE  /\ Yes(n) \subseteq 1..n
           /\ past.answers[n + 1] = True => Yes(n + 1) = Yes(n) \cup {n + 1}
           /\ past.answers[n + 1] # True => Yes(n + 1) = Yes(n)
  BY DEF Yes

\* A loop goes on after an answer.
LEMMA UseAnswerStep ==
    ASSUME Typed, LoopInv, UseAnswer
    PROVE  Typed' /\ LoopInv' /\ job'.fn \in Loops
<1> DEFINE item == api.lists[l1][job.i + 1]
           v == Last(past.answers)
<1>1. job.pc = "answered" /\ job.fn \in Loops /\ past' = past
  BY DEF UseAnswer
<1>2. job \in Jobs /\ past \in Pasts
  BY DEF Typed
<1>3. /\ job' \in Jobs /\ job'.fn = job.fn /\ job'.len = job.len /\ job'.i = job.i + 1
      /\ job'.sort = job.sort /\ job'.pc \in {"turn", "done", "raised", "strayed"}
  <2> DEFINE pc == After(api', IF job.fn = "find" /\ ValueAt(api, -1) = True THEN "done" ELSE "turn")
  <2>1. job' = [job EXCEPT !.i = @ + 1, !.pc = pc]
    BY DEF UseAnswer
  <2>2. pc \in {"turn", "done", "raised", "strayed"} /\ job.i \in Nat /\ job.i + 1 \in Nat
    BY <1>2, AfterIs DEF Jobs
  <2> HIDE DEF pc
  <2> QED
    BY <1>2, <2>1, <2>2 DEF Jobs, Pcs
<1>4. Typed'
  BY <1>1, <1>2, <1>3 DEF Typed, Loops
<1>5. /\ Len(past.args) = 1 /\ job.len = Len(Before)
      /\ job.fn = "reduce" => job.i >= 1
      /\ Len(past.answers) = Used + 1 /\ job.i < job.len
  BY <1>1 DEF LoopInv, LoopCounts, Looping, Running
<1>6. job.i \in Nat /\ job.len \in Nat /\ Used \in Nat /\ Before' = Before
      /\ Used' = Used + 1
  BY <1>1, <1>2, <1>3, <1>5 DEF Jobs, Before, Used
<1>7. past.answers \in Seq(Value) /\ Len(past.answers) = Used' /\ past.answers # << >>
      /\ v = past.answers[Used'] /\ (job.fn # "reduce" => Used' = job.i + 1)
  BY <1>2, <1>3, <1>5, <1>6, SMTT(20) DEF Pasts, Last, Used
<1>8. LoopCounts'
  BY <1>1, <1>2, <1>3, <1>5, <1>6 DEF LoopCounts, Looping, Running
<1>9. CASE job'.pc \in {"raised", "strayed"}
  BY <1>1, <1>3, <1>4, <1>9 DEF LoopInv, LoopCounts, LoopFrame, LoopMakes, LoopResults, Looping, Running, Ended
<1>10. CASE job'.pc \in {"turn", "done"}
  <2>1. ASSUME ~past.shrunk
        PROVE  /\ Good(api') /\ item \in Value /\ v \in Value
               /\ job'.pc = "done" <=> job.fn = "find" /\ v = True
               /\ job.fn \in {"find", "filter"} => v \in {True, False}
               /\ job.fn = "find" /\ v = True =>
                    Len(api'.frame) = 3 /\ api'.frame[3] = item
               /\ job'.pc = "turn" =>
                    /\ Len(api'.frame) = Base /\ api'.frame[1] = l1 /\ api'.frame[2] = past.args[1]
                    /\ job.fn \in {"map", "filter"} => api'.frame[3] = New
                    /\ job.fn = "reduce" => api'.frame[3] = v
               /\ job.fn = "map" => api'.lists = tea_list_add(api.lists, New, v)
               /\ job.fn = "filter" /\ v = True => api'.lists = tea_list_add(api.lists, New, item)
               /\ job.fn # "map" /\ (job.fn # "filter" \/ v # True) => api'.lists = api.lists
    BY <1>10, <2>1, UseAnswerKeeps
  <2>2. ASSUME ~past.shrunk
        PROVE  Good(api) /\ Len(api.lists[l1]) >= job.len /\ api.lists \in Lists
    BY <1>1, <2>2, GoodOK DEF LoopInv, LoopFrame, Looping, Running
  <2>0. ASSUME ~past.shrunk, NEW u \in Value
        PROVE  LET ls == tea_list_add(api.lists, New, u) IN
               ls[l1] = api.lists[l1] /\ ls[New] = Append(api.lists[New], u)
    <3>1. /\ tea_list_add(api.lists, New, u)[New] = Append(api.lists[New], u)
          /\ \A m \in List : m # New => tea_list_add(api.lists, New, u)[m] = api.lists[m]
      <4> DEFINE ls == api.lists
      <4>1. ls \in Lists /\ New \in List /\ u \in Value
        BY <2>0, <2>2, Kinds
      <4> HIDE DEF ls
      <4>2. /\ tea_list_add(ls, New, u)[New] = Append(ls[New], u)
            /\ \A m \in List : m # New => tea_list_add(ls, New, u)[m] = ls[m]
        BY <4>1, ListAddIs
      <4> QED
        BY <4>2 DEF ls
    <3> QED
      BY <3>1, Kinds
  <2>3. ASSUME ~past.shrunk PROVE api'.lists[l1] = api.lists[l1]
    <3>1. CASE job.fn = "map"
      BY <2>0, <2>1, <2>3, <3>1
    <3>2. CASE job.fn = "filter" /\ v = True
      BY <2>0, <2>1, <2>3, <3>2
    <3> QED
      BY <2>1, <2>3, <3>1, <3>2
  <2>4. LoopFrame'
    <3>1. SUFFICES ASSUME ~past.shrunk, job'.pc = "turn" PROVE LoopFrame'
      BY <1>1, <1>10 DEF LoopFrame, Looping, Running
    <3>2. Base' = Base /\ Base \in {2, 3} /\ Acc' = v
      BY <1>1, <1>3, <1>7 DEF Base, Acc
    <3> QED
      BY <1>1, <1>3, <2>1, <2>2, <2>3, <3>1, <3>2 DEF LoopFrame
  <2>5. ASSUME ~past.changed
        PROVE  /\ ~past.shrunk /\ api.lists[l1] = Before
               /\ job.fn = "map" => api.lists[New] = SubSeq(past.answers, 1, job.i)
               /\ job.fn = "filter" => api.lists[New] = Chosen(Before, Yes(job.i))
               /\ job.fn = "find" => Yes(job.i) = {}
    BY <1>1, <2>5 DEF LoopInv, LoopMakes, Looping, Running, Typed
  <2>6. ASSUME job.fn # "reduce"
        PROVE  /\ Yes(job.i) \subseteq 1..job.i
               /\ v = True => Yes(job.i + 1) = Yes(job.i) \cup {job.i + 1}
               /\ v # True => Yes(job.i + 1) = Yes(job.i)
    BY <1>2, <1>6, <1>7, <2>6, YesNext
  <2>7. \A m : (Yes(m))' = Yes(m)
    BY <1>1 DEF Yes
  <2>8. LoopMakes'
    <3>1. SUFFICES ASSUME ~past.changed, job'.pc = "turn"
                   PROVE  /\ api'.lists[l1] = Before
                          /\ job.fn = "map" => api'.lists[New] = SubSeq(past.answers, 1, job.i + 1)
                          /\ job.fn = "filter" => api'.lists[New] = Chosen(Before, Yes(job.i + 1))
                          /\ job.fn = "find" => Yes(job.i + 1) = {}
      BY <1>1, <1>3, <1>6, <1>10, <2>7 DEF LoopMakes, Looping, Running
    <3>2. api'.lists[l1] = Before
      BY <2>3, <2>5, <3>1
    <3>3. ASSUME job.fn = "map" PROVE api'.lists[New] = SubSeq(past.answers, 1, job.i + 1)
      <4>1. api'.lists[New] = Append(SubSeq(past.answers, 1, job.i), v)
        BY <2>0, <2>1, <2>5, <3>1, <3>3
      <4>2. past.answers[job.i + 1] = v /\ Len(past.answers) = job.i + 1
        BY <1>7, <3>3
      <4>3. SubSeq(past.answers, 1, job.i + 1) = Append(SubSeq(past.answers, 1, job.i), past.answers[job.i + 1])
        <5>1. past.answers \in Seq(Value) /\ job.i \in Nat /\ job.i + 1 <= Len(past.answers)
          BY <1>6, <1>7, <4>2
        <5> QED
          BY <5>1, SubSeqNext
      <4> QED
        BY <4>1, <4>2, <4>3
    <3>4. ASSUME job.fn = "filter" PROVE api'.lists[New] = Chosen(Before, Yes(job.i + 1))
      <4>1. CASE v = True
        <5>1. api.lists[New] \in Seq(Value) /\ api.lists[New] = Chosen(Before, Yes(job.i))
              /\ Before \in Seq(Value)
          BY <2>2, <2>5, <3>1, <3>4, Kinds DEF Lists
        <5>2. job.i + 1 <= Len(Before) /\ Yes(job.i) \subseteq 1..job.i
          BY <1>5, <1>6, <2>6, <3>4
        <5>3. Append(api.lists[New], Before[job.i + 1]) = Chosen(Before, Yes(job.i) \cup {job.i + 1})
          <6> DEFINE at == Yes(job.i)
                     n == job.i
                     t == api.lists[New]
          <6>1. /\ Before \in Seq(Value) /\ t \in Seq(Value) /\ n \in Nat
                /\ n + 1 <= Len(Before) /\ at \subseteq 1..n /\ t = Chosen(Before, at)
            BY <1>6, <5>1, <5>2
          <6> HIDE DEF at, n, t
          <6>2. Append(t, Before[n + 1]) = Chosen(Before, at \cup {n + 1})
            BY <6>1, ChosenAppend, ZenonT(20)
          <6> QED
            BY <6>2 DEF at, n, t
        <5>4. api'.lists[New] = Append(api.lists[New], item) /\ item = Before[job.i + 1]
          BY <2>0, <2>1, <2>5, <3>1, <3>4, <4>1
        <5> QED
          BY <2>6, <3>4, <4>1, <5>3, <5>4
      <4>2. CASE v # True
        BY <2>1, <2>5, <2>6, <3>1, <3>4, <4>2
      <4> QED
        BY <4>1, <4>2
    <3>5. ASSUME job.fn = "find" PROVE Yes(job.i + 1) = {}
      BY <2>1, <2>5, <2>6, <3>1, <3>5
    <3> QED
      BY <3>2, <3>3, <3>4, <3>5
  <2>9. LoopResults'
    <3>1. SUFFICES ASSUME ~past.changed, job'.pc = "done" PROVE LoopResults'
      BY <1>1 DEF LoopResults
    <3>2. /\ job.fn = "find" /\ v = True /\ Len(api'.frame) = 3 /\ api'.frame[3] = Before[job.i + 1]
          /\ api'.lists[l1] = Before
      BY <2>1, <2>3, <2>5, <3>1
    <3>3. Result' = Before[job.i + 1]
      BY <3>2 DEF Result, Last
    <3>4. Len(past.answers) = job.i + 1 /\ Yes(job.i + 1) = {job.i + 1}
      BY <1>7, <2>5, <2>6, <3>1, <3>2
    <3>5. {p \in 1..Len(past.answers) : past.answers[p] = True} = {job.i + 1}
      BY <3>4 DEF Yes
    <3> QED
      BY <1>1, <1>3, <1>6, <3>2, <3>3, <3>4, <3>5 DEF LoopResults
  <2> QED
    BY <1>1, <1>3, <1>4, <1>8, <2>4, <2>8, <2>9 DEF LoopInv
<1> QED
  BY <1>3, <1>9, <1>10

\* What a loop returns.
LEMMA FinishKeeps ==
    ASSUME Typed, LoopInv, Finish, ~past.changed
    PROVE  /\ api'.lists = api.lists
           /\ Result' = CASE job.fn \in {"map", "filter"} -> New
                          [] job.fn = "find" -> Nil
                          [] job.fn = "foreach" -> l1
                          [] job.fn = "reduce" -> Acc
<1> DEFINE b == Closed(job.fn, api)
           n == Len(api.frame)
<1>1. job.pc = "turn" /\ job.fn \in Loops /\ api' = b
  BY DEF Finish
<1>2. /\ Good(api) /\ n = Base /\ api.frame[1] = l1
      /\ job.fn \in {"map", "filter"} => api.frame[3] = New
      /\ job.fn = "reduce" => api.frame[3] = Acc
  <2>1. ~past.shrunk
    BY DEF Typed
  <2> QED
    BY <1>1, <2>1 DEF LoopInv, LoopFrame, Looping, Running, Base
<1>3. Base = IF job.fn \in {"find", "foreach"} THEN 2 ELSE 3
  BY DEF Base
<1>4. Result' = b.frame[Len(b.frame)]
  BY <1>1 DEF Result, Last
<1>5. CASE job.fn \in {"map", "filter"}
  <2>1. b = tea_push_value(api, 2) /\ n = 3
    BY <1>2, <1>3, <1>5 DEF Closed
  <2>2. 2 \in Int /\ 3 \in 1..n /\ 2 = 3 - 1
    BY <2>1
  <2>3. Grown(api, b, api.frame[3])
    BY <1>2, <2>1, <2>2, PushValueGood
  <2>4. b.lists = api.lists /\ Len(b.frame) = n + 1 /\ b.frame[n + 1] = api.frame[3]
    BY <2>3 DEF Grown
  <2> QED
    BY <1>1, <1>2, <1>4, <1>5, <2>4
<1>6. CASE job.fn = "find"
  <2>1. b = Push(api, Nil) /\ Nil \in Value
    BY <1>6 DEF Closed, Value, Atom
  <2>2. Grown(api, b, Nil)
    BY <1>2, <2>1, PushGood
  <2>3. b.lists = api.lists /\ Len(b.frame) = n + 1 /\ b.frame[n + 1] = Nil
    BY <2>2 DEF Grown
  <2> QED
    BY <1>1, <1>2, <1>4, <1>6, <2>3
<1>7. CASE job.fn = "foreach"
  <2>1. b = tea_set_top(api, 1)
    BY <1>7 DEF Closed
  <2>2. api \in Apis /\ n = 2
    BY <1>2, <1>3, <1>7 DEF Good
  <2>3. Expect(api, 1 >= 0) \in Apis /\ Expect(api, 1 >= 0).lists = api.lists /\ Expect(api, 1 >= 0).frame = api.frame
    <3>1. 1 >= 0
      OBVIOUS
    <3>2. Expect(api, 1 >= 0) = api
      BY <1>2, <3>1, ExpectTrue, Zenon
    <3> QED
      BY <2>2, <3>2
  <2>4. b = [Expect(api, 1 >= 0) EXCEPT !.frame = [p \in 1..1 |-> IF p <= n THEN @[p] ELSE Nil]]
    BY <2>1 DEF tea_set_top, tea_get_top
  <2>5. b.lists = api.lists /\ b.frame = [p \in 1..1 |-> IF p <= n THEN api.frame[p] ELSE Nil]
    BY <2>3, <2>4 DEF Apis
  <2>6. Len(b.frame) = 1 /\ b.frame[1] = l1
    BY <1>2, <2>2, <2>5
  <2> QED
    BY <1>1, <1>4, <1>7, <2>5, <2>6
<1>8. CASE job.fn = "reduce"
  <2>1. b = api /\ n = 3
    BY <1>2, <1>3, <1>8 DEF Closed
  <2> QED
    BY <1>1, <1>2, <1>4, <1>8, <2>1
<1> QED
  BY <1>1, <1>5, <1>6, <1>7, <1>8 DEF Loops

\* The end of a loop.
LEMMA FinishStep ==
    ASSUME Typed, LoopInv, Finish
    PROVE  Typed' /\ LoopInv' /\ job'.fn \in Loops
<1>1. job.pc = "turn" /\ job.fn \in Loops /\ job.i >= job.len /\ past' = past /\ job' = [job EXCEPT !.pc = "done"]
  BY DEF Finish
<1>2. job \in Jobs /\ past \in Pasts
  BY DEF Typed
<1>3. job' \in Jobs /\ job'.fn = job.fn /\ job'.len = job.len /\ job'.i = job.i /\ job'.pc = "done"
  BY <1>1, <1>2 DEF Jobs, Pcs
<1>4. Typed'
  BY <1>1, <1>3 DEF Typed, Loops
<1>5. /\ job.len = Len(Before) /\ job.i <= job.len
      /\ job.fn = "reduce" => job.i >= 1
      /\ Len(past.answers) = Used
  BY <1>1 DEF LoopInv, LoopCounts, Looping, Running
<1>6. job.i = job.len /\ job.len \in Nat
  BY <1>1, <1>2, <1>5 DEF Jobs
<1>7. LoopResults'
  <2>1. SUFFICES ASSUME ~past.changed PROVE LoopResults'
    BY <1>1 DEF LoopResults
  <2>2. /\ api.lists[l1] = Before
        /\ job.fn = "map" => api.lists[New] = SubSeq(past.answers, 1, job.i)
        /\ job.fn = "filter" => api.lists[New] = Chosen(Before, Yes(job.i))
        /\ job.fn = "find" => Yes(job.i) = {}
    BY <1>1, <2>1 DEF LoopInv, LoopMakes, Looping, Running
  <2>3. api'.lists = api.lists /\ Before' = Before
    BY <1>1, <2>1, FinishKeeps DEF Before
  <2>4. /\ job.fn \in {"map", "filter"} => Result' = New
        /\ job.fn = "find" => Result' = Nil
        /\ job.fn = "foreach" => Result' = l1
        /\ job.fn = "reduce" => Result' = Acc
    BY <1>1, <2>1, FinishKeeps
  <2>5. job.fn # "reduce" => Len(past.answers) = job.i /\ Len(past.answers) = Len(Before)
    BY <1>5, <1>6 DEF Used
  <2>6. job.fn = "map" => api.lists[New] = past.answers
    <3>1. past.answers \in Seq(Value)
      BY <1>2 DEF Pasts
    <3>2. SubSeq(past.answers, 1, Len(past.answers)) = past.answers
      BY <3>1
    <3> QED
      BY <2>2, <2>5, <3>2
  <2>7. job.fn # "reduce" => {p \in 1..Len(past.answers) : past.answers[p] = True} = Yes(job.i)
    BY <2>5 DEF Yes
  <2>8. job.fn = "reduce" => /\ Before # << >>
                             /\ Acc = IF Len(past.answers) = 0 THEN Before[1] ELSE past.answers[Len(past.answers)]
    <3>1. past.answers \in Seq(Value) /\ (past.answers = << >> <=> Len(past.answers) = 0)
      BY <1>2 DEF Pasts
    <3>2. job.fn = "reduce" => Len(Before) >= 1
      BY <1>5, <1>6
    <3>3. Before = << >> => Len(Before) = 0
      OBVIOUS
    <3> QED
      BY <3>1, <3>2, <3>3 DEF Acc, Last
  <2>9. /\ api'.lists[l1] = Before'
        /\ job.fn \in {"map", "filter", "foreach"} => Len(past.answers) = Len(Before)
        /\ job.fn = "map" => Result' = New /\ api'.lists[New] = past.answers
        /\ job.fn = "filter" => Result' = New /\ api'.lists[New] =
                 Chosen(Before, {p \in 1..Len(past.answers) : past.answers[p] = True})
        /\ job.fn = "find" => {p \in 1..Len(past.answers) : past.answers[p] = True} = {}
             /\ Len(past.answers) = Len(Before) /\ Result' = Nil
        /\ job.fn = "foreach" => Result' = l1
        /\ job.fn = "reduce" =>
             Result' = IF Before = << >> THEN l1 ELSE IF Len(past.answers) = 0 THEN Before[1] ELSE past.answers[Len(past.answers)]
    BY <2>2, <2>3, <2>4, <2>5, <2>6, <2>7, <2>8
  <2>10. job.fn # "iter"
    BY <1>1 DEF Loops
  <2> QED
    BY <1>1, <1>3, <2>3, <2>9, <2>10 DEF LoopResults
<1> QED
  BY <1>1, <1>3, <1>4, <1>7 DEF LoopInv, LoopCounts, LoopFrame, LoopMakes, Looping, Running

\* An answer replaces the function and its arguments.
LEMMA AnsweredIs ==
    ASSUME NEW a, Good(a), NEW n \in Nat, n + 1 <= Len(a.frame), NEW v \in Value
    PROVE  LET b == Answered(a, n, v)
               m == Len(a.frame) - (n + 1)
           IN  /\ Good(b) /\ b.up = a.up /\ b.lists = a.lists
               /\ Len(b.frame) = m + 1 /\ b.frame[m + 1] = v
               /\ \A p \in 1..m : b.frame[p] = a.frame[p]
<1> DEFINE m == Len(a.frame) - (n + 1)
           c == tea_pop(a, n + 1)
           b == Answered(a, n, v)
<1>1. n + 1 \in 0..Len(a.frame) /\ Len(a.frame) \in Nat
  BY GoodOK
<1>2. Dropped(a, c, n + 1)
  BY <1>1, PopGood
<1>3. Good(c) /\ c.up = a.up /\ c.lists = a.lists /\ Len(c.frame) = m /\ \A p \in 1..m : c.frame[p] = a.frame[p]
  BY <1>2 DEF Dropped
<1>4. b = Push(c, v)
  BY DEF Answered
<1> HIDE DEF b, c, m
<1>5. Grown(c, b, v)
  BY <1>3, <1>4, PushGood
<1>6. /\ Good(b) /\ b.up = a.up /\ b.lists = a.lists
      /\ Len(b.frame) = m + 1 /\ b.frame[m + 1] = v
      /\ \A p \in 1..m : b.frame[p] = a.frame[p]
  BY <1>3, <1>5 DEF Grown
<1> QED
  BY <1>6 DEF b, m

\* The same by the place of the answer.
LEMMA AnsweredAt ==
    ASSUME NEW a, Good(a), NEW n \in Nat, NEW m \in Nat, Len(a.frame) = m + (n + 1), NEW v \in Value
    PROVE  /\ Good(Answered(a, n, v)) /\ Answered(a, n, v).lists = a.lists
           /\ Len(Answered(a, n, v).frame) = m + 1 /\ Answered(a, n, v).frame[m + 1] = v
           /\ \A p \in 1..m : Answered(a, n, v).frame[p] = a.frame[p]
<1> DEFINE e == Len(a.frame) - (n + 1)
           b == Answered(a, n, v)
<1>1. e = m /\ n + 1 <= Len(a.frame)
  OBVIOUS
<1>2. /\ Good(b) /\ b.lists = a.lists /\ Len(b.frame) = e + 1 /\ b.frame[e + 1] = v
      /\ \A p \in 1..e : b.frame[p] = a.frame[p]
  BY <1>1, AnsweredIs, SMTT(20)
<1> HIDE DEF b, e
<1>3. /\ Good(b) /\ b.lists = a.lists /\ Len(b.frame) = m + 1 /\ b.frame[m + 1] = v
      /\ \A p \in 1..m : b.frame[p] = a.frame[p]
  BY <1>1, <1>2
<1> QED
  BY <1>3 DEF b

\* The function called returns.
LEMMA AnswerOf ==
    ASSUME Typed, AnswerCall
    PROVE  /\ job.pc = "called" /\ Typed'
           /\ job'.fn = job.fn /\ job'.len = job.len /\ job'.i = job.i /\ job'.sort = job.sort
           /\ job'.pc = "answered"
           /\ \E v \in Value :
                /\ api' = Answered(api, Takes, v)
                /\ past'.args = past.args /\ past'.lists = past.lists
                /\ past'.changed = past.changed /\ past'.shrunk = past.shrunk
                /\ job.fn # "sort" => past'.answers = Append(past.answers, v) /\ past'.lies = past.lies
                /\ job.fn = "sort" =>
                     /\ past'.answers = past.answers
                     /\ past'.lies = 0 =>
                          past.lies = 0 /\ v = Order(Arguments(api, Takes)[1], Arguments(api, Takes)[2])
                     /\ past.lies > 0 => past'.lies > 0
<1>1. job.pc = "called" /\ job' = [job EXCEPT !.pc = "answered"]
  BY DEF AnswerCall
<1>2. PICK v \in Answer :
         LET args == Arguments(api, Takes)
             lie == job.fn = "sort" /\ v # Order(args[1], args[2])
         IN  /\ lie => past.lies < MaxLies
             /\ api' = Answered(api, Takes, v)
             /\ past' = [past EXCEPT !.lies = IF lie THEN @ + 1 ELSE @,
                                     !.answers = IF job.fn = "sort" THEN @ ELSE Append(@, v)]
  BY DEF AnswerCall
<1>3. v \in Value
  BY LibConstantsOK
<1>4. job \in Jobs /\ past \in Pasts
  BY DEF Typed
<1> DEFINE lie == job.fn = "sort" /\ v # Order(Arguments(api, Takes)[1], Arguments(api, Takes)[2])
           lies == IF lie THEN past.lies + 1 ELSE past.lies
           answers == IF job.fn = "sort" THEN past.answers ELSE Append(past.answers, v)
<1>5. api' = Answered(api, Takes, v) /\ past' = [past EXCEPT !.lies = lies, !.answers = answers]
  BY <1>2
<1>6. lies \in Nat /\ answers \in Seq(Value) /\ past.lies \in Nat
  BY <1>3, <1>4 DEF Pasts
<1>7. (lies = 0 => past.lies = 0 /\ ~lie) /\ (past.lies > 0 => lies > 0) /\ (job.fn # "sort" => lies = past.lies)
  BY <1>6
<1> HIDE DEF lies, answers
<1>8. /\ past' \in Pasts /\ past'.args = past.args /\ past'.lists = past.lists
      /\ past'.changed = past.changed /\ past'.shrunk = past.shrunk
      /\ past'.answers = answers /\ past'.lies = lies
  BY <1>4, <1>5, <1>6 DEF Pasts
<1>9. /\ job' \in Jobs /\ job'.fn = job.fn /\ job'.len = job.len /\ job'.i = job.i /\ job'.sort = job.sort
      /\ job'.pc = "answered"
  BY <1>1, <1>4 DEF Jobs, Pcs
<1>10. Typed'
  BY <1>1, <1>8, <1>9 DEF Typed
<1>11. answers = IF job.fn = "sort" THEN past.answers ELSE Append(past.answers, v)
  BY DEF answers
<1>12. /\ job.fn # "sort" => past'.answers = Append(past.answers, v) /\ past'.lies = past.lies
       /\ job.fn = "sort" =>
            /\ past'.answers = past.answers
            /\ past'.lies = 0 =>
                 past.lies = 0 /\ v = Order(Arguments(api, Takes)[1], Arguments(api, Takes)[2])
            /\ past.lies > 0 => past'.lies > 0
  BY <1>7, <1>8, <1>11
<1> QED
  BY <1>1, <1>3, <1>5, <1>8, <1>9, <1>10, <1>12

\* An answer for a loop.
LEMMA AnswerLoopStep ==
    ASSUME Typed, LoopInv, AnswerCall, job.fn \in Loops
    PROVE  LoopInv'
<1>1. /\ job.pc = "called" /\ Typed'
      /\ job'.fn = job.fn /\ job'.len = job.len /\ job'.i = job.i /\ job'.pc = "answered"
      /\ job.fn # "sort"
  BY AnswerOf DEF Loops
<1>2. PICK v \in Value :
                /\ api' = Answered(api, Takes, v)
                /\ past'.args = past.args /\ past'.lists = past.lists
                /\ past'.changed = past.changed /\ past'.shrunk = past.shrunk
                /\ past'.answers = Append(past.answers, v)
  BY <1>1, AnswerOf
<1>3. past.answers \in Seq(Value) /\ job.i \in Nat
  BY DEF Typed, Pasts, Jobs
<1>4. /\ Len(past.args) = 1
      /\ job.len = Len(Before) /\ job.i <= job.len
      /\ job.fn = "reduce" => job.i >= 1
      /\ Len(past.answers) = Used
      /\ job.i < job.len
  BY <1>1 DEF LoopInv, LoopCounts, Looping, Running
<1>5. Before' = Before /\ Used' = Used
  BY <1>1, <1>2 DEF Before, Used
<1>6. /\ Len(past'.answers) = Used + 1 /\ Last(past'.answers) = v
      /\ SubSeq(past'.answers, 1, Used) = past.answers
      /\ \A p \in 1..Used : past'.answers[p] = past.answers[p]
  <2>1. past'.answers = Append(past.answers, v)
    BY <1>2
  <2>2. /\ past'.answers \in Seq(Value) /\ Len(past'.answers) = Used + 1 /\ past'.answers[Used + 1] = v
        /\ \A p \in 1..Used : past'.answers[p] = past.answers[p]
    BY <1>3, <1>4, <2>1
  <2>3. Used \in Nat
    BY <1>3, <1>4
  <2>4. SubSeq(past'.answers, 1, Used) = past.answers
    BY <1>3, <1>4, <2>2, <2>3
  <2> QED
    BY <2>2, <2>4 DEF Last
<1>7. LoopCounts'
  BY <1>1, <1>2, <1>4, <1>5, <1>6 DEF LoopCounts, Looping, Running
<1>8. ASSUME ~past.shrunk
      PROVE  /\ Good(api) /\ Len(api.lists[l1]) >= job.len
             /\ Len(api.frame) = Base + 1 + Takes
             /\ api.frame[1] = l1 /\ api.frame[2] = past.args[1]
             /\ job.fn \in {"map", "filter"} => api.frame[3] = New
             /\ Base \in Nat /\ Base >= 2 /\ Takes \in Nat /\ (job.fn \in {"map", "filter"} => Base = 3)
  BY <1>1, <1>8 DEF LoopInv, LoopFrame, Looping, Running, Base, Takes
<1>9. ASSUME ~past.shrunk
      PROVE  /\ Good(api') /\ api'.lists = api.lists
             /\ Len(api'.frame) = Base + 1 /\ api'.frame[Base + 1] = v
             /\ \A p \in 1..Base : api'.frame[p] = api.frame[p]
  <2> DEFINE b == Answered(api, Takes, v)
             m == Len(api.frame) - (Takes + 1)
  <2>1. Takes \in Nat /\ Takes + 1 <= Len(api.frame) /\ m = Base
    BY <1>8, <1>9
  <2>2. /\ Good(b) /\ b.up = api.up /\ b.lists = api.lists
        /\ Len(b.frame) = m + 1 /\ b.frame[m + 1] = v
        /\ \A p \in 1..m : b.frame[p] = api.frame[p]
    BY <1>8, <1>9, <2>1, AnsweredIs
  <2> HIDE DEF b, m
  <2>3. api' = b
    BY <1>2 DEF b
  <2> QED
    BY <2>1, <2>2, <2>3
<1>10. LoopFrame'
  <2>1. SUFFICES ASSUME ~past.shrunk PROVE LoopFrame'
    BY <1>2 DEF LoopFrame
  <2>2. Base' = Base
    BY <1>1 DEF Base
  <2> QED
    <3>1. 1 \in 1..Base /\ 2 \in 1..Base /\ (job.fn \in {"map", "filter"} => 3 \in 1..Base)
      BY <1>8, <2>1
    <3>2. /\ api'.frame[1] = l1 /\ api'.frame[2] = past.args[1]
          /\ job.fn \in {"map", "filter"} => api'.frame[3] = New
      BY <1>8, <1>9, <2>1, <3>1
    <3> QED
      BY <1>1, <1>2, <1>6, <1>8, <1>9, <2>1, <2>2, <3>2 DEF LoopFrame
<1>11. LoopMakes'
  <2>1. SUFFICES ASSUME ~past.changed PROVE LoopMakes'
    BY <1>2 DEF LoopMakes
  <2>2. api'.lists = api.lists
    BY <1>9, <2>1 DEF Typed
  <2>3. job.fn # "reduce" => SubSeq(past'.answers, 1, job.i) = SubSeq(past.answers, 1, job.i) /\ (Yes(job.i))' = Yes(job.i)
    <3>1. SUFFICES ASSUME job.fn # "reduce"
                   PROVE SubSeq(past'.answers, 1, job.i) = SubSeq(past.answers, 1, job.i) /\ (Yes(job.i))' = Yes(job.i)
      OBVIOUS
    <3>2. Used = job.i
      BY <3>1 DEF Used
    <3>3. SubSeq(past'.answers, 1, job.i) = past.answers /\ Len(past.answers) = job.i
      BY <1>4, <1>6, <3>2
    <3>4. SubSeq(past.answers, 1, Len(past.answers)) = past.answers
      BY <1>3
    <3>5. (Yes(job.i))' = Yes(job.i)
      BY <1>1, <1>6, <3>2 DEF Yes
    <3> QED
      BY <3>3, <3>4, <3>5
  <2> QED
    BY <1>1, <1>2, <1>5, <2>1, <2>2, <2>3 DEF LoopInv, LoopMakes, Looping, Running
<1> QED
  BY <1>1, <1>7, <1>10, <1>11 DEF LoopInv, LoopResults, Ended

\* A list is changed by the program.
LEMMA ChangeIs ==
    ASSUME Typed, ChangeList
    PROVE  /\ Typed' /\ job' = job /\ job.pc \in {"called", "body"}
           /\ past'.changed /\ past'.args = past.args /\ past'.lists = past.lists
           /\ past'.answers = past.answers /\ past'.lies = past.lies
           /\ past.shrunk => past'.shrunk
           /\ Good(api) =>
                /\ Good(api') /\ api'.frame = api.frame /\ api'.up = api.up
                /\ \A m \in List : m # l1 => api'.lists[m] = api.lists[m]
                /\ api'.lists[l1] \in Seq(Value) /\ Len(api'.lists[l1]) <= MaxChange
                /\ ~past'.shrunk => Len(api'.lists[l1]) >= Len(api.lists[l1])
<1>1. job.pc \in {"called", "body"} /\ job' = job
  BY DEF ChangeList
<1>2. PICK c \in BoundedSeq(IF job.fn = "sort" THEN Key ELSE Item, MaxChange) :
         /\ api' = [api EXCEPT !.lists[l1] = c]
         /\ past' = [past EXCEPT !.changed = TRUE, !.shrunk = @ \/ Len(c) < Len(api.lists[l1])]
  BY DEF ChangeList
<1>3. c \in Seq(Value) /\ Len(c) <= MaxChange
  <2> DEFINE K == IF job.fn = "sort" THEN Key ELSE Item
  <2>1. K \subseteq Value /\ MaxChange \in Nat
    BY LibConstantsOK, Kinds
  <2> HIDE DEF K
  <2>2. PICK m \in 0..MaxChange : c \in [1..m -> K]
    BY <1>2 DEF BoundedSeq, SeqOf, K
  <2>3. m \in Nat /\ m <= MaxChange /\ Len(c) = m
    BY <2>1, <2>2
  <2> QED
    BY <2>1, <2>2, <2>3
<1>4. past \in Pasts /\ (past.shrunk => past.changed)
  BY DEF Typed
<1> DEFINE shrinks == Len(c) < Len(api.lists[l1])
           shrunk == past.shrunk \/ shrinks
<1>5. shrunk \in BOOLEAN /\ (past.shrunk => shrunk) /\ (~shrunk => ~shrinks)
  BY <1>4 DEF Pasts
<1>6. past' = [past EXCEPT !.changed = TRUE, !.shrunk = shrunk]
  BY <1>2
<1> HIDE DEF shrunk
<1>7. /\ past' \in Pasts /\ past'.changed = TRUE /\ past'.shrunk = shrunk /\ past'.args = past.args
      /\ past'.lists = past.lists /\ past'.answers = past.answers /\ past'.lies = past.lies
  BY <1>4, <1>5, <1>6 DEF Pasts
<1>8. Typed'
  BY <1>1, <1>7 DEF Typed
<1>9. ASSUME Good(api)
      PROVE  /\ Good(api') /\ api'.frame = api.frame /\ api'.up = api.up
             /\ \A m \in List : m # l1 => api'.lists[m] = api.lists[m]
             /\ api'.lists[l1] \in Seq(Value) /\ Len(api'.lists[l1]) <= MaxChange
             /\ ~past'.shrunk => Len(api'.lists[l1]) >= Len(api.lists[l1])
  <2> DEFINE ls == [api.lists EXCEPT ![l1] = c]
  <2>1. api.lists \in Lists /\ api \in Apis /\ l1 \in List
    BY <1>9, GoodOK, Kinds
  <2>2. ls \in Lists /\ ls[l1] = c /\ \A m \in List : m # l1 => ls[m] = api.lists[m]
    BY <1>3, <2>1 DEF Lists
  <2>3. api' = [api EXCEPT !.lists = ls]
    BY <1>2
  <2> HIDE DEF ls
  <2>4. /\ api' \in Apis /\ api'.frame = api.frame /\ api'.up = api.up /\ api'.lists = ls
        /\ api'.fails = api.fails /\ api'.misused = api.misused /\ api'.strays = api.strays
    BY <2>1, <2>2, <2>3, WithLists
  <2>5. ~past'.shrunk => Len(c) >= Len(api.lists[l1])
    BY <1>3, <1>5, <1>7, <2>1 DEF Lists
  <2> QED
    BY <1>3, <1>9, <2>2, <2>4, <2>5 DEF Good
<1> QED
  BY <1>1, <1>5, <1>7, <1>8, <1>9

\* The function called changes the list.
LEMMA ChangeLoopStep ==
    ASSUME Typed, LoopInv, ChangeList, job.fn \in Loops
    PROVE  LoopInv'
<1>1. /\ Typed' /\ job' = job /\ job.pc \in {"called", "body"}
      /\ past'.changed /\ past'.args = past.args /\ past'.lists = past.lists
      /\ past'.answers = past.answers
      /\ past.shrunk => past'.shrunk
      /\ Good(api) =>
           /\ Good(api') /\ api'.frame = api.frame
           /\ api'.lists[l1] \in Seq(Value)
           /\ ~past'.shrunk => Len(api'.lists[l1]) >= Len(api.lists[l1])
  BY ChangeIs
<1>2. LoopCounts'
  BY <1>1 DEF LoopInv, LoopCounts, Looping, Running, Before, Used
<1>3. LoopFrame'
  <2>1. SUFFICES ASSUME Looping, ~past'.shrunk PROVE LoopFrame'
    BY <1>1 DEF LoopFrame, Looping, Running
  <2>2. /\ Good(api) /\ Len(api.lists[l1]) >= job.len
        /\ Len(api.frame) = Base + (IF job.pc = "turn" THEN 0 ELSE IF job.pc = "called" THEN 1 + Takes ELSE 1)
        /\ api.frame[1] = l1 /\ api.frame[2] = past.args[1]
        /\ job.fn \in {"map", "filter"} => api.frame[3] = New
        /\ job.pc # "turn" /\ job.pc # "answered"
    BY <1>1, <2>1 DEF LoopInv, LoopFrame
  <2>3. Len(api'.lists[l1]) >= job.len
    <3>1. api.lists[l1] \in Seq(Value) /\ job.len \in Nat
      BY <2>2, GoodOK, Kinds DEF Typed, Jobs
    <3> QED
      BY <1>1, <2>1, <2>2, <3>1
  <2>4. Base' = Base /\ Takes' = Takes
    BY <1>1 DEF Base, Takes
  <2> QED
    BY <1>1, <2>1, <2>2, <2>3, <2>4 DEF LoopFrame
<1> QED
  BY <1>1, <1>2, <1>3 DEF LoopInv, LoopMakes, LoopResults

\* A method starts.
LEMMA StartsOK ==
    ASSUME Typed, job.pc = "idle", NEW fn \in Fns \ {"sort"}, NEW args \in Seq(Value), NEW a,
           NEW pc \in Pcs \ {"idle"}, Starts(fn, args, a, pc)
    PROVE  /\ Typed' /\ job'.fn = fn /\ api' = a /\ job'.pc = After(a, pc)
           /\ past'.lists = api.lists /\ past'.answers = << >> /\ ~past'.changed
           /\ api.lists \in Lists
<1> DEFINE to == After(a, pc)
           len == Len(api.lists[l1])
<1>1. /\ api' = a /\ past' = [NoPast EXCEPT !.lists = api.lists, !.args = args]
      /\ job' = [NoJob EXCEPT !.fn = fn, !.pc = to, !.len = len]
  BY DEF Starts
<1>2. to \in Pcs /\ to # "idle"
  BY AfterIs DEF Pcs
<1>3. len \in Nat
  BY Kinds DEF Typed, Lists
<1> HIDE DEF to, len
<1>4. job' \in Jobs /\ job'.fn = fn /\ job'.pc = to
  BY <1>1, <1>2, <1>3, NoneOK DEF Jobs
<1>5. /\ Typed'
      /\ past'.lists = api.lists /\ past'.answers = << >> /\ ~past'.changed
      /\ api.lists \in Lists
  BY <1>1, <1>2, <1>4, BeginOK
<1> QED
  BY <1>1, <1>4, <1>5 DEF to

\* Arguments are values.
LEMMA ArgsAreValues ==
    ASSUME NEW fn, NEW args \in ArgsOf(fn)
    PROVE  args \in Seq(Value)
<1>1. Arity(fn) \subseteq Nat
  BY DEF Arity
<1> DEFINE S == IF fn \in {"extend", "+"} THEN Arg \cup {l1} ELSE Arg
<1>2. S \subseteq Value
  BY LibConstantsOK, Kinds
<1>3. args \in UNION {[1..n -> S] : n \in Arity(fn)}
  BY DEF ArgsOf
<1> HIDE DEF S
<1>4. PICK n \in Arity(fn) : args \in [1..n -> S]
  BY <1>3
<1> QED
  BY <1>1, <1>2, <1>4

\* Nothing is claimed about other methods.
LEMMA OtherMethod ==
    ASSUME job'.fn \notin Loops \cup {"iter", "sort"}
    PROVE  LoopInv' /\ IterUp' /\ IterItems' /\ SortItems' /\ SortFrame' /\ SortCall'
BY DEF LoopInv, LoopCounts, LoopFrame, LoopMakes, LoopResults, Looping, Ended, IterUp, IterItems,
       SortItems, SortFrame, SortCall, Sorting

\* Methods that end at once.
LEMMA CallOtherStep ==
    ASSUME Typed, CallSimple \/ CallPlus \/ CallSlice
    PROVE  Typed' /\ job'.fn \notin Loops \cup {"iter", "sort"}
<1>1. job.pc = "idle"
  BY DEF CallSimple, CallPlus, CallSlice, Idle
<1>2. "done" \in Pcs \ {"idle"}
  BY DEF Pcs
<1>3. CASE CallSimple
  <2>1. PICK fn \in Simple : \E args \in ArgsOf(fn) : Starts(fn, args, Run(fn, Enter(l1, args)), "done")
    BY <1>3 DEF CallSimple
  <2>2. PICK args \in ArgsOf(fn) : Starts(fn, args, Run(fn, Enter(l1, args)), "done")
    BY <2>1
  <2>3. fn \in Fns \ {"sort"} /\ fn \notin Loops \cup {"iter", "sort"}
    BY DEF Fns, Simple, Loops
  <2>4. Typed' /\ job'.fn = fn
    BY <1>1, <1>2, <2>2, <2>3, ArgsAreValues, StartsOK
  <2> QED
    BY <2>3, <2>4
<1>4. CASE CallPlus
  <2>1. PICK args \in ArgsOf("+"), left \in {l1, Nil} :
           Starts("+", <<left>> \o args, Run("+", Enter(left, args)), "done")
    BY <1>4 DEF CallPlus
  <2>2. "+" \in Fns \ {"sort"} /\ "+" \notin Loops \cup {"iter", "sort"}
    BY DEF Fns, Loops
  <2>3. <<left>> \o args \in Seq(Value)
    <3>1. args \in Seq(Value) /\ left \in Value
      BY ArgsAreValues, Kinds DEF Atom
    <3> QED
      BY <3>1
  <2>4. Typed' /\ job'.fn = "+"
    BY <1>1, <1>2, <2>1, <2>2, <2>3, StartsOK
  <2> QED
    BY <2>2, <2>4
<1>5. CASE CallSlice
  <2>1. PICK start \in -1..MaxLen, end \in -1..MaxLen + 1, step \in {-1, 1, 2} :
           Starts("slice", <<start, end, step>>,
                tea_list_slice(Enter(l1, << >>), l1, start, end, step, New), "done")
    BY <1>5 DEF CallSlice
  <2>2. "slice" \in Fns \ {"sort"} /\ "slice" \notin Loops \cup {"iter", "sort"}
    BY DEF Fns, Loops
  <2>3. <<start, end, step>> \in Seq(Value)
    <3>1. MaxLen \in Nat /\ -1..MaxLen + 2 \subseteq Value
      BY LibConstantsOK, Kinds
    <3>2. start \in Value /\ end \in Value /\ step \in Value
      BY <3>1
    <3> QED
      BY <3>2
  <2>4. Typed' /\ job'.fn = "slice"
    BY <1>1, <1>2, <2>1, <2>2, <2>3, StartsOK
  <2> QED
    BY <2>2, <2>4
<1> QED
  BY <1>3, <1>4, <1>5

\* A method ends, or an error leaves it.
LEMMA LeaveStep ==
    ASSUME Typed, Leave, job.pc # "idle"
    PROVE  Typed' /\ job'.fn \notin Loops \cup {"iter", "sort"}
<1>1. api' = Quiet(past.lists) /\ job' = NoJob /\ past' = NoPast /\ past.lists \in Lists
  BY DEF Leave, Typed
<1>2. api'.lists = past.lists
  BY <1>1, QuietGood
<1>3. job'.fn = "none" /\ job'.pc = "idle"
  BY <1>1, NoneOK
<1>4. Typed'
  BY <1>1, <1>2, <1>3, NoneOK DEF Typed
<1> QED
  BY <1>3, <1>4 DEF Loops

-----------------------------------------------------------------------------
(* The iterator *)

\* list_iter
LEMMA CallIterStep ==
    ASSUME Typed, CallIter
    PROVE  Typed' /\ LoopInv' /\ job'.fn = "iter" /\ job'.pc = "next" /\ IterUp' /\ IterItems'
<1> DEFINE a == Enter(l1, << >>)
           b == Push(a, 0)
           c == tea_pop(b, 2)
           d == [c EXCEPT !.up = SubSeq(b.frame, 1, 2)]
           e == list_iter(a)
<1>1. job.pc = "idle" /\ Len(api.lists[l1]) <= MaxLen /\ Starts("iter", << >>, e, "next")
  BY DEF CallIter, Idle
<1>2. "iter" \in Fns \ {"sort"} /\ "next" \in Pcs \ {"idle"} /\ << >> \in Seq(Value) /\ Iter \in Value /\ 0 \in Value
  <2>1. 0 \in -1..MaxLen + 2
    BY LibConstantsOK
  <2> QED
    BY <2>1, Kinds, LibConstantsOK DEF Fns, Pcs, Atom
<1>3. /\ Typed' /\ job'.fn = "iter" /\ api' = e /\ job'.pc = After(e, "next")
      /\ past'.lists = api.lists /\ past'.answers = << >> /\ ~past'.changed
      /\ api.lists \in Lists
  BY <1>1, <1>2, StartsOK
<1>4. Good(a) /\ Len(a.frame) = 1 /\ a.frame[1] = l1 /\ a.lists = api.lists
  <2> DEFINE none == << >>
  <2>1. none \in Seq(Value) /\ Len(none) = 0 /\ l1 \in Value /\ 0 + 1 = 1
    BY <1>2, Kinds
  <2> HIDE DEF none
  <2>2. LET t == Enter(l1, none) IN
        /\ Good(t) /\ Len(t.frame) = Len(none) + 1 /\ t.frame[1] = l1
        /\ t.lists = api.lists
    BY <1>1, <2>1, EnterGood
  <2> QED
    BY <2>1, <2>2 DEF none
<1>5. Grown(a, b, 0)
  BY <1>2, <1>4, PushGood
<1>6. Good(b) /\ Len(b.frame) = 2 /\ b.frame[1] = l1 /\ b.frame[2] = 0 /\ b.lists = api.lists
  <2> HIDE DEF a, b
  <2> QED
    BY <1>4, <1>5 DEF Grown
<1>7. Dropped(b, c, 2)
  <2>1. 2 \in 0..Len(b.frame)
    BY <1>6
  <2> QED
    BY <1>6, <2>1, PopGood
<1>8. Good(c) /\ c.lists = api.lists
  BY <1>6, <1>7 DEF Dropped
<1>9. LET up == SubSeq(b.frame, 1, 2) IN up \in Seq(Value) /\ Len(up) = 2 /\ up[1] = l1 /\ up[2] = 0
  BY <1>6, GoodOK
<1>10. e = Push(d, Iter)
  <2>1. Len(b.frame) - 2 + 1 = 1
    BY <1>6
  <2> QED
    BY <1>6, <2>1 DEF list_iter, tea_push_cclosure, tea_get_top
<1> DEFINE up == SubSeq(b.frame, 1, 2)
<1>11. up \in Seq(Value) /\ Len(up) = 2 /\ up[1] = l1 /\ up[2] = 0 /\ d = [c EXCEPT !.up = up]
  BY <1>9
<1> HIDE DEF up
<1>12. Good(d) /\ d.up = up /\ d.lists = api.lists
  <2>1. c \in Apis
    BY <1>8, GoodOK
  <2>2. /\ d \in Apis /\ d.up = up /\ d.lists = c.lists
        /\ d.fails = c.fails /\ d.misused = c.misused /\ d.strays = c.strays
    <3> HIDE DEF c, d
    <3> QED
      BY <1>11, <2>1, WithUp
  <2> QED
    BY <1>8, <2>2 DEF Good
<1> HIDE DEF d, e
<1>13. Grown(d, e, Iter)
  BY <1>2, <1>10, <1>12, PushGood
<1>14. Good(e) /\ e.up = up /\ e.lists = api.lists
  BY <1>12, <1>13 DEF Grown
<1>15. job'.pc = "next"
  BY <1>3, <1>14, AfterIs
<1>16. IterUp'
  BY <1>1, <1>3, <1>11, <1>14 DEF IterUp
<1>17. IterItems'
  <2>1. api.lists[l1] \in Seq(Value)
    BY <1>3, Kinds DEF Lists
  <2> QED
    BY <1>3, <1>14, <2>1 DEF IterItems, Before
<1>18. LoopInv'
  BY <1>3, <1>15 DEF LoopInv, LoopCounts, LoopFrame, LoopMakes, LoopResults, Looping, Ended, Loops
<1> QED
  BY <1>3, <1>15, <1>16, <1>17, <1>18

\* What the body of a for loop does to the iterator.
LEMMA BodySteps ==
    ASSUME Typed, LoopInv, IterUp, IterItems, EndBody \/ (ChangeList /\ job.fn = "iter")
    PROVE  Typed' /\ LoopInv' /\ IterUp' /\ IterItems' /\ job'.fn = job.fn
<1>1. CASE EndBody
  <2>1. job.pc = "body" /\ job' = [job EXCEPT !.pc = "next"] /\ api' = api /\ past' = past
    BY <1>1 DEF EndBody
  <2>2. job' \in Jobs /\ job'.pc = "next" /\ job'.fn = job.fn
    BY <2>1 DEF Typed, Jobs, Pcs
  <2>3. Typed'
    BY <2>1, <2>2 DEF Typed
  <2>4. LoopInv'
    BY <2>2 DEF LoopInv, LoopCounts, LoopFrame, LoopMakes, LoopResults, Looping, Ended, Running
  <2> QED
    BY <2>1, <2>2, <2>3, <2>4 DEF IterUp, IterItems, Before
<1>2. CASE ChangeList /\ job.fn = "iter"
  <2>1. /\ Typed' /\ job' = job /\ job.pc \in {"called", "body"}
        /\ past'.changed /\ past'.answers = past.answers
        /\ Good(api) =>
             /\ Good(api') /\ api'.up = api.up
             /\ api'.lists[l1] \in Seq(Value) /\ Len(api'.lists[l1]) <= MaxChange
    BY <1>2, ChangeIs
  <2>2. MaxChange <= MaxLen /\ MaxChange \in Nat /\ MaxLen \in Nat
    BY LibConstantsOK
  <2>3. IterUp'
    BY <2>1, <2>2 DEF IterUp
  <2>4. LoopInv'
    BY <1>2, <2>1 DEF LoopInv, LoopCounts, LoopFrame, LoopMakes, LoopResults, Looping, Ended, Loops
  <2> QED
    BY <2>1, <2>3, <2>4 DEF IterItems
<1> QED
  BY <1>1, <1>2

\* An upvalue is read, and written with the value on top.
LEMMA UpvalueRead ==
    ASSUME NEW a, Good(a), Len(a.up) = 2
    PROVE  /\ index2addr(a, tea_upvalue_index(0)) = a.up[1]
           /\ index2addr(a, tea_upvalue_index(1)) = a.up[2] /\ a.up[2] \in Value
           /\ Exists(a, tea_upvalue_index(1))
<1>1. /\ tea_upvalue_index(0) = -11000 /\ TEA_UPVALUES_INDEX = -11000
      /\ tea_upvalue_index(1) = -11001
  BY DEF tea_upvalue_index, TEA_UPVALUES_INDEX
<1>2. /\ TEA_UPVALUES_INDEX - tea_upvalue_index(0) = 0 /\ tea_upvalue_index(0) <= TEA_UPVALUES_INDEX
      /\ TEA_UPVALUES_INDEX - tea_upvalue_index(1) = 1 /\ tea_upvalue_index(1) <= TEA_UPVALUES_INDEX
  BY <1>1
<1>3. a.up[2] \in Value
  BY GoodOK
<1>4. /\ index2addr(a, tea_upvalue_index(0)) = a.up[0 + 1]
      /\ index2addr(a, tea_upvalue_index(1)) = a.up[1 + 1]
  BY <1>2 DEF index2addr
<1> QED
  BY <1>3, <1>4, Kinds DEF Exists

\* A sequence with one item replaced.
LEMMA SeqSet ==
    ASSUME NEW s \in Seq(Value), NEW k \in 1..Len(s), NEW v \in Value
    PROVE  LET t == [s EXCEPT ![k] = v] IN
           t \in Seq(Value) /\ Len(t) = Len(s) /\ t[k] = v /\ \A p \in 1..Len(s) : p # k => t[p] = s[p]
OBVIOUS

\* tea_replace of an upvalue.
LEMMA UpvalueSet ==
    ASSUME NEW a, Good(a), Len(a.up) = 2, Len(a.frame) >= 1, Len(a.frame) < 100
    PROVE  LET b == tea_replace(a, tea_upvalue_index(1))
               n == Len(a.frame)
           IN  /\ Good(b) /\ b.lists = a.lists
               /\ Len(b.up) = 2 /\ b.up[1] = a.up[1] /\ b.up[2] = a.frame[n]
               /\ Len(b.frame) = n - 1 /\ \A p \in 1..n - 1 : b.frame[p] = a.frame[p]
<1> DEFINE n == Len(a.frame)
           v == a.frame[n]
           up == [a.up EXCEPT ![2] = v]
           c == [a EXCEPT !.up = up]
<1>1. /\ a \in Apis /\ a.frame \in Seq(Value) /\ n \in Nat /\ n >= 1 /\ n < 100 /\ v \in Value /\ a.up \in Seq(Value)
  BY GoodOK
<1>2. ValueAt(a, -1) = v
  <2>1. -1 \in Int /\ n \in 1..n /\ -1 = n - n - 1
    <3> HIDE DEF n
    <3> QED
      BY <1>1
  <2> QED
    BY <1>1, <2>1, SlotValue
<1>3. Exists(a, tea_upvalue_index(1))
  BY UpvalueRead
<1>4. tea_upvalue_index(1) <= TEA_UPVALUES_INDEX /\ TEA_UPVALUES_INDEX - tea_upvalue_index(1) + 1 = 2
  BY DEF tea_upvalue_index, TEA_UPVALUES_INDEX
<1>5. CopySlot(a, v, tea_upvalue_index(1)) = [a EXCEPT !.up[2] = v]
  BY <1>3, <1>4 DEF CopySlot
<1>6. CopySlot(a, v, tea_upvalue_index(1)) = c
  BY <1>5
<1>7. up \in Seq(Value) /\ Len(up) = 2 /\ up[1] = a.up[1] /\ up[2] = v
  <2> HIDE DEF v
  <2>1. 2 \in 1..Len(a.up) /\ 1 \in 1..Len(a.up) /\ 1 # 2
    OBVIOUS
  <2> QED
    BY <1>1, <2>1, SeqSet, SMTT(20)
<1> HIDE DEF up
<1>8. /\ c \in Apis /\ c.frame = a.frame /\ c.up = up /\ c.lists = a.lists
      /\ c.fails = a.fails /\ c.misused = a.misused /\ c.strays = a.strays
  BY <1>1, <1>7, WithUp
<1> HIDE DEF c
<1>9. Good(c) /\ 1 \in 0..Len(c.frame)
  BY <1>1, <1>8 DEF Good
<1>10. Dropped(c, tea_pop(c, 1), 1)
  BY <1>9, PopGood
<1>11. tea_replace(a, tea_upvalue_index(1)) = tea_pop(c, 1)
  BY <1>2, <1>6 DEF tea_replace
<1> QED
  BY <1>7, <1>8, <1>10, <1>11 DEF Dropped

\* The iterator's next step: the item that its index counts to, or nil behind the last.
LEMMA IterNextIs ==
    ASSUME NEW a, Good(a), a.frame = << >>, Len(a.up) = 2, a.up[1] = l1,
           NEW i \in Nat, a.up[2] = i, Len(a.lists[l1]) <= MaxLen
    PROVE  LET b == list_iternext(a) IN
           /\ Good(b) /\ b.lists = a.lists /\ Len(b.frame) = 1 /\ Len(b.up) = 2 /\ b.up[1] = l1
           /\ i >= Len(a.lists[l1]) => b.frame[1] = Nil
           /\ i < Len(a.lists[l1]) => b.up[2] = i + 1 /\ b.frame[1] = a.lists[l1][i + 1]
<1> DEFINE b == list_iternext(a)
           item == a.lists[l1][i + 1]
           c == tea_get_item(a, tea_upvalue_index(0), i)
           d == Push(c, i + 1)
<1>1. a.lists[l1] \in Seq(Value) /\ Len(a.lists[l1]) \in Nat /\ l1 \in List /\ Len(a.frame) = 0 /\ Nil \in Value
  BY GoodOK, Kinds DEF Atom
<1>2. b = IF i >= Len(a.lists[l1]) THEN Push(a, Nil) ELSE tea_replace(d, tea_upvalue_index(1))
  BY DEF list_iternext
<1>3. CASE i >= Len(a.lists[l1])
  <2>1. Grown(a, b, Nil)
    BY <1>1, <1>2, <1>3, PushGood
  <2>2. Good(b) /\ b.up = a.up /\ b.lists = a.lists /\ Len(b.frame) = 1 /\ b.frame[1] = Nil
    <3> HIDE DEF b
    <3> QED
      BY <1>1, <2>1 DEF Grown
  <2> QED
    BY <1>1, <1>3, <2>2
<1>4. CASE i < Len(a.lists[l1])
  <2>1. item \in Value /\ i + 1 \in Value
    <3>1. MaxLen \in Nat /\ -1..MaxLen + 2 \subseteq Value
      BY LibConstantsOK, Kinds
    <3> QED
      BY <1>1, <1>4, <3>1
  <2>2. ListAt(a, tea_upvalue_index(0)) = l1 /\ index2addr(a, tea_upvalue_index(0)) = l1
    BY UpvalueRead DEF ListAt
  <2>3. tea_len(a, tea_upvalue_index(0)) = Len(a.lists[l1])
    BY <1>1, <2>2 DEF tea_len, IsList
  <2>4. ~OutOfBounds(Len(a.lists[l1]), i)
    BY <1>1, <1>4 DEF OutOfBounds
  <2>5. IsList(ListAt(a, tea_upvalue_index(0))) /\ InList(a, tea_upvalue_index(0), i)
    BY <1>1, <2>2, <2>3, <2>4 DEF InList, IsList
  <2>6. Expect(a, IsList(ListAt(a, tea_upvalue_index(0)))) = a
    BY <2>5, ExpectTrue, Zenon
  <2>7. Len(a.lists[l1]) # 0
    BY <1>1, <1>4
  <2>8. c = Push(a, item)
    BY <2>2, <2>3, <2>5, <2>6, <2>7 DEF tea_get_item
  <2> HIDE DEF c, item
  <2>9. Grown(a, c, item)
    BY <2>1, <2>8, PushGood
  <2>10. Good(c) /\ c.up = a.up /\ c.lists = a.lists /\ Len(c.frame) = 1 /\ c.frame[1] = item
    BY <1>1, <2>9 DEF Grown
  <2>11. Grown(c, d, i + 1)
    BY <2>1, <2>10, PushGood
  <2> HIDE DEF d
  <2>12. Good(d) /\ d.up = a.up /\ d.lists = a.lists /\ Len(d.frame) = 2 /\ d.frame[1] = item /\ d.frame[2] = i + 1
    BY <2>10, <2>11 DEF Grown
  <2>13. b = tea_replace(d, tea_upvalue_index(1))
    BY <1>1, <1>2, <1>4
  <2> HIDE DEF b
  <2>14. /\ Good(b) /\ b.lists = d.lists
         /\ Len(b.up) = 2 /\ b.up[1] = d.up[1] /\ b.up[2] = d.frame[Len(d.frame)]
         /\ Len(b.frame) = Len(d.frame) - 1 /\ \A p \in 1..Len(d.frame) - 1 : b.frame[p] = d.frame[p]
    <3>1. Len(d.up) = 2 /\ Len(d.frame) >= 1 /\ Len(d.frame) < 100
      BY <2>12
    <3>2. Good(d)
      BY <2>12
    <3> QED
      BY <2>13, <3>1, <3>2, UpvalueSet
  <2>15. /\ Good(b) /\ b.lists = a.lists /\ Len(b.frame) = 1 /\ Len(b.up) = 2 /\ b.up[1] = l1
         /\ b.up[2] = i + 1 /\ b.frame[1] = item
    BY <2>12, <2>14
  <2> QED
    BY <1>1, <1>4, <2>15 DEF b, item
<1> QED
  BY <1>1, <1>3, <1>4

\* What list_iter_next returns.
LEMMA NextItemIs ==
    ASSUME Typed, IterUp, NextItem, job.fn = "iter"
    PROVE  LET n == Len(past.answers)
               v == ValueAt(api', -1)
           IN  /\ Good(api') /\ api'.lists = api.lists /\ Len(api'.frame) = 1 /\ Len(api'.up) = 2 /\ api'.up[1] = l1
               /\ v = api'.frame[1] /\ v \in Value
               /\ n >= Len(api.lists[l1]) => v = Nil
               /\ n < Len(api.lists[l1]) => api'.up[2] = n + 1 /\ v = api.lists[l1][n + 1]
<1> DEFINE n == Len(past.answers)
           a == [api EXCEPT !.frame = << >>]
<1>1. /\ job.pc = "next" /\ api' = list_iternext(a) /\ Good(api) /\ Len(api.lists[l1]) <= MaxLen
      /\ Len(api.up) = 2 /\ api.up[1] = l1 /\ api.up[2] = n
  BY DEF NextItem, IterUp
<1>2. n \in Nat
  BY DEF Typed, Pasts
<1>3. Good(a) /\ a.frame = << >> /\ a.up = api.up /\ a.lists = api.lists
  <2>1. api \in Apis /\ << >> \in Seq(Value)
    BY <1>1, GoodOK
  <2>2. /\ a \in Apis /\ a.frame = << >> /\ a.up = api.up /\ a.lists = api.lists
        /\ a.fails = api.fails /\ a.misused = api.misused /\ a.strays = api.strays
    BY <2>1, WithFrame
  <2> QED
    BY <1>1, <2>2 DEF Good
<1> HIDE DEF a, n
<1>4. LET b == list_iternext(a) IN
      /\ Good(b) /\ b.lists = a.lists /\ Len(b.frame) = 1 /\ Len(b.up) = 2 /\ b.up[1] = l1
      /\ n >= Len(a.lists[l1]) => b.frame[1] = Nil
      /\ n < Len(a.lists[l1]) => b.up[2] = n + 1 /\ b.frame[1] = a.lists[l1][n + 1]
  BY <1>1, <1>2, <1>3, IterNextIs
<1>5. /\ Good(api') /\ api'.lists = api.lists /\ Len(api'.frame) = 1 /\ Len(api'.up) = 2 /\ api'.up[1] = l1
      /\ n >= Len(api.lists[l1]) => api'.frame[1] = Nil
      /\ n < Len(api.lists[l1]) => api'.up[2] = n + 1 /\ api'.frame[1] = api.lists[l1][n + 1]
  BY <1>1, <1>3, <1>4
<1>6. ValueAt(api', -1) = api'.frame[1] /\ api'.frame[1] \in Value
  <2>1. -1 \in Int /\ 1 \in 1..Len(api'.frame) /\ -1 = 1 - Len(api'.frame) - 1 /\ Len(api'.frame) < 100
    BY <1>5
  <2> QED
    BY <1>5, <2>1, SlotValue, GoodOK
<1> QED
  BY <1>5, <1>6 DEF n

\* The items so far and the one that ends the loop.
LEMMA ItemsUpToNil ==
    ASSUME NEW s \in Seq(Value), NEW t \in Seq(Value), Len(t) <= Len(s),
           \A p \in 1..Len(t) : t[p] = s[p] /\ s[p] # Nil,
           Len(t) = Len(s) \/ s[Len(t) + 1] = Nil
    PROVE  LET nils == {p \in DOMAIN s : s[p] = Nil}
           IN  t = SubSeq(s, 1, IF nils = {} THEN Len(s) ELSE Min(nils) - 1)
<1> DEFINE nils == {p \in DOMAIN s : s[p] = Nil}
           n == Len(t)
<1>1. n \in Nat /\ Len(s) \in Nat /\ DOMAIN s = 1..Len(s)
  OBVIOUS
<1>2. CASE n = Len(s)
  <2>1. nils = {}
    BY <1>1, <1>2
  <2>2. t = s /\ s = SubSeq(s, 1, Len(s))
    BY <1>2
  <2> QED
    BY <2>1, <2>2
<1>3. CASE n < Len(s) /\ s[n + 1] = Nil
  <2>1. n + 1 \in nils /\ \A p \in nils : p >= n + 1 /\ p \in Nat
    BY <1>1, <1>3
  <2>2. Min(nils) = n + 1
    BY <1>1, <2>1 DEF Min
  <2> DEFINE u == SubSeq(s, 1, n)
  <2>3. u \in Seq(Value) /\ Len(u) = n /\ \A p \in 1..n : u[p] = s[p]
    BY <1>1, <1>3
  <2> HIDE DEF u
  <2>4. t = u
    BY <2>3
  <2>5. nils # {} /\ Min(nils) - 1 = n
    BY <1>1, <2>1, <2>2
  <2> HIDE DEF n, nils
  <2> QED
    BY <2>4, <2>5 DEF u, nils
<1> QED
  BY <1>1, <1>2, <1>3

\* A for loop asks for the next item.
LEMMA NextItemStep ==
    ASSUME Typed, IterUp, IterItems, NextItem, job.fn = "iter"
    PROVE  Typed' /\ LoopInv' /\ IterUp' /\ IterItems' /\ job'.fn = "iter"
<1> DEFINE n == Len(past.answers)
           v == ValueAt(api', -1)
<1>1. job.pc = "next" /\ job \in Jobs /\ past \in Pasts
  BY DEF NextItem, Typed
<1>2. /\ Good(api') /\ api'.lists = api.lists /\ Len(api'.frame) = 1 /\ Len(api'.up) = 2 /\ api'.up[1] = l1
      /\ v = api'.frame[1] /\ v \in Value
      /\ n >= Len(api.lists[l1]) => v = Nil
      /\ n < Len(api.lists[l1]) => api'.up[2] = n + 1 /\ v = api.lists[l1][n + 1]
  BY NextItemIs
<1>3. IF v = Nil THEN job' = [job EXCEPT !.pc = "done"] /\ past' = past
      ELSE job' = [job EXCEPT !.pc = "body"] /\ past' = [past EXCEPT !.answers = Append(@, v)]
  BY DEF NextItem
<1> HIDE DEF v
<1>4. Good(api) /\ Len(api.lists[l1]) <= MaxLen /\ api.lists[l1] \in Seq(Value)
  BY <1>1, GoodOK, Kinds DEF IterUp
<1>5. past.answers \in Seq(Value) /\ n \in Nat
  BY <1>1 DEF Pasts
<1>6. ASSUME ~past.changed
      PROVE  /\ api.lists[l1] = Before /\ n <= Len(Before)
             /\ \A p \in 1..n : past.answers[p] = Before[p] /\ Before[p] # Nil
  BY <1>1, <1>6 DEF IterItems
<1>7. CASE v = Nil
  <2>1. job' \in Jobs /\ job'.pc = "done" /\ job'.fn = "iter" /\ past' = past
    BY <1>1, <1>3, <1>7 DEF Jobs, Pcs
  <2>2. Typed'
    BY <1>1, <2>1 DEF Typed
  <2>3. LoopResults'
    <3>1. SUFFICES ASSUME ~past.changed PROVE LoopResults'
      BY <2>1 DEF LoopResults
    <3>2. Before \in Seq(Value) /\ n <= Len(Before) /\ (n = Len(Before) \/ Before[n + 1] = Nil)
      BY <1>2, <1>4, <1>5, <1>6, <1>7, <3>1
    <3>3. LET nils == {p \in DOMAIN Before : Before[p] = Nil}
          IN  past.answers = SubSeq(Before, 1, IF nils = {} THEN Len(Before) ELSE Min(nils) - 1)
      BY <1>5, <1>6, <3>1, <3>2, ItemsUpToNil
    <3>4. Before' = Before /\ api'.lists[l1] = Before
      BY <1>2, <1>6, <2>1, <3>1 DEF Before
    <3> QED
      BY <2>1, <3>3, <3>4 DEF LoopResults, Loops
  <2> QED
    BY <2>1, <2>2, <2>3 DEF LoopInv, LoopCounts, LoopFrame, LoopMakes, Looping, Running, IterUp, IterItems
<1>8. CASE v # Nil
  <2>1. job' \in Jobs /\ job'.pc = "body" /\ job'.fn = "iter"
    BY <1>1, <1>3, <1>8 DEF Jobs, Pcs
  <2>2. /\ past' \in Pasts /\ past'.answers = Append(past.answers, v) /\ past'.lists = past.lists
        /\ past'.changed = past.changed /\ past'.shrunk = past.shrunk
    <3>1. Append(past.answers, v) \in Seq(Value)
      BY <1>2, <1>5
    <3>2. past' = [past EXCEPT !.answers = Append(past.answers, v)]
      BY <1>3, <1>8
    <3> DEFINE w == Append(past.answers, v)
    <3>3. w \in Seq(Value) /\ past' = [past EXCEPT !.answers = w]
      BY <3>1, <3>2
    <3> HIDE DEF w
    <3>4. /\ past' \in Pasts /\ past'.answers = w /\ past'.lists = past.lists
          /\ past'.changed = past.changed /\ past'.shrunk = past.shrunk
      BY <1>1, <3>3 DEF Pasts
    <3> QED
      BY <3>4 DEF w
  <2>3. Typed'
    BY <1>1, <2>1, <2>2 DEF Typed
  <2>4. n < Len(api.lists[l1]) /\ api'.up[2] = n + 1 /\ v = api.lists[l1][n + 1]
    BY <1>2, <1>4, <1>5, <1>8
  <2>5. LET t == past'.answers IN Len(t) = n + 1 /\ t[n + 1] = v /\ \A p \in 1..n : t[p] = past.answers[p]
    BY <1>2, <1>5, <2>2
  <2>6. IterUp'
    BY <1>2, <1>4, <2>1, <2>4, <2>5 DEF IterUp
  <2>7. IterItems'
    <3>1. SUFFICES ASSUME ~past.changed PROVE IterItems'
      BY <2>2 DEF IterItems
    <3>2. Before' = Before /\ api.lists[l1] = Before
      BY <1>6, <2>2, <3>1 DEF Before
    <3>3. n + 1 <= Len(Before) /\ Before[n + 1] = v
      BY <1>4, <1>5, <2>4, <3>2
    <3>4. \A p \in 1..n + 1 : past'.answers[p] = Before[p] /\ Before[p] # Nil
      BY <1>5, <1>6, <1>8, <2>5, <3>1, <3>3
    <3> QED
      BY <1>2, <2>5, <3>2, <3>3, <3>4 DEF IterItems
  <2>8. LoopInv'
    BY <2>1 DEF LoopInv, LoopCounts, LoopFrame, LoopMakes, LoopResults, Looping, Ended, Loops
  <2> QED
    BY <2>1, <2>3, <2>6, <2>7, <2>8
<1> QED
  BY <1>7, <1>8

\* t is s with items p and q exchanged.
Swaps(s, t, p, q) ==
    /\ t \in Seq(Key) /\ Len(t) = Len(s)
    /\ t[p] = s[q] /\ t[q] = s[p]
    /\ \A k \in 1..Len(s) : k # p /\ k # q => t[k] = s[k]

\* Exchanging two items changes no multiplicity.
LEMMA SwapBag ==
    ASSUME NEW s \in Seq(Key), NEW t, NEW p \in 1..Len(s), NEW q \in 1..Len(s), Swaps(s, t, p, q)
    PROVE  ToBag(t) = ToBag(s)
<1> DEFINE n == Len(s)
           f(k) == IF k = p THEN q ELSE IF k = q THEN p ELSE k
           S(x) == {i \in 1..n : s[i] = x}
           T(x) == {i \in 1..n : t[i] = x}
<1>1. n \in Nat /\ DOMAIN s = 1..n /\ DOMAIN t = 1..n
  BY DEF Swaps
<1>2. \A k \in 1..n : f(k) \in 1..n /\ f(f(k)) = k /\ t[k] = s[f(k)] /\ s[k] = t[f(k)]
  BY DEF Swaps
<1> HIDE DEF f
<1>3. ASSUME NEW x PROVE Cardinality(T(x)) = Cardinality(S(x))
  <2> DEFINE g == [k \in T(x) |-> f(k)]
  <2>1. g \in [T(x) -> S(x)]
    BY <1>2
  <2>2. \A j, k \in T(x) : g[j] = g[k] => j = k
    BY <1>2
  <2>3. \A k \in S(x) : \E j \in T(x) : g[j] = k
    <3>1. SUFFICES ASSUME NEW k \in S(x) PROVE \E j \in T(x) : g[j] = k
      OBVIOUS
    <3>2. f(k) \in T(x) /\ g[f(k)] = k
      BY <1>2
    <3> QED
      BY <3>2
  <2> HIDE DEF g
  <2>4. g \in Bijection(T(x), S(x))
    BY <2>1, <2>2, <2>3 DEF Bijection, Injection, Surjection, IsInjective
  <2>5. IsFiniteSet(T(x))
    <3>1. IsFiniteSet(1..n)
      BY <1>1, FS_Interval
    <3> QED
      BY <3>1, FS_Subset
  <2>6. ExistsBijection(T(x), S(x))
    BY <2>4 DEF ExistsBijection
  <2> QED
    BY <2>5, <2>6, FS_Bijection
<1>4. Range(s) = Range(t)
  <2>1. Range(s) = {s[k] : k \in 1..n} /\ Range(t) = {t[k] : k \in 1..n}
    BY <1>1 DEF Range
  <2>2. \A k \in 1..n : s[k] \in Range(t) /\ t[k] \in Range(s)
    BY <1>2, <2>1
  <2>3. Range(s) \subseteq Range(t)
    BY <2>1, <2>2
  <2>4. Range(t) \subseteq Range(s)
    BY <2>1, <2>2
  <2> QED
    BY <2>3, <2>4
<1>5. ToBag(s) = [x \in Range(s) |-> Cardinality(S(x))] /\ ToBag(t) = [x \in Range(t) |-> Cardinality(T(x))]
  BY <1>1 DEF ToBag
<1> HIDE DEF S, T
<1> QED
  BY <1>3, <1>4, <1>5

\* Lists with the same multiplicities have the same items.
LEMMA BagItems ==
    ASSUME NEW s, NEW t, ToBag(s) = ToBag(t)
    PROVE  Range(s) = Range(t)
<1>1. DOMAIN ToBag(s) = Range(s) /\ DOMAIN ToBag(t) = Range(t)
  BY DEF ToBag
<1> QED
  BY <1>1

\* One more range, or one less.
LEMMA OneMore ==
    ASSUME NEW R \in Seq(Range2), NEW r \in Range2
    PROVE  /\ Append(R, r) \in Seq(Range2)
           /\ Len(Append(R, r)) = Len(R) + 1 /\ Append(R, r)[Len(R) + 1] = r
           /\ \A k \in DOMAIN R : k \in DOMAIN Append(R, r) /\ Append(R, r)[k] = R[k]
           /\ \A k \in DOMAIN Append(R, r) : k = Len(R) + 1 \/ k \in DOMAIN R
           /\ Len(R) + 1 \in DOMAIN Append(R, r)
OBVIOUS

\* One more range.
LEMMA CoveredAppend ==
    ASSUME NEW R \in Seq(Range2), NEW r \in Range2, NEW p, NEW q
    PROVE  Covered(Append(R, r), p, q) <=> Covered(R, p, q) \/ (r[1] <= p /\ q <= r[2])
<1> DEFINE S == Append(R, r)
<1>1. /\ Len(S) = Len(R) + 1 /\ S[Len(R) + 1] = r
      /\ \A k \in DOMAIN R : k \in DOMAIN S /\ S[k] = R[k]
      /\ \A k \in DOMAIN S : k = Len(R) + 1 \/ k \in DOMAIN R
      /\ Len(R) + 1 \in DOMAIN S
  BY OneMore
<1> HIDE DEF S
<1>2. Covered(S, p, q) <=> Covered(R, p, q) \/ (r[1] <= p /\ q <= r[2])
  BY <1>1 DEF Covered
<1> QED
  BY <1>2 DEF S

\* The same for being apart.
LEMMA ApartAppend ==
    ASSUME NEW R \in Seq(Range2), NEW r \in Range2
    PROVE  Apart(Append(R, r)) <=>
             Apart(R) /\ \A k \in DOMAIN R : R[k][2] < r[1] \/ r[2] < R[k][1]
<1> DEFINE S == Append(R, r)
           m == Len(R) + 1
<1>1. /\ S[m] = r
      /\ \A k \in DOMAIN R : k \in DOMAIN S /\ S[k] = R[k] /\ k # m
      /\ \A k \in DOMAIN S : k = m \/ k \in DOMAIN R
      /\ m \in DOMAIN S
  <2>1. \A k \in DOMAIN R : k # m
    OBVIOUS
  <2> QED
    BY <2>1, OneMore
<1> HIDE DEF S, m
<1>2. ASSUME Apart(S) PROVE Apart(R) /\ \A k \in DOMAIN R : R[k][2] < r[1] \/ r[2] < R[k][1]
  <2>1. Apart(R)
    BY <1>1, <1>2 DEF Apart
  <2>2. \A k \in DOMAIN R : S[k][2] < S[m][1] \/ S[m][2] < S[k][1]
    BY <1>1, <1>2 DEF Apart
  <2> QED
    BY <1>1, <2>1, <2>2
<1>3. ASSUME Apart(R), \A k \in DOMAIN R : R[k][2] < r[1] \/ r[2] < R[k][1] PROVE Apart(S)
  <2>1. SUFFICES ASSUME NEW j \in DOMAIN S, NEW k \in DOMAIN S, j # k
                 PROVE S[j][2] < S[k][1] \/ S[k][2] < S[j][1]
    BY DEF Apart
  <2>2. CASE j = m
    BY <1>1, <1>3, <2>1, <2>2
  <2>3. CASE k = m
    BY <1>1, <1>3, <2>1, <2>3
  <2>4. CASE j # m /\ k # m
    BY <1>1, <1>3, <2>1, <2>4 DEF Apart
  <2> QED
    BY <2>2, <2>3, <2>4
<1> QED
  BY <1>2, <1>3 DEF S

\* Items are exchanged inside of a range that is still to be sorted.
LEMMA SwapOrdered ==
    ASSUME NEW s \in Seq(Key), NEW R \in Seq(Range2), Apart(R), Ordered(s, R),
           NEW k \in DOMAIN R, NEW p \in 0..Len(s) - 1, NEW q \in 0..Len(s) - 1,
           R[k][1] <= p, p <= R[k][2], R[k][1] <= q, q <= R[k][2],
           NEW t, Swaps(s, t, p + 1, q + 1)
    PROVE  Ordered(t, R)
<1> DEFINE n == Len(s)
           lo(m) == R[m][1]
           hi(m) == R[m][2]
           at(x) == IF x = p THEN q ELSE IF x = q THEN p ELSE x
           In(x) == lo(k) <= x /\ x <= hi(k)
<1>1. n \in Nat /\ Len(t) = n
  BY DEF Swaps
<1>2. \A x \in 0..n - 1 : at(x) \in 0..n - 1 /\ t[x + 1] = s[at(x) + 1]
  BY <1>1 DEF Swaps
<1>3. \A x \in 0..n - 1 : /\ In(x) => In(at(x))
                          /\ ~In(x) => at(x) = x
  OBVIOUS
<1>4. \A m \in DOMAIN R : lo(m) \in Int /\ hi(m) \in Int
  BY SMTT(20) DEF Range2
<1>5. SUFFICES ASSUME NEW x \in 0..n - 1, NEW y \in 0..n - 1, x < y
               PROVE  t[x + 1] <= t[y + 1] \/ Covered(R, x, y)
  BY <1>1 DEF Ordered
<1>6. \A v, w \in 0..n - 1 : v < w => s[v + 1] <= s[w + 1] \/ Covered(R, v, w)
  BY DEF Ordered
<1>7. \A m \in DOMAIN R : m # k => hi(m) < lo(k) \/ hi(k) < lo(m)
  BY DEF Apart
<1>8. \A v, w : Covered(R, v, w) <=> \E m \in DOMAIN R : lo(m) <= v /\ w <= hi(m)
  BY DEF Covered
<1>9. /\ at(x) \in 0..n - 1 /\ (In(x) => In(at(x))) /\ (~In(x) => at(x) = x) /\ t[x + 1] = s[at(x) + 1]
      /\ at(y) \in 0..n - 1 /\ (In(y) => In(at(y))) /\ (~In(y) => at(y) = y) /\ t[y + 1] = s[at(y) + 1]
      /\ lo(k) \in Int /\ hi(k) \in Int /\ x \in Int /\ y \in Int
  BY <1>2, <1>3, <1>4
<1> HIDE DEF at, n, lo, hi
<1> DEFINE ax == at(x)
           ay == at(y)
<1>14. /\ ax \in Int /\ (In(x) => In(ax)) /\ (~In(x) => ax = x)
       /\ ay \in Int /\ (In(y) => In(ay)) /\ (~In(y) => ay = y)
       /\ lo(k) \in Int /\ hi(k) \in Int /\ x \in Int /\ y \in Int /\ x < y
  BY <1>1, <1>5, <1>9
<1>15. \A m \in DOMAIN R : /\ lo(m) \in Int /\ hi(m) \in Int
                           /\ m = k \/ hi(m) < lo(k) \/ hi(k) < lo(m)
  BY <1>4, <1>7
<1> HIDE DEF ax, ay
<1>10. CASE In(x) /\ In(y)
  BY <1>8, <1>10
<1>11. CASE ~In(x) /\ ~In(y)
  BY <1>5, <1>6, <1>9, <1>11
<1>12. CASE In(x) /\ ~In(y)
  <2>1. ay = y /\ ax < y /\ lo(k) <= ax /\ ax <= hi(k) /\ hi(k) < y
    BY <1>12, <1>14
  <2>2. \A m \in DOMAIN R : ~(lo(m) <= ax /\ y <= hi(m))
    <3> SUFFICES ASSUME NEW m \in DOMAIN R PROVE ~(lo(m) <= ax /\ y <= hi(m))
      OBVIOUS
    <3>1. CASE m = k
      BY <1>14, <2>1, <3>1
    <3>2. CASE m # k
      <4>1. /\ lo(m) \in Int /\ hi(m) \in Int
            /\ hi(m) < lo(k) \/ hi(k) < lo(m)
        BY <1>15, <3>2
      <4> DEFINE lm == lo(m)
                 hm == hi(m)
                 lk == lo(k)
                 hk == hi(k)
      <4>2. /\ lm \in Int /\ hm \in Int /\ lk \in Int /\ hk \in Int
            /\ hm < lk \/ hk < lm
        BY <1>14, <4>1
      <4>3. lk <= ax /\ ax <= hk /\ hk < y
        BY <2>1
      <4> HIDE DEF lm, hm, lk, hk
      <4>4. ~(lm <= ax /\ y <= hm)
        BY <1>14, <4>2, <4>3
      <4> QED
        BY <4>4 DEF lm, hm
    <3> QED
      BY <3>1, <3>2
  <2> QED
    BY <1>5, <1>6, <1>8, <1>9, <2>1, <2>2 DEF ax, ay
<1>13. CASE ~In(x) /\ In(y)
  <2>1. ax = x /\ x < ay /\ lo(k) <= ay /\ ay <= hi(k) /\ x < lo(k)
    BY <1>13, <1>14
  <2>2. \A m \in DOMAIN R : ~(lo(m) <= x /\ ay <= hi(m))
    <3> SUFFICES ASSUME NEW m \in DOMAIN R PROVE ~(lo(m) <= x /\ ay <= hi(m))
      OBVIOUS
    <3>1. CASE m = k
      BY <1>14, <2>1, <3>1
    <3>2. CASE m # k
      <4>1. /\ lo(m) \in Int /\ hi(m) \in Int
            /\ hi(m) < lo(k) \/ hi(k) < lo(m)
        BY <1>15, <3>2
      <4> DEFINE lm == lo(m)
                 hm == hi(m)
                 lk == lo(k)
                 hk == hi(k)
      <4>2. /\ lm \in Int /\ hm \in Int /\ lk \in Int /\ hk \in Int
            /\ hm < lk \/ hk < lm
        BY <1>14, <4>1
      <4>3. lk <= ay /\ ay <= hk /\ x < lk
        BY <2>1
      <4> HIDE DEF lm, hm, lk, hk
      <4>4. ~(lm <= x /\ ay <= hm)
        BY <1>14, <4>2, <4>3
      <4> QED
        BY <4>4 DEF lm, hm
    <3> QED
      BY <3>1, <3>2
  <2> QED
    BY <1>5, <1>6, <1>8, <1>9, <2>1, <2>2 DEF ax, ay
<1> QED
  BY <1>10, <1>11, <1>12, <1>13

\* A range is left: its items are in order, or those of its parts are still to be.
LEMMA LeaveOrdered ==
    ASSUME NEW s \in Seq(Key), NEW R \in Seq(Range2), NEW l \in Int, NEW u \in Int,
           Ordered(s, Append(R, <<l, u>>)), NEW R2,
           \A x, y : Covered(R, x, y) => Covered(R2, x, y),
           \A x, y \in 0..Len(s) - 1 : x < y /\ l <= x /\ y <= u => s[x + 1] <= s[y + 1] \/ Covered(R2, x, y)
    PROVE  Ordered(s, R2)
<1>1. <<l, u>> \in Range2 /\ <<l, u>>[1] = l /\ <<l, u>>[2] = u
  BY DEF Range2
<1>2. \A x, y : Covered(Append(R, <<l, u>>), x, y) <=> Covered(R, x, y) \/ (l <= x /\ y <= u)
  BY <1>1, CoveredAppend
<1>3. SUFFICES ASSUME NEW x \in 0..Len(s) - 1, NEW y \in 0..Len(s) - 1, x < y
               PROVE  s[x + 1] <= s[y + 1] \/ Covered(R2, x, y)
  BY DEF Ordered
<1>4. s[x + 1] <= s[y + 1] \/ Covered(Append(R, <<l, u>>), x, y)
  BY <1>3 DEF Ordered
<1> QED
  BY <1>2, <1>3, <1>4

\* What is still to be sorted.
Live(s) == IF s.l < s.u THEN Append(s.rest, <<s.l, s.u>>) ELSE s.rest

\* Two parts of a range, one before the other; empty ones are dropped.
LEMMA SplitApart ==
    ASSUME NEW R \in Seq(Range2), NEW l \in Int, NEW u \in Int, Apart(Append(R, <<l, u>>)),
           NEW first \in Range2, NEW second \in Range2,
           l <= first[1], first[2] <= u, l <= second[1], second[2] <= u,
           first[2] < second[1] \/ second[2] < first[1]
    PROVE  LET Q == IF second[1] < second[2] THEN Append(R, second) ELSE R
               R2 == IF first[1] < first[2] THEN Append(Q, first) ELSE Q
           IN  /\ R2 \in Seq(Range2) /\ Apart(R2)
               /\ \A x, y : Covered(R, x, y) => Covered(R2, x, y)
               /\ \A x, y \in Int : x < y /\ first[1] <= x /\ y <= first[2] => Covered(R2, x, y)
               /\ \A x, y \in Int : x < y /\ second[1] <= x /\ y <= second[2] => Covered(R2, x, y)
<1> DEFINE Q == IF second[1] < second[2] THEN Append(R, second) ELSE R
           R2 == IF first[1] < first[2] THEN Append(Q, first) ELSE Q
<1>0. /\ first[1] \in Int /\ first[2] \in Int /\ second[1] \in Int /\ second[2] \in Int
      /\ \A k \in DOMAIN R : R[k][1] \in Int /\ R[k][2] \in Int
  BY DEF Range2
<1>1. Apart(R) /\ \A k \in DOMAIN R : R[k][2] < l \/ u < R[k][1]
  <2>1. <<l, u>> \in Range2 /\ <<l, u>>[1] = l /\ <<l, u>>[2] = u
    BY DEF Range2
  <2> QED
    BY <2>1, ApartAppend
<1>2. \A k \in DOMAIN R : /\ second[1] < second[2] => R[k][2] < second[1] \/ second[2] < R[k][1]
                          /\ first[1] < first[2] => R[k][2] < first[1] \/ first[2] < R[k][1]
  <2> SUFFICES ASSUME NEW k \in DOMAIN R
               PROVE  /\ second[1] < second[2] => R[k][2] < second[1] \/ second[2] < R[k][1]
                      /\ first[1] < first[2] => R[k][2] < first[1] \/ first[2] < R[k][1]
    OBVIOUS
  <2> DEFINE b == R[k][1]
             e == R[k][2]
  <2>1. b \in Int /\ e \in Int /\ (e < l \/ u < b)
    BY <1>0, <1>1
  <2> HIDE DEF b, e
  <2>2. second[1] < second[2] => e < second[1] \/ second[2] < b
    BY <1>0, <2>1
  <2>3. first[1] < first[2] => e < first[1] \/ first[2] < b
    BY <1>0, <2>1
  <2> QED
    BY <2>2, <2>3 DEF b, e
<1>3. /\ Q \in Seq(Range2) /\ Apart(Q)
      /\ \A x, y : Covered(R, x, y) => Covered(Q, x, y)
      /\ \A x, y : second[1] < second[2] /\ second[1] <= x /\ y <= second[2] => Covered(Q, x, y)
      /\ first[1] < first[2] => \A k \in DOMAIN Q : Q[k][2] < first[1] \/ first[2] < Q[k][1]
  <2>1. CASE second[1] < second[2]
    <3>1. Q = Append(R, second)
      BY <2>1
    <3> HIDE DEF Q
    <3>2. Q \in Seq(Range2) /\ Apart(Q) /\ \A x, y : Covered(Q, x, y) <=> Covered(R, x, y) \/ (second[1] <= x /\ y <= second[2])
      BY <1>1, <1>2, <2>1, <3>1, OneMore, ApartAppend, CoveredAppend
    <3>3. \A k \in DOMAIN Q : Q[k] = second \/ (k \in DOMAIN R /\ Q[k] = R[k])
      BY <3>1, OneMore
    <3> QED
      BY <1>2, <3>2, <3>3
  <2>2. CASE ~(second[1] < second[2])
    <3>1. Q = R
      BY <2>2
    <3> HIDE DEF Q
    <3> QED
      BY <1>1, <1>2, <2>2, <3>1
  <2> QED
    BY <2>1, <2>2
<1> HIDE DEF Q
<1>4. /\ R2 \in Seq(Range2) /\ Apart(R2)
      /\ \A x, y : Covered(Q, x, y) => Covered(R2, x, y)
      /\ \A x, y : first[1] < first[2] /\ first[1] <= x /\ y <= first[2] => Covered(R2, x, y)
  <2>1. CASE first[1] < first[2]
    <3>1. R2 = Append(Q, first)
      BY <2>1
    <3> HIDE DEF R2
    <3> QED
      BY <1>3, <2>1, <3>1, OneMore, ApartAppend, CoveredAppend
  <2>2. CASE ~(first[1] < first[2])
    BY <1>3, <2>2
  <2> QED
    BY <2>1, <2>2
<1> HIDE DEF R2
<1>5. /\ \A x, y \in Int : x < y /\ first[1] <= x /\ y <= first[2] => first[1] < first[2]
      /\ \A x, y \in Int : x < y /\ second[1] <= x /\ y <= second[2] => second[1] < second[2]
  BY <1>0, SMTT(20)
<1>6. /\ R2 \in Seq(Range2) /\ Apart(R2)
      /\ \A x, y : Covered(R, x, y) => Covered(R2, x, y)
      /\ \A x, y \in Int : x < y /\ first[1] <= x /\ y <= first[2] => Covered(R2, x, y)
      /\ \A x, y \in Int : x < y /\ second[1] <= x /\ y <= second[2] => Covered(R2, x, y)
  BY <1>3, <1>4, <1>5
<1> QED
  BY <1>6 DEF R2, Q

-----------------------------------------------------------------------------
(* The frame of a sort *)

\* The list sorted, and its slot.
Sorted(a, its) == Good(a) /\ its \in Seq(Key) /\ a.lists[l1] = its /\ a.frame[1] = l1

\* Frames of a sort with one to five slots.
One(a, its) == Sorted(a, its) /\ Len(a.frame) = 1
Two(a, its, f) == Sorted(a, its) /\ Len(a.frame) = 2 /\ a.frame[2] = f
Three(a, its, f, x) == Sorted(a, its) /\ Len(a.frame) = 3 /\ a.frame[2] = f /\ a.frame[3] = x
Four(a, its, f, x, y) ==
    Sorted(a, its) /\ Len(a.frame) = 4 /\ a.frame[2] = f /\ a.frame[3] = x /\ a.frame[4] = y
Five(a, its, f, x, y, z) ==
    /\ Sorted(a, its) /\ Len(a.frame) = 5 /\ a.frame[2] = f /\ a.frame[3] = x /\ a.frame[4] = y
    /\ a.frame[5] = z

\* Slots that stay, one by one.
LEMMA SlotsStay ==
    ASSUME NEW fr, NEW gr, NEW m \in Int, \A p \in 1..m : gr[p] = fr[p]
    PROVE  /\ m >= 1 => gr[1] = fr[1]
           /\ m >= 2 => gr[2] = fr[2]
           /\ m >= 3 => gr[3] = fr[3]
           /\ m >= 4 => gr[4] = fr[4]
<1>1. /\ m >= 1 => 1 \in 1..m
      /\ m >= 2 => 2 \in 1..m
      /\ m >= 3 => 3 \in 1..m
      /\ m >= 4 => 4 \in 1..m
  OBVIOUS
<1> QED
  BY <1>1

\* An item is read.
LEMMA GetSorted ==
    ASSUME NEW a, NEW its, Sorted(a, its), Len(a.frame) >= 1, NEW i \in 0..Len(its) - 1
    PROVE  LET b == tea_get_item(a, 0, i) IN
           /\ One(a, its) => Two(b, its, its[i + 1])
           /\ \A f : Two(a, its, f) => Three(b, its, f, its[i + 1])
           /\ \A f, x : Three(a, its, f, x) => Four(b, its, f, x, its[i + 1])
           /\ \A f, x, y : Four(a, its, f, x, y) => Five(b, its, f, x, y, its[i + 1])
<1> DEFINE b == tea_get_item(a, 0, i)
           v == its[i + 1]
<1>1. Good(a) /\ l1 \in List /\ a.frame[1] = l1 /\ a.lists[l1] = its /\ its \in Seq(Key) /\ i \in 0..Len(a.lists[l1]) - 1
  BY Kinds DEF Sorted
<1>2. Grown(a, b, v)
  BY <1>1, GetItemGood
<1> HIDE DEF b, v
<1>3. /\ Good(b) /\ b.lists = a.lists
      /\ Len(b.frame) = Len(a.frame) + 1 /\ b.frame[Len(a.frame) + 1] = v
      /\ \A p \in 1..Len(a.frame) : b.frame[p] = a.frame[p]
  BY <1>2 DEF Grown
<1>8. Len(a.frame) \in Nat
  BY <1>1, GoodOK
<1>4. /\ b.frame[1] = a.frame[1] /\ (Len(a.frame) >= 2 => b.frame[2] = a.frame[2])
      /\ Len(a.frame) >= 3 => b.frame[3] = a.frame[3]
      /\ Len(a.frame) >= 4 => b.frame[4] = a.frame[4]
      /\ Sorted(b, its) /\ Len(b.frame) = Len(a.frame) + 1 /\ b.frame[Len(a.frame) + 1] = v
  <2>1. /\ b.frame[1] = a.frame[1] /\ (Len(a.frame) >= 2 => b.frame[2] = a.frame[2])
        /\ Len(a.frame) >= 3 => b.frame[3] = a.frame[3]
        /\ Len(a.frame) >= 4 => b.frame[4] = a.frame[4]
    BY <1>3, <1>8, SlotsStay
  <2> QED
    BY <1>1, <1>3, <2>1 DEF Sorted
<1>9. /\ Len(a.frame) = 1 => b.frame[2] = v /\ Len(b.frame) = 2
      /\ Len(a.frame) = 2 => b.frame[3] = v /\ Len(b.frame) = 3
  <2> DEFINE m == Len(a.frame) + 1
  <2>1. Len(b.frame) = m /\ b.frame[m] = v
    BY <1>4
  <2>2. (Len(a.frame) = 1 => m = 2) /\ (Len(a.frame) = 2 => m = 3)
    <3> DEFINE k == Len(a.frame)
    <3>1. k \in Nat
      BY <1>8
    <3> HIDE DEF k
    <3>2. (k = 1 => k + 1 = 2) /\ (k = 2 => k + 1 = 3)
      BY <3>1
    <3> QED
      BY <3>2 DEF k
  <2> HIDE DEF m
  <2> QED
    BY <2>1, <2>2
<1>5. /\ One(a, its) => Two(b, its, v)
      /\ \A f : Two(a, its, f) => Three(b, its, f, v)
  <2>1. One(a, its) => Two(b, its, v)
    BY <1>4, <1>9 DEF One, Two
  <2>2. ASSUME NEW f, Two(a, its, f) PROVE Three(b, its, f, v)
    BY <1>4, <1>9, <2>2 DEF Two, Three
  <2> QED
    BY <2>1, <2>2
<1>6. \A f, x : Three(a, its, f, x) => Four(b, its, f, x, v)
  BY <1>4 DEF Three, Four
<1>7. \A f, x, y : Four(a, its, f, x, y) => Five(b, its, f, x, y, v)
  BY <1>4 DEF Four, Five
<1> QED
  BY <1>5, <1>6, <1>7 DEF b, v

\* What is behind the items is not read.
LEMMA GetNothing ==
    ASSUME NEW a, NEW its, Sorted(a, its), Len(a.frame) >= 1, Len(its) > 0,
           NEW i \in Int, i < 0 \/ i >= Len(its)
    PROVE  tea_get_item(a, 0, i) = a
BY GetItemNone, Kinds DEF Sorted

\* Slots are dropped.
LEMMA PopSorted ==
    ASSUME NEW a, NEW its, Sorted(a, its)
    PROVE  /\ \A f, x : Three(a, its, f, x) => Two(tea_pop(a, 1), its, f)
           /\ \A f, x, y : Four(a, its, f, x, y) =>
                /\ Three(tea_pop(a, 1), its, f, x) /\ Two(tea_pop(a, 2), its, f) /\ One(tea_pop(a, 3), its)
           /\ \A f, x, y, z : Five(a, its, f, x, y, z) =>
                Four(tea_pop(a, 1), its, f, x, y) /\ Two(tea_pop(a, 3), its, f)
<1>1. Good(a) /\ Len(a.frame) \in Nat
  BY GoodOK DEF Sorted
<1>2. ASSUME NEW n \in 0..3, n < Len(a.frame)
      PROVE  LET b == tea_pop(a, n) IN
             /\ Sorted(b, its) /\ Len(b.frame) = Len(a.frame) - n
             /\ Len(a.frame) - n >= 2 => b.frame[2] = a.frame[2]
             /\ Len(a.frame) - n >= 3 => b.frame[3] = a.frame[3]
             /\ Len(a.frame) - n >= 4 => b.frame[4] = a.frame[4]
  <2> DEFINE b == tea_pop(a, n)
  <2>1. n \in 0..Len(a.frame)
    BY <1>1, <1>2
  <2>2. Dropped(a, b, n)
    BY <1>1, <2>1, PopGood
  <2> HIDE DEF b
  <2>3. /\ Good(b) /\ b.lists = a.lists /\ Len(b.frame) = Len(a.frame) - n
        /\ \A p \in 1..Len(a.frame) - n : b.frame[p] = a.frame[p]
    BY <2>2 DEF Dropped
  <2>4. /\ b.frame[1] = a.frame[1] /\ (Len(a.frame) - n >= 2 => b.frame[2] = a.frame[2])
        /\ Len(a.frame) - n >= 3 => b.frame[3] = a.frame[3]
        /\ Len(a.frame) - n >= 4 => b.frame[4] = a.frame[4]
    <3>1. Len(a.frame) - n \in Int /\ Len(a.frame) - n >= 1
      BY <1>1, <1>2
    <3> QED
      BY <2>3, <3>1, SlotsStay
  <2>5. Sorted(b, its)
    BY <2>3, <2>4 DEF Sorted
  <2> QED
    BY <2>3, <2>4, <2>5 DEF b
<1>6. ASSUME Len(a.frame) >= 3
      PROVE  LET b == tea_pop(a, 1) IN
             /\ Sorted(b, its) /\ Len(b.frame) = Len(a.frame) - 1 /\ b.frame[2] = a.frame[2]
             /\ Len(a.frame) >= 4 => b.frame[3] = a.frame[3]
             /\ Len(a.frame) >= 5 => b.frame[4] = a.frame[4]
  <2>1. 1 \in 0..3 /\ 1 < Len(a.frame)
    BY <1>1, <1>6
  <2>2. LET b == tea_pop(a, 1) IN
             /\ Sorted(b, its) /\ Len(b.frame) = Len(a.frame) - 1
             /\ Len(a.frame) - 1 >= 2 => b.frame[2] = a.frame[2]
             /\ Len(a.frame) - 1 >= 3 => b.frame[3] = a.frame[3]
             /\ Len(a.frame) - 1 >= 4 => b.frame[4] = a.frame[4]
    BY <1>2, <2>1
  <2> QED
    BY <1>1, <1>6, <2>2
<1>7. ASSUME Len(a.frame) >= 4
      PROVE  LET b == tea_pop(a, 2) IN
             /\ Sorted(b, its) /\ Len(b.frame) = Len(a.frame) - 2 /\ b.frame[2] = a.frame[2]
  <2>1. 2 \in 0..3 /\ 2 < Len(a.frame) /\ Len(a.frame) - 2 >= 2
    BY <1>1, <1>7
  <2> QED
    BY <1>2, <2>1
<1>8. ASSUME Len(a.frame) >= 4
      PROVE  LET b == tea_pop(a, 3) IN
             /\ Sorted(b, its) /\ Len(b.frame) = Len(a.frame) - 3
             /\ Len(a.frame) >= 5 => b.frame[2] = a.frame[2]
  <2>1. 3 \in 0..3 /\ 3 < Len(a.frame) /\ (Len(a.frame) >= 5 => Len(a.frame) - 3 >= 2)
    BY <1>1, <1>8
  <2> QED
    BY <1>2, <2>1
<1>3. ASSUME NEW f, NEW x, Three(a, its, f, x) PROVE Two(tea_pop(a, 1), its, f)
  BY <1>3, <1>6 DEF Three, Two
<1>4. ASSUME NEW f, NEW x, NEW y, Four(a, its, f, x, y)
      PROVE  Three(tea_pop(a, 1), its, f, x) /\ Two(tea_pop(a, 2), its, f) /\ One(tea_pop(a, 3), its)
  <2>1. Three(tea_pop(a, 1), its, f, x)
    BY <1>4, <1>6 DEF Four, Three
  <2>2. Two(tea_pop(a, 2), its, f)
    BY <1>4, <1>7 DEF Four, Two
  <2>3. One(tea_pop(a, 3), its)
    BY <1>4, <1>8 DEF Four, One
  <2> QED
    BY <2>1, <2>2, <2>3
<1>5. ASSUME NEW f, NEW x, NEW y, NEW z, Five(a, its, f, x, y, z)
      PROVE  Four(tea_pop(a, 1), its, f, x, y) /\ Two(tea_pop(a, 3), its, f)
  <2>1. Four(tea_pop(a, 1), its, f, x, y)
    BY <1>5, <1>6 DEF Five, Four
  <2>2. Two(tea_pop(a, 3), its, f)
    BY <1>5, <1>8 DEF Five, Two
  <2> QED
    BY <2>1, <2>2
<1> QED
  BY <1>3, <1>4, <1>5

\* An item is written with the value on top.
LEMMA SetSorted ==
    ASSUME NEW a, NEW its, Sorted(a, its), Len(a.frame) >= 2, NEW i \in 0..Len(its) - 1,
           a.frame[Len(a.frame)] \in Key
    PROVE  LET b == tea_set_item(a, 0, i)
               t == [its EXCEPT ![i + 1] = a.frame[Len(a.frame)]]
           IN  /\ Sorted(b, t) /\ Len(b.frame) = Len(a.frame) - 1
               /\ \A p \in 1..Len(a.frame) - 1 : b.frame[p] = a.frame[p]
<1> DEFINE b == tea_set_item(a, 0, i)
           v == a.frame[Len(a.frame)]
           t == [its EXCEPT ![i + 1] = v]
<1>1. /\ Good(a) /\ l1 \in List /\ a.frame[1] = l1 /\ a.lists[l1] = its /\ its \in Seq(Key)
      /\ i \in 0..Len(a.lists[l1]) - 1 /\ a.lists \in Lists /\ Len(a.frame) \in Nat /\ Len(a.frame) >= 1
  BY Kinds, GoodOK DEF Sorted
<1>2. Moved(a, b, l1, i)
  BY <1>1, SetItemGood
<1>3. v \in Key /\ v \in Value
  BY LibConstantsOK, Kinds
<1> HIDE DEF b, v
<1>4. /\ Good(b) /\ b.lists = Put(a.lists, l1, i, v)
      /\ Len(b.frame) = Len(a.frame) - 1
      /\ \A p \in 1..Len(a.frame) - 1 : b.frame[p] = a.frame[p]
  BY <1>2 DEF Moved, v
<1>5. b.lists[l1] = t
  BY <1>1, <1>3, <1>4, PutOK
<1>6. t \in Seq(Key)
  BY <1>1, <1>3
<1>7. 1 \in 1..Len(a.frame) - 1
  BY <1>1
<1>8. Sorted(b, t)
  BY <1>1, <1>4, <1>5, <1>6, <1>7 DEF Sorted
<1> QED
  BY <1>4, <1>8 DEF b, v

\* Two items are exchanged.
LEMMA SwapSorted ==
    ASSUME NEW a, NEW its, Sorted(a, its), Len(a.frame) >= 3,
           NEW i \in 0..Len(its) - 1, NEW j \in 0..Len(its) - 1,
           a.frame[Len(a.frame) - 1] = its[i + 1], a.frame[Len(a.frame)] = its[j + 1]
    PROVE  LET b == set2(a, i, j)
               t == b.lists[l1]
           IN  /\ Sorted(b, t) /\ Len(b.frame) = Len(a.frame) - 2
               /\ \A p \in 1..Len(a.frame) - 2 : b.frame[p] = a.frame[p]
               /\ Swaps(its, t, i + 1, j + 1)
<1> DEFINE n == Len(a.frame)
           v == its[i + 1]
           w == its[j + 1]
           c == tea_set_item(a, 0, i)
           s == [its EXCEPT ![i + 1] = w]
           b == tea_set_item(c, 0, j)
           t == [s EXCEPT ![j + 1] = v]
<1>1. /\ its \in Seq(Key) /\ n \in Nat /\ n >= 3 /\ i + 1 \in 1..Len(its) /\ j + 1 \in 1..Len(its)
      /\ a.frame[n] = w /\ a.frame[n - 1] = v
  BY GoodOK DEF Sorted
<1>2. v \in Key /\ w \in Key
  BY <1>1
<1>3. Sorted(c, s) /\ Len(c.frame) = n - 1 /\ \A p \in 1..n - 1 : c.frame[p] = a.frame[p]
  BY <1>1, <1>2, SetSorted, SMTT(20)
<1>4. s \in Seq(Key) /\ Len(s) = Len(its) /\ s[i + 1] = w /\ \A k \in 1..Len(its) : k # i + 1 => s[k] = its[k]
  BY <1>1, <1>2
<1> HIDE DEF c, s, v, w, n
<1>5. c.frame[Len(c.frame)] = v /\ Len(c.frame) >= 2 /\ j \in 0..Len(s) - 1
  <2>1. n - 1 \in 1..n - 1
    BY <1>1
  <2>2. c.frame[n - 1] = a.frame[n - 1]
    BY <1>3, <2>1
  <2> QED
    BY <1>1, <1>3, <1>4, <2>2
<1>6. Sorted(b, t) /\ Len(b.frame) = n - 1 - 1 /\ \A p \in 1..n - 1 - 1 : b.frame[p] = c.frame[p]
  <2>1. c.frame[Len(c.frame)] \in Key
    BY <1>2, <1>5
  <2> QED
    <3> DEFINE x == c.frame[Len(c.frame)]
    <3>1. LET e == tea_set_item(c, 0, j)
              r == [s EXCEPT ![j + 1] = x]
          IN  /\ Sorted(e, r) /\ Len(e.frame) = Len(c.frame) - 1
              /\ \A p \in 1..Len(c.frame) - 1 : e.frame[p] = c.frame[p]
      BY <1>3, <1>5, <2>1, SetSorted
    <3> QED
      BY <1>3, <1>5, <3>1
<1>7. t \in Seq(Key) /\ Len(t) = Len(its) /\ t[j + 1] = v /\ \A k \in 1..Len(its) : k # j + 1 => t[k] = s[k]
  BY <1>1, <1>2, <1>4
<1> HIDE DEF b, t
<1>8. Swaps(its, t, i + 1, j + 1)
  <2>1. t[i + 1] = w
    <3>1. CASE i = j
      BY <1>1, <1>7, <3>1 DEF v, w
    <3>2. CASE i # j
      BY <1>1, <1>4, <1>7, <3>2
    <3> QED
      BY <3>1, <3>2
  <2> QED
    BY <1>1, <1>4, <1>7, <2>1 DEF Swaps, v, w
<1>9. b.lists[l1] = t
  BY <1>6 DEF Sorted
<1>10. Len(b.frame) = n - 2 /\ \A p \in 1..n - 2 : b.frame[p] = a.frame[p]
  BY <1>1, <1>3, <1>6
<1> QED
  BY <1>6, <1>8, <1>9, <1>10 DEF set2, b, c, n

\* set2 exchanges two items.
LEMMA SwapSlots ==
    ASSUME NEW a, NEW its, Sorted(a, its),
           NEW i \in 0..Len(its) - 1, NEW j \in 0..Len(its) - 1
    PROVE  LET b == set2(a, i, j)
               t == b.lists[l1]
               v == its[i + 1]
               w == its[j + 1]
           IN  /\ Three(a, its, v, w) => One(b, t) /\ Swaps(its, t, i + 1, j + 1)
               /\ \A f : Four(a, its, f, v, w) => Two(b, t, f) /\ Swaps(its, t, i + 1, j + 1)
               /\ \A f, x : Five(a, its, f, x, v, w) => Three(b, t, f, x) /\ Swaps(its, t, i + 1, j + 1)
<1> DEFINE b == set2(a, i, j)
           t == b.lists[l1]
           v == its[i + 1]
           w == its[j + 1]
           n == Len(a.frame)
<1>1. ASSUME n >= 3, a.frame[n - 1] = v, a.frame[n] = w
      PROVE  /\ Sorted(b, t) /\ Len(b.frame) = n - 2
             /\ n - 2 >= 2 => b.frame[2] = a.frame[2]
             /\ n - 2 >= 3 => b.frame[3] = a.frame[3]
             /\ Swaps(its, t, i + 1, j + 1)
  <2>1. /\ Sorted(b, t) /\ Len(b.frame) = n - 2
        /\ \A p \in 1..n - 2 : b.frame[p] = a.frame[p]
        /\ Swaps(its, t, i + 1, j + 1)
    BY <1>1, SwapSorted
  <2>2. n - 2 \in Int
    BY GoodOK DEF Sorted
  <2> HIDE DEF b, n
  <2>3. (n - 2 >= 2 => b.frame[2] = a.frame[2]) /\ (n - 2 >= 3 => b.frame[3] = a.frame[3])
    BY <2>1, <2>2, SlotsStay
  <2> QED
    BY <2>1, <2>3
<1> HIDE DEF b, t, v, w
<1>2. Three(a, its, v, w) => One(b, t) /\ Swaps(its, t, i + 1, j + 1)
  BY <1>1 DEF Three, One
<1>3. ASSUME NEW f, Four(a, its, f, v, w) PROVE Two(b, t, f) /\ Swaps(its, t, i + 1, j + 1)
  BY <1>1, <1>3 DEF Four, Two
<1>4. ASSUME NEW f, NEW x, Five(a, its, f, x, v, w) PROVE Three(b, t, f, x) /\ Swaps(its, t, i + 1, j + 1)
  BY <1>1, <1>4 DEF Five, Three
<1> QED
  BY <1>2, <1>3, <1>4 DEF b, t, v, w

-----------------------------------------------------------------------------
(* Ranges *)

\* The list is its, in some order.
Same(a, its) ==
    /\ a \in Apis /\ a.lists[l1] \in Seq(Key) /\ Len(a.lists[l1]) = Len(its)
    /\ ToBag(a.lists[l1]) = ToBag(its)

\* What sort waits for is on the frame.
Placed(a, s, f) ==
    LET t == a.lists[l1] IN
    /\ Good(a) /\ SortBounds(s, Len(t)) /\ Len(a.frame) = Own(s, Len(t)) /\ SortSlots(a.frame, s, t, f)

\* Sort goes on up to its next comparison, ends, or fails.
SortPost(r, its, f, honest) ==
    /\ Same(r.a, its) /\ Tidy(r.a, honest) /\ r.s \in Sorts
    /\ \/ ~Good(r.a)
       \/ r.s.at = "none" /\ (honest => Ordered(r.a.lists[l1], << >>))
       \/ Placed(r.a, r.s, f) /\ (honest => SortKnows(r.s, r.a.lists[l1]))
       \/ ~honest /\ Lost(r.a.frame, r.s) /\ SortBounds(r.s, Len(its))

\* The ranges to come back to are inside of the list.
RestIn(rest, n) ==
    \A k \in DOMAIN rest : 0 <= rest[k][1] /\ rest[k][1] < rest[k][2] /\ rest[k][2] < n

\* The ranges left are inside of the list, and what is outside of them is in order.
Ready(s, its, honest) ==
    /\ s \in Sorts /\ (s.l < s.u => 0 <= s.l /\ s.u < Len(its)) /\ RestIn(s.rest, Len(its))
    /\ honest => Apart(Live(s)) /\ Ordered(its, Live(s))

\* The types of the local variables.
LEMMA SortsOK ==
    ASSUME NEW s \in Sorts
    PROVE  /\ s.l \in Int /\ s.u \in Int /\ s.i \in Int /\ s.j \in Int /\ s.rest \in Seq(Range2)
           /\ <<s.l, s.u>> \in Range2 /\ <<s.l, s.u>>[1] = s.l /\ <<s.l, s.u>>[2] = s.u
           /\ \A k \in DOMAIN s.rest : s.rest[k][1] \in Int /\ s.rest[k][2] \in Int
BY DEF Sorts, Range2

\* No item has moved.
LEMMA SameSelf ==
    ASSUME NEW a, NEW its, Sorted(a, its)
    PROVE  Same(a, its)
BY DEF Sorted, Same, Good

\* The frame is cut to the receiver.
LEMMA ChainOK ==
    ASSUME NEW a \in Apis
    PROVE  /\ Chain(a) \in Apis /\ Chain(a).lists = a.lists
           /\ Good(a) /\ Len(a.frame) >= 1 => Good(Chain(a))
           /\ a.misused => Chain(a).misused
           /\ Chain(a).strays = a.strays
<1> DEFINE e == Expect(a, tea_get_top(a) >= 1)
           fr == [p \in {1} \cap DOMAIN a.frame |-> a.frame[p]]
<1>1. e \in Apis /\ e.frame = a.frame /\ e.lists = a.lists /\ e.fails = a.fails /\ e.strays = a.strays
      /\ (a.misused => e.misused)
  BY DEF Expect, Apis
<1>2. Good(a) /\ Len(a.frame) >= 1 => e = a
  BY ExpectTrue, Zenon DEF tea_get_top
<1>3. fr \in Seq(Value)
  <2>1. a.frame \in Seq(Value)
    BY DEF Apis
  <2>2. CASE a.frame = << >>
    <3>1. {1} \cap DOMAIN a.frame = 1..0
      BY <2>2
    <3>2. fr \in [1..0 -> Value]
      BY <3>1
    <3> HIDE DEF fr
    <3> QED
      BY <3>2
  <2>3. CASE a.frame # << >>
    <3>1. {1} \cap DOMAIN a.frame = 1..1 /\ a.frame[1] \in Value
      BY <2>1, <2>3
    <3>2. fr \in [1..1 -> Value]
      BY <3>1
    <3>3. \A m \in Nat : \A g \in [1..m -> Value] : g \in Seq(Value)
      OBVIOUS
    <3>4. 1 \in Nat
      OBVIOUS
    <3> HIDE DEF fr
    <3> QED
      BY <3>2, <3>3, <3>4, Zenon
  <2> QED
    BY <2>2, <2>3
<1>4. Chain(a) = [e EXCEPT !.frame = [p \in {1} \cap DOMAIN e.frame |-> e.frame[p]]]
  BY DEF Chain
<1>5. Chain(a) = [e EXCEPT !.frame = fr]
  BY <1>1, <1>4
<1> HIDE DEF e, fr
<1>6. LET b == [e EXCEPT !.frame = fr] IN
      /\ b \in Apis /\ b.frame = fr /\ b.up = e.up /\ b.lists = e.lists
      /\ b.fails = e.fails /\ b.misused = e.misused /\ b.strays = e.strays
  BY <1>1, <1>3, WithFrame
<1> QED
  BY <1>1, <1>2, <1>5, <1>6 DEF Good

\* The last range is taken off.
LEMMA LastRange ==
    ASSUME NEW R \in Seq(Range2), R # << >>
    PROVE  /\ Last(R) \in Range2 /\ Front(R) \in Seq(Range2) /\ R = Append(Front(R), Last(R))
           /\ Last(R) = R[Len(R)] /\ Len(R) \in DOMAIN R
           /\ \A k \in DOMAIN Front(R) : k \in DOMAIN R /\ Front(R)[k] = R[k]
<1> DEFINE F == Front(R)
           x == Last(R)
<1>1. Len(R) \in Nat /\ Len(R) >= 1 /\ x = R[Len(R)] /\ x \in Range2 /\ Len(R) \in DOMAIN R
  BY DEF Last
<1>2. F = SubSeq(R, 1, Len(R) - 1)
  BY DEF Front
<1>3. F \in Seq(Range2) /\ Len(F) = Len(R) - 1 /\ \A k \in 1..Len(R) - 1 : F[k] = R[k]
  <2> HIDE DEF F, x
  <2> DEFINE m == Len(R) - 1
  <2>1. m \in Nat /\ m <= Len(R)
    BY <1>1
  <2>2. /\ SubSeq(R, 1, m) \in Seq(Range2) /\ Len(SubSeq(R, 1, m)) = m
        /\ \A k \in 1..m : SubSeq(R, 1, m)[k] = R[k]
    <3> HIDE DEF m
    <3>1. \A k \in 1..m : R[k] \in Range2
      BY <2>1
    <3> QED
      BY <2>1, <3>1
  <2> QED
    BY <1>2, <2>2
<1> HIDE DEF F, x
<1> DEFINE G == Append(F, x)
<1>4. G \in Seq(Range2) /\ Len(G) = Len(R) /\ G[Len(R)] = x /\ \A k \in 1..Len(R) - 1 : G[k] = F[k]
  BY <1>1, <1>3
<1> HIDE DEF G
<1>5. \A k \in 1..Len(R) : G[k] = R[k]
  <2>1. \A k \in 1..Len(R) : k = Len(R) \/ k \in 1..Len(R) - 1
    BY <1>1
  <2> QED
    BY <1>1, <1>3, <1>4, <2>1
<1>6. R = G
  BY <1>4, <1>5
<1>7. \A k \in DOMAIN F : k \in DOMAIN R /\ F[k] = R[k]
  BY <1>1, <1>3
<1> QED
  BY <1>1, <1>3, <1>6, <1>7 DEF F, x, G

\* Another comparison is waited for.
LEMMA WaitOK ==
    ASSUME NEW s \in Sorts, NEW a, NEW at \in {"none", "lu", "il", "ui", "up", "down"}
    PROVE  LET r == Wait(a, s, at) IN
           /\ r.a = a /\ r.s \in Sorts /\ r.s.at = at
           /\ r.s.l = s.l /\ r.s.u = s.u /\ r.s.i = s.i /\ r.s.j = s.j /\ r.s.rest = s.rest
BY DEF Wait, Sorts

\* The ends of a range are to be compared.
LEMMA EndsPlaced ==
    ASSUME NEW a, NEW its, NEW f, NEW honest \in BOOLEAN, NEW s \in Sorts,
           Four(a, its, f, its[s.l + 1], its[s.u + 1]),
           0 <= s.l, s.l < s.u, s.u < Len(its), RestIn(s.rest, Len(its)),
           honest => Apart(Pending(s)) /\ Ordered(its, Pending(s))
    PROVE  SortPost(Wait(a, s, "lu"), its, f, honest)
<1> DEFINE r == Wait(a, s, "lu")
           n == Len(its)
<1>1. /\ r.a = a /\ r.s \in Sorts /\ r.s.at = "lu"
      /\ r.s.l = s.l /\ r.s.u = s.u /\ r.s.rest = s.rest
  BY WaitOK
<1>2. Sorted(a, its) /\ n \in Nat /\ a.lists[l1] = its /\ Good(a)
  BY DEF Four, Sorted
<1>3. s.l \in Int /\ s.u \in Int
  BY SortsOK
<1> HIDE DEF r
<1>4. Same(r.a, its)
  BY <1>1, <1>2, SameSelf
<1>5. SortBounds(r.s, n)
  BY <1>1, <1>2, <1>3 DEF SortBounds, RestIn
<1>6. Len(a.frame) = Own(r.s, n) /\ SortSlots(a.frame, r.s, its, f)
  BY <1>1, <1>2 DEF Own, SortSlots, Four, Sorted
<1>7. Placed(r.a, r.s, f)
  BY <1>1, <1>2, <1>5, <1>6 DEF Placed
<1>8. Pending(r.s) = Pending(s)
  BY <1>1 DEF Pending
<1>9. honest => SortKnows(r.s, its)
  BY <1>1, <1>8 DEF SortKnows
<1> QED
  BY <1>1, <1>2, <1>4, <1>7, <1>9 DEF SortPost, Tidy, Good, r

\* The sort ends.
LEMMA EndPost ==
    ASSUME NEW a, NEW its, NEW f, NEW honest \in BOOLEAN, NEW s \in Sorts,
           Sorted(a, its), Len(a.frame) >= 1, honest => Ordered(its, << >>)
    PROVE  SortPost(Wait(Chain(a), s, "none"), its, f, honest)
<1>1. LET r == Wait(Chain(a), s, "none") IN r.a = Chain(a) /\ r.s \in Sorts /\ r.s.at = "none"
  BY WaitOK
<1>2. a \in Apis /\ Good(a) /\ a.lists[l1] = its /\ its \in Seq(Key)
  BY DEF Sorted, Good
<1>3. Chain(a) \in Apis /\ Good(Chain(a)) /\ Chain(a).lists = a.lists
  BY <1>2, ChainOK
<1>4. Same(Chain(a), its)
  BY <1>2, <1>3 DEF Same
<1> QED
  BY <1>1, <1>2, <1>3, <1>4 DEF SortPost, Tidy, Good

\* The API is misused.
LEMMA MisusedPost ==
    ASSUME NEW a, NEW its, NEW f, NEW honest \in BOOLEAN, NEW r, r.a = a, r.s \in Sorts,
           Same(a, its), ~Good(a), Tidy(a, honest)
    PROVE  SortPost(r, its, f, honest)
BY DEF SortPost

\* Two items are put on the frame.
LEMMA ItemsFour ==
    ASSUME NEW a, NEW its, NEW f, Two(a, its, f),
           NEW i \in 0..Len(its) - 1, NEW j \in 0..Len(its) - 1
    PROVE  Four(Items(a, i, j), its, f, its[i + 1], its[j + 1])
<1> DEFINE b == tea_get_item(a, 0, i)
           x == its[i + 1]
<1>1. Sorted(a, its) /\ Len(a.frame) >= 1
  BY DEF Two
<1>2. Three(b, its, f, x)
  BY <1>1, GetSorted
<1> HIDE DEF b, x
<1>3. Sorted(b, its) /\ Len(b.frame) >= 1
  BY <1>2 DEF Three
<1>4. Four(tea_get_item(b, 0, j), its, f, x, its[j + 1])
  BY <1>2, <1>3, GetSorted
<1> QED
  BY <1>4 DEF Items, b, x

\* The loop of auxsort over ranges.
LEMMA RangesTwo ==
    ASSUME NEW a, NEW its, NEW f, NEW honest \in BOOLEAN, NEW s,
           Two(a, its, f), Ready(s, its, honest)
    PROVE  SortPost(Ranges(a, s), its, f, honest)
<1> DEFINE n == Len(its)
<1>1. s \in Sorts /\ Sorted(a, its) /\ n \in Nat
  BY DEF Two, Ready, Sorted
<1>2. /\ s.l \in Int /\ s.u \in Int /\ s.rest \in Seq(Range2)
      /\ \A k \in DOMAIN s.rest : s.rest[k][1] \in Int /\ s.rest[k][2] \in Int
  BY <1>1, SortsOK
<1>3. CASE s.l < s.u
  <2>1. 0 <= s.l /\ s.u < n /\ RestIn(s.rest, n)
    BY <1>3 DEF Ready
  <2>2. s.l \in 0..n - 1 /\ s.u \in 0..n - 1
    BY <1>1, <1>2, <1>3, <2>1
  <2>3. Four(Items(a, s.l, s.u), its, f, its[s.l + 1], its[s.u + 1])
    BY <2>2, ItemsFour
  <2>4. honest => Apart(Pending(s)) /\ Ordered(its, Pending(s))
    BY <1>3 DEF Ready, Live, Pending
  <2>5. Ranges(a, s) = Wait(Items(a, s.l, s.u), s, "lu")
    BY <1>3 DEF Ranges
  <2> DEFINE b == Items(a, s.l, s.u)
  <2> HIDE DEF b
  <2>6. SortPost(Wait(b, s, "lu"), its, f, honest)
    BY <1>1, <1>3, <2>1, <2>3, <2>4, EndsPlaced DEF b
  <2> QED
    BY <2>5, <2>6 DEF b
<1>4. CASE ~(s.l < s.u) /\ s.rest = << >>
  <2>1. Ranges(a, s) = Wait(Chain(a), s, "none")
    BY <1>4 DEF Ranges
  <2>2. honest => Ordered(its, << >>)
    BY <1>4 DEF Ready, Live
  <2>3. Len(a.frame) >= 1
    BY DEF Two
  <2> QED
    BY <1>1, <2>1, <2>2, <2>3, EndPost
<1>5. CASE ~(s.l < s.u) /\ s.rest # << >>
  <2> DEFINE r == Last(s.rest)
             s2 == [s EXCEPT !.l = r[1], !.u = r[2], !.rest = Front(s.rest)]
             m == Len(s.rest)
  <2>1. /\ r \in Range2 /\ Front(s.rest) \in Seq(Range2) /\ s.rest = Append(Front(s.rest), r)
        /\ r = s.rest[m] /\ m \in DOMAIN s.rest
        /\ \A k \in DOMAIN Front(s.rest) : k \in DOMAIN s.rest /\ Front(s.rest)[k] = s.rest[k]
    BY <1>2, <1>5, LastRange
  <2>2. r[1] \in Int /\ r[2] \in Int /\ r = <<r[1], r[2]>>
    BY <2>1 DEF Range2
  <2>3. Ranges(a, s) = Wait(Items(a, r[1], r[2]), s2, "lu")
    BY <1>5 DEF Ranges
  <2> HIDE DEF r
  <2>4. s2 \in Sorts /\ s2.l = r[1] /\ s2.u = r[2] /\ s2.rest = Front(s.rest)
    <3>1. Front(s.rest) \in Seq(Range2)
      BY <2>1
    <3> DEFINE F == Front(s.rest)
    <3> HIDE DEF F
    <3> QED
      BY <1>1, <2>2, <3>1 DEF Sorts, F
  <2> HIDE DEF s2, m
  <2>5. 0 <= r[1] /\ r[1] < r[2] /\ r[2] < n
    BY <2>1 DEF Ready, RestIn
  <2>6. RestIn(s2.rest, n)
    BY <2>1, <2>4 DEF Ready, RestIn
  <2>7. Pending(s2) = Live(s)
    BY <1>5, <2>1, <2>2, <2>4 DEF Pending, Live
  <2>8. r[1] \in 0..n - 1 /\ r[2] \in 0..n - 1
    BY <1>1, <2>2, <2>5
  <2> DEFINE b == Items(a, r[1], r[2])
  <2>9. Four(b, its, f, its[s2.l + 1], its[s2.u + 1])
    BY <2>4, <2>8, ItemsFour
  <2>10. honest => Apart(Pending(s2)) /\ Ordered(its, Pending(s2))
    BY <2>7 DEF Ready
  <2> HIDE DEF b
  <2>11. SortPost(Wait(b, s2, "lu"), its, f, honest)
    BY <2>4, <2>5, <2>6, <2>9, <2>10, EndsPlaced
  <2> QED
    BY <2>3, <2>11 DEF b
<1> QED
  BY <1>3, <1>4, <1>5

\* What is true of the list with items moved is true of the list.
LEMMA MovedPost ==
    ASSUME NEW r, NEW its, NEW t, NEW f, NEW honest, SortPost(r, t, f, honest),
           Len(t) = Len(its), ToBag(t) = ToBag(its)
    PROVE  SortPost(r, its, f, honest)
BY DEF SortPost, Same

\* Sort waits for a comparison.
LEMMA PlacedPost ==
    ASSUME NEW r, NEW its, NEW f, NEW honest \in BOOLEAN, Sorted(r.a, its), r.s \in Sorts,
           SortBounds(r.s, Len(its)), Len(r.a.frame) = Own(r.s, Len(its)), SortSlots(r.a.frame, r.s, its, f),
           honest => SortKnows(r.s, its)
    PROVE  SortPost(r, its, f, honest)
<1>1. Same(r.a, its)
  BY SameSelf
<1>2. Placed(r.a, r.s, f) /\ r.a.lists[l1] = its
  BY DEF Placed, Sorted
<1> QED
  BY <1>1, <1>2 DEF SortPost, Placed, Tidy, Good

\* The local variables stay of their type, whatever becomes of the frame.
LEMMA RangesSorts ==
    ASSUME NEW a, NEW s \in Sorts
    PROVE  Ranges(a, s).s \in Sorts
<1>1. s.rest \in Seq(Range2)
  BY SortsOK
<1>2. CASE s.l < s.u
  BY <1>2, WaitOK DEF Ranges
<1>3. CASE ~(s.l < s.u) /\ s.rest = << >>
  BY <1>3, WaitOK DEF Ranges
<1>4. CASE ~(s.l < s.u) /\ s.rest # << >>
  <2> DEFINE r == Last(s.rest)
             F == Front(s.rest)
             s2 == [s EXCEPT !.l = r[1], !.u = r[2], !.rest = F]
  <2>1. r \in Range2 /\ F \in Seq(Range2)
    BY <1>1, <1>4, LastRange
  <2>2. r[1] \in Int /\ r[2] \in Int
    BY <2>1 DEF Range2
  <2>3. Ranges(a, s) = Wait(Items(a, r[1], r[2]), s2, "lu")
    BY <1>4 DEF Ranges
  <2> HIDE DEF r, F
  <2>4. s2 \in Sorts
    BY <2>1, <2>2 DEF Sorts
  <2> HIDE DEF s2
  <2> QED
    BY <2>3, <2>4, WaitOK
<1> QED
  BY <1>2, <1>3, <1>4

\* The frame is empty: the API is misused.
Empty(a, its) == a \in Apis /\ ~a.strays /\ a.frame = << >> /\ its \in Seq(Key) /\ a.lists[l1] = its
EmptyMisused(a, its) == Empty(a, its) /\ a.misused

\* It stays empty: tea_get_item and tea_set_item,
LEMMA EmptyOps ==
    ASSUME NEW a, NEW its, Empty(a, its), NEW i
    PROVE  EmptyMisused(tea_get_item(a, 0, i), its) /\ EmptyMisused(tea_set_item(a, 0, i), its)
<1>1. a.frame = << >> /\ a \in Apis /\ a.lists[l1] = its
  BY DEF Empty
<1>2. ListAt(a, 0) = NoValue
  <2>1. Position(a, 0) = 1 /\ 1 \notin DOMAIN a.frame
    BY <1>1 DEF Position
  <2> QED
    BY <2>1 DEF ListAt, index2addr, TEA_UPVALUES_INDEX
<1>3. ~IsList(ListAt(a, 0))
  BY <1>2, ApiConstantsOK DEF IsList, Value
<1> DEFINE e == Expect(a, FALSE)
<1>4. e \in Apis /\ e.frame = a.frame /\ e.lists = a.lists /\ e.misused /\ e.strays = a.strays
  BY <1>1 DEF Expect, Apis
<1>5. EmptyMisused(e, its)
  BY <1>1, <1>4 DEF Empty, EmptyMisused
<1>6. ~InList(a, 0, i)
  BY <1>3 DEF InList
<1>7. tea_get_item(a, 0, i) = e
  BY <1>3, <1>6 DEF tea_get_item, Expect
<1>8. tea_set_item(a, 0, i) = e
  BY <1>3, <1>6 DEF tea_set_item, Expect
<1> QED
  BY <1>5, <1>7, <1>8

\* two of them,
LEMMA EmptyItems ==
    ASSUME NEW a, NEW its, Empty(a, its), NEW i, NEW j
    PROVE  EmptyMisused(Items(a, i, j), its) /\ EmptyMisused(set2(a, i, j), its)
<1> DEFINE b == tea_get_item(a, 0, i)
           c == tea_set_item(a, 0, i)
<1>1. Empty(b, its) /\ Empty(c, its)
  BY EmptyOps DEF EmptyMisused
<1> HIDE DEF b, c
<1>2. EmptyMisused(tea_get_item(b, 0, j), its) /\ EmptyMisused(tea_set_item(c, 0, j), its)
  BY <1>1, EmptyOps
<1> QED
  BY <1>2 DEF Items, set2, b, c

\* and a sort that goes on with it.
LEMMA RangesEmpty ==
    ASSUME NEW a, NEW its, EmptyMisused(a, its), NEW s \in Sorts, NEW f, NEW honest \in BOOLEAN, ~honest
    PROVE  SortPost(Ranges(a, s), its, f, honest)
<1> DEFINE r == Ranges(a, s)
<1>1. Empty(a, its)
  BY DEF EmptyMisused
<1>2. r.s \in Sorts
  BY RangesSorts
<1>3. \/ r.a = Chain(a)
      \/ \E i, j : r.a = Items(a, i, j)
  BY DEF Ranges, Wait
<1>4. r.a \in Apis /\ r.a.misused /\ ~r.a.strays /\ r.a.lists[l1] = its /\ its \in Seq(Key)
  <2>1. a \in Apis /\ a.misused /\ ~a.strays /\ a.lists[l1] = its /\ its \in Seq(Key)
    BY DEF Empty, EmptyMisused
  <2>2. CASE r.a = Chain(a)
    BY <2>1, <2>2, ChainOK
  <2>3. ASSUME NEW i, NEW j, r.a = Items(a, i, j)
        PROVE  r.a \in Apis /\ r.a.misused /\ ~r.a.strays /\ r.a.lists[l1] = its
    BY <1>1, <2>3, EmptyItems DEF Empty, EmptyMisused
  <2> QED
    BY <1>3, <2>1, <2>2, <2>3
<1> HIDE DEF r
<1>5. Same(r.a, its) /\ ~Good(r.a) /\ Tidy(r.a, honest)
  BY <1>4 DEF Same, Good, Tidy
<1>6. SortPost(r, its, f, honest)
  BY <1>2, <1>5 DEF SortPost
<1> QED
  BY <1>6 DEF r

\* The comparator was popped: the next items are in its place.
LEMMA LostPost ==
    ASSUME NEW a, NEW its, NEW f, NEW s \in Sorts, One(a, its),
           0 <= s.l, s.l < s.u, s.u < Len(its), RestIn(s.rest, Len(its))
    PROVE  SortPost(Wait(Items(a, s.l, s.u), s, "lu"), its, f, FALSE)
<1> DEFINE n == Len(its)
           b == tea_get_item(a, 0, s.l)
           c == tea_get_item(b, 0, s.u)
           v == its[s.l + 1]
           w == its[s.u + 1]
           r == Wait(c, s, "lu")
<1>1. s.l \in Int /\ s.u \in Int /\ n \in Nat /\ Sorted(a, its) /\ its \in Seq(Key) /\ Len(a.frame) >= 1
  <2>1. s.l \in Int /\ s.u \in Int
    BY SortsOK
  <2>2. Sorted(a, its) /\ Len(a.frame) = 1
    BY DEF One
  <2>3. its \in Seq(Key)
    BY <2>2 DEF Sorted
  <2> HIDE DEF b, c, v, w, r
  <2>4. n \in Nat
    BY <2>3
  <2> QED
    BY <2>1, <2>2, <2>3, <2>4
<1>2. s.l \in 0..n - 1 /\ s.u \in 0..n - 1
  BY <1>1
<1>3. Two(b, its, v)
  BY <1>1, <1>2, GetSorted
<1>4. v \in Num
  <2>1. s.l + 1 \in 1..n
    BY <1>1, <1>2
  <2>2. v \in Key
    BY <1>1, <2>1
  <2> QED
    BY <2>2, LibConstantsOK
<1> HIDE DEF b, v
<1>5. Three(c, its, v, w)
  <2>1. Sorted(b, its) /\ Len(b.frame) >= 1
    BY <1>3 DEF Two
  <2> QED
    BY <1>2, <1>3, <2>1, GetSorted
<1>6. /\ r.a = c /\ r.s \in Sorts /\ r.s.at = "lu"
      /\ r.s.l = s.l /\ r.s.u = s.u /\ r.s.rest = s.rest
  BY WaitOK
<1> HIDE DEF c, w, r
<1>7. Same(r.a, its)
  BY <1>5, <1>6, SameSelf DEF Three
<1>8. Lost(r.a.frame, r.s)
  BY <1>4, <1>5, <1>6 DEF Three, Sorted, Lost
<1>9. SortBounds(r.s, n)
  BY <1>1, <1>2, <1>6 DEF SortBounds, RestIn
<1>10. Tidy(r.a, FALSE)
  BY <1>5, <1>6 DEF Three, Sorted, Good, Tidy
<1>11. SortPost(r, its, f, FALSE)
  BY <1>6, <1>7, <1>8, <1>9, <1>10 DEF SortPost
<1> QED
  BY <1>11 DEF r, c, b, Items

\* A sort that has lost its comparator goes on.
LEMMA RangesOne ==
    ASSUME NEW a, NEW its, NEW f, NEW s, One(a, its), Ready(s, its, FALSE)
    PROVE  SortPost(Ranges(a, s), its, f, FALSE)
<1> DEFINE n == Len(its)
<1>1. s \in Sorts /\ Sorted(a, its) /\ RestIn(s.rest, n)
  BY DEF One, Ready
<1>2. s.l \in Int /\ s.u \in Int /\ s.rest \in Seq(Range2)
  BY <1>1, SortsOK
<1>3. CASE s.l < s.u
  <2>1. 0 <= s.l /\ s.u < n
    BY <1>3 DEF Ready
  <2>2. Ranges(a, s) = Wait(Items(a, s.l, s.u), s, "lu")
    BY <1>3 DEF Ranges
  <2> QED
    BY <1>1, <1>3, <2>1, <2>2, LostPost
<1>4. CASE ~(s.l < s.u) /\ s.rest = << >>
  <2>1. Ranges(a, s) = Wait(Chain(a), s, "none")
    BY <1>4 DEF Ranges
  <2>2. Len(a.frame) >= 1
    BY DEF One
  <2> QED
    BY <1>1, <2>1, <2>2, EndPost
<1>5. CASE ~(s.l < s.u) /\ s.rest # << >>
  <2> DEFINE r == Last(s.rest)
             F == Front(s.rest)
             s2 == [s EXCEPT !.l = r[1], !.u = r[2], !.rest = F]
             m == Len(s.rest)
  <2>1. /\ r \in Range2 /\ F \in Seq(Range2) /\ r = s.rest[m] /\ m \in DOMAIN s.rest
        /\ \A k \in DOMAIN F : k \in DOMAIN s.rest /\ F[k] = s.rest[k]
    BY <1>2, <1>5, LastRange
  <2>2. r[1] \in Int /\ r[2] \in Int
    BY <2>1 DEF Range2
  <2>3. Ranges(a, s) = Wait(Items(a, r[1], r[2]), s2, "lu")
    BY <1>5 DEF Ranges
  <2> HIDE DEF r, F
  <2>4. s2 \in Sorts /\ s2.l = r[1] /\ s2.u = r[2] /\ s2.rest = F
    BY <1>1, <2>1, <2>2 DEF Sorts
  <2> HIDE DEF s2, m
  <2>5. 0 <= s2.l /\ s2.l < s2.u /\ s2.u < n
    BY <1>1, <2>1, <2>4 DEF RestIn
  <2>6. RestIn(s2.rest, n)
    BY <1>1, <2>1, <2>4 DEF RestIn
  <2>7. SortPost(Wait(Items(a, s2.l, s2.u), s2, "lu"), its, f, FALSE)
    BY <2>4, <2>5, <2>6, LostPost
  <2> QED
    BY <2>3, <2>4, <2>7
<1> QED
  BY <1>3, <1>4, <1>5

\* What the local variables of the partitioning keep to.
Parting(s, n) ==
    /\ s \in Sorts /\ 0 <= s.l /\ s.u < n /\ s.u - s.l >= 3 /\ RestIn(s.rest, n)

\* A range that is being sorted.
Current(s, its) == Apart(Pending(s)) /\ Ordered(its, Pending(s))

\* repeat ++i until a[i] >= P
LEMMA UpOK ==
    ASSUME NEW a, NEW its, NEW f, NEW honest \in BOOLEAN, NEW s,
           Parting(s, Len(its)), s.i \in s.l..s.u, s.j \in s.l + 1..s.u - 1,
           Three(a, its, f, its[s.u]),
           honest => /\ Current(s, its) /\ s.i < s.u - 1
                     /\ \A k \in s.l..s.i : its[k + 1] <= its[s.u]
                     /\ \A k \in s.j..s.u : its[k + 1] >= its[s.u]
    PROVE  SortPost(Up(a, s), its, f, honest)
<1> DEFINE n == Len(its)
           b == tea_get_item(a, 0, s.i + 1)
           s2 == [s EXCEPT !.i = s.i + 1]
           r == Wait(b, s2, "up")
<1>1. s \in Sorts /\ Sorted(a, its) /\ n \in Nat
  BY DEF Three, Sorted, Parting
<1>2. s.l \in Int /\ s.u \in Int /\ s.i \in Int /\ s.j \in Int
  BY <1>1, SortsOK
<1>3. 0 <= s.l /\ s.u < n /\ s.u - s.l >= 3 /\ RestIn(s.rest, n)
  BY DEF Parting
<1>4. s2 \in Sorts /\ s2.l = s.l /\ s2.u = s.u /\ s2.i = s.i + 1 /\ s2.j = s.j /\ s2.rest = s.rest
  <2> DEFINE m == s.i + 1
  <2>1. m \in Int
    BY <1>2
  <2> HIDE DEF m, b, n
  <2>2. [s EXCEPT !.i = m] \in Sorts
    BY <1>1, <2>1 DEF Sorts
  <2>3. s2 = [s EXCEPT !.i = m]
    BY DEF m
  <2> HIDE DEF s2
  <2> QED
    BY <1>1, <2>2, <2>3 DEF Sorts, m
<1>5. Up(a, s) = r
  BY DEF Up
<1> HIDE DEF s2
<1>6. r.a = b /\ r.s \in Sorts /\ r.s.at = "up" /\ r.s.l = s.l /\ r.s.u = s.u /\ r.s.i = s.i + 1 /\ r.s.j = s.j
      /\ r.s.rest = s.rest
  BY <1>4, WaitOK
<1> HIDE DEF r
<1>7. /\ Sorted(b, its)
      /\ s.i + 1 < n => Four(b, its, f, its[s.u], its[s.i + 2])
      /\ ~(s.i + 1 < n) => Three(b, its, f, its[s.u])
  <2> DEFINE m == s.i + 1
  <2>1. m \in Int /\ m >= 1 /\ s.i + 2 = m + 1
    BY <1>2, <1>3, SMTT(20)
  <2>2. Len(a.frame) >= 1 /\ n > 0
    <3>1. Len(a.frame) = 3
      BY DEF Three
    <3>2. n > 0
      BY <1>1, <1>2, <1>3
    <3> QED
      BY <3>1, <3>2
  <2>3. CASE m < n
    <3>1. m \in 0..n - 1
      BY <1>1, <2>1, <2>3
    <3> HIDE DEF m
    <3>2. Four(tea_get_item(a, 0, m), its, f, its[s.u], its[m + 1])
      BY <1>1, <2>2, <3>1, GetSorted
    <3> QED
      BY <2>1, <2>3, <3>2 DEF Four, m
  <2>4. CASE ~(m < n)
    <3>1. m < 0 \/ m >= n
      BY <1>1, <2>1, <2>4
    <3> HIDE DEF m
    <3>2. tea_get_item(a, 0, m) = a
      BY <1>1, <2>1, <2>2, <3>1, GetNothing
    <3> QED
      BY <1>1, <2>4, <3>2 DEF m
  <2> QED
    BY <2>3, <2>4
<1>8. SortBounds(r.s, n)
  <2> DEFINE m == s.i + 1
  <2>1. s.l \in 0..n - 1 /\ s.u \in 0..n - 1 /\ s.l < s.u
    BY <1>1, <1>2, <1>3
  <2>2. m \in s.l + 1..s.u + 1
    BY <1>2
  <2>3. r.s.i = m
    BY <1>6
  <2> HIDE DEF n, m
  <2> QED
    BY <1>3, <1>6, <2>1, <2>2, <2>3 DEF SortBounds, RestIn
<1>9. Len(b.frame) = Own(r.s, n) /\ SortSlots(b.frame, r.s, its, f)
  <2>1. r.s.i + 1 = s.i + 2
    BY <1>2, <1>6
  <2>2. CASE s.i + 1 < n
    BY <1>6, <1>7, <2>1, <2>2 DEF Four, Sorted, Own, SortSlots
  <2>3. CASE ~(s.i + 1 < n)
    BY <1>6, <1>7, <2>1, <2>3 DEF Three, Sorted, Own, SortSlots
  <2> QED
    BY <2>2, <2>3
<1>10. ASSUME honest PROVE SortKnows(r.s, its)
  <2>1. Pending(r.s) = Pending(s)
    BY <1>6 DEF Pending
  <2>2. \A k \in s.l..s.i + 1 - 1 : k \in s.l..s.i
    BY <1>2
  <2>3. s.i + 1 <= s.u - 1
    BY <1>2, <1>10
  <2> QED
    BY <1>6, <1>10, <2>1, <2>2, <2>3 DEF SortKnows, Current
<1>11. SortPost(r, its, f, honest)
  BY <1>6, <1>7, <1>8, <1>9, <1>10, PlacedPost
<1> QED
  BY <1>5, <1>11

\* repeat --j until a[j] <= P
LEMMA DownOK ==
    ASSUME NEW a, NEW its, NEW f, NEW honest \in BOOLEAN, NEW s,
           Parting(s, Len(its)), s.i \in s.l + 1..s.u + 1, s.j \in s.l..s.u - 1,
           s.i < Len(its) => Four(a, its, f, its[s.u], its[s.i + 1]),
           ~(s.i < Len(its)) => Three(a, its, f, its[s.u]),
           honest => /\ Current(s, its) /\ s.i <= s.u - 1 /\ s.j - 1 >= s.l
                     /\ \A k \in s.l..s.i - 1 : its[k + 1] <= its[s.u]
                     /\ its[s.i + 1] >= its[s.u]
                     /\ \A k \in s.j..s.u : its[k + 1] >= its[s.u]
    PROVE  SortPost(Down(a, s), its, f, honest)
<1> DEFINE n == Len(its)
           b == tea_get_item(a, 0, s.j - 1)
           s2 == [s EXCEPT !.j = s.j - 1]
           r == Wait(b, s2, "down")
<1>1. s \in Sorts /\ Sorted(a, its) /\ n \in Nat
  <2>1. Sorted(a, its)
    BY DEF Three, Four
  <2> QED
    BY <2>1 DEF Sorted, Parting
<1>2. s.l \in Int /\ s.u \in Int /\ s.i \in Int /\ s.j \in Int
  BY <1>1, SortsOK
<1>3. 0 <= s.l /\ s.u < n /\ s.u - s.l >= 3 /\ RestIn(s.rest, n)
  BY DEF Parting
<1>4. s2 \in Sorts /\ s2.l = s.l /\ s2.u = s.u /\ s2.i = s.i /\ s2.j = s.j - 1 /\ s2.rest = s.rest
  <2> DEFINE m == s.j - 1
  <2>1. m \in Int
    BY <1>2
  <2> HIDE DEF m, b, n
  <2>2. [s EXCEPT !.j = m] \in Sorts
    BY <1>1, <2>1 DEF Sorts
  <2>3. s2 = [s EXCEPT !.j = m]
    BY DEF m
  <2> HIDE DEF s2
  <2> QED
    BY <1>1, <2>2, <2>3 DEF Sorts, m
<1>5. Down(a, s) = r
  BY DEF Down
<1> HIDE DEF s2
<1>6. r.a = b /\ r.s \in Sorts /\ r.s.at = "down" /\ r.s.l = s.l /\ r.s.u = s.u /\ r.s.i = s.i /\ r.s.j = s.j - 1
      /\ r.s.rest = s.rest
  BY <1>4, WaitOK
<1> HIDE DEF r
<1> DEFINE m == s.j - 1
<1>7. m \in Int /\ m < n /\ s.j = m + 1
  BY <1>1, <1>2, <1>3, SMTT(20)
<1>8. Len(a.frame) >= 1 /\ n > 0
  <2>1. Len(a.frame) >= 1
    BY DEF Three, Four
  <2>2. n > 0
    BY <1>1, <1>2, <1>3
  <2> QED
    BY <2>1, <2>2
<1> HIDE DEF m
<1>9. /\ Sorted(b, its)
      /\ m >= 0 /\ s.i < n => Five(b, its, f, its[s.u], its[s.i + 1], its[m + 1])
      /\ m >= 0 /\ ~(s.i < n) => Four(b, its, f, its[s.u], its[m + 1])
      /\ ~(m >= 0) => b = a
  <2>1. b = tea_get_item(a, 0, m)
    BY DEF m
  <2>2. CASE m >= 0
    <3>1. m \in 0..n - 1
      BY <1>1, <1>7, <2>2
    <3> HIDE DEF b
    <3>2. /\ \A g, x : Three(a, its, g, x) => Four(tea_get_item(a, 0, m), its, g, x, its[m + 1])
          /\ \A g, x, y : Four(a, its, g, x, y) => Five(tea_get_item(a, 0, m), its, g, x, y, its[m + 1])
      BY <1>1, <1>8, <3>1, GetSorted
    <3>3. CASE s.i < n
      BY <2>1, <2>2, <3>2, <3>3 DEF Five
    <3>4. CASE ~(s.i < n)
      BY <2>1, <2>2, <3>2, <3>4 DEF Four
    <3> QED
      BY <3>3, <3>4
  <2>3. CASE ~(m >= 0)
    <3>1. m < 0 \/ m >= n
      BY <1>7, <2>3
    <3>2. b = a
      BY <1>1, <1>7, <1>8, <2>1, <3>1, GetNothing
    <3> QED
      BY <1>1, <2>3, <3>2
  <2> QED
    BY <2>2, <2>3
<1> HIDE DEF b
<1>10. SortBounds(r.s, n)
  <2>1. s.l \in 0..n - 1 /\ s.u \in 0..n - 1 /\ s.l < s.u
    BY <1>1, <1>2, <1>3, SMTT(20)
  <2>2. s.j - 1 \in s.l - 1..s.u - 2
    BY <1>2, SMTT(20)
  <2> QED
    BY <1>3, <1>6, <2>1, <2>2 DEF SortBounds, RestIn
<1>11. Len(b.frame) = Own(r.s, n) /\ SortSlots(b.frame, r.s, its, f)
  <2>1. r.s.j = m /\ r.s.i = s.i /\ r.s.u = s.u /\ r.s.at = "down" /\ n = Len(its)
    BY <1>6 DEF m
  <2> HIDE DEF n
  <2>2. CASE m >= 0 /\ s.i < n
    <3>1. Five(b, its, f, its[s.u], its[s.i + 1], its[m + 1])
      BY <1>9, <2>2
    <3> QED
      BY <2>1, <2>2, <3>1 DEF Five, Sorted, Own, SortSlots
  <2>3. CASE m >= 0 /\ ~(s.i < n)
    <3>1. Four(b, its, f, its[s.u], its[m + 1])
      BY <1>9, <2>3
    <3> QED
      BY <2>1, <2>3, <3>1 DEF Four, Sorted, Own, SortSlots
  <2>4. CASE ~(m >= 0) /\ s.i < n
    <3>1. Four(b, its, f, its[s.u], its[s.i + 1])
      BY <1>9, <2>4 DEF n
    <3> QED
      BY <2>1, <2>4, <3>1 DEF Four, Sorted, Own, SortSlots
  <2>5. CASE ~(m >= 0) /\ ~(s.i < n)
    <3>1. Three(b, its, f, its[s.u])
      BY <1>9, <2>5 DEF n
    <3> QED
      BY <2>1, <2>5, <3>1 DEF Three, Sorted, Own, SortSlots
  <2> QED
    BY <2>2, <2>3, <2>4, <2>5
<1>12. ASSUME honest PROVE SortKnows(r.s, its)
  <2>1. Pending(r.s) = Pending(s)
    BY <1>6 DEF Pending
  <2>2. \A k \in s.j - 1 + 1..s.u : k \in s.j..s.u
    BY <1>2
  <2> QED
    BY <1>6, <1>12, <2>1, <2>2 DEF SortKnows, Current
<1>13. SortPost(r, its, f, honest)
  BY <1>6, <1>9, <1>10, <1>11, <1>12, PlacedPost
<1> QED
  BY <1>5, <1>13

\* Two items are exchanged, and sort goes on.
LEMMA SwapPost ==
    ASSUME NEW r, NEW its \in Seq(Key), NEW t, NEW f, NEW honest, SortPost(r, t, f, honest),
           NEW p \in 1..Len(its), NEW q \in 1..Len(its), Swaps(its, t, p, q)
    PROVE  SortPost(r, its, f, honest)
<1>1. Len(t) = Len(its) /\ ToBag(t) = ToBag(its)
  BY SwapBag DEF Swaps
<1> QED
  BY <1>1, MovedPost

\* They are items of the range that is being sorted.
LEMMA SwapCurrent ==
    ASSUME NEW its \in Seq(Key), NEW s \in Sorts, Current(s, its),
           NEW p \in 0..Len(its) - 1, NEW q \in 0..Len(its) - 1,
           s.l <= p, p <= s.u, s.l <= q, q <= s.u, NEW t, Swaps(its, t, p + 1, q + 1)
    PROVE  Current(s, t)
<1> DEFINE R == Pending(s)
           k == Len(s.rest) + 1
<1>1. s.rest \in Seq(Range2) /\ <<s.l, s.u>> \in Range2 /\ <<s.l, s.u>>[1] = s.l /\ <<s.l, s.u>>[2] = s.u
  BY SortsOK
<1>2. R \in Seq(Range2) /\ k \in DOMAIN R /\ R[k] = <<s.l, s.u>>
  BY <1>1, OneMore DEF Pending
<1>3. Apart(R) /\ Ordered(its, R)
  BY DEF Current
<1> HIDE DEF R, k
<1>4. R[k][1] <= p /\ p <= R[k][2] /\ R[k][1] <= q /\ q <= R[k][2]
  BY <1>1, <1>2
<1>5. Ordered(t, R)
  BY <1>2, <1>3, <1>4, SwapOrdered
<1> QED
  BY <1>3, <1>5 DEF Current, R

\* The range is in order.
LEMMA BreakOK ==
    ASSUME NEW a, NEW its, NEW f, NEW honest \in BOOLEAN, NEW s \in Sorts,
           Two(a, its, f), RestIn(s.rest, Len(its)),
           honest => /\ Current(s, its)
                     /\ \A x, y \in 0..Len(its) - 1 : x < y /\ s.l <= x /\ y <= s.u => its[x + 1] <= its[y + 1]
    PROVE  SortPost(Break(a, s), its, f, honest)
<1> DEFINE s2 == [s EXCEPT !.l = s.u]
<1>1. s.l \in Int /\ s.u \in Int /\ s.rest \in Seq(Range2)
  BY SortsOK
<1>2. s2 \in Sorts /\ s2.l = s.u /\ s2.u = s.u /\ s2.rest = s.rest
  BY <1>1 DEF Sorts
<1>3. Break(a, s) = Ranges(a, s2)
  BY DEF Break
<1> HIDE DEF s2
<1>4. Live(s2) = s.rest /\ ~(s2.l < s2.u)
  BY <1>1, <1>2 DEF Live
<1>5. ASSUME honest PROVE Apart(s.rest) /\ Ordered(its, s.rest)
  <2>1. <<s.l, s.u>> \in Range2
    BY SortsOK
  <2>2. Apart(Append(s.rest, <<s.l, s.u>>)) /\ Ordered(its, Append(s.rest, <<s.l, s.u>>))
    BY <1>5 DEF Current, Pending
  <2>3. Apart(s.rest)
    BY <1>1, <2>1, <2>2, ApartAppend
  <2>4. its \in Seq(Key)
    BY DEF Two, Sorted
  <2>5. \A x, y \in 0..Len(its) - 1 : x < y /\ s.l <= x /\ y <= s.u => its[x + 1] <= its[y + 1] \/ Covered(s.rest, x, y)
    BY <1>5
  <2> DEFINE R == s.rest
             l == s.l
             u == s.u
  <2> HIDE DEF R, l, u
  <2>6. Ordered(its, R)
    <3>1. R \in Seq(Range2) /\ l \in Int /\ u \in Int
      BY <1>1 DEF R, l, u
    <3>2. Ordered(its, Append(R, <<l, u>>))
      BY <2>2 DEF R, l, u
    <3>3. \A x, y : Covered(R, x, y) => Covered(R, x, y)
      OBVIOUS
    <3>4. \A x, y \in 0..Len(its) - 1 : x < y /\ l <= x /\ y <= u => its[x + 1] <= its[y + 1] \/ Covered(R, x, y)
      BY <2>5 DEF R, l, u
    <3> QED
      BY <2>4, <3>1, <3>2, <3>3, <3>4, LeaveOrdered
  <2> QED
    BY <2>3, <2>6 DEF R
<1>6. Ready(s2, its, honest)
  BY <1>2, <1>4, <1>5 DEF Ready
<1> QED
  BY <1>3, <1>6, RangesTwo

\* The middle of a range.
LEMMA Middle ==
    ASSUME NEW l \in Int, NEW u \in Int, u - l >= 2, NEW i, i = (l + u) \div 2
    PROVE  i \in Int /\ l < i /\ i < u /\ (u - l >= 3 => i < u - 1) /\ (u - l = 2 => i = l + 1)
OBVIOUS

\* The pivot is put on the frame once more.
LEMMA PushPivot ==
    ASSUME NEW b, NEW its, NEW f, NEW P, Three(b, its, f, P)
    PROVE  Four(tea_push_value(b, -1), its, f, P, P)
<1> DEFINE p == tea_push_value(b, -1)
<1>1. Good(b) /\ Len(b.frame) = 3 /\ b.frame[3] = P /\ b.lists[l1] = its /\ b.frame[1] = l1 /\ b.frame[2] = f
      /\ its \in Seq(Key)
  BY DEF Three, Sorted
<1>2. -1 \in Int /\ 3 \in 1..Len(b.frame) /\ (-1 = 3 - 1 \/ (-1 = 3 - Len(b.frame) - 1 /\ Len(b.frame) < 100))
  BY <1>1
<1>3. Grown(b, p, b.frame[3])
  BY <1>1, <1>2, PushValueGood
<1> HIDE DEF p
<1>4. /\ Good(p) /\ p.lists = b.lists /\ Len(p.frame) = 4 /\ p.frame[4] = P
      /\ \A q \in 1..3 : p.frame[q] = b.frame[q]
  BY <1>1, <1>3 DEF Grown
<1>5. 1 \in 1..3 /\ 2 \in 1..3 /\ 3 \in 1..3
  OBVIOUS
<1>6. p.frame[1] = l1 /\ p.frame[2] = f /\ p.frame[3] = P
  BY <1>1, <1>4, <1>5
<1>7. Four(p, its, f, P, P)
  BY <1>1, <1>4, <1>6 DEF Four, Sorted
<1> QED
  BY <1>7 DEF p

\* An item is a number.
LEMMA ItemInt ==
    ASSUME NEW its \in Seq(Key), NEW i \in 0..Len(its) - 1
    PROVE  i + 1 \in 1..Len(its) /\ its[i + 1] \in Key /\ its[i + 1] \in Int
<1>1. i + 1 \in 1..Len(its)
  OBVIOUS
<1>2. its[i + 1] \in Key
  BY <1>1
<1> QED
  BY <1>1, <1>2, LibConstantsOK, ApiConstantsOK

\* Two of three.
LEMMA OfThree ==
    ASSUME NEW l \in Int, NEW u \in Int, NEW i \in Int, NEW x \in Int, NEW y \in Int,
           u = l + 2, i = l + 1, x < y, l <= x, y <= u
    PROVE  (x = l /\ y = i) \/ (x = l /\ y = u) \/ (x = i /\ y = u)
OBVIOUS

\* The middle item is the pivot.
LEMMA PivotOK ==
    ASSUME NEW a, NEW its, NEW f, NEW honest \in BOOLEAN, NEW s \in Sorts,
           Two(a, its, f), RestIn(s.rest, Len(its)), 0 <= s.l, s.u < Len(its), s.u - s.l >= 2,
           s.l < s.i, s.i < s.u, s.u - s.l >= 3 => s.i < s.u - 1, s.u - s.l = 2 => s.i = s.l + 1,
           honest => /\ Current(s, its)
                     /\ its[s.l + 1] <= its[s.i + 1] /\ its[s.i + 1] <= its[s.u + 1]
    PROVE  SortPost(Pivot(a, s), its, f, honest)
<1> DEFINE n == Len(its)
<1>1. Sorted(a, its) /\ its \in Seq(Key) /\ n \in Nat /\ Len(a.frame) >= 1
  BY DEF Two, Sorted
<1>2. s.l \in Int /\ s.u \in Int /\ s.i \in Int /\ s.j \in Int
  BY SortsOK
<1>3. s.l < s.i /\ s.i < s.u /\ (s.u - s.l >= 3 => s.i < s.u - 1) /\ (s.u - s.l = 2 => s.i = s.l + 1)
  OBVIOUS
<1>4. s.i \in 0..n - 1 /\ s.u - 1 \in 0..n - 1 /\ s.l \in 0..n - 1 /\ s.u \in 0..n - 1
  BY <1>1, <1>2, <1>3, SMTT(20)
<1>5. CASE s.u - s.l = 2
  <2>1. Pivot(a, s) = Break(a, s)
    BY <1>5 DEF Pivot
  <2>2. ASSUME honest, NEW x \in 0..n - 1, NEW y \in 0..n - 1, x < y, s.l <= x, y <= s.u
        PROVE  its[x + 1] <= its[y + 1]
    <3>1. its[s.l + 1] \in Int /\ its[s.i + 1] \in Int /\ its[s.u + 1] \in Int
      BY <1>1, <1>4, ItemInt
    <3>2. \/ x = s.l /\ y = s.i
          \/ x = s.l /\ y = s.u
          \/ x = s.i /\ y = s.u
      <4>1. x \in Int /\ y \in Int /\ s.u = s.l + 2 /\ s.i = s.l + 1
        BY <1>1, <1>2, <1>3, <1>5
      <4> QED
        BY <1>2, <2>2, <4>1, OfThree
    <3> QED
      <4>1. CASE x = s.l /\ y = s.i
        BY <2>2, <4>1
      <4>2. CASE x = s.l /\ y = s.u
        <5>1. its[s.l + 1] <= its[s.i + 1] /\ its[s.i + 1] <= its[s.u + 1]
          BY <2>2
        <5> DEFINE p == its[s.l + 1]
                   m == its[s.i + 1]
                   q == its[s.u + 1]
        <5>2. p \in Int /\ m \in Int /\ q \in Int /\ p <= m /\ m <= q
          BY <3>1, <5>1
        <5> HIDE DEF p, m, q
        <5>3. p <= q
          BY <5>2
        <5>4. its[x + 1] = p /\ its[y + 1] = q
          BY <4>2 DEF p, q
        <5> QED
          BY <5>3, <5>4
      <4>3. CASE x = s.i /\ y = s.u
        BY <2>2, <4>3
      <4> QED
        BY <3>2, <4>1, <4>2, <4>3
  <2> QED
    BY <2>1, <2>2, BreakOK
<1>6. CASE s.u - s.l # 2
  <2>0. s.u - s.l >= 3 /\ s.i < s.u - 1
    BY <1>2, <1>3, <1>6
  <2> DEFINE P == its[s.i + 1]
             b == tea_get_item(a, 0, s.i)
             p == tea_push_value(b, -1)
             m == s.u - 1
             c == tea_get_item(p, 0, m)
             d == set2(c, s.i, m)
             t == d.lists[l1]
             s2 == [s EXCEPT !.i = s.l, !.j = m]
  <2>1. Pivot(a, s) = Up(d, s2)
    BY <1>6 DEF Pivot
  <2>2. Three(b, its, f, P)
    BY <1>1, <1>4, GetSorted
  <2> HIDE DEF b, P
  <2>3. Four(p, its, f, P, P)
    BY <2>2, PushPivot
  <2> HIDE DEF p
  <2>4. m \in 0..n - 1 /\ m \in Int /\ m + 1 = s.u /\ s.i < m /\ s.l + 2 <= m
    BY <1>2, <1>4, <2>0, SMTT(20)
  <2> HIDE DEF m
  <2>5. Five(c, its, f, P, P, its[m + 1])
    <3>1. Sorted(p, its) /\ Len(p.frame) >= 1
      BY <2>3 DEF Four
    <3> QED
      BY <2>3, <2>4, <3>1, GetSorted
  <2> HIDE DEF c
  <2>6. Three(d, t, f, P) /\ Swaps(its, t, s.i + 1, m + 1)
    <3>1. Sorted(c, its)
      BY <2>5 DEF Five
    <3> QED
      BY <1>4, <2>4, <2>5, <3>1, SwapSlots DEF P
  <2> HIDE DEF d, t
  <2>7. /\ t \in Seq(Key) /\ Len(t) = n /\ t[s.u] = P
        /\ \A k \in 1..n : k # s.i + 1 /\ k # s.u => t[k] = its[k]
    BY <2>4, <2>6 DEF Swaps, P
  <2>8. /\ s2 \in Sorts /\ s2.l = s.l /\ s2.u = s.u /\ s2.i = s.l /\ s2.j = m /\ s2.rest = s.rest
    BY <1>2, <2>4 DEF Sorts
  <2> HIDE DEF s2
  <2>9. Parting(s2, n)
    BY <2>0, <2>8 DEF Parting
  <2>10. s2.i \in s2.l..s2.u /\ s2.j \in s2.l + 1..s2.u - 1
    BY <1>2, <2>4, <2>8
  <2>11. ASSUME honest
         PROVE  /\ Current(s2, t) /\ s2.i < s2.u - 1
                /\ \A k \in s2.l..s2.i : t[k + 1] <= t[s2.u]
                /\ \A k \in s2.j..s2.u : t[k + 1] >= t[s2.u]
    <3>1. Current(s, t)
      <4>1. s.l <= s.i /\ s.i <= s.u /\ s.l <= m /\ m <= s.u
        BY <1>2, <1>3, <2>4
      <4> QED
        BY <1>1, <1>4, <2>4, <2>6, <2>11, <4>1, SwapCurrent
    <3>2. Current(s2, t)
      BY <2>8, <3>1 DEF Current, Pending
    <3>3. s2.i < s2.u - 1
      BY <1>2, <2>4, <2>8
    <3>4. t[s.l + 1] <= P
      <4>1. s.l + 1 \in 1..n /\ s.l + 1 # s.i + 1 /\ s.l + 1 # s.u
        <5>1. s.l + 1 \in 1..n
          BY <1>1, <1>4
        <5>2. s.l + 1 # s.i + 1 /\ s.l + 1 # s.u
          BY <1>2, <1>3, <2>4
        <5> QED
          BY <5>1, <5>2
      <4> QED
        BY <2>7, <2>11, <4>1 DEF P
    <3>5. t[s.u + 1] >= P
      <4>1. s.u + 1 \in 1..n /\ s.u + 1 # s.i + 1 /\ s.u + 1 # s.u
        BY <1>1, <1>2, <1>3, <1>4, SMTT(20)
      <4>2. its[s.u + 1] \in Int /\ its[s.i + 1] \in Int
        BY <1>1, <1>4, ItemInt
      <4> QED
        BY <2>7, <2>11, <4>1, <4>2 DEF P
    <3>6. P \in Int
      BY <1>1, <1>4, ItemInt DEF P
    <3>7. \A k \in s2.l..s2.i : k = s.l
      BY <1>2, <2>8
    <3>8. \A k \in s2.j..s2.u : k = s.u \/ k + 1 = s.u
      BY <1>2, <2>4, <2>8
    <3>9. P >= P
      BY <3>6
    <3> QED
      BY <2>7, <2>8, <3>2, <3>3, <3>4, <3>5, <3>7, <3>8, <3>9
  <2>12. SortPost(Up(d, s2), t, f, honest)
    BY <2>6, <2>7, <2>8, <2>9, <2>10, <2>11, UpOK
  <2>13. s.i + 1 \in 1..n /\ m + 1 \in 1..n
    BY <1>1, <1>4, <2>4, SMTT(20)
  <2> QED
    BY <1>1, <2>1, <2>6, <2>12, <2>13, SwapPost
<1> QED
  BY <1>5, <1>6

\* The halves, as ranges.
Split(s) ==
    LET low == <<s.l, s.i - 1>>
        high == <<s.i + 1, s.u>>
        first == IF s.i - s.l < s.u - s.i THEN low ELSE high
        second == IF first = low THEN high ELSE low
    IN  [s EXCEPT !.l = first[1], !.u = first[2], !.rest =
             IF second[1] < second[2] THEN Append(@, second) ELSE @]

\* One of the halves comes first.
LEMMA SplitIs ==
    ASSUME NEW s \in Sorts
    PROVE  \E first, second \in Range2 :
             /\ \/ first = <<s.l, s.i - 1>> /\ second = <<s.i + 1, s.u>>
                \/ second = <<s.l, s.i - 1>> /\ first = <<s.i + 1, s.u>>
             /\ Split(s) = [s EXCEPT !.l = first[1], !.u = first[2], !.rest =
                                IF second[1] < second[2] THEN Append(s.rest, second) ELSE s.rest]
<1> DEFINE low == <<s.l, s.i - 1>>
           high == <<s.i + 1, s.u>>
           first == IF s.i - s.l < s.u - s.i THEN low ELSE high
           second == IF first = low THEN high ELSE low
<1>1. s.l \in Int /\ s.u \in Int /\ s.i \in Int
  BY SortsOK
<1>2. low \in Range2 /\ high \in Range2
  <2>1. s.i - 1 \in Int /\ s.i + 1 \in Int
    BY <1>1
  <2> QED
    BY <1>1, <2>1 DEF Range2
<1>3. first \in Range2 /\ second \in Range2
  BY <1>2
<1>4. \/ first = low /\ second = high
      \/ second = low /\ first = high
  <2> HIDE DEF low, high
  <2> QED
    BY <1>2
<1>5. Split(s) = [s EXCEPT !.l = first[1], !.u = first[2], !.rest =
                      IF second[1] < second[2] THEN Append(s.rest, second) ELSE s.rest]
  BY DEF Split
<1> HIDE DEF first, second
<1> QED
  BY <1>3, <1>4, <1>5

\* The halves are ranges of the list; items of different halves are in order.
LEMMA SplitReady ==
    ASSUME NEW t \in Seq(Key), NEW honest \in BOOLEAN, NEW s,
           Parting(s, Len(t)), s.i \in s.l + 1..s.u + 1,
           honest => /\ Current(s, t) /\ s.i <= s.u - 1
                     /\ \A x \in s.l..s.i - 1 : t[x + 1] <= t[s.i + 1]
                     /\ \A y \in s.i + 1..s.u : t[s.i + 1] <= t[y + 1]
    PROVE  Ready(Split(s), t, honest)
<1> DEFINE n == Len(t)
<1>1. s \in Sorts /\ n \in Nat /\ 0 <= s.l /\ s.u < n /\ s.u - s.l >= 3 /\ RestIn(s.rest, n)
  BY DEF Parting
<1>2. s.l \in Int /\ s.u \in Int /\ s.i \in Int /\ s.rest \in Seq(Range2)
  BY <1>1, SortsOK
<1>3. PICK first \in Range2, second \in Range2 :
             /\ \/ first = <<s.l, s.i - 1>> /\ second = <<s.i + 1, s.u>>
                \/ second = <<s.l, s.i - 1>> /\ first = <<s.i + 1, s.u>>
             /\ Split(s) = [s EXCEPT !.l = first[1], !.u = first[2], !.rest =
                                IF second[1] < second[2] THEN Append(s.rest, second) ELSE s.rest]
  BY <1>1, SplitIs
<1> DEFINE R == s.rest
           Q == IF second[1] < second[2] THEN Append(R, second) ELSE R
           R2 == IF first[1] < first[2] THEN Append(Q, first) ELSE Q
           p == Split(s)
<1>4. /\ first[1] \in Int /\ first[2] \in Int /\ second[1] \in Int /\ second[2] \in Int
      /\ first = <<first[1], first[2]>>
  BY DEF Range2
<1>5. Q \in Seq(Range2)
  BY <1>2
<1> DEFINE f1 == first[1]
           f2 == first[2]
           g1 == second[1]
           g2 == second[2]
<1>6. /\ p \in Sorts /\ p.l = f1 /\ p.u = f2 /\ p.rest = Q
  <2>1. p = [s EXCEPT !.l = f1, !.u = f2, !.rest = Q]
    BY <1>3
  <2> HIDE DEF p, Q, f1, f2
  <2>2. f1 \in Int /\ f2 \in Int
    BY <1>4 DEF f1, f2
  <2> QED
    BY <1>1, <1>5, <2>1, <2>2 DEF Sorts
<1>7. \/ f1 = s.l /\ f2 = s.i - 1 /\ g1 = s.i + 1 /\ g2 = s.u
      \/ g1 = s.l /\ g2 = s.i - 1 /\ f1 = s.i + 1 /\ f2 = s.u
  BY <1>3
<1>8. f1 \in Int /\ f2 \in Int /\ g1 \in Int /\ g2 \in Int
  BY <1>4
<1> HIDE DEF p
<1>9. /\ s.l <= f1 /\ f2 <= s.u /\ s.l <= g1 /\ g2 <= s.u
      /\ f2 < g1 \/ g2 < f1
      /\ 0 <= f1 /\ f2 < n /\ 0 <= g1 /\ g2 < n
  <2> DEFINE l == s.l
             u == s.u
             i == s.i
  <2>1. /\ l \in Int /\ u \in Int /\ i \in Int /\ l + 1 <= i /\ i <= u + 1 /\ 0 <= l /\ u < n
        /\ n \in Int
    BY <1>1, <1>2
  <2>2. \/ f1 = l /\ f2 = i - 1 /\ g1 = i + 1 /\ g2 = u
        \/ g1 = l /\ g2 = i - 1 /\ f1 = i + 1 /\ f2 = u
    BY <1>7
  <2> HIDE DEF f1, f2, g1, g2, l, u, i, n
  <2>3. /\ l <= f1 /\ f2 <= u /\ l <= g1 /\ g2 <= u
        /\ f2 < g1 \/ g2 < f1
        /\ 0 <= f1 /\ f2 < n /\ 0 <= g1 /\ g2 < n
    BY <1>8, <2>1, <2>2
  <2> QED
    BY <2>3 DEF l, u
<1>10. RestIn(Q, n)
  <2>1. CASE second[1] < second[2]
    <3>1. Q = Append(s.rest, second)
      BY <2>1
    <3> HIDE DEF Q, R
    <3>2. \A k \in DOMAIN Q : Q[k] = second \/ (k \in DOMAIN s.rest /\ Q[k] = s.rest[k])
      BY <1>2, <3>1, OneMore
    <3>3. 0 <= second[1] /\ second[1] < second[2] /\ second[2] < n
      BY <1>9, <2>1
    <3> QED
      BY <1>1, <3>2, <3>3 DEF RestIn
  <2>2. CASE ~(second[1] < second[2])
    BY <1>1, <2>2
  <2> QED
    BY <2>1, <2>2
<1>11. Live(p) = R2
  <2> HIDE DEF Q
  <2> QED
    BY <1>4, <1>6 DEF Live
<1>12. ASSUME honest PROVE Apart(R2) /\ Ordered(t, R2)
  <2>1. Apart(Append(s.rest, <<s.l, s.u>>)) /\ Ordered(t, Append(s.rest, <<s.l, s.u>>))
    BY <1>12 DEF Current, Pending
  <2> DEFINE l == s.l
             u == s.u
             i == s.i
  <2>2. R \in Seq(Range2) /\ l \in Int /\ u \in Int /\ i \in Int
    BY <1>2
  <2>3. Apart(Append(R, <<l, u>>)) /\ Ordered(t, Append(R, <<l, u>>))
    BY <2>1
  <2>4. l <= first[1] /\ first[2] <= u /\ l <= second[1] /\ second[2] <= u
    BY <1>9
  <2>5. first[2] < second[1] \/ second[2] < first[1]
    BY <1>9
  <2>6. R2 = IF first[1] < first[2] THEN Append(Q, first) ELSE Q
    OBVIOUS
  <2>7. /\ R2 \in Seq(Range2) /\ Apart(R2)
        /\ \A x, y : Covered(R, x, y) => Covered(R2, x, y)
        /\ \A x, y \in Int : x < y /\ first[1] <= x /\ y <= first[2] => Covered(R2, x, y)
        /\ \A x, y \in Int : x < y /\ second[1] <= x /\ y <= second[2] => Covered(R2, x, y)
    <3> HIDE DEF R, l, u
    <3> QED
      BY <2>2, <2>3, <2>4, <2>5, <2>6, SplitApart
  <2> HIDE DEF R2, Q
  <2>8. /\ \A x \in l..i - 1 : t[x + 1] <= t[i + 1]
        /\ \A y \in i + 1..u : t[i + 1] <= t[y + 1]
        /\ i <= u - 1 /\ l < i
    BY <1>2, <1>12
  <2>9. \A x, y \in Int : x < y /\ l <= x /\ y <= i - 1 => Covered(R2, x, y)
    BY <1>7, <2>7
  <2>10. \A x, y \in Int : x < y /\ i + 1 <= x /\ y <= u => Covered(R2, x, y)
    BY <1>7, <2>7
  <2>14. l >= 0 /\ u < n
    BY <1>1
  <2> HIDE DEF R, l, u, i, f1, f2, g1, g2
  <2>11. ASSUME NEW x \in 0..n - 1, NEW y \in 0..n - 1, x < y, l <= x, y <= u
         PROVE  t[x + 1] <= t[y + 1] \/ Covered(R2, x, y)
    <3>1. x \in Int /\ y \in Int
      BY <1>1
    <3>2. t[x + 1] \in Int /\ t[y + 1] \in Int /\ t[i + 1] \in Int
      <4>1. i \in 0..n - 1
        BY <1>1, <2>2, <2>8, <2>14
      <4> QED
        BY <4>1, ItemInt
    <3>3. CASE y <= i - 1
      BY <2>9, <2>11, <3>1, <3>3
    <3>4. CASE i + 1 <= x
      BY <2>10, <2>11, <3>1, <3>4
    <3>5. CASE y >= i /\ x <= i
      <4>1. x < i => t[x + 1] <= t[i + 1]
        <5>1. x < i => x \in l..i - 1
          BY <2>2, <2>11, <3>1
        <5> QED
          BY <2>8, <5>1
      <4>2. y > i => t[i + 1] <= t[y + 1]
        <5>1. y > i => y \in i + 1..u
          BY <2>2, <2>11, <3>1
        <5> QED
          BY <2>8, <5>1
      <4>3. \/ x = i /\ y > i
            \/ x < i /\ y = i
            \/ x < i /\ y > i
        BY <2>2, <2>11, <3>1, <3>5
      <4> QED
        BY <3>2, <4>1, <4>2, <4>3
    <3> QED
      BY <2>2, <3>1, <3>3, <3>4, <3>5
  <2>12. Ordered(t, R2)
    BY <2>2, <2>3, <2>7, <2>11, LeaveOrdered
  <2> QED
    BY <2>7, <2>12
<1> QED
  <2>1. p.l < p.u => 0 <= p.l /\ p.u < n
    BY <1>6, <1>9
  <2>2. RestIn(p.rest, n)
    BY <1>6, <1>10
  <2>3. honest => Apart(Live(p)) /\ Ordered(t, Live(p))
    BY <1>11, <1>12
  <2> QED
    BY <1>6, <2>1, <2>2, <2>3 DEF Ready, p

\* The frame when an item from the right is compared with the pivot.
Downed(a, its, f, s) ==
    LET n == Len(its) IN
    /\ s.i < n /\ s.j >= 0 => Five(a, its, f, its[s.u], its[s.i + 1], its[s.j + 1])
    /\ s.i < n /\ ~(s.j >= 0) => Four(a, its, f, its[s.u], its[s.i + 1])
    /\ ~(s.i < n) /\ s.j >= 0 => Four(a, its, f, its[s.u], its[s.j + 1])
    /\ ~(s.i < n) /\ ~(s.j >= 0) => Three(a, its, f, its[s.u])

\* Three slots are popped of as many.
LEMMA PopAll ==
    ASSUME NEW a, NEW its, NEW f, NEW x, Three(a, its, f, x)
    PROVE  Empty(tea_pop(a, 3), its)
<1> DEFINE b == tea_pop(a, 3)
<1>1. Good(a) /\ Len(a.frame) = 3 /\ its \in Seq(Key) /\ a.lists[l1] = its
  BY DEF Three, Sorted
<1>2. 3 \in 0..Len(a.frame)
  BY <1>1
<1>3. Dropped(a, b, 3)
  BY <1>1, <1>2, PopGood
<1> HIDE DEF b
<1>4. Good(b) /\ b.lists = a.lists /\ Len(b.frame) = 0
  BY <1>1, <1>3 DEF Dropped
<1>5. b.frame = << >>
  <2>1. b.frame \in Seq(Value)
    BY <1>4, GoodOK
  <2> QED
    BY <1>4, <2>1
<1>6. Empty(b, its)
  BY <1>1, <1>4, <1>5 DEF Empty, Good
<1> QED
  BY <1>6 DEF b

\* With the comparator gone, the pivot is put between the halves.
LEMMA HalvesOne ==
    ASSUME NEW a, NEW its, NEW s, One(a, its), Parting(s, Len(its)), s.i \in s.l + 1..s.u + 1, NEW f
    PROVE  SortPost(Ranges(set2(Items(a, s.u - 1, s.i), s.u - 1, s.i), Split(s)), its, f, FALSE)
<1> DEFINE n == Len(its)
           m == s.u - 1
           i == s.i
           v == its[m + 1]
           c == tea_get_item(a, 0, m)
           d == tea_get_item(c, 0, i)
           b == set2(d, m, i)
           t == b.lists[l1]
<1>1. Sorted(a, its) /\ its \in Seq(Key) /\ n \in Nat /\ Len(a.frame) = 1
  BY DEF One, Sorted
<1>2. s \in Sorts /\ 0 <= s.l /\ s.u < n /\ s.u - s.l >= 3
  BY DEF Parting
<1>3. s.l \in Int /\ s.u \in Int /\ s.i \in Int
  BY <1>2, SortsOK
<1>4. m \in 0..n - 1 /\ i \in Nat /\ m \in Int
  BY <1>1, <1>2, <1>3
<1>5. FALSE \in BOOLEAN
  OBVIOUS
<1> HIDE DEF m
<1>6. Two(c, its, v)
  <2>1. Len(a.frame) >= 1
    BY <1>1
  <2> HIDE DEF n, i
  <2> QED
    BY <1>1, <1>4, <2>1, GetSorted DEF n
<1>7. Sorted(c, its) /\ Len(c.frame) = 2 /\ c.frame[2] = v
  BY <1>6 DEF Two
<1> HIDE DEF c, i, v
<1>8. CASE i < n
  <2>1. i \in 0..n - 1
    BY <1>1, <1>4, <1>8
  <2>2. Three(d, its, v, its[i + 1])
    BY <1>6, <1>7, <2>1, GetSorted
  <2> HIDE DEF d
  <2>3. One(b, t) /\ Swaps(its, t, m + 1, i + 1)
    <3>1. Sorted(d, its)
      BY <2>2 DEF Three
    <3> QED
      BY <1>4, <2>1, <2>2, <3>1, SwapSlots DEF v
  <2> HIDE DEF b, t
  <2>4. t \in Seq(Key) /\ Len(t) = n
    BY <2>3 DEF Swaps
  <2>5. Ready(Split(s), t, FALSE)
    BY <1>5, <2>4, SplitReady
  <2>6. SortPost(Ranges(b, Split(s)), t, f, FALSE)
    BY <2>3, <2>5, RangesOne
  <2>7. m + 1 \in 1..n /\ i + 1 \in 1..n
    BY <1>1, <1>4, <2>1
  <2>8. SortPost(Ranges(b, Split(s)), its, f, FALSE)
    BY <1>1, <2>3, <2>6, <2>7, SwapPost
  <2> QED
    BY <2>8 DEF b, d, c, Items, m, i
<1>9. CASE ~(i < n)
  <2> DEFINE e == tea_set_item(c, 0, m)
  <2>1. d = c
    <3>1. Len(c.frame) >= 1 /\ n > 0 /\ i \in Int /\ (i < 0 \/ i >= n)
      BY <1>1, <1>4, <1>7, <1>9
    <3> QED
      BY <1>7, <3>1, GetNothing
  <2>2. v \in Key /\ [its EXCEPT ![m + 1] = v] = its
    <3>1. m + 1 \in 1..n
      BY <1>1, <1>4
    <3> QED
      BY <1>1, <3>1 DEF v
  <2>3. Sorted(e, its) /\ Len(e.frame) = 1
    <3> DEFINE x == c.frame[Len(c.frame)]
    <3>1. x = v /\ Len(c.frame) >= 2
      BY <1>7
    <3>2. x \in Key
      BY <2>2, <3>1
    <3>3. Sorted(e, [its EXCEPT ![m + 1] = x]) /\ Len(e.frame) = Len(c.frame) - 1
      BY <1>4, <1>7, <3>1, <3>2, SetSorted
    <3> HIDE DEF e, x
    <3> QED
      BY <1>7, <2>2, <3>1, <3>3
  <2> HIDE DEF e
  <2>4. tea_set_item(e, 0, i) = e
    <3>1. Good(e) /\ e.frame[1] = l1 /\ e.lists[l1] = its /\ l1 \in List
      BY <2>3, Kinds DEF Sorted
    <3>2. Len(e.frame) >= 1 /\ Len(its) > 0 /\ i \in Int /\ (i < 0 \/ i >= Len(its))
      BY <1>1, <1>4, <1>9, <2>3
    <3> QED
      BY <3>1, <3>2, SetItemNone
  <2>5. b = e
    BY <2>1, <2>4 DEF b, e, set2
  <2>6. One(e, its)
    BY <2>3 DEF One
  <2>7. Ready(Split(s), its, FALSE)
    BY <1>1, <1>5, SplitReady
  <2>8. SortPost(Ranges(e, Split(s)), its, f, FALSE)
    BY <2>6, <2>7, RangesOne
  <2> QED
    BY <2>5, <2>8 DEF b, d, c, Items, m, i
<1> QED
  BY <1>8, <1>9

\* The pivot is put between the halves.
LEMMA HalvesOK ==
    ASSUME NEW a, NEW its, NEW f, NEW honest \in BOOLEAN, NEW s, Downed(a, its, f, s), its \in Seq(Key),
           Parting(s, Len(its)), s.i \in s.l + 1..s.u + 1, s.j \in s.l - 1..s.u - 2, s.j < s.i,
           honest => /\ Current(s, its) /\ s.i <= s.u - 1 /\ s.j >= s.l
                     /\ \A k \in s.l..s.i - 1 : its[k + 1] <= its[s.u]
                     /\ its[s.i + 1] >= its[s.u]
                     /\ \A k \in s.j + 1..s.u : its[k + 1] >= its[s.u]
    PROVE  SortPost(Halves(a, s), its, f, honest)
<1> DEFINE n == Len(its)
           l == s.l
           u == s.u
           i == s.i
           j == s.j
           p == tea_pop(a, 3)
           c == Items(p, s.u - 1, s.i)
           b == set2(c, s.u - 1, s.i)
           t == b.lists[l1]
<1>1. n \in Nat
  OBVIOUS
<1>2. s \in Sorts /\ 0 <= s.l /\ s.u < n /\ s.u - s.l >= 3
  BY DEF Parting
<1>3. s.l \in Int /\ s.u \in Int /\ s.i \in Int /\ s.j \in Int
  BY <1>2, SortsOK
<1>4. Halves(a, s) = Ranges(b, Split(s))
  BY DEF Halves, Split
<1>8. /\ n \in Int /\ l \in Int /\ u \in Int /\ i \in Int /\ j \in Int
      /\ 0 <= l /\ u < n /\ u - l >= 3 /\ l + 1 <= i /\ i <= u + 1 /\ l - 1 <= j /\ j <= u - 2 /\ j < i
      /\ honest => i <= u - 1 /\ j >= l
  BY <1>1, <1>2, <1>3
<1>5. u - 1 \in 0..n - 1 /\ u - 1 + 1 = u
  <2> HIDE DEF l, u, i, j, n
  <2> QED
    BY <1>8
<1>6. CASE s.i < n /\ s.j >= 0
  <2>1. Five(a, its, f, its[s.u], its[s.i + 1], its[s.j + 1])
    BY <1>6 DEF Downed
  <2>2. Two(p, its, f)
    <3>1. Sorted(a, its)
      BY <2>1 DEF Five
    <3> QED
      BY <2>1, <3>1, PopSorted
  <2> HIDE DEF p
  <2>3. i \in 0..n - 1
    <3>1. i < n
      BY <1>6
    <3> HIDE DEF l, u, i, j, n
    <3> QED
      BY <1>8, <3>1
  <2> DEFINE m == s.u - 1
  <2>4. m \in 0..n - 1 /\ m + 1 = s.u
    BY <1>5
  <2> HIDE DEF m
  <2>5. Four(Items(p, m, s.i), its, f, its[m + 1], its[s.i + 1])
    BY <2>2, <2>3, <2>4, ItemsFour
  <2>6. c = Items(p, m, s.i) /\ b = set2(c, m, s.i)
    BY DEF m
  <2> HIDE DEF c
  <2>7. Two(b, t, f) /\ Swaps(its, t, m + 1, s.i + 1)
    <3> HIDE DEF b, t
    <3>1. Four(c, its, f, its[m + 1], its[s.i + 1])
      BY <2>5, <2>6
    <3>2. Sorted(c, its)
      BY <3>1 DEF Four
    <3> QED
      BY <2>3, <2>4, <2>6, <3>1, <3>2, SwapSlots DEF t
  <2> HIDE DEF b, t
  <2>8. /\ t \in Seq(Key) /\ Len(t) = n /\ t[s.u] = its[s.i + 1] /\ t[s.i + 1] = its[s.u]
        /\ \A k \in 1..n : k # s.i + 1 /\ k # s.u => t[k] = its[k]
    BY <2>4, <2>7 DEF Swaps
  <2>9. ASSUME honest
        PROVE  /\ Current(s, t)
               /\ \A x \in s.l..s.i - 1 : t[x + 1] <= t[s.i + 1]
               /\ \A y \in s.i + 1..s.u : t[s.i + 1] <= t[y + 1]
    <3>1. Current(s, t)
      <4>1. l <= m /\ m <= u /\ l <= i /\ i <= u
        <5>1. m = u - 1
          BY DEF m
        <5> HIDE DEF l, u, i, j, n
        <5> QED
          BY <1>8, <2>9, <5>1
      <4> QED
        BY <1>2, <2>3, <2>4, <2>7, <2>9, <4>1, SwapCurrent
    <3>2. ASSUME NEW x \in s.l..s.i - 1 PROVE t[x + 1] <= t[s.i + 1]
      <4>1. x + 1 \in 1..n /\ x + 1 # i + 1 /\ x + 1 # u
        <5>1. x \in l..i - 1
          BY <3>2
        <5> HIDE DEF l, u, i, j, n
        <5> QED
          BY <1>8, <2>9, <5>1
      <4> QED
        BY <2>8, <2>9, <3>2, <4>1
    <3>3. ASSUME NEW y \in s.i + 1..s.u PROVE t[s.i + 1] <= t[y + 1]
      <4>0. y \in i + 1..u
        BY <3>3
      <4>1. y + 1 \in 1..n /\ y + 1 # i + 1 /\ y \in j + 1..u
        <5> HIDE DEF l, u, i, j, n
        <5> QED
          BY <1>8, <4>0
      <4>2. its[y + 1] \in Int /\ its[s.u] \in Int /\ its[s.i + 1] \in Int
        <5>1. y \in 0..n - 1
          <6> HIDE DEF l, u, i, j, n
          <6> QED
            BY <1>8, <4>0
        <5>2. its[m + 1] \in Int
          BY <2>4, ItemInt
        <5> QED
          BY <2>3, <2>4, <5>1, <5>2, ItemInt
      <4>3. CASE y + 1 = s.u
        BY <2>8, <2>9, <4>2, <4>3
      <4>4. CASE y + 1 # s.u
        BY <2>8, <2>9, <4>1, <4>2, <4>4
      <4> QED
        BY <4>3, <4>4
    <3> QED
      BY <3>1, <3>2, <3>3
  <2>10. Ready(Split(s), t, honest)
    BY <2>8, <2>9, SplitReady
  <2>11. SortPost(Ranges(b, Split(s)), t, f, honest)
    BY <2>7, <2>10, RangesTwo
  <2>12. m + 1 \in 1..n /\ s.i + 1 \in 1..n
    BY <1>1, <2>3, <2>4
  <2>13. SortPost(Ranges(b, Split(s)), its, f, honest)
    BY <2>7, <2>11, <2>12, SwapPost
  <2> QED
    BY <1>4, <2>13
<1>7. CASE ~(s.i < n /\ s.j >= 0)
  <2>1. honest = FALSE
    <3>1. ~(i < n /\ j >= 0)
      BY <1>7
    <3>2. ~honest
      <4> HIDE DEF l, u, i, j, n
      <4> QED
        BY <1>8, <3>1
    <3> QED
      BY <3>2
  <2>2. CASE ~(s.i < n) /\ ~(s.j >= 0)
    <3>1. Three(a, its, f, its[s.u])
      BY <2>2 DEF Downed
    <3>2. Empty(p, its)
      BY <3>1, PopAll
    <3> HIDE DEF p
    <3>3. EmptyMisused(c, its)
      BY <3>2, EmptyItems
    <3>4. Empty(c, its)
      BY <3>3 DEF EmptyMisused
    <3> HIDE DEF c
    <3>5. EmptyMisused(b, its)
      BY <3>4, EmptyItems
    <3> HIDE DEF b
    <3>6. Ready(Split(s), its, honest)
      BY <2>1, SplitReady
    <3>7. Split(s) \in Sorts
      BY <3>6 DEF Ready
    <3>8. SortPost(Ranges(b, Split(s)), its, f, honest)
      BY <2>1, <3>5, <3>7, RangesEmpty
    <3> QED
      BY <1>4, <3>8
  <2>3. CASE s.i < n \/ s.j >= 0
    <3>1. \E x, y : Four(a, its, f, x, y)
      BY <1>7, <2>3 DEF Downed
    <3>2. PICK x, y : Four(a, its, f, x, y)
      BY <3>1
    <3>3. One(p, its)
      <4>1. Sorted(a, its)
        BY <3>2 DEF Four
      <4> QED
        BY <3>2, <4>1, PopSorted
    <3> HIDE DEF p
    <3>4. SortPost(Ranges(b, Split(s)), its, f, FALSE)
      BY <3>3, HalvesOne
    <3> QED
      BY <1>4, <2>1, <3>4
  <2> QED
    BY <2>2, <2>3
<1> QED
  BY <1>6, <1>7

\* What a comparison says of the items.
Smaller(s, its) ==
    CASE s.at = "lu" -> its[s.u + 1] < its[s.l + 1]
      [] s.at = "il" -> its[s.i + 1] < its[s.l + 1]
      [] s.at = "ui" -> its[s.u + 1] < its[s.i + 1]
      [] s.at = "up" -> its[s.i + 1] < its[s.u]
      [] s.at = "down" -> its[s.u] < its[s.j + 1]

\* Sort is at a comparison, whose outcome is known.
Asked(a, s, its, f, honest, less) ==
    /\ Placed(a, s, f) /\ a.lists[l1] = its /\ its \in Seq(Key) /\ s \in Sorts /\ less \in BOOLEAN
    /\ honest => SortKnows(s, its) /\ (less <=> Smaller(s, its))

\* The frame at each comparison.
LEMMA AskedFrame ==
    ASSUME NEW a, NEW s, NEW its, NEW f, NEW honest, NEW less, Asked(a, s, its, f, honest, less)
    PROVE  /\ Sorted(a, its)
           /\ s.at = "lu" => Four(a, its, f, its[s.l + 1], its[s.u + 1])
           /\ s.at = "il" => Four(a, its, f, its[s.i + 1], its[s.l + 1])
           /\ s.at = "ui" => Four(a, its, f, its[s.i + 1], its[s.u + 1])
           /\ s.at = "up" => /\ s.i < Len(its) => Four(a, its, f, its[s.u], its[s.i + 1])
                             /\ ~(s.i < Len(its)) => Three(a, its, f, its[s.u])
           /\ s.at = "down" => Downed(a, its, f, s)
<1>1. /\ Good(a) /\ Len(a.frame) = Own(s, Len(its)) /\ SortSlots(a.frame, s, its, f) /\ a.lists[l1] = its
      /\ its \in Seq(Key)
  BY DEF Asked, Placed
<1>2. Sorted(a, its)
  BY <1>1 DEF Sorted, SortSlots
<1>3. /\ s.at = "lu" => Four(a, its, f, its[s.l + 1], its[s.u + 1])
      /\ s.at = "il" => Four(a, its, f, its[s.i + 1], its[s.l + 1])
      /\ s.at = "ui" => Four(a, its, f, its[s.i + 1], its[s.u + 1])
  BY <1>1, <1>2 DEF Four, Own, SortSlots
<1>4. s.at = "up" => /\ s.i < Len(its) => Four(a, its, f, its[s.u], its[s.i + 1])
                     /\ ~(s.i < Len(its)) => Three(a, its, f, its[s.u])
  BY <1>1, <1>2 DEF Four, Three, Own, SortSlots
<1>5. ASSUME s.at = "down" PROVE Downed(a, its, f, s)
  <2> DEFINE n == Len(its)
  <2>1. /\ a.frame[2] = f /\ a.frame[3] = its[s.u] /\ (s.i < n => a.frame[4] = its[s.i + 1])
        /\ s.j >= 0 => a.frame[Own(s, n)] = its[s.j + 1]
    BY <1>1, <1>5 DEF SortSlots
  <2>2. Len(a.frame) = Own(s, n)
    BY <1>1
  <2>3. Own(s, n) = IF s.i < n THEN IF s.j >= 0 THEN 5 ELSE 4 ELSE IF s.j >= 0 THEN 4 ELSE 3
    BY <1>5 DEF Own
  <2> HIDE DEF n
  <2>4. s.i < n /\ s.j >= 0 => Five(a, its, f, its[s.u], its[s.i + 1], its[s.j + 1])
    BY <1>2, <2>1, <2>2, <2>3 DEF Five
  <2>5. s.i < n /\ ~(s.j >= 0) => Four(a, its, f, its[s.u], its[s.i + 1])
    BY <1>2, <2>1, <2>2, <2>3 DEF Four
  <2>6. ~(s.i < n) /\ s.j >= 0 => Four(a, its, f, its[s.u], its[s.j + 1])
    BY <1>2, <2>1, <2>2, <2>3 DEF Four
  <2>7. ~(s.i < n) /\ ~(s.j >= 0) => Three(a, its, f, its[s.u])
    BY <1>2, <2>1, <2>2, <2>3 DEF Three
  <2> QED
    BY <2>4, <2>5, <2>6, <2>7 DEF Downed, n
<1> QED
  BY <1>2, <1>3, <1>4, <1>5

\* The bounds at each comparison, as integers.
LEMMA AskedBounds ==
    ASSUME NEW a, NEW s, NEW its, NEW f, NEW honest, NEW less, Asked(a, s, its, f, honest, less)
    PROVE  LET n == Len(its) IN
           /\ n \in Nat /\ s.l \in Int /\ s.u \in Int /\ s.i \in Int /\ s.j \in Int
           /\ 0 <= s.l /\ s.l < s.u /\ s.u < n /\ s.l \in 0..n - 1 /\ s.u \in 0..n - 1
           /\ RestIn(s.rest, n)
           /\ s.at \in {"up", "down"} => Parting(s, n) /\ s.i \in s.l + 1..s.u + 1
<1> DEFINE n == Len(its)
<1>1. s \in Sorts /\ SortBounds(s, n) /\ n \in Nat
  BY DEF Asked, Placed
<1>2. s.l \in Int /\ s.u \in Int /\ s.i \in Int /\ s.j \in Int
  BY <1>1, SortsOK
<1> HIDE DEF n
<1>3. s.l \in 0..n - 1 /\ s.u \in 0..n - 1 /\ s.l < s.u
  BY <1>1 DEF SortBounds
<1>4. 0 <= s.l /\ s.u < n
  BY <1>1, <1>2, <1>3
<1>5. RestIn(s.rest, n)
  BY <1>1 DEF SortBounds, RestIn
<1>6. s.at \in {"up", "down"} => s.u - s.l >= 3 /\ s.i \in s.l + 1..s.u + 1
  BY <1>1 DEF SortBounds
<1>7. s.at \in {"up", "down"} => Parting(s, n) /\ s.i \in s.l + 1..s.u + 1
  BY <1>1, <1>4, <1>5, <1>6 DEF Parting
<1> QED
  BY <1>1, <1>2, <1>3, <1>4, <1>5, <1>7 DEF n

\* At the ends of the range: they are exchanged if they are not in order.
LEMMA EndsSwapped ==
    ASSUME NEW a, NEW s, NEW its, NEW f, NEW honest, NEW less, Asked(a, s, its, f, honest, less), s.at = "lu"
    PROVE  LET b == IF less THEN set2(a, s.l, s.u) ELSE tea_pop(a, 2)
               t == b.lists[l1]
           IN  /\ Two(b, t, f) /\ (t = its \/ Swaps(its, t, s.l + 1, s.u + 1))
               /\ honest => Current(s, t) /\ t[s.l + 1] <= t[s.u + 1]
<1> DEFINE n == Len(its)
<1>1. /\ n \in Nat /\ s.l \in Int /\ s.u \in Int
      /\ 0 <= s.l /\ s.l < s.u /\ s.u < n /\ s.l \in 0..n - 1 /\ s.u \in 0..n - 1
  BY AskedBounds
<1>2. Sorted(a, its) /\ Four(a, its, f, its[s.l + 1], its[s.u + 1]) /\ its \in Seq(Key) /\ s \in Sorts
  BY AskedFrame DEF Asked
<1>3. honest => Current(s, its) /\ (less <=> its[s.u + 1] < its[s.l + 1])
  BY DEF Asked, Smaller, SortKnows, Current
<1>4. its[s.l + 1] \in Int /\ its[s.u + 1] \in Int
  BY <1>1, <1>2, ItemInt
<1>5. CASE less
  <2> DEFINE b == set2(a, s.l, s.u)
             t == b.lists[l1]
  <2>1. Two(b, t, f) /\ Swaps(its, t, s.l + 1, s.u + 1)
    BY <1>1, <1>2, SwapSlots
  <2> HIDE DEF b
  <2>2. t[s.l + 1] = its[s.u + 1] /\ t[s.u + 1] = its[s.l + 1]
    BY <2>1 DEF Swaps
  <2>3. ASSUME honest PROVE Current(s, t) /\ t[s.l + 1] <= t[s.u + 1]
    <3>1. s.l <= s.l /\ s.l <= s.u /\ s.u <= s.u
      BY <1>1
    <3>2. Current(s, t)
      BY <1>1, <1>2, <1>3, <2>1, <2>3, <3>1, SwapCurrent
    <3>3. its[s.u + 1] < its[s.l + 1]
      BY <1>3, <1>5, <2>3
    <3> QED
      BY <1>4, <2>2, <3>2, <3>3
  <2> QED
    BY <1>5, <2>1, <2>3 DEF b
<1>6. CASE ~less
  <2> DEFINE b == tea_pop(a, 2)
  <2>1. Two(b, its, f)
    BY <1>2, PopSorted
  <2> HIDE DEF b
  <2>2. b.lists[l1] = its
    BY <2>1 DEF Two, Sorted
  <2>3. honest => its[s.l + 1] <= its[s.u + 1]
    BY <1>3, <1>4, <1>6
  <2> QED
    BY <1>3, <1>6, <2>1, <2>2, <2>3 DEF b
<1> QED
  BY <1>5, <1>6

\* What is shown of the list after an exchange, or without one, is true of the list before.
LEMMA EitherPost ==
    ASSUME NEW r, NEW its \in Seq(Key), NEW t, NEW f, NEW honest, SortPost(r, t, f, honest),
           NEW p \in 0..Len(its) - 1, NEW q \in 0..Len(its) - 1, t = its \/ Swaps(its, t, p + 1, q + 1)
    PROVE  SortPost(r, its, f, honest)
<1>1. p + 1 \in 1..Len(its) /\ q + 1 \in 1..Len(its)
  OBVIOUS
<1> QED
  BY <1>1, SwapPost

\* An exchange keeps the length.
LEMMA EitherLen ==
    ASSUME NEW its \in Seq(Key), NEW t, NEW p, NEW q, t = its \/ Swaps(its, t, p, q)
    PROVE  t \in Seq(Key) /\ Len(t) = Len(its)
BY DEF Swaps

\* After comparing the ends of the range.
LEMMA AuxEnds ==
    ASSUME NEW a, NEW s, NEW its, NEW f, NEW honest \in BOOLEAN, NEW less,
           Asked(a, s, its, f, honest, less), s.at = "lu"
    PROVE  SortPost(auxsort(a, s, less), its, f, honest)
<1> DEFINE n == Len(its)
           b == IF less THEN set2(a, s.l, s.u) ELSE tea_pop(a, 2)
           t == b.lists[l1]
           m == [s EXCEPT !.i = (s.l + s.u) \div 2]
<1>1. /\ n \in Nat /\ s.l \in Int /\ s.u \in Int /\ RestIn(s.rest, n)
      /\ 0 <= s.l /\ s.l < s.u /\ s.u < n /\ s.l \in 0..n - 1 /\ s.u \in 0..n - 1
  BY AskedBounds
<1>2. its \in Seq(Key) /\ s \in Sorts
  BY DEF Asked
<1>3. /\ Two(b, t, f) /\ (t = its \/ Swaps(its, t, s.l + 1, s.u + 1))
      /\ honest => Current(s, t) /\ t[s.l + 1] <= t[s.u + 1]
  BY EndsSwapped
<1>4. auxsort(a, s, less) = IF s.u - s.l = 1 THEN Break(b, s) ELSE Wait(Items(b, m.i, s.l), m, "il")
  BY DEF auxsort
<1> HIDE DEF b
<1>5. t \in Seq(Key) /\ Len(t) = n
  BY <1>2, <1>3, EitherLen
<1> HIDE DEF t
<1>6. CASE s.u - s.l = 1
  <2>1. ASSUME honest, NEW x \in 0..Len(t) - 1, NEW y \in 0..Len(t) - 1, x < y, s.l <= x, y <= s.u
        PROVE  t[x + 1] <= t[y + 1]
    <3>1. x = s.l /\ y = s.u
      BY <1>1, <1>5, <1>6, <2>1
    <3> QED
      BY <1>3, <2>1, <3>1
  <2>2. SortPost(Break(b, s), t, f, honest)
    BY <1>1, <1>2, <1>3, <1>5, <2>1, BreakOK
  <2> QED
    BY <1>1, <1>2, <1>3, <1>4, <1>6, <2>2, EitherPost
<1>7. CASE s.u - s.l # 1
  <2> DEFINE k == (s.l + s.u) \div 2
             c == Items(b, k, s.l)
             r == Wait(c, m, "il")
  <2>1. s.u - s.l >= 2
    BY <1>1, <1>7
  <2>2. k \in Int /\ s.l < k /\ k < s.u
    BY <1>1, <2>1, Middle
  <2> HIDE DEF k
  <2>3. k \in 0..n - 1
    BY <1>1, <2>2
  <2>4. Four(c, t, f, t[k + 1], t[s.l + 1])
    BY <1>1, <1>3, <1>5, <2>3, ItemsFour
  <2>5. m \in Sorts /\ m.l = s.l /\ m.u = s.u /\ m.i = k /\ m.j = s.j /\ m.rest = s.rest
    <3>1. m = [s EXCEPT !.i = k]
      BY DEF k
    <3> HIDE DEF m
    <3> QED
      BY <1>2, <2>2, <3>1 DEF Sorts
  <2>6. auxsort(a, s, less) = r
    BY <1>4, <1>7, <2>5
  <2> HIDE DEF m, c
  <2>7. r.a = c /\ r.s \in Sorts /\ r.s.at = "il" /\ r.s.l = s.l /\ r.s.u = s.u /\ r.s.i = k /\ r.s.rest = s.rest
    BY <2>5, WaitOK
  <2> HIDE DEF r
  <2>8. SortBounds(r.s, n)
    BY <1>1, <2>1, <2>2, <2>7 DEF SortBounds, RestIn, k
  <2>9. Sorted(c, t) /\ Len(c.frame) = Own(r.s, n) /\ SortSlots(c.frame, r.s, t, f)
    BY <2>4, <2>7 DEF Four, Sorted, Own, SortSlots
  <2>10. honest => SortKnows(r.s, t)
    <3>1. Pending(r.s) = Pending(s)
      BY <2>7 DEF Pending
    <3> QED
      BY <1>3, <2>7, <3>1 DEF SortKnows, Current
  <2>11. SortPost(r, t, f, honest)
    BY <1>5, <2>7, <2>8, <2>9, <2>10, PlacedPost
  <2> QED
    BY <1>1, <1>2, <1>3, <2>6, <2>11, EitherPost
<1> QED
  BY <1>6, <1>7

\* The middle is inside of the range.
LEMMA AskedMiddle ==
    ASSUME NEW a, NEW s, NEW its, NEW f, NEW honest, NEW less, Asked(a, s, its, f, honest, less),
           s.at \in {"il", "ui"}
    PROVE  /\ s.u - s.l >= 2 /\ s.i \in Int /\ s.l < s.i /\ s.i < s.u /\ s.i \in 0..Len(its) - 1
           /\ s.u - s.l >= 3 => s.i < s.u - 1
           /\ s.u - s.l = 2 => s.i = s.l + 1
<1> DEFINE n == Len(its)
<1>1. n \in Nat /\ s.l \in Int /\ s.u \in Int /\ 0 <= s.l /\ s.u < n
  BY AskedBounds
<1>2. s.u - s.l >= 2 /\ s.i = (s.l + s.u) \div 2
  BY DEF Asked, Placed, SortBounds
<1>3. /\ s.i \in Int /\ s.l < s.i /\ s.i < s.u
      /\ s.u - s.l >= 3 => s.i < s.u - 1
      /\ s.u - s.l = 2 => s.i = s.l + 1
  BY <1>1, <1>2, Middle
<1> HIDE DEF n
<1>4. s.i \in 0..n - 1
  BY <1>1, <1>3
<1> QED
  BY <1>2, <1>3, <1>4 DEF n

\* Two of three items are exchanged, and the pivot is found.
LEMMA ThreeInOrder ==
    ASSUME NEW a, NEW s, NEW its, NEW f, NEW honest \in BOOLEAN, NEW less,
           Asked(a, s, its, f, honest, less), s.at \in {"il", "ui"},
           NEW b, NEW t, Two(b, t, f), NEW p \in {s.l, s.u}, t = its \/ Swaps(its, t, s.i + 1, p + 1),
           honest => t[s.l + 1] <= t[s.i + 1] /\ t[s.i + 1] <= t[s.u + 1]
    PROVE  SortPost(Pivot(b, s), its, f, honest)
<1> DEFINE n == Len(its)
<1>1. /\ n \in Nat /\ s.l \in Int /\ s.u \in Int /\ RestIn(s.rest, n)
      /\ 0 <= s.l /\ s.l < s.u /\ s.u < n /\ s.l \in 0..n - 1 /\ s.u \in 0..n - 1
  BY AskedBounds
<1>2. its \in Seq(Key) /\ s \in Sorts
  BY DEF Asked
<1>3. /\ s.u - s.l >= 2 /\ s.i \in Int /\ s.l < s.i /\ s.i < s.u /\ s.i \in 0..n - 1
      /\ s.u - s.l >= 3 => s.i < s.u - 1
      /\ s.u - s.l = 2 => s.i = s.l + 1
  BY AskedMiddle
<1>4. t \in Seq(Key) /\ Len(t) = n
  BY <1>2, EitherLen
<1>5. p \in 0..n - 1 /\ s.l <= p /\ p <= s.u
  BY <1>1
<1>6. honest => Current(s, t)
  <2>1. honest => Current(s, its)
    BY DEF Asked, SortKnows, Current
  <2>2. CASE t = its
    BY <2>1, <2>2
  <2>3. CASE Swaps(its, t, s.i + 1, p + 1)
    <3>1. s.l <= s.i /\ s.i <= s.u
      BY <1>1, <1>3
    <3> QED
      BY <1>2, <1>3, <1>5, <2>1, <2>3, <3>1, SwapCurrent
  <2> QED
    BY <2>2, <2>3
<1>7. SortPost(Pivot(b, s), t, f, honest)
  BY <1>1, <1>2, <1>3, <1>4, <1>6, PivotOK
<1> QED
  BY <1>2, <1>3, <1>5, <1>7, EitherPost

\* After comparing the middle with the lower end.
LEMMA AuxLower ==
    ASSUME NEW a, NEW s, NEW its, NEW f, NEW honest \in BOOLEAN, NEW less,
           Asked(a, s, its, f, honest, less), s.at = "il"
    PROVE  SortPost(auxsort(a, s, less), its, f, honest)
<1> DEFINE n == Len(its)
<1>1. /\ n \in Nat /\ s.l \in Int /\ s.u \in Int /\ RestIn(s.rest, n)
      /\ 0 <= s.l /\ s.l < s.u /\ s.u < n /\ s.l \in 0..n - 1 /\ s.u \in 0..n - 1
  BY AskedBounds
<1>2. its \in Seq(Key) /\ s \in Sorts /\ Sorted(a, its) /\ Four(a, its, f, its[s.i + 1], its[s.l + 1])
  BY AskedFrame DEF Asked
<1>3. s.u - s.l >= 2 /\ s.i \in Int /\ s.l < s.i /\ s.i < s.u /\ s.i \in 0..n - 1
  BY AskedMiddle
<1>4. honest => its[s.l + 1] <= its[s.u + 1] /\ (less <=> its[s.i + 1] < its[s.l + 1])
  BY DEF Asked, SortKnows, Smaller
<1>5. its[s.l + 1] \in Int /\ its[s.u + 1] \in Int /\ its[s.i + 1] \in Int /\ s.u + 1 \in 1..n
  BY <1>1, <1>2, <1>3, ItemInt
<1>6. CASE less
  <2> DEFINE b == set2(a, s.i, s.l)
             t == b.lists[l1]
  <2>1. Two(b, t, f) /\ Swaps(its, t, s.i + 1, s.l + 1)
    BY <1>1, <1>2, <1>3, SwapSlots
  <2>2. auxsort(a, s, less) = Pivot(b, s)
    BY <1>6 DEF auxsort
  <2> HIDE DEF b, t
  <2>3. t[s.l + 1] = its[s.i + 1] /\ t[s.i + 1] = its[s.l + 1] /\ t[s.u + 1] = its[s.u + 1]
    <3>1. s.u + 1 # s.i + 1 /\ s.u + 1 # s.l + 1
      BY <1>1, <1>3
    <3> QED
      BY <1>5, <2>1, <3>1 DEF Swaps
  <2>4. honest => t[s.l + 1] <= t[s.i + 1] /\ t[s.i + 1] <= t[s.u + 1]
    BY <1>4, <1>5, <1>6, <2>3
  <2>5. s.l \in {s.l, s.u} /\ s.at \in {"il", "ui"}
    OBVIOUS
  <2>6. SortPost(Pivot(b, s), its, f, honest)
    BY <2>1, <2>4, <2>5, ThreeInOrder
  <2> QED
    BY <2>2, <2>6
<1>7. CASE ~less
  <2> DEFINE p == tea_pop(a, 1)
             c == tea_get_item(p, 0, s.u)
             r == Wait(c, s, "ui")
  <2>1. auxsort(a, s, less) = r
    BY <1>7 DEF auxsort
  <2>2. Three(p, its, f, its[s.i + 1])
    BY <1>2, PopSorted
  <2> HIDE DEF p
  <2>3. Four(c, its, f, its[s.i + 1], its[s.u + 1])
    <3>1. Sorted(p, its) /\ Len(p.frame) >= 1
      BY <2>2 DEF Three
    <3> QED
      BY <1>1, <2>2, <3>1, GetSorted
  <2> HIDE DEF c
  <2>4. r.a = c /\ r.s \in Sorts /\ r.s.at = "ui" /\ r.s.l = s.l /\ r.s.u = s.u /\ r.s.i = s.i /\ r.s.rest = s.rest
    BY <1>2, WaitOK
  <2> HIDE DEF r
  <2>5. SortBounds(r.s, n)
    <3>1. s.i = (s.l + s.u) \div 2
      BY DEF Asked, Placed, SortBounds
    <3> QED
      BY <1>1, <1>3, <2>4, <3>1 DEF SortBounds, RestIn
  <2>6. Sorted(c, its) /\ Len(c.frame) = Own(r.s, n) /\ SortSlots(c.frame, r.s, its, f)
    BY <2>3, <2>4 DEF Four, Sorted, Own, SortSlots
  <2>7. ASSUME honest PROVE SortKnows(r.s, its)
    <3>1. Pending(r.s) = Pending(s)
      BY <2>4 DEF Pending
    <3>2. Apart(Pending(s)) /\ Ordered(its, Pending(s))
      BY <2>7 DEF Asked, SortKnows
    <3>3. its[s.l + 1] <= its[s.u + 1] /\ its[s.l + 1] <= its[s.i + 1]
      BY <1>4, <1>5, <1>7, <2>7
    <3> QED
      BY <2>4, <3>1, <3>2, <3>3 DEF SortKnows
  <2>8. SortPost(r, its, f, honest)
    BY <2>4, <2>5, <2>6, <2>7, PlacedPost
  <2> QED
    BY <2>1, <2>8
<1> QED
  BY <1>6, <1>7 DEF Asked

\* After comparing the upper end with the middle.
LEMMA AuxUpper ==
    ASSUME NEW a, NEW s, NEW its, NEW f, NEW honest \in BOOLEAN, NEW less,
           Asked(a, s, its, f, honest, less), s.at = "ui"
    PROVE  SortPost(auxsort(a, s, less), its, f, honest)
<1> DEFINE n == Len(its)
<1>1. /\ n \in Nat /\ s.l \in Int /\ s.u \in Int /\ RestIn(s.rest, n)
      /\ 0 <= s.l /\ s.l < s.u /\ s.u < n /\ s.l \in 0..n - 1 /\ s.u \in 0..n - 1
  BY AskedBounds
<1>2. its \in Seq(Key) /\ s \in Sorts /\ Sorted(a, its) /\ Four(a, its, f, its[s.i + 1], its[s.u + 1])
  BY AskedFrame DEF Asked
<1>3. s.u - s.l >= 2 /\ s.i \in Int /\ s.l < s.i /\ s.i < s.u /\ s.i \in 0..n - 1
  BY AskedMiddle
<1>4. honest => /\ its[s.l + 1] <= its[s.u + 1] /\ its[s.l + 1] <= its[s.i + 1]
                /\ less <=> its[s.u + 1] < its[s.i + 1]
  BY DEF Asked, SortKnows, Smaller
<1>5. its[s.l + 1] \in Int /\ its[s.u + 1] \in Int /\ its[s.i + 1] \in Int /\ s.l + 1 \in 1..n
  BY <1>1, <1>2, <1>3, ItemInt
<1>8. s.at \in {"il", "ui"} /\ s.u \in {s.l, s.u}
  OBVIOUS
<1>6. CASE less
  <2> DEFINE b == set2(a, s.i, s.u)
             t == b.lists[l1]
  <2>1. Two(b, t, f) /\ Swaps(its, t, s.i + 1, s.u + 1)
    BY <1>1, <1>2, <1>3, SwapSlots
  <2>2. auxsort(a, s, less) = Pivot(b, s)
    BY <1>6 DEF auxsort
  <2> HIDE DEF b, t
  <2>3. t[s.u + 1] = its[s.i + 1] /\ t[s.i + 1] = its[s.u + 1] /\ t[s.l + 1] = its[s.l + 1]
    <3>1. s.l + 1 # s.i + 1 /\ s.l + 1 # s.u + 1
      BY <1>1, <1>3
    <3> QED
      BY <1>5, <2>1, <3>1 DEF Swaps
  <2>4. honest => t[s.l + 1] <= t[s.i + 1] /\ t[s.i + 1] <= t[s.u + 1]
    BY <1>4, <1>5, <1>6, <2>3
  <2>5. SortPost(Pivot(b, s), its, f, honest)
    BY <1>8, <2>1, <2>4, ThreeInOrder
  <2> QED
    BY <2>2, <2>5
<1>7. CASE ~less
  <2> DEFINE b == tea_pop(a, 2)
  <2>1. Two(b, its, f)
    BY <1>2, PopSorted
  <2>2. auxsort(a, s, less) = Pivot(b, s)
    BY <1>7 DEF auxsort
  <2> HIDE DEF b
  <2>3. honest => its[s.l + 1] <= its[s.i + 1] /\ its[s.i + 1] <= its[s.u + 1]
    BY <1>4, <1>5, <1>7
  <2>4. SortPost(Pivot(b, s), its, f, honest)
    BY <1>8, <2>1, <2>3, ThreeInOrder
  <2> QED
    BY <2>2, <2>4
<1> QED
  BY <1>6, <1>7 DEF Asked

\* An error is raised.
LEMMA RaisePost ==
    ASSUME NEW a, NEW s \in Sorts, NEW its, NEW f, NEW honest, Sorted(a, its)
    PROVE  SortPost(Wait(Raise(a), s, "none"), its, f, honest)
<1> DEFINE r == Wait(Raise(a), s, "none")
<1>1. r.a = Raise(a) /\ r.s \in Sorts
  BY WaitOK
<1>2. a \in Apis /\ a.lists[l1] = its /\ its \in Seq(Key)
  BY DEF Sorted, Good
<1>3. Raise(a) \in Apis /\ Raise(a).lists = a.lists /\ Raise(a).fails /\ ~Raise(a).misused /\ ~Raise(a).strays
  BY <1>2 DEF Raise, Apis, Sorted, Good
<1> HIDE DEF r
<1>4. Same(r.a, its) /\ ~Good(r.a) /\ Tidy(r.a, honest)
  BY <1>1, <1>2, <1>3 DEF Same, Good, Tidy
<1> QED
  BY <1>1, <1>4 DEF SortPost, r

\* After comparing an item from the left with the pivot.
LEMMA AuxUp ==
    ASSUME NEW a, NEW s, NEW its, NEW f, NEW honest \in BOOLEAN, NEW less,
           Asked(a, s, its, f, honest, less), s.at = "up"
    PROVE  SortPost(auxsort(a, s, less), its, f, honest)
<1> DEFINE n == Len(its)
<1>1. /\ n \in Nat /\ s.l \in Int /\ s.u \in Int /\ s.i \in Int /\ s.j \in Int
      /\ Parting(s, n) /\ s.i \in s.l + 1..s.u + 1 /\ 0 <= s.l /\ s.l < s.u /\ s.u < n
  BY AskedBounds
<1>2. /\ its \in Seq(Key) /\ s \in Sorts /\ Sorted(a, its)
      /\ s.i < n => Four(a, its, f, its[s.u], its[s.i + 1])
      /\ ~(s.i < n) => Three(a, its, f, its[s.u])
  BY AskedFrame DEF Asked
<1>3. s.j \in s.l + 1..s.u - 1
  BY DEF Asked, Placed, SortBounds
<1>4. honest => /\ Current(s, its) /\ s.i <= s.u - 1
                /\ \A k \in s.l..s.i - 1 : its[k + 1] <= its[s.u]
                /\ \A k \in s.j..s.u : its[k + 1] >= its[s.u]
                /\ less <=> its[s.i + 1] < its[s.u]
  BY DEF Asked, SortKnows, Smaller, Current
<1>5. s.i <= s.u => its[s.i + 1] \in Int
  <2>1. s.i <= s.u => s.i \in 0..n - 1
    BY <1>1
  <2> QED
    BY <1>2, <2>1, ItemInt
<1>6. its[s.u] \in Int
  <2>1. s.u - 1 \in 0..n - 1 /\ s.u - 1 + 1 = s.u
    BY <1>1
  <2> DEFINE m == s.u - 1
  <2> HIDE DEF m
  <2>2. m \in 0..n - 1 /\ m + 1 = s.u
    BY <2>1 DEF m
  <2> QED
    BY <1>2, <2>2, ItemInt
<1>7. CASE ~less
  <2>1. auxsort(a, s, less) = Down(a, s)
    BY <1>7 DEF auxsort
  <2>2. ASSUME honest PROVE s.j - 1 >= s.l /\ its[s.i + 1] >= its[s.u]
    <3>1. s.i <= s.u
      BY <1>1, <1>4, <2>2
    <3>2. its[s.i + 1] >= its[s.u]
      BY <1>4, <1>5, <1>6, <1>7, <2>2, <3>1
    <3>3. s.j - 1 >= s.l
      BY <1>1, <1>3
    <3> QED
      BY <3>2, <3>3
  <2>3. s.j \in s.l..s.u - 1
    BY <1>1, <1>3
  <2>4. SortPost(Down(a, s), its, f, honest)
    BY <1>1, <1>2, <1>4, <2>2, <2>3, DownOK
  <2> QED
    BY <2>1, <2>4
<1>8. CASE less /\ s.i > s.u
  <2>1. auxsort(a, s, less) = Wait(Raise(a), s, "none")
    BY <1>8 DEF auxsort
  <2> QED
    BY <1>2, <2>1, RaisePost
<1>9. CASE less /\ ~(s.i > s.u)
  <2> DEFINE b == tea_pop(a, 1)
  <2>1. auxsort(a, s, less) = Up(b, s)
    BY <1>9 DEF auxsort
  <2>2. s.i < n /\ s.i <= s.u /\ s.i \in s.l..s.u
    BY <1>1, <1>9
  <2>3. Three(b, its, f, its[s.u])
    BY <1>2, <2>2, PopSorted
  <2> HIDE DEF b
  <2>4. ASSUME honest PROVE s.i < s.u - 1 /\ \A k \in s.l..s.i : its[k + 1] <= its[s.u]
    <3>1. its[s.i + 1] < its[s.u]
      BY <1>4, <1>9, <2>4
    <3>2. s.i # s.u - 1
      <4>1. s.i = s.u - 1 => s.i + 1 = s.u
        BY <1>1
      <4> QED
        BY <1>6, <3>1, <4>1
    <3>3. \A k \in s.l..s.i : k \in s.l..s.i - 1 \/ k = s.i
      BY <1>1
    <3>4. its[s.i + 1] <= its[s.u]
      BY <1>5, <1>6, <2>2, <3>1
    <3>5. s.i < s.u - 1
      BY <1>1, <1>4, <2>4, <3>2
    <3> QED
      BY <1>4, <2>4, <3>3, <3>4, <3>5
  <2>5. SortPost(Up(b, s), its, f, honest)
    BY <1>1, <1>3, <1>4, <2>2, <2>3, <2>4, UpOK
  <2> QED
    BY <2>1, <2>5
<1> QED
  BY <1>7, <1>8, <1>9 DEF Asked

\* Two items on the wrong sides of the pivot are exchanged.
LEMMA SidesSwapped ==
    ASSUME NEW a, NEW s, NEW its, NEW f, NEW honest \in BOOLEAN, NEW less,
           Asked(a, s, its, f, honest, less), s.at = "down", ~less, ~(s.j < s.i)
    PROVE  SortPost(Up(set2(a, s.i, s.j), s), its, f, honest)
<1> DEFINE n == Len(its)
           l == s.l
           u == s.u
           i == s.i
           j == s.j
           b == set2(a, i, j)
           t == b.lists[l1]
<1>1. /\ n \in Nat /\ l \in Int /\ u \in Int /\ i \in Int /\ j \in Int
      /\ Parting(s, n) /\ i \in l + 1..u + 1 /\ 0 <= l /\ l < u /\ u < n
  BY AskedBounds
<1>2. its \in Seq(Key) /\ s \in Sorts /\ Sorted(a, its) /\ Downed(a, its, f, s)
  BY AskedFrame DEF Asked
<1>3. j \in l - 1..u - 2 /\ i <= j
  <2>1. j \in l - 1..u - 2
    BY DEF Asked, Placed, SortBounds
  <2> QED
    BY <1>1, <2>1
<1>4. honest => /\ Current(s, its) /\ i <= u - 1 /\ j >= l
                /\ \A k \in l..i - 1 : its[k + 1] <= its[u]
                /\ its[i + 1] >= its[u]
                /\ \A k \in j + 1..u : its[k + 1] >= its[u]
                /\ ~(its[u] < its[j + 1])
  BY DEF Asked, SortKnows, Smaller, Current
<1>5. /\ i \in 0..n - 1 /\ j \in 0..n - 1 /\ i < n /\ j >= 0
      /\ i \in l..u /\ j \in l + 1..u - 1 /\ i < u - 1
      /\ u - 1 \in 0..n - 1 /\ u - 1 + 1 = u /\ u \in 1..n /\ u # i + 1 /\ u # j + 1
      /\ l <= i /\ i <= u /\ l <= j /\ j <= u
  <2> HIDE DEF n, l, u, i, j
  <2> QED
    BY <1>1, <1>3
<1>6. Five(a, its, f, its[u], its[i + 1], its[j + 1])
  BY <1>2, <1>5 DEF Downed
<1>7. Three(b, t, f, its[u]) /\ Swaps(its, t, i + 1, j + 1)
  BY <1>2, <1>5, <1>6, SwapSlots
<1> HIDE DEF b, t
<1>8. /\ t \in Seq(Key) /\ Len(t) = n /\ t[i + 1] = its[j + 1] /\ t[j + 1] = its[i + 1] /\ t[u] = its[u]
      /\ \A k \in 1..n : k # i + 1 /\ k # j + 1 => t[k] = its[k]
  BY <1>5, <1>7 DEF Swaps
<1>9. ASSUME honest
      PROVE  /\ Current(s, t)
             /\ \A k \in l..i : t[k + 1] <= t[u]
             /\ \A k \in j..u : t[k + 1] >= t[u]
  <2>1. Current(s, t)
    BY <1>2, <1>4, <1>5, <1>7, <1>9, SwapCurrent
  <2>2. its[i + 1] \in Int /\ its[j + 1] \in Int /\ its[u] \in Int
    <3>1. its[u - 1 + 1] \in Int
      <4> DEFINE m == u - 1
      <4>1. m \in 0..n - 1
        BY <1>5
      <4> HIDE DEF m
      <4>2. its[m + 1] \in Int
        BY <1>2, <4>1, ItemInt
      <4> QED
        BY <4>2 DEF m
    <3> QED
      BY <1>2, <1>5, <3>1, ItemInt
  <2>3. ASSUME NEW k \in l..i PROVE t[k + 1] <= t[u]
    <3>1. CASE k = i
      BY <1>4, <1>8, <1>9, <2>2, <3>1
    <3>2. CASE k # i
      <4>1. k \in l..i - 1 /\ k + 1 \in 1..n /\ k + 1 # i + 1 /\ k + 1 # j + 1
        <5>1. k \in l..i
          BY <2>3
        <5> HIDE DEF n, l, u, i, j
        <5> QED
          BY <1>1, <1>3, <3>2, <5>1
      <4> QED
        BY <1>4, <1>8, <1>9, <4>1
    <3> QED
      BY <3>1, <3>2
  <2>4. ASSUME NEW k \in j..u PROVE t[k + 1] >= t[u]
    <3>1. CASE k = j
      BY <1>4, <1>8, <1>9, <2>2, <3>1
    <3>2. CASE k # j
      <4>1. k \in j + 1..u /\ k + 1 \in 1..n /\ k + 1 # i + 1 /\ k + 1 # j + 1
        <5>1. k \in j..u
          BY <2>4
        <5> HIDE DEF n, l, u, i, j
        <5> QED
          BY <1>1, <1>3, <3>2, <5>1
      <4> QED
        BY <1>4, <1>8, <1>9, <4>1
    <3> QED
      BY <3>1, <3>2
  <2> QED
    BY <2>1, <2>3, <2>4
<1>10. SortPost(Up(b, s), t, f, honest)
  <2>1. Parting(s, Len(t))
    BY <1>1, <1>8
  <2>2. s.i \in s.l..s.u /\ s.j \in s.l + 1..s.u - 1
    BY <1>5
  <2>3. Three(b, t, f, t[s.u])
    BY <1>7, <1>8
  <2>4. honest => /\ Current(s, t) /\ s.i < s.u - 1
                  /\ \A k \in s.l..s.i : t[k + 1] <= t[s.u]
                  /\ \A k \in s.j..s.u : t[k + 1] >= t[s.u]
    BY <1>5, <1>9
  <2> QED
    BY <2>1, <2>2, <2>3, <2>4, UpOK
<1>11. i + 1 \in 1..n /\ j + 1 \in 1..n
  BY <1>5, SMTT(20)
<1>12. SortPost(Up(b, s), its, f, honest)
  BY <1>2, <1>7, <1>10, <1>11, SwapPost
<1> QED
  BY <1>12 DEF b

\* After comparing the pivot with an item from the right.
LEMMA AuxDown ==
    ASSUME NEW a, NEW s, NEW its, NEW f, NEW honest \in BOOLEAN, NEW less,
           Asked(a, s, its, f, honest, less), s.at = "down"
    PROVE  SortPost(auxsort(a, s, less), its, f, honest)
<1> DEFINE n == Len(its)
<1>1. /\ n \in Nat /\ s.l \in Int /\ s.u \in Int /\ s.i \in Int /\ s.j \in Int
      /\ Parting(s, n) /\ s.i \in s.l + 1..s.u + 1 /\ 0 <= s.l /\ s.l < s.u /\ s.u < n
  BY AskedBounds
<1>2. its \in Seq(Key) /\ s \in Sorts /\ Sorted(a, its) /\ Downed(a, its, f, s) /\ less \in BOOLEAN
  BY AskedFrame DEF Asked
<1>3. s.j \in s.l - 1..s.u - 2
  BY DEF Asked, Placed, SortBounds
<1>4. honest => /\ Current(s, its) /\ s.i <= s.u - 1 /\ s.j >= s.l
                /\ \A k \in s.l..s.i - 1 : its[k + 1] <= its[s.u]
                /\ its[s.i + 1] >= its[s.u]
                /\ \A k \in s.j + 1..s.u : its[k + 1] >= its[s.u]
                /\ less <=> its[s.u] < its[s.j + 1]
  BY DEF Asked, SortKnows, Smaller, Current
<1>5. CASE less /\ s.j < s.l
  <2>1. auxsort(a, s, less) = Wait(Raise(a), s, "none")
    BY <1>5 DEF auxsort
  <2> QED
    BY <1>2, <2>1, RaisePost
<1>6. CASE less /\ ~(s.j < s.l)
  <2> DEFINE b == tea_pop(a, 1)
  <2>1. auxsort(a, s, less) = Down(b, s)
    BY <1>6 DEF auxsort
  <2>2. s.j >= 0 /\ s.j \in s.l..s.u - 1 /\ s.j >= s.l
    BY <1>1, <1>3, <1>6
  <2>3. /\ s.i < n => Four(b, its, f, its[s.u], its[s.i + 1])
        /\ ~(s.i < n) => Three(b, its, f, its[s.u])
    <3>1. CASE s.i < n
      <4>1. Five(a, its, f, its[s.u], its[s.i + 1], its[s.j + 1])
        BY <1>2, <2>2, <3>1 DEF Downed
      <4> QED
        BY <1>2, <3>1, <4>1, PopSorted
    <3>2. CASE ~(s.i < n)
      <4>1. Four(a, its, f, its[s.u], its[s.j + 1])
        BY <1>2, <2>2, <3>2 DEF Downed
      <4> QED
        BY <1>2, <3>2, <4>1, PopSorted
    <3> QED
      BY <3>1, <3>2
  <2> HIDE DEF b
  <2>4. ASSUME honest PROVE s.j - 1 >= s.l /\ \A k \in s.j..s.u : its[k + 1] >= its[s.u]
    <3>1. its[s.u] < its[s.j + 1]
      BY <1>4, <1>6, <2>4
    <3>2. its[s.u] \in Int /\ its[s.j + 1] \in Int
      <4>1. s.j \in 0..n - 1
        BY <1>1, <1>3, <2>2, SMTT(20)
      <4> DEFINE m == s.u - 1
      <4>2. m \in 0..n - 1 /\ m + 1 = s.u
        BY <1>1
      <4> HIDE DEF m
      <4>3. its[m + 1] \in Int
        BY <1>2, <4>2, ItemInt
      <4> QED
        BY <1>2, <4>1, <4>2, <4>3, ItemInt
    <3>3. s.j # s.l
      <4>1. s.l \in s.l..s.i - 1
        BY <1>1
      <4>2. its[s.l + 1] <= its[s.u]
        BY <1>4, <2>4, <4>1
      <4> QED
        BY <3>1, <3>2, <4>2
    <3>4. s.j - 1 >= s.l
      BY <1>1, <2>2, <3>3
    <3>5. \A k \in s.j..s.u : k = s.j \/ k \in s.j + 1..s.u
      BY <1>1
    <3>6. its[s.j + 1] >= its[s.u]
      BY <3>1, <3>2
    <3> QED
      BY <1>4, <2>4, <3>4, <3>5, <3>6
  <2>5. SortPost(Down(b, s), its, f, honest)
    BY <1>1, <1>4, <2>2, <2>3, <2>4, DownOK
  <2> QED
    BY <2>1, <2>5
<1>7. CASE ~less /\ s.j < s.i
  <2>1. auxsort(a, s, less) = Halves(a, s)
    BY <1>7 DEF auxsort
  <2>2. SortPost(Halves(a, s), its, f, honest)
    BY <1>1, <1>2, <1>3, <1>4, <1>7, HalvesOK
  <2> QED
    BY <2>1, <2>2
<1>8. CASE ~less /\ ~(s.j < s.i)
  <2>1. auxsort(a, s, less) = Up(set2(a, s.i, s.j), s)
    BY <1>8 DEF auxsort
  <2> QED
    BY <1>8, <2>1, SidesSwapped
<1> QED
  BY <1>2, <1>5, <1>6, <1>7, <1>8

\* Given the result of a comparison, sort only exchanges items, and gets to its next one.
LEMMA AuxPost ==
    ASSUME NEW a, NEW s, NEW its, NEW f, NEW honest \in BOOLEAN, NEW less,
           Asked(a, s, its, f, honest, less)
    PROVE  SortPost(auxsort(a, s, less), its, f, honest)
<1>1. s.at \in {"lu", "il", "ui", "up", "down"}
  BY DEF Asked, Placed, SortBounds, Sorts
<1> QED
  BY <1>1, AuxEnds, AuxLower, AuxUpper, AuxUp, AuxDown

-----------------------------------------------------------------------------
(* The steps of a sort *)

\* Sorts.
SortInv == SortItems /\ SortFrame /\ SortCall

\* The local variables stay of their type, whatever the list has become.
LEMMA AuxSorts ==
    ASSUME NEW a, NEW s \in Sorts, s.at # "none", NEW less
    PROVE  auxsort(a, s, less).s \in Sorts
<1>1. s.l \in Int /\ s.u \in Int /\ s.i \in Int /\ s.j \in Int /\ s.rest \in Seq(Range2)
  BY SortsOK
<1>2. \A b : Break(b, s).s \in Sorts
  <2> DEFINE s2 == [s EXCEPT !.l = s.u]
  <2>1. s2 \in Sorts
    BY <1>1 DEF Sorts
  <2> HIDE DEF s2
  <2>2. \A b : Ranges(b, s2).s \in Sorts
    BY <2>1, RangesSorts
  <2> QED
    BY <2>2 DEF Break, s2
<1>3. \A b, t : t \in Sorts => Up(b, t).s \in Sorts /\ Down(b, t).s \in Sorts
  <2> SUFFICES ASSUME NEW b, NEW t \in Sorts PROVE Up(b, t).s \in Sorts /\ Down(b, t).s \in Sorts
    OBVIOUS
  <2>1. t.i + 1 \in Int /\ t.j - 1 \in Int
    <3>1. t.i \in Int /\ t.j \in Int
      BY SortsOK
    <3> QED
      BY <3>1
  <2>2. [t EXCEPT !.i = t.i + 1] \in Sorts /\ [t EXCEPT !.j = t.j - 1] \in Sorts
    BY <2>1 DEF Sorts
  <2>3. \A c, v : v \in Sorts => Wait(c, v, "up").s \in Sorts /\ Wait(c, v, "down").s \in Sorts
    BY WaitOK
  <2> QED
    BY <2>2, <2>3 DEF Up, Down
<1>4. \A b : Pivot(b, s).s \in Sorts
  <2> SUFFICES ASSUME NEW b PROVE Pivot(b, s).s \in Sorts
    OBVIOUS
  <2>1. s.u - 1 \in Int
    BY <1>1
  <2>2. [s EXCEPT !.i = s.l, !.j = s.u - 1] \in Sorts
    BY <1>1, <2>1 DEF Sorts
  <2> DEFINE s2 == [s EXCEPT !.i = s.l, !.j = s.u - 1]
             p == tea_push_value(tea_get_item(b, 0, s.i), -1)
             c == set2(tea_get_item(p, 0, s.u - 1), s.i, s.u - 1)
  <2>3. Pivot(b, s) = IF s.u - s.l = 2 THEN Break(b, s) ELSE Up(c, s2)
    BY DEF Pivot
  <2>4. s2 \in Sorts
    BY <2>2
  <2> HIDE DEF s2, c, p
  <2> QED
    BY <1>2, <1>3, <2>3, <2>4
<1>5. \A b : Halves(b, s).s \in Sorts
  <2>1. Split(s) \in Sorts
    <3>1. PICK first \in Range2, second \in Range2 :
             Split(s) = [s EXCEPT !.l = first[1], !.u = first[2], !.rest =
                            IF second[1] < second[2] THEN Append(s.rest, second) ELSE s.rest]
      BY SplitIs
    <3> DEFINE Q == IF second[1] < second[2] THEN Append(s.rest, second) ELSE s.rest
               f1 == first[1]
               f2 == first[2]
    <3>2. Q \in Seq(Range2) /\ f1 \in Int /\ f2 \in Int
      BY <1>1 DEF Range2
    <3>3. Split(s) = [s EXCEPT !.l = f1, !.u = f2, !.rest = Q]
      BY <3>1
    <3> HIDE DEF Q, f1, f2
    <3> QED
      BY <3>2, <3>3 DEF Sorts
  <2>2. \A b : Halves(b, s) =
                 Ranges(set2(Items(tea_pop(b, 3), s.u - 1, s.i), s.u - 1, s.i), Split(s))
    BY DEF Halves, Split
  <2> QED
    BY <2>1, <2>2, RangesSorts
<1>6. \A b : Wait(b, s, "none").s \in Sorts /\ Wait(b, s, "ui").s \in Sorts
  BY WaitOK
<1>7. CASE s.at = "lu"
  <2> DEFINE k == (s.l + s.u) \div 2
             m == [s EXCEPT !.i = k]
             b == IF less THEN set2(a, s.l, s.u) ELSE tea_pop(a, 2)
             c == Items(b, m.i, s.l)
  <2>1. k \in Int
    BY <1>1
  <2>2. auxsort(a, s, less) = IF s.u - s.l = 1 THEN Break(b, s) ELSE Wait(c, m, "il")
    BY <1>7 DEF auxsort
  <2> HIDE DEF k, b, c
  <2>3. m \in Sorts
    BY <2>1 DEF Sorts
  <2> HIDE DEF m
  <2>4. Wait(c, m, "il").s \in Sorts
    BY <2>3, WaitOK
  <2> QED
    BY <1>2, <2>2, <2>4
<1>8. CASE s.at = "il"
  BY <1>4, <1>6, <1>8 DEF auxsort
<1>9. CASE s.at = "ui"
  BY <1>4, <1>9 DEF auxsort
<1>10. CASE s.at = "up"
  BY <1>3, <1>6, <1>10 DEF auxsort
<1>11. CASE s.at = "down"
  BY <1>3, <1>5, <1>6, <1>11 DEF auxsort
<1> QED
  BY <1>7, <1>8, <1>9, <1>10, <1>11 DEF Sorts

\* A check changes neither the lists nor the frame, and forgets no error.
LEMMA CheckKeeps ==
    ASSUME NEW a \in Apis, NEW k, NEW T
    PROVE  LET b == Check(a, k, T) IN
           /\ b \in Apis /\ b.lists = a.lists /\ b.frame = a.frame
           /\ a.fails => b.fails
           /\ b.strays = a.strays /\ (Valid(a, k) => b.misused = a.misused)
<1> DEFINE e == Expect(a, Valid(a, k))
<1>1. /\ e \in Apis /\ e.lists = a.lists /\ e.frame = a.frame /\ e.fails = a.fails
      /\ e.strays = a.strays /\ (Valid(a, k) => e.misused = a.misused)
  BY DEF Expect, Apis
<1>2. Check(a, k, T) = IF index2addr(a, k) \in T THEN e ELSE Raise(e)
  BY DEF Check
<1> HIDE DEF e
<1>3. /\ Raise(e) \in Apis /\ Raise(e).lists = e.lists /\ Raise(e).frame = e.frame /\ Raise(e).fails
      /\ Raise(e).strays = e.strays /\ Raise(e).misused = e.misused
  BY <1>1 DEF Raise, Apis
<1> QED
  BY <1>1, <1>2, <1>3

\* The next state of a sort, given how far it got.
LEMMA SortGoesOn ==
    ASSUME NEW r, NEW its \in Seq(Key), NEW f \in {Fn, Nil}, NEW honest, SortPost(r, its, f, honest),
           f = Comparator', past'.lies = 0 => honest, past'.lies \in Nat, honest => past'.lies = 0,
           honest \in BOOLEAN, ~past'.changed,
           api' = r.a, job'.fn = "sort", job'.sort = r.s, job'.len = Len(its),
           Len(Before') = Len(its), ToBag(its) = ToBag(Before'),
           job'.pc = After(r.a, IF r.s.at = "none" THEN "done" ELSE "turn")
    PROVE  SortInv'
<1> DEFINE t == r.a.lists[l1]
<1>1. r.a \in Apis /\ t \in Seq(Key) /\ Len(t) = Len(its) /\ ToBag(t) = ToBag(its)
  BY DEF SortPost, Same
<1>2. job'.pc \notin {"raised", "strayed"} => Good(r.a) /\ job'.pc = IF r.s.at = "none" THEN "done" ELSE "turn"
  <2> DEFINE pc == IF r.s.at = "none" THEN "done" ELSE "turn"
  <2>1. After(r.a, pc) \in {"raised", "strayed", pc}
    BY AfterIs
  <2>2. After(r.a, pc) \notin {"raised", "strayed"} => ~r.a.fails /\ ~r.a.misused /\ ~r.a.strays
    BY AfterIs
  <2> QED
    BY <1>1, <2>1, <2>2 DEF Good
<1>3. \/ ~Good(r.a)
      \/ r.s.at = "none" /\ (honest => Ordered(t, << >>))
      \/ Placed(r.a, r.s, f) /\ (honest => SortKnows(r.s, t))
      \/ ~honest /\ Lost(r.a.frame, r.s) /\ SortBounds(r.s, Len(its))
  BY DEF SortPost
<1>4. SortItems'
  <2>1. ASSUME job'.pc = "done", past'.lies = 0 PROVE Ordered(t, << >>)
    <3>1. Good(r.a) /\ r.s.at = "none"
      BY <1>2, <2>1
    <3>2. ~Placed(r.a, r.s, f)
      BY <3>1 DEF Placed, SortBounds
    <3> QED
      BY <1>3, <2>1, <3>1, <3>2
  <2>2. Tidy(r.a, past'.lies = 0)
    BY DEF SortPost, Tidy
  <2> QED
    BY <1>1, <2>1, <2>2 DEF SortItems
<1>5. job'.pc \in {"turn", "called", "answered"} => job'.pc = "turn" /\ Good(r.a) /\ r.s.at # "none"
  BY <1>2
<1>6. ASSUME Sorting'
      PROVE  /\ Good(api') /\ SortBounds(job'.sort, job'.len)
             /\ \/ /\ Len(api'.frame) = D' + 0
                   /\ SortSlots(api'.frame, job'.sort, api'.lists[l1], f)
                \/ /\ Lost(api'.frame, job'.sort) /\ past'.lies > 0
             /\ past'.lies = 0 => SortKnows(job'.sort, api'.lists[l1])
  <2>1. job'.pc = "turn" /\ Good(r.a) /\ r.s.at # "none"
    BY <1>5, <1>6 DEF Sorting, Running
  <2>2. CASE Placed(r.a, r.s, f) /\ (honest => SortKnows(r.s, t))
    <3>1. /\ SortBounds(r.s, Len(t)) /\ Len(r.a.frame) = Own(r.s, Len(t)) /\ SortSlots(r.a.frame, r.s, t, f)
      BY <2>2 DEF Placed
    <3>2. D' = Own(r.s, Len(t))
      <4>1. job'.sort = r.s /\ job'.len = Len(t)
        BY <1>1
      <4> QED
        BY <4>1 DEF D
    <3>3. Own(r.s, Len(t)) + 0 = Own(r.s, Len(t))
      <4> DEFINE o == Own(r.s, Len(t))
      <4>1. o \in Nat
        <5>1. o = Len(r.a.frame)
          BY <3>1
        <5>2. r.a.frame \in Seq(Value)
          BY <1>1 DEF Apis
        <5> HIDE DEF o
        <5> QED
          BY <5>1, <5>2
      <4> HIDE DEF o
      <4>2. o + 0 = o
        BY <4>1
      <4> QED
        BY <4>2 DEF o
    <3> QED
      BY <1>1, <2>1, <2>2, <3>1, <3>2, <3>3
  <2>3. CASE ~honest /\ Lost(r.a.frame, r.s) /\ SortBounds(r.s, Len(its))
    <3>1. past'.lies > 0
      BY <2>3
    <3> QED
      BY <2>1, <2>3, <3>1
  <2> QED
    BY <1>3, <2>1, <2>2, <2>3
<1>7. SortFrame'
  <2>1. SUFFICES ASSUME Sorting' PROVE SortFrame'
    BY DEF SortFrame
  <2>2. job'.pc = "turn" /\ (Extra' = 0)
    BY <1>5, <2>1 DEF Sorting, Running, Extra
  <2> QED
    BY <1>6, <2>1, <2>2 DEF SortFrame
<1>8. SortCall'
  BY <1>5 DEF SortCall, Sorting, Running
<1> QED
  BY <1>4, <1>7, <1>8 DEF SortInv

\* What is known of a sort that goes on.
LEMMA SortAt ==
    ASSUME Typed, SortInv, Sorting
    PROVE  LET its == api.lists[l1] IN
           /\ its \in Seq(Key) /\ Len(its) = job.len /\ Len(Before) = Len(its) /\ ToBag(its) = ToBag(Before)
           /\ Good(api) /\ Comparator \in {Fn, Nil}
           /\ job.sort \in Sorts /\ SortBounds(job.sort, Len(its)) /\ D = Own(job.sort, Len(its))
           /\ \/ /\ Len(api.frame) = D + Extra
                 /\ SortSlots(api.frame, job.sort, its, Comparator)
              \/ Lost(api.frame, job.sort) /\ job.pc = "turn" /\ past.lies > 0
           /\ past.lies = 0 => SortKnows(job.sort, its)
           /\ past.lies \in Nat
<1>1. job.fn = "sort" /\ job.pc # "idle" /\ ~past.changed
  BY DEF Sorting, Running
<1>2. job.sort \in Sorts /\ past.lies \in Nat
  BY DEF Typed, Jobs, Pasts
<1>3. /\ api.lists[l1] \in Seq(Key) /\ job.len = Len(Before) /\ Len(api.lists[l1]) = job.len
      /\ ToBag(api.lists[l1]) = ToBag(Before)
  BY <1>1 DEF SortInv, SortItems
<1>4. D = Own(job.sort, Len(api.lists[l1]))
  BY <1>3 DEF D
<1> QED
  BY <1>2, <1>3, <1>4 DEF SortInv, SortFrame

\* Where the slots are that are compared.
LEMMA ComparedIn ==
    ASSUME NEW s \in Sorts, NEW n \in Nat, SortBounds(s, n)
    PROVE  LET d == Own(s, n)
               c == Compared(s.at)
           IN  /\ d \in 3..5 /\ c[1] \in -3..-1 /\ c[2] \in -2..-1
               /\ d + 1 + c[1] \in 1..d /\ d + 1 + c[2] \in 1..d
<1>1. s.at \in {"lu", "il", "ui", "up", "down"} /\ s.i \in Int /\ s.j \in Int
  BY DEF Sorts, SortBounds
<1>2. CASE s.at \in {"lu", "ui"}
  <2>1. Own(s, n) = 4 /\ Compared(s.at) = <<-1, -2>>
    BY <1>2 DEF Own, Compared
  <2> QED
    BY <2>1
<1>3. CASE s.at = "il"
  <2>1. Own(s, n) = 4 /\ Compared(s.at) = <<-2, -1>>
    BY <1>3 DEF Own, Compared
  <2> QED
    BY <2>1
<1>4. CASE s.at = "up"
  <2>1. Own(s, n) \in {3, 4} /\ Compared(s.at) = <<-1, -2>>
    BY <1>4 DEF Own, Compared
  <2> QED
    BY <2>1
<1>5. CASE s.at = "down"
  <2>1. Own(s, n) \in {3, 4, 5} /\ Compared(s.at) = <<-3, -1>>
    BY <1>5 DEF Own, Compared
  <2> QED
    BY <2>1
<1> QED
  BY <1>1, <1>2, <1>3, <1>4, <1>5

\* What the comparison of these slots says, while the comparator is honest.
LEMMA ComparedItems ==
    ASSUME NEW fr, NEW s \in Sorts, NEW its \in Seq(Key), NEW f, SortBounds(s, Len(its)),
           SortSlots(fr, s, its, f), SortKnows(s, its)
    PROVE  LET d == Own(s, Len(its))
               c == Compared(s.at)
           IN  /\ fr[d + 1 + c[1]] \in Key \cap Range(its) /\ fr[d + 1 + c[2]] \in Key \cap Range(its)
               /\ Smaller(s, its) <=> fr[d + 1 + c[1]] < fr[d + 1 + c[2]]
<1> DEFINE n == Len(its)
<1>1. /\ s.at \in {"lu", "il", "ui", "up", "down"} /\ s.i \in Int /\ s.j \in Int /\ s.l \in Int /\ s.u \in Int
      /\ n \in Nat
  BY DEF Sorts, SortBounds
<1>2. 0 <= s.l /\ s.l < s.u /\ s.u < n
  BY <1>1 DEF SortBounds
<1>3. \A k \in Int : 0 <= k /\ k < n => its[k + 1] \in Key \cap Range(its)
  <2> SUFFICES ASSUME NEW k \in Int, 0 <= k, k < n PROVE its[k + 1] \in Key \cap Range(its)
    OBVIOUS
  <2>1. k + 1 \in 1..Len(its) /\ k + 1 \in DOMAIN its
    BY <1>1
  <2> QED
    BY <2>1 DEF Range
<1>4. its[s.l + 1] \in Key \cap Range(its) /\ its[s.u + 1] \in Key \cap Range(its) /\ its[s.u] \in Key \cap Range(its)
  <2>1. s.u - 1 + 1 = s.u /\ 0 <= s.u - 1 /\ s.u - 1 < n /\ s.u - 1 \in Int /\ 0 <= s.u /\ s.l < n
    BY <1>1, <1>2
  <2>2. its[s.u - 1 + 1] \in Key \cap Range(its)
    BY <1>3, <2>1
  <2> QED
    BY <1>1, <1>2, <1>3, <2>1, <2>2
<1>5. CASE s.at = "lu"
  <2>1. Own(s, n) = 4 /\ Compared(s.at) = <<-1, -2>> /\ 4 + 1 + (-1) = 4 /\ 4 + 1 + (-2) = 3
    BY <1>5 DEF Own, Compared
  <2>2. fr[3] = its[s.l + 1] /\ fr[4] = its[s.u + 1]
    BY <1>5 DEF SortSlots
  <2> QED
    BY <1>4, <1>5, <2>1, <2>2 DEF Smaller
<1>6. CASE s.at \in {"il", "ui"}
  <2>1. s.i = (s.l + s.u) \div 2
    BY <1>6 DEF SortBounds
  <2>2. 0 <= s.i /\ s.i < n
    BY <1>1, <1>2, <2>1
  <2>3. its[s.i + 1] \in Key \cap Range(its)
    BY <1>1, <1>3, <2>2
  <2>4. CASE s.at = "il"
    <3>1. Own(s, n) = 4 /\ Compared(s.at) = <<-2, -1>> /\ 4 + 1 + (-1) = 4 /\ 4 + 1 + (-2) = 3
      BY <2>4 DEF Own, Compared
    <3>2. fr[3] = its[s.i + 1] /\ fr[4] = its[s.l + 1]
      BY <2>4 DEF SortSlots
    <3> QED
      BY <1>4, <2>3, <2>4, <3>1, <3>2 DEF Smaller
  <2>5. CASE s.at = "ui"
    <3>1. Own(s, n) = 4 /\ Compared(s.at) = <<-1, -2>> /\ 4 + 1 + (-1) = 4 /\ 4 + 1 + (-2) = 3
      BY <2>5 DEF Own, Compared
    <3>2. fr[3] = its[s.i + 1] /\ fr[4] = its[s.u + 1]
      BY <2>5 DEF SortSlots
    <3> QED
      BY <1>4, <2>3, <2>5, <3>1, <3>2 DEF Smaller
  <2> QED
    BY <1>6, <2>4, <2>5
<1>7. CASE s.at \in {"up", "down"}
  <2>1. s.i <= s.u - 1 /\ s.i \in s.l + 1..s.u + 1
    BY <1>7 DEF SortKnows, SortBounds
  <2>2. 0 <= s.i /\ s.i < n
    BY <1>1, <1>2, <2>1
  <2>3. its[s.i + 1] \in Key \cap Range(its) /\ fr[3] = its[s.u] /\ fr[4] = its[s.i + 1]
    BY <1>1, <1>3, <1>7, <2>2 DEF SortSlots
  <2>4. CASE s.at = "up"
    <3>1. Own(s, n) = 4 /\ Compared(s.at) = <<-1, -2>> /\ 4 + 1 + (-1) = 4 /\ 4 + 1 + (-2) = 3
      BY <2>2, <2>4 DEF Own, Compared
    <3> QED
      BY <1>4, <2>3, <2>4, <3>1 DEF Smaller
  <2>5. CASE s.at = "down"
    <3>1. s.j >= s.l /\ s.j \in s.l - 1..s.u - 2
      BY <2>5 DEF SortKnows, SortBounds
    <3>2. s.j >= 0 /\ s.j < n
      BY <1>1, <1>2, <3>1
    <3>3. Own(s, n) = 5 /\ Compared(s.at) = <<-3, -1>> /\ 5 + 1 + (-1) = 5 /\ 5 + 1 + (-3) = 3
      BY <2>2, <2>5, <3>2 DEF Own, Compared
    <3>4. its[s.j + 1] \in Key \cap Range(its) /\ fr[5] = its[s.j + 1]
      BY <1>1, <1>3, <2>5, <3>2, <3>3 DEF SortSlots
    <3> QED
      BY <1>4, <2>3, <2>5, <3>3, <3>4 DEF Smaller
  <2> QED
    BY <1>7, <2>4, <2>5
<1> QED
  BY <1>1, <1>5, <1>6, <1>7

\* What sort waits for stays where it is.
LEMMA SlotsKept ==
    ASSUME NEW fr, NEW gr, NEW s \in Sorts, NEW its, NEW f, Len(its) \in Nat, SortBounds(s, Len(its)),
           SortSlots(fr, s, its, f), \A p \in 1..Own(s, Len(its)) : gr[p] = fr[p]
    PROVE  SortSlots(gr, s, its, f)
<1> DEFINE n == Len(its)
           d == Own(s, n)
<1>1. d \in 3..5
  BY ComparedIn
<1>2. s.at \in {"lu", "il", "ui"} \/ (s.at \in {"up", "down"} /\ s.i < n) => d >= 4
  <2>1. 4 >= 4 /\ 5 >= 4
    OBVIOUS
  <2> QED
    BY <2>1 DEF Own
<1>3. \A p \in 1..d : gr[p] = fr[p]
  OBVIOUS
<1>4. gr[d] = fr[d]
  <2> HIDE DEF d
  <2> QED
    BY <1>1, <1>3
<1>5. gr[1] = fr[1] /\ gr[2] = fr[2] /\ gr[3] = fr[3] /\ (d >= 4 => gr[4] = fr[4])
  <2> HIDE DEF d
  <2>1. d \in Int /\ d >= 1 /\ d >= 2 /\ d >= 3
    BY <1>1
  <2> QED
    BY <1>3, <2>1, SlotsStay
<1> HIDE DEF d
<1>6. /\ fr[1] = l1 /\ fr[2] = f
      /\ s.at = "lu" => fr[3] = its[s.l + 1] /\ fr[4] = its[s.u + 1]
      /\ s.at = "il" => fr[3] = its[s.i + 1] /\ fr[4] = its[s.l + 1]
      /\ s.at = "ui" => fr[3] = its[s.i + 1] /\ fr[4] = its[s.u + 1]
      /\ s.at \in {"up", "down"} => fr[3] = its[s.u] /\ (s.i < n => fr[4] = its[s.i + 1])
      /\ s.at = "down" /\ s.j >= 0 => fr[d] = its[s.j + 1]
  BY DEF SortSlots, d
<1>7. /\ gr[1] = l1 /\ gr[2] = f
      /\ s.at = "lu" => gr[3] = its[s.l + 1] /\ gr[4] = its[s.u + 1]
      /\ s.at = "il" => gr[3] = its[s.i + 1] /\ gr[4] = its[s.l + 1]
      /\ s.at = "ui" => gr[3] = its[s.i + 1] /\ gr[4] = its[s.u + 1]
      /\ s.at \in {"up", "down"} => gr[3] = its[s.u] /\ (s.i < n => gr[4] = its[s.i + 1])
      /\ s.at = "down" /\ s.j >= 0 => gr[d] = its[s.j + 1]
  BY <1>2, <1>4, <1>5, <1>6
<1> QED
  BY <1>7 DEF SortSlots, d

\* b is a with the function and copies of two slots on top.
Asks(a, b, d, m, k) ==
    /\ Good(b) /\ b.lists = a.lists /\ Len(b.frame) = d + 3
    /\ \A p \in 1..d : b.frame[p] = a.frame[p]
    /\ b.frame[d + 1] = a.frame[2] /\ b.frame[d + 2] = a.frame[d + 1 + m]
    /\ b.frame[d + 3] = a.frame[d + 1 + k]
    /\ ValueAt(b, -3) = a.frame[2]

\* The function and copies of the slots compared, on top.
LEMMA PushedCompared ==
    ASSUME NEW a, Good(a), NEW d \in 3..5, Len(a.frame) = d, NEW m \in -3..-1, NEW k \in -2..-1,
           d + 1 + m \in 1..d, d + 1 + k \in 1..d
    PROVE  Asks(a, tea_push_value(tea_push_value(tea_push_value(a, 1), m - 1), k - 2), d, m, k)
<1> DEFINE b1 == tea_push_value(a, 1)
           b2 == tea_push_value(b1, m - 1)
           b == tea_push_value(b2, k - 2)
<1>1. Grown(a, b1, a.frame[2])
  <2>1. 2 \in 1..Len(a.frame) /\ 1 = 2 - 1 /\ 1 \in Int
    OBVIOUS
  <2> QED
    BY <2>1, PushValueGood
<1> HIDE DEF b1
<1>2. /\ Good(b1) /\ b1.lists = a.lists /\ Len(b1.frame) = d + 1 /\ b1.frame[d + 1] = a.frame[2]
      /\ \A p \in 1..d : b1.frame[p] = a.frame[p]
  BY <1>1 DEF Grown
<1>3. Grown(b1, b2, b1.frame[d + 1 + m])
  <2> DEFINE p == d + 1 + m
             i == m - 1
  <2>1. p \in 1..Len(b1.frame) /\ i \in Int /\ i = p - Len(b1.frame) - 1 /\ Len(b1.frame) < 100
    BY <1>2
  <2> HIDE DEF p, i
  <2>2. Grown(b1, tea_push_value(b1, i), b1.frame[p])
    BY <1>2, <2>1, PushValueGood
  <2> QED
    BY <2>2 DEF p, i
<1> HIDE DEF b2
<1>4. /\ Good(b2) /\ b2.lists = a.lists /\ Len(b2.frame) = d + 2 /\ b2.frame[d + 1] = a.frame[2]
      /\ b2.frame[d + 2] = a.frame[d + 1 + m]
      /\ \A p \in 1..d : b2.frame[p] = a.frame[p]
  <2>1. d + 1 + 1 = d + 2 /\ d + 1 \in 1..d + 1 /\ \A p \in 1..d : p \in 1..d + 1
    OBVIOUS
  <2>2. /\ Good(b2) /\ b2.lists = b1.lists /\ Len(b2.frame) = Len(b1.frame) + 1
        /\ b2.frame[Len(b1.frame) + 1] = b1.frame[d + 1 + m]
        /\ \A p \in 1..Len(b1.frame) : b2.frame[p] = b1.frame[p]
    BY <1>3 DEF Grown
  <2>3. Len(b2.frame) = d + 2 /\ b2.frame[d + 2] = a.frame[d + 1 + m]
    BY <1>2, <2>1, <2>2
  <2>4. \A p \in 1..d + 1 : b2.frame[p] = b1.frame[p]
    BY <1>2, <2>2
  <2>5. \A p \in 1..d : b2.frame[p] = a.frame[p]
    BY <1>2, <2>1, <2>4
  <2> QED
    BY <1>2, <2>1, <2>2, <2>3, <2>4, <2>5
<1>5. Grown(b2, b, b2.frame[d + 1 + k])
  <2> DEFINE p == d + 1 + k
             i == k - 2
  <2>1. p \in 1..Len(b2.frame) /\ i \in Int /\ i = p - Len(b2.frame) - 1 /\ Len(b2.frame) < 100
    <3>1. Len(b2.frame) = d + 2
      BY <1>4
    <3> HIDE DEF b2
    <3>2. p \in 1..d + 2 /\ i \in Int /\ i = p - (d + 2) - 1 /\ d + 2 < 100
      OBVIOUS
    <3> QED
      BY <3>1, <3>2
  <2> HIDE DEF p, i
  <2>2. Grown(b2, tea_push_value(b2, i), b2.frame[p])
    BY <1>4, <2>1, PushValueGood
  <2> QED
    BY <2>2 DEF p, i
<1> HIDE DEF b
<1>6. /\ Good(b) /\ b.lists = a.lists /\ Len(b.frame) = d + 3 /\ b.frame[d + 3] = a.frame[d + 1 + k]
      /\ \A p \in 1..d + 2 : b.frame[p] = b2.frame[p]
  <2>1. d + 2 + 1 = d + 3
    OBVIOUS
  <2>2. /\ Good(b) /\ b.lists = b2.lists /\ Len(b.frame) = Len(b2.frame) + 1
        /\ b.frame[Len(b2.frame) + 1] = b2.frame[d + 1 + k]
        /\ \A p \in 1..Len(b2.frame) : b.frame[p] = b2.frame[p]
    BY <1>5 DEF Grown
  <2>3. Len(b.frame) = d + 3 /\ b.frame[d + 3] = a.frame[d + 1 + k]
    BY <1>4, <2>1, <2>2
  <2> QED
    BY <1>4, <2>2, <2>3
<1>7. d + 1 \in 1..d + 2 /\ d + 2 \in 1..d + 2 /\ \A p \in 1..d : p \in 1..d + 2
  OBVIOUS
<1>8. /\ \A p \in 1..d : b.frame[p] = a.frame[p]
      /\ b.frame[d + 1] = a.frame[2] /\ b.frame[d + 2] = a.frame[d + 1 + m]
  BY <1>4, <1>6, <1>7
<1>9. ValueAt(b, -3) = a.frame[2]
  <2> DEFINE p == d + 1
             i == -3
  <2>1. p \in 1..Len(b.frame) /\ i \in Int /\ i = p - Len(b.frame) - 1 /\ Len(b.frame) < 100
    BY <1>6
  <2> HIDE DEF p, i
  <2>2. ValueAt(b, i) = b.frame[p]
    BY <1>6, <2>1, SlotValue
  <2> QED
    BY <1>8, <2>2 DEF p, i
<1> QED
  <2>1. Asks(a, b, d, m, k)
    BY <1>6, <1>8, <1>9 DEF Asks
  <2> QED
    BY <2>1 DEF b, b2, b1

\* The slot of the comparator.
LEMMA SecondSlot ==
    ASSUME NEW a, Good(a), Len(a.frame) >= 2
    PROVE  tea_is_nil(a, 1) <=> a.frame[2] = Nil
<1>1. 2 \in 1..Len(a.frame) /\ 1 \in Int /\ 1 = 2 - 1
  BY GoodOK
<1>2. index2addr(a, 1) = a.frame[2]
  BY <1>1, SlotValue
<1> QED
  BY <1>2 DEF tea_is_nil

\* The comparator is called.
LEMMA CompareByCallStep ==
    ASSUME Typed, SortInv, CompareByCall
    PROVE  Typed' /\ SortInv' /\ job'.fn = "sort" /\ job'.pc \in {"called", "raised", "strayed"}
<1> DEFINE c == Compared(job.sort.at)
           b == tea_push_value(tea_push_value(tea_push_value(api, 1), c[1] - 1), c[2] - 2)
           s == job.sort
           its == api.lists[l1]
<1>1. job.pc = "turn" /\ job.fn = "sort" /\ ~tea_is_nil(api, 1) /\ Calls(b) /\ past' = past
  BY DEF CompareByCall
<1>2. job \in Jobs /\ past \in Pasts
  BY DEF Typed
<1> HIDE DEF b
<1>3. /\ api' = b /\ job' \in Jobs
      /\ job'.fn = "sort" /\ job'.len = job.len /\ job'.i = job.i /\ job'.sort = job.sort
      /\ job'.pc \in {"called", "raised", "strayed"}
      /\ job'.pc = "called" => Callee(b, Takes) = Fn
  BY <1>1, <1>2, CallsIs
<1>4. Typed'
  BY <1>1, <1>2, <1>3 DEF Typed
<1>5. CASE past.changed
  BY <1>1, <1>3, <1>4, <1>5 DEF SortInv, SortItems, SortFrame, SortCall, Sorting
<1>6. CASE ~past.changed
  <2>1. Sorting /\ Extra = 0
    BY <1>1, <1>6 DEF Sorting, Running, Extra
  <2>2. /\ its \in Seq(Key) /\ Len(its) = job.len /\ Len(Before) = Len(its) /\ ToBag(its) = ToBag(Before)
        /\ Good(api) /\ Comparator \in {Fn, Nil}
        /\ s \in Sorts /\ SortBounds(s, Len(its)) /\ D = Own(s, Len(its))
        /\ \/ Len(api.frame) = D + Extra /\ SortSlots(api.frame, s, its, Comparator)
           \/ Lost(api.frame, s) /\ job.pc = "turn" /\ past.lies > 0
        /\ past.lies = 0 => SortKnows(s, its)
    BY <2>1, SortAt
  <2>3. Before' = Before /\ Comparator' = Comparator
    BY <1>1 DEF Before, Comparator
  <2>4. D' = D
    BY <1>3 DEF D
  <2>5. Takes = 2 /\ -(2 + 1) = -3
    BY <1>1 DEF Takes
  <2>6. Len(its) \in Nat
    BY <2>2
  <2>7. CASE Len(api.frame) = D + Extra /\ SortSlots(api.frame, s, its, Comparator)
    <3>1. /\ D \in 3..5 /\ c[1] \in -3..-1 /\ c[2] \in -2..-1
          /\ D + 1 + c[1] \in 1..D /\ D + 1 + c[2] \in 1..D
      BY <2>2, <2>6, ComparedIn
    <3>2. Len(api.frame) = D /\ Len(api.frame) >= 2 /\ api.frame[2] = Comparator
      BY <2>1, <2>7, <3>1 DEF SortSlots
    <3>3. Comparator = Fn
      BY <1>1, <2>2, <3>2, SecondSlot
    <3> HIDE DEF c
    <3> DEFINE d == D
               m == c[1]
               k == c[2]
    <3>4. d \in 3..5 /\ m \in -3..-1 /\ k \in -2..-1 /\ d + 1 + m \in 1..d /\ d + 1 + k \in 1..d /\ Len(api.frame) = d
      BY <3>1, <3>2
    <3>5. b = tea_push_value(tea_push_value(tea_push_value(api, 1), m - 1), k - 2)
      BY DEF b, c
    <3> HIDE DEF d, m, k
    <3>6. /\ Good(b) /\ b.lists = api.lists /\ Len(b.frame) = d + 3
          /\ \A p \in 1..d : b.frame[p] = api.frame[p]
          /\ b.frame[d + 1] = api.frame[2] /\ b.frame[d + 2] = api.frame[d + 1 + m]
          /\ b.frame[d + 3] = api.frame[d + 1 + k]
      <4>1. Good(api)
        BY <2>2
      <4>2. Asks(api, b, d, m, k)
        BY <3>4, <3>5, <4>1, PushedCompared
      <4> QED
        BY <4>2 DEF Asks
    <3>7. SortSlots(b.frame, s, its, Comparator)
      <4>1. \A p \in 1..Own(s, Len(its)) : b.frame[p] = api.frame[p]
        BY <2>2, <3>6 DEF d
      <4> QED
        BY <2>2, <2>6, <2>7, <4>1, SlotsKept
    <3>8. b.frame[d + 2] = b.frame[d + 1 + m] /\ b.frame[d + 3] = b.frame[d + 1 + k] /\ b.frame[d + 1] = Fn
      BY <3>2, <3>3, <3>4, <3>6
    <3>9. SortItems'
      BY <1>1, <1>3, <2>2, <2>3, <3>6, GoodOK DEF SortItems, Good, Tidy
    <3>10. SortFrame'
      <4>1. SUFFICES ASSUME Sorting' PROVE SortFrame'
        BY DEF SortFrame
      <4>2. job'.pc = "called" /\ Extra' = 3
        BY <1>3, <4>1 DEF Sorting, Running, Extra
      <4> QED
        BY <1>1, <1>3, <2>2, <2>3, <2>4, <3>6, <3>7, <4>2 DEF SortFrame, d
    <3>11. SortCall'
      <4>1. SUFFICES ASSUME Sorting' PROVE SortCall'
        BY DEF SortCall
      <4>2. job'.pc = "called"
        BY <1>3, <4>1 DEF Sorting, Running
      <4> QED
        BY <1>3, <2>3, <2>4, <3>3, <3>8, <4>2 DEF SortCall, d, m, k, c
    <3> QED
      BY <1>3, <1>4, <3>9, <3>10, <3>11 DEF SortInv
  <2>8. CASE Lost(api.frame, s)
    <3>1. s.at = "lu" /\ Len(api.frame) = 3 /\ api.frame[2] \in Num
      BY <2>8 DEF Lost
    <3>2. c = <<-1, -2>>
      BY <3>1 DEF Compared
    <3> HIDE DEF c
    <3> DEFINE d == 3
               m == -1
               k == -2
    <3>3. d \in 3..5 /\ m \in -3..-1 /\ k \in -2..-1 /\ d + 1 + m \in 1..d /\ d + 1 + k \in 1..d /\ Len(api.frame) = d
      BY <3>1
    <3>4. b = tea_push_value(tea_push_value(tea_push_value(api, 1), m - 1), k - 2)
      BY <3>2 DEF b, c
    <3> HIDE DEF d, m, k
    <3>5. Good(b) /\ b.lists = api.lists /\ ValueAt(b, -3) = api.frame[2]
      <4>1. Good(api)
        BY <2>2
      <4>2. Asks(api, b, d, m, k)
        BY <3>3, <3>4, <4>1, PushedCompared
      <4> QED
        BY <4>2 DEF Asks
    <3>6. Callee(b, 2) = api.frame[2]
      BY <2>5, <3>5 DEF Callee
    <3>7. job'.pc # "called"
      BY <1>3, <2>5, <3>1, <3>6, Kinds DEF Atom
    <3>8. SortItems'
      BY <1>1, <1>3, <2>2, <2>3, <3>5, GoodOK DEF SortItems, Good, Tidy
    <3> QED
      BY <1>3, <1>4, <3>7, <3>8 DEF SortInv, SortFrame, SortCall, Sorting, Running
  <2> QED
    BY <2>2, <2>7, <2>8
<1> QED
  BY <1>3, <1>5, <1>6

\* What a step that resumes a sort does to the rest of the state.
LEMMA ResumedIs ==
    ASSUME Typed, NEW r, Resumed(r), r.s \in Sorts, past' = past, job.pc # "idle", job.fn = "sort"
    PROVE  /\ Typed' /\ api' = r.a /\ job'.fn = "sort" /\ job'.sort = r.s /\ job'.len = job.len
           /\ job'.pc = After(r.a, IF r.s.at = "none" THEN "done" ELSE "turn")
           /\ job'.pc \in {"turn", "done", "raised", "strayed"}
<1> DEFINE to == After(r.a, IF r.s.at = "none" THEN "done" ELSE "turn")
<1>1. /\ to \in {"raised", "strayed", IF r.s.at = "none" THEN "done" ELSE "turn"}
  BY AfterIs
<1>2. to \in {"turn", "done", "raised", "strayed"} /\ (to = "turn" => r.s.at # "none")
  BY <1>1
<1>3. api' = r.a /\ job' = [job EXCEPT !.sort = r.s, !.pc = to]
  BY DEF Resumed
<1> HIDE DEF to
<1>4. job \in Jobs /\ past \in Pasts
  BY DEF Typed
<1>5. job' \in Jobs /\ job'.pc = to /\ job'.fn = "sort" /\ job'.sort = r.s /\ job'.len = job.len
  BY <1>2, <1>3, <1>4 DEF Jobs, Pcs
<1>6. Typed'
  BY <1>2, <1>4, <1>5 DEF Typed
<1> QED
  BY <1>2, <1>3, <1>5, <1>6 DEF to

\* A sort is resumed where it was.
LEMMA ResumedSort ==
    ASSUME Typed, SortInv, Sorting, NEW r, Resumed(r), past' = past,
           NEW honest \in BOOLEAN, honest <=> past.lies = 0,
           SortPost(r, api.lists[l1], Comparator, honest)
    PROVE  Typed' /\ SortInv' /\ job'.fn = "sort"
<1> DEFINE its == api.lists[l1]
           f == Comparator
<1>1. job.fn = "sort" /\ job.pc # "idle" /\ ~past.changed
  BY DEF Sorting, Running
<1>2. r.s \in Sorts
  BY DEF SortPost
<1>3. /\ Typed' /\ api' = r.a /\ job'.fn = "sort" /\ job'.sort = r.s /\ job'.len = job.len
      /\ job'.pc = After(r.a, IF r.s.at = "none" THEN "done" ELSE "turn")
  BY <1>1, <1>2, ResumedIs
<1>4. its \in Seq(Key) /\ Len(its) = job.len /\ Len(Before) = Len(its) /\ ToBag(its) = ToBag(Before)
      /\ f \in {Fn, Nil} /\ past.lies \in Nat
  BY SortAt
<1>5. Before' = Before /\ f = Comparator'
  BY DEF Before, Comparator
<1>6. Len(Before') = Len(its) /\ ToBag(its) = ToBag(Before') /\ job'.len = Len(its) /\ ~past'.changed /\ past'.lies \in Nat
  BY <1>1, <1>3, <1>4, <1>5
<1>7. SortPost(r, its, f, honest) /\ (past'.lies = 0 => honest) /\ (honest => past'.lies = 0)
  OBVIOUS
<1> HIDE DEF its, f
<1>8. SortInv'
  BY <1>3, <1>4, <1>5, <1>6, <1>7, SortGoesOn
<1> QED
  BY <1>3, <1>8

\* A check that fails ends a sort.
LEMMA FailedSort ==
    ASSUME Typed, job.fn = "sort", job.pc \in {"turn", "answered"}, SortInv, past' = past,
           NEW a, ~past.changed => a \in Apis /\ a.fails /\ a.lists = api.lists /\ Tidy(a, past.lies = 0),
           Resumed(Wait(a, job.sort, "none"))
    PROVE  Typed' /\ SortInv' /\ job'.fn = "sort"
<1> DEFINE r == Wait(a, job.sort, "none")
<1>1. job.sort \in Sorts
  BY DEF Typed, Jobs
<1>2. r.a = a /\ r.s \in Sorts
  BY <1>1, WaitOK
<1>3. Resumed(r)
  OBVIOUS
<1> HIDE DEF r
<1>4. Typed' /\ job'.fn = "sort"
  BY <1>2, <1>3, ResumedIs
<1>5. CASE past.changed
  BY <1>4, <1>5 DEF SortInv, SortItems, SortFrame, SortCall, Sorting
<1>6. CASE ~past.changed
  <2> DEFINE its == api.lists[l1]
             honest == past.lies = 0
  <2>1. Sorting
    BY <1>6 DEF Sorting, Running
  <2>2. its \in Seq(Key) /\ a.lists[l1] = its
    BY <1>6, <2>1, SortAt
  <2>3. Same(a, its) /\ ~Good(a)
    BY <1>6, <2>2 DEF Same, Good
  <2>4. honest \in BOOLEAN /\ (honest <=> past.lies = 0) /\ Tidy(a, honest)
    BY <1>6
  <2> HIDE DEF its, honest
  <2>5. SortPost(r, its, Comparator, honest)
    BY <1>2, <2>3, <2>4, MisusedPost
  <2> QED
    BY <1>3, <2>1, <2>4, <2>5, ResumedSort DEF its
<1> QED
  BY <1>5, <1>6

\* The outcome of a comparison is used.
LEMMA UsedSort ==
    ASSUME Typed, SortInv, job.fn = "sort", job.pc \in {"turn", "answered"}, past' = past,
           NEW a, NEW less, Resumed(auxsort(a, job.sort, less)),
           ~past.changed => /\ Placed(a, job.sort, Comparator) /\ a.lists[l1] = api.lists[l1] /\ less \in BOOLEAN
                            /\ past.lies = 0 => (less <=> Smaller(job.sort, api.lists[l1]))
    PROVE  Typed' /\ SortInv' /\ job'.fn = "sort"
<1> DEFINE r == auxsort(a, job.sort, less)
<1>1. job.sort \in Sorts /\ job.sort.at # "none"
  BY DEF Typed, Jobs
<1>2. r.s \in Sorts
  BY <1>1, AuxSorts
<1>3. Resumed(r)
  OBVIOUS
<1>4. Typed' /\ job'.fn = "sort"
  <2> HIDE DEF r
  <2> QED
    BY <1>2, <1>3, ResumedIs
<1>5. CASE past.changed
  BY <1>4, <1>5 DEF SortInv, SortItems, SortFrame, SortCall, Sorting
<1>6. CASE ~past.changed
  <2> DEFINE its == api.lists[l1]
             honest == past.lies = 0
             s == job.sort
             f == Comparator
  <2>1. Sorting
    BY <1>6 DEF Sorting, Running
  <2>2. its \in Seq(Key) /\ (past.lies = 0 => SortKnows(s, its))
    BY <2>1, SortAt
  <2>3. honest \in BOOLEAN /\ (honest <=> past.lies = 0)
    OBVIOUS
  <2>4. Asked(a, s, its, f, honest, less)
    BY <1>1, <1>6, <2>2 DEF Asked
  <2> HIDE DEF its, honest, s, f
  <2>5. SortPost(auxsort(a, s, less), its, f, honest)
    BY <2>3, <2>4, AuxPost
  <2>6. SortPost(r, api.lists[l1], Comparator, honest)
    BY <2>5 DEF its, s, f
  <2> HIDE DEF r
  <2> QED
    BY <1>3, <2>1, <2>3, <2>6, ResumedSort
<1> QED
  BY <1>5, <1>6

\* Numbers are compared.
LEMMA CompareNumbersStep ==
    ASSUME Typed, SortInv, CompareNumbers
    PROVE  Typed' /\ SortInv' /\ job'.fn = "sort"
<1> DEFINE c == Compared(job.sort.at)
           m == c[1]
           k == c[2]
           b == Check(api, m, Num)
           a == Check(b, k, Num)
           lower == ValueAt(a, m) < ValueAt(a, k)
           s == job.sort
           its == api.lists[l1]
<1>1. /\ job.pc = "turn" /\ job.fn = "sort" /\ tea_is_nil(api, 1) /\ past' = past
      /\ a.fails => Resumed(Wait(a, s, "none"))
      /\ ~a.fails => Resumed(auxsort(a, s, lower))
  BY DEF CompareNumbers
<1>2. ASSUME ~past.changed
      PROVE  /\ a \in Apis /\ a.lists = api.lists /\ Tidy(a, past.lies = 0)
             /\ ~a.fails =>
                  /\ Placed(a, s, Comparator) /\ lower \in BOOLEAN
                  /\ past.lies = 0 => (lower <=> Smaller(s, its))
  <2>1. Sorting /\ Extra = 0
    BY <1>1, <1>2 DEF Sorting, Running, Extra
  <2>2. /\ its \in Seq(Key) /\ Good(api) /\ Comparator \in {Fn, Nil}
        /\ s \in Sorts /\ SortBounds(s, Len(its)) /\ D = Own(s, Len(its))
        /\ \/ Len(api.frame) = D + Extra /\ SortSlots(api.frame, s, its, Comparator)
           \/ Lost(api.frame, s)
        /\ past.lies = 0 => SortKnows(s, its)
    BY <2>1, SortAt
  <2>3. b \in Apis /\ b.lists = api.lists /\ b.frame = api.frame
    <3>1. api \in Apis
      BY <2>2, GoodOK
    <3> QED
      BY <3>1, CheckKeeps
  <2>4. a \in Apis /\ a.lists = b.lists /\ (b.fails => a.fails)
    <3> HIDE DEF b
    <3> QED
      BY <2>3, CheckKeeps
  <2>5. /\ D \in 3..5 /\ m \in -3..-1 /\ k \in -2..-1 /\ D + 1 + m \in 1..D /\ D + 1 + k \in 1..D
    <3>1. Len(its) \in Nat
      BY <2>2
    <3> QED
      BY <2>2, <3>1, ComparedIn
  <2>6. Len(api.frame) = D /\ SortSlots(api.frame, s, its, Comparator)
    <3>1. ~Lost(api.frame, s)
      <4>1. SUFFICES ASSUME Lost(api.frame, s) PROVE FALSE
        OBVIOUS
      <4>2. Len(api.frame) = 3 /\ api.frame[2] \in Num
        BY <4>1 DEF Lost
      <4>3. Len(api.frame) >= 2
        BY <4>2
      <4>4. api.frame[2] = Nil
        BY <1>1, <2>2, <4>3, SecondSlot
      <4> QED
        BY <4>2, <4>4, Kinds DEF Atom
    <3>2. D + Extra = D
      BY <2>1, <2>5
    <3> QED
      BY <2>2, <3>1, <3>2
  <2> HIDE DEF c, m, k, b, a, s, its
  <2> DEFINE p == D + 1 + m
             q == D + 1 + k
             x == api.frame[p]
             y == api.frame[q]
  <2>7. /\ p \in 1..Len(api.frame) /\ m \in Int /\ m = p - Len(api.frame) - 1
        /\ q \in 1..Len(api.frame) /\ k \in Int /\ k = q - Len(api.frame) - 1 /\ Len(api.frame) < 100
    <3>1. p \in 1..D /\ q \in 1..D /\ m \in Int /\ k \in Int /\ m = p - D - 1 /\ k = q - D - 1 /\ D < 100
      BY <2>5
    <3> QED
      BY <2>6, <3>1
  <2> HIDE DEF p, q
  <2>8. /\ ValueAt(api, m) = x /\ index2addr(api, m) = x /\ Valid(api, m)
        /\ ValueAt(api, k) = y /\ index2addr(api, k) = y /\ Valid(api, k)
    BY <2>2, <2>7, SlotValue
  <2>9. Tidy(a, past.lies = 0)
    <3>1. ~b.strays /\ ~b.misused
      <4>1. ~api.strays /\ ~api.misused /\ api \in Apis
        BY <2>2 DEF Good
      <4> QED
        BY <2>8, <4>1, CheckKeeps DEF b
    <3>2. Valid(b, k)
      BY <2>3, <2>8 DEF Valid, Position, tea_get_top
    <3> QED
      BY <2>3, <3>1, <3>2, CheckKeeps DEF a, Tidy
  <2>10. SUFFICES ASSUME ~a.fails
                 PROVE  /\ Placed(a, s, Comparator) /\ lower \in BOOLEAN
                        /\ past.lies = 0 => (lower <=> Smaller(s, its))
    BY <2>3, <2>4, <2>9
  <2>11. b = api /\ x \in Num
    <3>1. ~b.fails
      BY <2>4, <2>10
    <3>2. x \in Num => b = api
      BY <2>2, <2>7, <2>8, CheckGood DEF b
    <3>3. x \notin Num => b.fails
      BY <2>2, <2>7, <2>8, CheckGood DEF b
    <3> QED
      BY <3>1, <3>2, <3>3
  <2>12. a = api /\ y \in Num
    <3>1. y \in Num => a = api
      BY <2>2, <2>7, <2>8, <2>11, CheckGood, SMTT(20) DEF a
    <3>2. y \notin Num => a.fails
      BY <2>2, <2>7, <2>8, <2>11, CheckGood DEF a
    <3> QED
      BY <2>10, <3>1, <3>2
  <2>13. lower = (x < y) /\ x \in Int /\ y \in Int
    BY <2>8, <2>11, <2>12, Kinds
  <2>14. lower \in BOOLEAN
    BY <2>13
  <2>15. Placed(a, s, Comparator)
    BY <2>2, <2>6, <2>12 DEF Placed, its
  <2>16. ASSUME past.lies = 0 PROVE lower <=> Smaller(s, its)
    <3>1. SortKnows(s, its)
      BY <2>2, <2>16
    <3>2. Smaller(s, its) <=> api.frame[D + 1 + m] < api.frame[D + 1 + k]
      BY <2>2, <2>6, <3>1, ComparedItems DEF m, k, c, s
    <3> QED
      BY <2>13, <3>2 DEF p, q
  <2> QED
    BY <2>14, <2>15, <2>16
<1>3. CASE a.fails
  <2> HIDE DEF a
  <2> QED
    BY <1>1, <1>2, <1>3, FailedSort
<1>4. CASE ~a.fails
  <2>1. job.pc \in {"turn", "answered"} /\ (~past.changed => a.lists[l1] = api.lists[l1])
    BY <1>1, <1>2
  <2> HIDE DEF a, lower
  <2> QED
    BY <1>1, <1>2, <1>4, <2>1, UsedSort
<1> QED
  BY <1>3, <1>4

\* The answer of the comparator is used.
LEMMA UseComparisonStep ==
    ASSUME Typed, SortInv, UseComparison
    PROVE  Typed' /\ SortInv' /\ job'.fn = "sort"
<1> DEFINE a == Check(api, -1, {True, False})
           b == tea_pop(a, 1)
           yes == ValueAt(a, -1) = True
           s == job.sort
           its == api.lists[l1]
<1>1. /\ job.pc = "answered" /\ job.fn = "sort" /\ past' = past
      /\ a.fails => Resumed(Wait(a, s, "none"))
      /\ ~a.fails => Resumed(auxsort(b, s, yes))
  BY DEF UseComparison
<1>2. ASSUME ~past.changed
      PROVE  /\ a \in Apis /\ a.lists = api.lists /\ Tidy(a, past.lies = 0)
             /\ ~a.fails =>
                  /\ Placed(b, s, Comparator) /\ b.lists = api.lists
                  /\ past.lies = 0 => (yes <=> Smaller(s, its))
  <2>1. Sorting /\ Extra = 1
    BY <1>1, <1>2 DEF Sorting, Running, Extra
  <2>2. /\ its \in Seq(Key) /\ Good(api) /\ Comparator \in {Fn, Nil}
        /\ s \in Sorts /\ SortBounds(s, Len(its)) /\ D = Own(s, Len(its))
        /\ Len(api.frame) = D + 1 /\ SortSlots(api.frame, s, its, Comparator)
        /\ past.lies = 0 => SortKnows(s, its)
    BY <1>1, <2>1, SortAt
  <2>3. Len(its) \in Nat
    BY <2>2
  <2> DEFINE m == Compared(s.at)[1]
             k == Compared(s.at)[2]
             v == api.frame[D + 1]
             x == api.frame[D + 1 + m]
             y == api.frame[D + 1 + k]
  <2>4. D \in 3..5 /\ D + 1 + m \in 1..D /\ D + 1 + k \in 1..D
    BY <2>2, <2>3, ComparedIn
  <2>5. ValueAt(api, -1) = v /\ index2addr(api, -1) = v /\ Valid(api, -1) /\ -1 \in Int
    <3> DEFINE p == D + 1
               i == -1
    <3>1. p \in 1..Len(api.frame) /\ i \in Int /\ i = p - Len(api.frame) - 1 /\ Len(api.frame) < 100
      BY <2>2, <2>4
    <3> HIDE DEF p, i
    <3>2. ValueAt(api, i) = api.frame[p] /\ index2addr(api, i) = api.frame[p] /\ Valid(api, i)
      BY <2>2, <3>1, SlotValue
    <3> QED
      BY <3>1, <3>2 DEF p, i
  <2>6. a \in Apis /\ a.lists = api.lists /\ Tidy(a, past.lies = 0)
    <3>1. api \in Apis
      BY <2>2, GoodOK
    <3> QED
      BY <2>2, <2>5, <3>1, CheckKeeps DEF Good, Tidy
  <2>7. SUFFICES ASSUME ~a.fails
                 PROVE  /\ Placed(b, s, Comparator) /\ b.lists = api.lists
                        /\ past.lies = 0 => (yes <=> Smaller(s, its))
    BY <2>6
  <2>8. a = api /\ v \in {True, False}
    <3>1. v \in {True, False} => a = api
      BY <2>2, <2>5, CheckGood
    <3>2. v \notin {True, False} => a.fails
      BY <2>2, <2>5, CheckGood
    <3> QED
      BY <2>7, <3>1, <3>2
  <2> HIDE DEF a, s, its
  <2>9. Dropped(api, b, 1)
    <3>1. 1 \in 0..Len(api.frame)
      BY <2>2, <2>4
    <3> QED
      BY <2>2, <2>8, <3>1, PopGood
  <2> HIDE DEF b
  <2>10. Good(b) /\ b.lists = api.lists /\ Len(b.frame) = D /\ \A p \in 1..D : b.frame[p] = api.frame[p]
    <3>1. Len(api.frame) - 1 = D
      BY <2>2, <2>4
    <3>2. /\ Good(b) /\ b.lists = api.lists /\ Len(b.frame) = Len(api.frame) - 1
          /\ \A p \in 1..Len(api.frame) - 1 : b.frame[p] = api.frame[p]
      BY <2>9 DEF Dropped
    <3> QED
      BY <3>1, <3>2
  <2>11. SortSlots(b.frame, s, its, Comparator)
    <3>1. \A p \in 1..Own(s, Len(its)) : b.frame[p] = api.frame[p]
      BY <2>2, <2>10
    <3> QED
      BY <2>2, <2>3, <3>1, SlotsKept
  <2>12. Placed(b, s, Comparator)
    BY <2>2, <2>10, <2>11 DEF Placed, its
  <2>13. ASSUME past.lies = 0 PROVE yes <=> Smaller(s, its)
    <3>1. SortKnows(s, its)
      BY <2>2, <2>13
    <3>2. x \in Key /\ y \in Key /\ (Smaller(s, its) <=> x < y)
      BY <2>2, <3>1, ComparedItems
    <3>3. v = Order(x, y)
      BY <1>1, <2>1, <2>13 DEF SortInv, SortCall, s
    <3>4. IsNum(x) /\ IsNum(y)
      BY <3>2, LibConstantsOK DEF IsNum
    <3>5. v = True <=> x < y
      <4>1. True # False
        BY Kinds
      <4> HIDE DEF x, y, v
      <4> QED
        BY <3>3, <3>4, <4>1 DEF Order, Bool
    <3> QED
      BY <2>5, <2>8, <3>2, <3>5
  <2> QED
    BY <2>10, <2>12, <2>13
<1>3. CASE a.fails
  <2>1. ~past.changed => a \in Apis /\ a.fails /\ a.lists = api.lists /\ Tidy(a, past.lies = 0)
    BY <1>2, <1>3
  <2>2. job.pc \in {"turn", "answered"}
    BY <1>1
  <2> HIDE DEF a
  <2> QED
    BY <1>1, <1>3, <2>1, <2>2, FailedSort
<1>4. CASE ~a.fails
  <2>1. job.pc \in {"turn", "answered"} /\ (~past.changed => b.lists[l1] = api.lists[l1]) /\ yes \in BOOLEAN
    BY <1>1, <1>2, <1>4
  <2> HIDE DEF b, a, yes
  <2> QED
    BY <1>1, <1>2, <1>4, <2>1, UsedSort
<1> QED
  BY <1>3, <1>4

\* The arguments of a comparator.
LEMMA TwoArguments ==
    ASSUME NEW a, Good(a), NEW d \in 3..5, Len(a.frame) = d + 3
    PROVE  /\ Arguments(a, 2)[1] = a.frame[d + 2] /\ Arguments(a, 2)[2] = a.frame[d + 3]
           /\ ToSet(Arguments(a, 2)) \subseteq {a.frame[d + 2], a.frame[d + 3]}
<1> DEFINE fr == a.frame
           p == d + 2
           q == d + 3
           args == SubSeq(fr, p, q)
<1>1. fr \in Seq(Value) /\ Len(fr) = q /\ p \in Int /\ q \in Int /\ q = p + 1 /\ 1 <= p
  BY GoodOK
<1>2. Arguments(a, 2) = args
  <2>1. d + 3 - 2 + 1 = d + 2
    OBVIOUS
  <2> QED
    BY <2>1 DEF Arguments, tea_get_top
<1> HIDE DEF fr, p, q
<1>3. args = [z \in 1..q - p + 1 |-> fr[z + p - 1]]
  BY <1>1
<1>4. q - p + 1 = 2 /\ 1 + p - 1 = p /\ 2 + p - 1 = q /\ 1 \in 1..2 /\ 2 \in 1..2
  BY <1>1
<1> HIDE DEF args
<1>5. args = [z \in 1..2 |-> fr[z + p - 1]]
  BY <1>3, <1>4
<1>6. args[1] = fr[p] /\ args[2] = fr[q] /\ DOMAIN args = 1..2
  BY <1>4, <1>5
<1>7. \A z \in 1..2 : z = 1 \/ z = 2
  OBVIOUS
<1>8. ToSet(args) \subseteq {fr[p], fr[q]}
  BY <1>6, <1>7 DEF ToSet
<1> QED
  BY <1>2, <1>6, <1>8 DEF fr, p, q

\* The comparator answers.
LEMMA AnswerSortStep ==
    ASSUME Typed, SortInv, AnswerCall, job.fn = "sort"
    PROVE  Typed' /\ SortInv' /\ job'.fn = "sort"
<1> DEFINE s == job.sort
           its == api.lists[l1]
<1>1. /\ job.pc = "called" /\ Typed'
      /\ job'.fn = "sort" /\ job'.len = job.len /\ job'.sort = s /\ job'.pc = "answered"
  BY AnswerOf
<1>2. Takes = 2
  BY DEF Takes
<1>3. PICK v \in Value :
         /\ api' = Answered(api, 2, v)
         /\ past'.args = past.args /\ past'.lists = past.lists /\ past'.changed = past.changed
         /\ past'.lies = 0 => past.lies = 0 /\ v = Order(Arguments(api, 2)[1], Arguments(api, 2)[2])
  BY <1>2, AnswerOf
<1>4. CASE past.changed
  BY <1>1, <1>3, <1>4 DEF SortInv, SortItems, SortFrame, SortCall, Sorting
<1>5. CASE ~past.changed
  <2>1. Sorting /\ Extra = 3
    BY <1>1, <1>5 DEF Sorting, Running, Extra
  <2>2. /\ its \in Seq(Key) /\ Len(its) = job.len /\ Len(Before) = Len(its) /\ ToBag(its) = ToBag(Before)
        /\ Good(api) /\ Comparator \in {Fn, Nil}
        /\ s \in Sorts /\ SortBounds(s, Len(its)) /\ D = Own(s, Len(its))
        /\ Len(api.frame) = D + 3 /\ SortSlots(api.frame, s, its, Comparator)
        /\ past.lies = 0 => SortKnows(s, its)
    BY <1>1, <2>1, SortAt
  <2>3. Len(its) \in Nat
    BY <2>2
  <2> DEFINE m == Compared(s.at)[1]
             k == Compared(s.at)[2]
             b == Answered(api, 2, v)
             x == api.frame[D + 2]
             y == api.frame[D + 3]
  <2>4. D \in 3..5 /\ D + 1 + m \in 1..D /\ D + 1 + k \in 1..D
    BY <2>2, <2>3, ComparedIn
  <2>5. x = api.frame[D + 1 + m] /\ y = api.frame[D + 1 + k] /\ Comparator = Fn
    BY <1>1, <2>1 DEF SortInv, SortCall
  <2>6. Arguments(api, 2)[1] = x /\ Arguments(api, 2)[2] = y
    <3> DEFINE d == D
    <3>1. d \in 3..5 /\ Len(api.frame) = d + 3 /\ Good(api)
      BY <2>2, <2>4
    <3> HIDE DEF d
    <3>2. Arguments(api, 2)[1] = api.frame[d + 2] /\ Arguments(api, 2)[2] = api.frame[d + 3]
      BY <3>1, TwoArguments
    <3> QED
      BY <3>2 DEF d
  <2> HIDE DEF s, its
  <2>7. /\ Good(b) /\ b.lists = api.lists /\ Len(b.frame) = D + 1 /\ b.frame[D + 1] = v
        /\ \A p \in 1..D : b.frame[p] = api.frame[p]
    <3>1. 2 \in Nat /\ D \in Nat /\ Len(api.frame) = D + (2 + 1) /\ Good(api)
      BY <2>2, <2>4
    <3> QED
      BY <3>1, AnsweredAt
  <2>8. api' = b
    BY <1>3
  <2> HIDE DEF b
  <2>9. SortSlots(b.frame, s, its, Comparator)
    <3>1. \A p \in 1..Own(s, Len(its)) : b.frame[p] = api.frame[p]
      BY <2>2, <2>7
    <3> QED
      BY <2>2, <2>3, <3>1, SlotsKept
  <2>10. Before' = Before /\ Comparator' = Comparator
    BY <1>3 DEF Before, Comparator
  <2>11. D' = D /\ Extra' = 1
    BY <1>1 DEF D, Extra, s
  <2>12. SortItems'
    BY <1>1, <1>3, <2>2, <2>7, <2>8, <2>10, GoodOK DEF SortItems, Good, Tidy, its
  <2>13. SortFrame'
    <3>1. /\ Good(api') /\ Comparator' \in {Fn, Nil} /\ SortBounds(job'.sort, job'.len)
          /\ Len(api'.frame) = D' + Extra' /\ SortSlots(api'.frame, job'.sort, api'.lists[l1], Comparator')
      BY <1>1, <2>2, <2>7, <2>8, <2>9, <2>10, <2>11 DEF its
    <3>2. past'.lies = 0 => SortKnows(job'.sort, api'.lists[l1])
      BY <1>1, <1>3, <2>2, <2>7, <2>8 DEF its
    <3> QED
      BY <3>1, <3>2 DEF SortFrame
  <2>14. SortCall'
    <3>1. b.frame[D + 1 + m] = x /\ b.frame[D + 1 + k] = y
      BY <2>4, <2>5, <2>7
    <3>2. past'.lies = 0 => b.frame[D + 1] = Order(b.frame[D + 1 + m], b.frame[D + 1 + k])
      BY <1>3, <2>6, <2>7, <3>1
    <3>3. Comparator' = Fn
      BY <2>5, <2>10
    <3> QED
      BY <1>1, <2>8, <2>11, <3>2, <3>3 DEF SortCall, s
  <2> QED
    BY <1>1, <2>12, <2>13, <2>14 DEF SortInv
<1> QED
  BY <1>4, <1>5

\* A list is changed by the comparator.
LEMMA ChangeSortStep ==
    ASSUME Typed, ChangeList, job.fn = "sort"
    PROVE  Typed' /\ SortInv' /\ job'.fn = "sort"
<1>1. Typed' /\ job' = job /\ past'.changed
  BY ChangeIs
<1> QED
  BY <1>1 DEF SortInv, SortItems, SortFrame, SortCall, Sorting

\* Sorting works.
LEMMA SortGivesWorks ==
    ASSUME Typed, SortInv, job.pc = "idle" => job.fn = "none"
    PROVE  SortWorks
<1>1. SortsItems
  <2>1. SUFFICES ASSUME job.fn = "sort", ~past.changed
                 PROVE  /\ ToBag(api.lists[l1]) = ToBag(Before)
                        /\ job.pc = "done" /\ past.lies = 0 =>
                             \A p \in 1..job.len - 1 : api.lists[l1][p] <= api.lists[l1][p + 1]
    BY DEF SortsItems
  <2> DEFINE its == api.lists[l1]
  <2>2. /\ its \in Seq(Key) /\ Len(its) = job.len /\ ToBag(its) = ToBag(Before)
        /\ job.pc = "done" /\ past.lies = 0 => Ordered(its, << >>)
    BY <2>1 DEF SortInv, SortItems
  <2>3. SUFFICES ASSUME job.pc = "done", past.lies = 0, NEW p \in 1..job.len - 1
                 PROVE  its[p] <= its[p + 1]
    BY <2>2
  <2>4. job.len \in Nat
    BY <2>2
  <2> DEFINE q == p - 1
  <2>5. q \in 0..job.len - 1 /\ p \in 0..job.len - 1 /\ q < p /\ q + 1 = p
    BY <2>4
  <2>6. ~Covered(<< >>, q, p)
    BY DEF Covered
  <2>7. Ordered(its, << >>) /\ q \in 0..Len(its) - 1 /\ p \in 0..Len(its) - 1
    BY <2>2, <2>3, <2>5
  <2> HIDE DEF q, its
  <2>8. its[q + 1] <= its[p + 1]
    BY <2>5, <2>6, <2>7 DEF Ordered
  <2> QED
    BY <2>5, <2>8
<1>2. ComparesItems
  <2>1. SUFFICES ASSUME past.lies = 0, job.fn = "sort", job.pc = "called", ~past.changed
                 PROVE  Callee(api, 2) = past.args[1] /\ ToSet(Arguments(api, 2)) \subseteq ToSet(Before)
    BY DEF ComparesItems, AlwaysComparesItems
  <2> DEFINE s == job.sort
             its == api.lists[l1]
             m == Compared(s.at)[1]
             k == Compared(s.at)[2]
             x == api.frame[D + 2]
             y == api.frame[D + 3]
  <2>2. Sorting /\ Extra = 3
    BY <2>1 DEF Sorting, Running, Extra
  <2>3. /\ its \in Seq(Key) /\ Len(its) = job.len /\ Len(Before) = Len(its) /\ ToBag(its) = ToBag(Before)
        /\ Good(api) /\ Comparator \in {Fn, Nil}
        /\ s \in Sorts /\ SortBounds(s, Len(its)) /\ D = Own(s, Len(its))
        /\ Len(api.frame) = D + 3 /\ SortSlots(api.frame, s, its, Comparator)
        /\ SortKnows(s, its)
    BY <2>1, <2>2, SortAt
  <2>4. Len(its) \in Nat
    BY <2>3
  <2>5. D \in 3..5 /\ D + 1 + m \in 1..D /\ D + 1 + k \in 1..D
    BY <2>3, <2>4, ComparedIn
  <2>6. x = api.frame[D + 1 + m] /\ y = api.frame[D + 1 + k] /\ Comparator = Fn /\ api.frame[D + 1] = Fn
    BY <2>1, <2>2 DEF SortInv, SortCall
  <2>7. past.args[1] = Fn
    BY <2>6, Kinds DEF Comparator
  <2>8. Callee(api, 2) = Fn
    <3> DEFINE p == D + 1
               i == -(2 + 1)
    <3>1. p \in 1..Len(api.frame) /\ i \in Int /\ i = p - Len(api.frame) - 1 /\ Len(api.frame) < 100
      BY <2>3, <2>5
    <3> HIDE DEF p, i
    <3>2. ValueAt(api, i) = api.frame[p]
      BY <2>3, <3>1, SlotValue
    <3> QED
      BY <2>6, <3>2 DEF p, i, Callee
  <2>9. \A z \in ToSet(Arguments(api, 2)) : z \in ToSet(its)
    <3> DEFINE d == D
    <3>1. d \in 3..5 /\ Len(api.frame) = d + 3 /\ Good(api)
      BY <2>3, <2>5
    <3> HIDE DEF d
    <3>2. ToSet(Arguments(api, 2)) \subseteq {api.frame[d + 2], api.frame[d + 3]}
      BY <3>1, TwoArguments
    <3>3. x \in Range(its) /\ y \in Range(its)
      BY <2>3, <2>6, ComparedItems
    <3>4. \A r : ToSet(r) = Range(r)
      BY DEF ToSet, Range
    <3> QED
      BY <3>2, <3>3, <3>4 DEF d
  <2>10. ToSet(its) = ToSet(Before)
    <3>1. \A r : ToSet(r) = Range(r)
      BY DEF ToSet, Range
    <3> QED
      BY <2>3, <3>1, BagItems
  <2> QED
    BY <2>7, <2>8, <2>9, <2>10
<1> QED
  BY <1>1, <1>2 DEF SortWorks

\* The frame is set to two slots.
LEMMA TopOfTwo ==
    ASSUME NEW a, Good(a), Len(a.frame) \in 1..2
    PROVE  LET b == tea_set_top(a, 2) IN
           /\ Good(b) /\ b.lists = a.lists /\ Len(b.frame) = 2 /\ b.frame[1] = a.frame[1]
           /\ b.frame[2] = IF Len(a.frame) = 2 THEN a.frame[2] ELSE Nil
<1> DEFINE n == Len(a.frame)
           fr == [p \in 1..2 |-> IF p <= n THEN a.frame[p] ELSE Nil]
<1>1. a.frame \in Seq(Value) /\ n \in 1..2 /\ Nil \in Value /\ a \in Apis
  BY GoodOK, Kinds DEF Atom
<1>2. \A p \in 1..2 : (IF p <= n THEN a.frame[p] ELSE Nil) \in Value
  <2> SUFFICES ASSUME NEW p \in 1..2, p <= n PROVE a.frame[p] \in Value
    BY <1>1
  <2>1. p \in 1..Len(a.frame)
    BY <1>1
  <2> QED
    BY <1>1, <2>1
<1>3. fr \in [1..2 -> Value] /\ 2 \in Nat
  BY <1>2
<1>4. \A m \in Nat : \A g \in [1..m -> Value] : g \in Seq(Value) /\ Len(g) = m
  OBVIOUS
<1>5. fr \in Seq(Value) /\ Len(fr) = 2
  <2> HIDE DEF fr
  <2> QED
    BY <1>3, <1>4
<1>6. fr[1] = a.frame[1] /\ fr[2] = IF n = 2 THEN a.frame[2] ELSE Nil
  <2>1. 1 \in 1..2 /\ 2 \in 1..2 /\ 1 <= n /\ (2 <= n <=> n = 2)
    BY <1>1
  <2> HIDE DEF n
  <2> QED
    BY <2>1
<1>7. tea_set_top(a, 2) = [a EXCEPT !.frame = fr]
  <2>1. 2 >= 0
    OBVIOUS
  <2>2. Expect(a, 2 >= 0) = a
    BY <2>1, ExpectTrue, Zenon
  <2>3. tea_set_top(a, 2) = [Expect(a, 2 >= 0) EXCEPT !.frame = [p \in 1..2 |-> IF p <= n THEN @[p] ELSE Nil]]
    BY <2>1 DEF tea_set_top, tea_get_top
  <2>4. tea_set_top(a, 2) = [a EXCEPT !.frame = [p \in 1..2 |-> IF p <= n THEN @[p] ELSE Nil]]
    BY <2>2, <2>3, Zenon
  <2> QED
    BY <2>4
<1> HIDE DEF fr
<1> DEFINE b == [a EXCEPT !.frame = fr]
<1>8. /\ b \in Apis /\ b.frame = fr /\ b.lists = a.lists
      /\ b.fails = a.fails /\ b.misused = a.misused /\ b.strays = a.strays
  BY <1>1, <1>5, WithFrame
<1>9. tea_set_top(a, 2) = b
  BY <1>7
<1> HIDE DEF b, n
<1>10. Good(b) /\ Len(b.frame) = 2 /\ b.frame[1] = a.frame[1] /\ b.frame[2] = IF n = 2 THEN a.frame[2] ELSE Nil
  BY <1>5, <1>6, <1>8 DEF Good
<1> QED
  BY <1>8, <1>9, <1>10 DEF n

\* Nothing is sorted yet.
LEMMA ReadyAtFirst ==
    ASSUME NEW its \in Seq(Key)
    PROVE  Ready([NoSort EXCEPT !.u = Len(its) - 1], its, TRUE)
<1> DEFINE n == Len(its)
           u == n - 1
           s == [NoSort EXCEPT !.u = u]
<1>1. n \in Nat /\ u \in Int /\ u < n
  OBVIOUS
<1>2. s.l = 0 /\ s.u = u /\ s.rest = << >> /\ s \in Sorts
  <2> HIDE DEF u
  <2>1. << >> \in Seq(Range2) /\ 0 \in Int
    OBVIOUS
  <2> QED
    BY <1>1, <2>1 DEF NoSort, Sorts
<1> HIDE DEF s
<1>3. RestIn(s.rest, n)
  BY <1>2 DEF RestIn
<1>4. CASE 0 < u
  <2>1. Live(s) = Append(<< >>, <<0, u>>)
    BY <1>2, <1>4 DEF Live
  <2>2. Live(s) = << <<0, u>> >>
    BY <2>1
  <2> DEFINE R == << <<0, u>> >>
  <2>3. DOMAIN R = {1} /\ R[1][1] = 0 /\ R[1][2] = u
    BY <1>1
  <2>4. Apart(R)
    BY <2>3 DEF Apart
  <2>5. \A p, q \in 0..n - 1 : Covered(R, p, q)
    <3> SUFFICES ASSUME NEW p \in 0..n - 1, NEW q \in 0..n - 1 PROVE Covered(R, p, q)
      OBVIOUS
    <3>1. 0 <= p /\ q <= u
      BY <1>1
    <3> HIDE DEF R
    <3> QED
      BY <2>3, <3>1 DEF Covered
  <2>6. Ordered(its, R)
    BY <2>5 DEF Ordered
  <2>7. Apart(Live(s)) /\ Ordered(its, Live(s))
    BY <2>2, <2>4, <2>6
  <2>8. 0 <= s.l /\ s.u < n
    BY <1>1, <1>2
  <2> QED
    BY <1>2, <1>3, <2>7, <2>8 DEF Ready, s, u
<1>5. CASE ~(0 < u)
  <2>1. Live(s) = << >>
    BY <1>2, <1>5 DEF Live
  <2>2. Apart(<< >>)
    BY DEF Apart
  <2>3. Ordered(its, << >>)
    <3>1. ASSUME NEW p \in 0..n - 1, NEW q \in 0..n - 1, p < q PROVE FALSE
      BY <1>1, <1>5, <3>1
    <3> QED
      BY <3>1, SMTT(20) DEF Ordered
  <2> QED
    BY <1>1, <1>2, <1>3, <1>5, <2>1, <2>2, <2>3 DEF Ready, s, u
<1> QED
  BY <1>4, <1>5

\* A sort begins.
LEMMA CallSortStep ==
    ASSUME Typed, CallSort
    PROVE  Typed' /\ SortInv' /\ job'.fn = "sort" /\ job'.pc \in {"turn", "done", "raised", "strayed"}
<1> DEFINE its == api.lists[l1]
<1>1. PICK args \in ArgsOf("sort") :
         LET a == Enter(l1, args)
             b == IF tea_is_nonenil(a, 1) THEN a ELSE Check(a, 1, {Fn})
             r == Ranges(tea_set_top(b, 2), [NoSort EXCEPT !.u = tea_len(a, 0) - 1])
         IN  /\ api' = IF b.fails THEN b ELSE r.a
             /\ job' = [NoJob EXCEPT !.fn = "sort", !.sort = r.s, !.len = tea_len(a, 0), !.pc =
                            After(api', IF r.s.at = "none" THEN "done" ELSE "turn")]
             /\ past' = [NoPast EXCEPT !.lists = api.lists, !.args = args]
  BY DEF CallSort
<1> DEFINE a == Enter(l1, args)
           b == IF tea_is_nonenil(a, 1) THEN a ELSE Check(a, 1, {Fn})
           s0 == [NoSort EXCEPT !.u = tea_len(a, 0) - 1]
           c == tea_set_top(b, 2)
           r == Ranges(c, s0)
           to == After(api', IF r.s.at = "none" THEN "done" ELSE "turn")
<1>2. /\ api' = IF b.fails THEN b ELSE r.a
      /\ job' = [NoJob EXCEPT !.fn = "sort", !.sort = r.s, !.len = tea_len(a, 0), !.pc = to]
      /\ past' = [NoPast EXCEPT !.lists = api.lists, !.args = args]
  BY <1>1
<1>3. /\ job.pc = "idle" /\ \A p \in DOMAIN its : its[p] \in Key
  BY DEF CallSort
<1>4. args \in Seq(Value) /\ Len(args) \in 0..1
  <2>1. args \in Seq(Value)
    BY ArgsAreValues
  <2>2. Arity("sort") = {0, 1}
    BY DEF Arity
  <2>3. PICK n \in {0, 1} : args \in [1..n -> Arg]
    BY <2>2 DEF ArgsOf
  <2>4. n \in Nat /\ DOMAIN args = 1..n
    BY <2>3
  <2>5. Len(args) = n
    BY <2>1, <2>4
  <2> QED
    BY <2>1, <2>5
<1>5. /\ Good(a) /\ Len(a.frame) = Len(args) + 1 /\ a.frame[1] = l1
      /\ \A p \in 1..Len(args) : a.frame[p + 1] = args[p]
      /\ a.lists = api.lists /\ api.lists \in Lists
  <2>1. l1 \in Value
    BY Kinds
  <2> QED
    BY <1>3, <1>4, <2>1, EnterGood
<1> HIDE DEF a
<1>6. its \in Seq(Key) /\ tea_len(a, 0) = Len(its) /\ Len(its) \in Nat
  <2>1. its \in Seq(Value)
    BY <1>5, Kinds DEF Lists
  <2>2. its \in Seq(Key)
    <3>1. its \in [1..Len(its) -> Key] /\ Len(its) \in Nat
      BY <1>3, <2>1
    <3>2. \A m \in Nat : \A g \in [1..m -> Key] : g \in Seq(Key)
      OBVIOUS
    <3> HIDE DEF its
    <3> QED
      BY <3>1, <3>2
  <2>3. 0 \in Nat /\ 0 < Len(a.frame) /\ a.frame[0 + 1] = l1 /\ l1 \in List
    BY <1>4, <1>5, Kinds
  <2>4. tea_len(a, 0) = Len(a.lists[a.frame[0 + 1]])
    BY <1>5, <2>3, ListIn
  <2> QED
    BY <1>5, <2>2, <2>3, <2>4
<1>7. s0 = [NoSort EXCEPT !.u = Len(its) - 1]
  BY <1>6
<1>8. Ready(s0, its, TRUE) /\ s0 \in Sorts
  <2>1. Ready(s0, its, TRUE)
    BY <1>6, <1>7, ReadyAtFirst
  <2> HIDE DEF s0
  <2> QED
    BY <2>1 DEF Ready
<1> HIDE DEF s0
<1>9. r.s \in Sorts
  <2> HIDE DEF c
  <2> QED
    BY <1>8, RangesSorts
<1> HIDE DEF r
<1>10. to \in {"turn", "done", "raised", "strayed"} /\ (to = "turn" => r.s.at # "none")
  <2>1. to \in {"raised", "strayed", IF r.s.at = "none" THEN "done" ELSE "turn"}
    BY AfterIs
  <2> HIDE DEF to
  <2> QED
    BY <2>1
<1> HIDE DEF to
<1>11. /\ past' \in Pasts /\ past'.lists = api.lists /\ past'.args = args /\ past'.lies = 0
       /\ ~past'.changed /\ ~past'.shrunk
  <2>1. << >> \in Seq(Value) /\ 0 \in Nat
    OBVIOUS
  <2> QED
    BY <1>2, <1>4, <1>5, <2>1 DEF NoPast, Pasts
<1>12. /\ job' \in Jobs /\ job'.fn = "sort" /\ job'.pc = to /\ job'.sort = r.s /\ job'.len = Len(its)
  <2>1. job' = [NoJob EXCEPT !.fn = "sort", !.sort = r.s, !.len = Len(its), !.pc = to]
    BY <1>2, <1>6
  <2> QED
    BY <1>6, <1>9, <1>10, <2>1 DEF NoJob, Jobs, Fns, Pcs
<1>13. Typed'
  BY <1>5, <1>10, <1>11, <1>12 DEF Typed
<1>14. Before' = its
  BY <1>11 DEF Before
<1>15. b \in Apis /\ b.lists = api.lists /\ ~b.strays /\ ~b.misused
  <2>1. a \in Apis /\ ~a.strays /\ ~a.misused
    BY <1>5 DEF Good
  <2>2. Valid(a, 1)
    BY DEF Valid, Position
  <2> QED
    BY <1>5, <2>1, <2>2, CheckKeeps
<1>16. CASE b.fails
  <2>1. api' = b
    BY <1>2, <1>16
  <2>2. to = "raised"
    <3> HIDE DEF b
    <3> QED
      BY <1>16, <2>1 DEF After, to
  <2>3. SortItems'
    BY <1>6, <1>12, <1>14, <1>15, <2>1, <2>2 DEF SortItems, Tidy
  <2> QED
    BY <1>12, <1>13, <2>2, <2>3 DEF SortInv, SortFrame, SortCall, Sorting, Running
<1>17. CASE ~b.fails
  <2> DEFINE f == Comparator'
  <2>1. b = a /\ f \in {Fn, Nil} /\ f = IF Len(a.frame) = 2 THEN a.frame[2] ELSE Nil
    <3>1. CASE Len(args) = 0
      <4>1. Len(a.frame) = 1 /\ f = Nil
        BY <1>5, <1>11, <3>1 DEF Comparator
      <4>2. index2addr(a, 1) = NoValue
        <5>1. 1 >= 0 /\ ~(1 <= TEA_UPVALUES_INDEX) /\ Position(a, 1) = 2
          BY DEF TEA_UPVALUES_INDEX, Position
        <5>2. 2 \notin DOMAIN a.frame
          BY <1>5, <4>1, GoodOK
        <5> QED
          BY <5>1, <5>2 DEF index2addr
      <4>3. tea_is_nonenil(a, 1)
        BY <4>2 DEF tea_is_nonenil, IsNoneNil
      <4> QED
        BY <4>1, <4>3
    <3>2. CASE Len(args) = 1
      <4>1. Len(a.frame) = 2 /\ f = args[1] /\ a.frame[2] = args[1]
        <5>1. 1 \in 1..Len(args) /\ 1 + 1 = 2
          BY <3>2
        <5> QED
          BY <1>5, <1>11, <3>2, <5>1 DEF Comparator
      <4>2. index2addr(a, 1) = f /\ Valid(a, 1)
        <5>1. 2 \in 1..Len(a.frame) /\ 1 = 2 - 1 /\ 1 \in Int
          BY <4>1
        <5> QED
          BY <1>5, <4>1, <5>1, SlotValue
      <4>3. f # NoValue
        BY <1>4, <3>2, <4>1, Kinds, SMTT(20)
      <4> HIDE DEF f
      <4>4. CASE f = Nil
        <5>1. tea_is_nonenil(a, 1)
          BY <4>2, <4>4 DEF tea_is_nonenil, IsNoneNil
        <5> QED
          BY <4>1, <4>4, <5>1
      <4>5. CASE f # Nil
        <5>1. ~tea_is_nonenil(a, 1)
          BY <4>2, <4>3, <4>5 DEF tea_is_nonenil, IsNoneNil
        <5>2. b = Check(a, 1, {Fn})
          BY <5>1
        <5> HIDE DEF b
        <5>3. 1 \in Int
          OBVIOUS
        <5>4. f = Fn => Check(a, 1, {Fn}) = a
          BY <1>5, <4>2, <5>3, CheckGood
        <5>5. f # Fn => Check(a, 1, {Fn}).fails
          BY <1>5, <4>2, <5>3, CheckGood
        <5> QED
          BY <1>17, <4>1, <5>2, <5>4, <5>5
      <4> QED
        BY <4>4, <4>5
    <3> QED
      BY <1>4, <3>1, <3>2
  <2> HIDE DEF b, f
  <2>2. Len(a.frame) \in 1..2
    BY <1>4, <1>5
  <2>3. /\ Good(c) /\ c.lists = a.lists /\ Len(c.frame) = 2 /\ c.frame[1] = a.frame[1]
        /\ c.frame[2] = IF Len(a.frame) = 2 THEN a.frame[2] ELSE Nil
    BY <1>5, <2>1, <2>2, TopOfTwo
  <2>4. Two(c, its, f)
    BY <1>5, <1>6, <2>1, <2>3 DEF Two, Sorted
  <2> HIDE DEF c, its
  <2>5. SortPost(r, its, f, TRUE)
    BY <1>8, <2>4, RangesTwo DEF r
  <2>6. /\ api' = r.a /\ Len(Before') = Len(its) /\ ToBag(its) = ToBag(Before')
        /\ job'.pc = After(r.a, IF r.s.at = "none" THEN "done" ELSE "turn")
    BY <1>2, <1>12, <1>14, <1>17 DEF to
  <2>7. past'.lies \in Nat /\ (past'.lies = 0 => TRUE) /\ (TRUE => past'.lies = 0) /\ f = Comparator' /\ TRUE \in BOOLEAN
    BY <1>11 DEF f
  <2>8. SortInv'
    BY <1>6, <1>11, <1>12, <2>1, <2>5, <2>6, <2>7, SortGoesOn
  <2> QED
    BY <1>10, <1>12, <1>13, <2>8
<1> QED
  BY <1>16, <1>17

-----------------------------------------------------------------------------
(* The methods of lists *)

\* When a method is idle, in a loop or waiting for an answer.
Phases ==
    /\ job.pc = "idle" => job.fn = "none"
    /\ job.pc \in {"next", "body"} => job.fn = "iter"
    /\ Running => job.fn \in Loops \cup {"sort"}

\* The inductive invariant of the methods.
LibInv == Typed /\ Phases /\ LoopInv /\ IterUp /\ IterItems /\ SortInv

\* Each method concerns one part of the invariant.
LEMMA OnlyLoops ==
    ASSUME job'.fn \in Loops
    PROVE  IterUp' /\ IterItems' /\ SortInv'
BY DEF Loops, IterUp, IterItems, SortInv, SortItems, SortFrame, SortCall, Sorting

\* An iterator concerns its own part,
LEMMA OnlyIter ==
    ASSUME job'.fn = "iter"
    PROVE  SortInv'
BY DEF SortInv, SortItems, SortFrame, SortCall, Sorting

\* a sort its own.
LEMMA OnlySort ==
    ASSUME job'.fn = "sort"
    PROVE  LoopInv' /\ IterUp' /\ IterItems'
BY DEF Loops, LoopInv, LoopCounts, LoopFrame, LoopMakes, LoopResults, Looping, Ended, IterUp, IterItems

\* The phase of a method that is called, and of one that goes on.
LEMMA PhaseAfter ==
    ASSUME NEW a, NEW pc, pc \in {"done", "turn"}, job'.pc = After(a, pc),
           pc = "turn" => job'.fn \in Loops \cup {"sort"}
    PROVE  Phases'
<1>1. After(a, pc) \in {"raised", "strayed", pc}
  BY AfterIs
<1> QED
  BY <1>1 DEF Phases, Running

\* Each step leads to such a phase.
LEMMA PhasesStep ==
    ASSUME LibInv, Next
    PROVE  Phases'
<1>1. job \in Jobs /\ Phases
  BY DEF LibInv, Typed
<1>2. CASE CallSimple \/ CallPlus \/ CallSlice
  <2>1. \E fn, args, a : Starts(fn, args, a, "done")
    BY <1>2 DEF CallSimple, CallPlus, CallSlice
  <2>2. PICK a : job'.pc = After(a, "done")
    <3>1. PICK fn, args, a : Starts(fn, args, a, "done")
      BY <2>1
    <3> DEFINE to == After(a, "done")
               len == Len(api.lists[l1])
    <3>2. job' = [NoJob EXCEPT !.fn = fn, !.pc = to, !.len = len]
      BY <3>1 DEF Starts
    <3> HIDE DEF to, len
    <3>3. job'.pc = to
      BY <3>2 DEF NoJob
    <3> QED
      BY <3>3 DEF to
  <2> QED
    BY <2>2, PhaseAfter
<1>3. CASE CallLoop
  <2>1. PICK fn \in Loops : \E args \in ArgsOf(fn) :
          LET empty == fn = "reduce" /\ api.lists[l1] = << >>
              a == Opened(fn, Enter(l1, args))
          IN  job' = [NoJob EXCEPT !.fn = fn, !.pc = After(a, IF empty THEN "done" ELSE "turn"),
                                   !.len = Len(api.lists[l1]),
                                   !.i = IF fn = "reduce" THEN 1 ELSE 0]
    BY <1>3 DEF CallLoop
  <2>2. PICK args \in ArgsOf(fn) :
          LET empty == fn = "reduce" /\ api.lists[l1] = << >>
              a == Opened(fn, Enter(l1, args))
          IN  job' = [NoJob EXCEPT !.fn = fn, !.pc = After(a, IF empty THEN "done" ELSE "turn"),
                                   !.len = Len(api.lists[l1]),
                                   !.i = IF fn = "reduce" THEN 1 ELSE 0]
    BY <2>1
  <2> DEFINE a == Opened(fn, Enter(l1, args))
             pc == IF fn = "reduce" /\ api.lists[l1] = << >> THEN "done" ELSE "turn"
             to == After(a, pc)
             len == Len(api.lists[l1])
             i == IF fn = "reduce" THEN 1 ELSE 0
  <2>3. job' = [NoJob EXCEPT !.fn = fn, !.pc = to, !.len = len, !.i = i]
    BY <2>2
  <2>4. pc \in {"done", "turn"}
    OBVIOUS
  <2> HIDE DEF to, len, i
  <2>5. job'.pc = to /\ job'.fn = fn
    BY <2>3 DEF NoJob
  <2> HIDE DEF a, pc
  <2> QED
    BY <2>4, <2>5, PhaseAfter DEF to
<1>4. CASE Turn \/ CompareByCall
  <2>1. job' \in Jobs /\ job'.pc \in {"called", "raised", "strayed"} /\ job'.fn = job.fn
    <3>1. PICK a : Calls(a)
      BY <1>4 DEF Turn, CompareByCall
    <3> QED
      BY <1>1, <3>1, CallsIs
  <2>2. job.fn \in Loops \cup {"sort"}
    BY <1>4 DEF Turn, CompareByCall
  <2> QED
    BY <2>1, <2>2 DEF Phases, Running
<1>5. CASE UseAnswer
  <2> DEFINE pc == IF job.fn = "find" /\ ValueAt(api, -1) = True THEN "done" ELSE "turn"
             to == After(api', pc)
  <2>1. job.fn \in Loops /\ job' = [job EXCEPT !.i = @ + 1, !.pc = to]
    BY <1>5 DEF UseAnswer
  <2>2. pc \in {"done", "turn"}
    OBVIOUS
  <2> HIDE DEF pc, to
  <2>3. job'.pc = to /\ job'.fn = job.fn
    BY <1>1, <2>1 DEF Jobs
  <2> QED
    BY <2>1, <2>2, <2>3, PhaseAfter DEF to
<1>6. CASE Finish
  <2>1. job'.pc = "done"
    BY <1>1, <1>6 DEF Finish, Jobs
  <2> QED
    BY <2>1 DEF Phases, Running
<1>7. CASE CallSort
  <2>1. job'.fn = "sort" /\ job'.pc \in {"turn", "done", "raised", "strayed"}
    BY <1>7, CallSortStep DEF LibInv
  <2> QED
    BY <2>1 DEF Phases, Running
<1>8. CASE CompareNumbers \/ UseComparison
  <2>1. PICK r : Resumed(r)
    BY <1>8 DEF CompareNumbers, UseComparison
  <2>2. job.fn = "sort"
    BY <1>8 DEF CompareNumbers, UseComparison
  <2> DEFINE pc == IF r.s.at = "none" THEN "done" ELSE "turn"
             to == After(r.a, pc)
             s == r.s
  <2>3. job' = [job EXCEPT !.sort = s, !.pc = to]
    BY <2>1 DEF Resumed
  <2>4. pc \in {"done", "turn"}
    OBVIOUS
  <2> HIDE DEF s, pc, to
  <2>5. job'.pc = to /\ job'.fn = job.fn
    BY <1>1, <2>3 DEF Jobs
  <2> QED
    BY <2>2, <2>4, <2>5, PhaseAfter DEF to
<1>9. CASE CallIter
  <2> DEFINE a == list_iter(Enter(l1, << >>))
             to == After(a, "next")
             len == Len(api.lists[l1])
  <2>1. job' = [NoJob EXCEPT !.fn = "iter", !.pc = to, !.len = len]
    BY <1>9 DEF CallIter, Starts
  <2>2. to \in {"raised", "strayed", "next"}
    BY AfterIs
  <2> HIDE DEF to, len
  <2>3. job'.pc = to /\ job'.fn = "iter"
    BY <2>1 DEF NoJob
  <2> QED
    BY <2>2, <2>3 DEF Phases, Running
<1>10. CASE NextItem
  <2>1. job.fn = "iter"
    BY <1>1, <1>10 DEF Phases, NextItem
  <2>2. job' = [job EXCEPT !.pc = "done"] \/ job' = [job EXCEPT !.pc = "body"]
    BY <1>10 DEF NextItem
  <2>3. job'.pc \in {"done", "body"} /\ job'.fn = "iter"
    BY <1>1, <2>1, <2>2 DEF Jobs
  <2> QED
    BY <2>3 DEF Phases, Running
<1>11. CASE EndBody
  <2>1. job.fn = "iter"
    BY <1>1, <1>11 DEF Phases, EndBody
  <2>2. job'.pc = "next" /\ job'.fn = "iter"
    BY <1>1, <1>11, <2>1 DEF EndBody, Jobs
  <2> QED
    BY <2>2 DEF Phases, Running
<1>12. CASE ChangeList
  <2>1. job' = job
    BY <1>12 DEF ChangeList
  <2> QED
    BY <1>1, <2>1 DEF Phases, Running
<1>13. CASE AnswerCall
  <2>1. job.pc = "called" /\ job'.pc = "answered" /\ job'.fn = job.fn
    BY <1>1, <1>13 DEF AnswerCall, Jobs
  <2> QED
    BY <1>1, <2>1 DEF Phases, Running
<1>14. CASE Return \/ RaiseInCall
  <2>1. job' = NoJob
    BY <1>14 DEF Return, RaiseInCall, Leave
  <2>2. job'.fn = "none" /\ job'.pc = "idle"
    BY <2>1 DEF NoJob
  <2> QED
    BY <2>2 DEF Phases, Running
<1>15. CASE Strayed
  <2>1. job' = job
    BY <1>15 DEF Strayed, vars
  <2> QED
    BY <1>1, <2>1 DEF Phases, Running
<1> QED
  BY <1>2, <1>3, <1>4, <1>5, <1>6, <1>7, <1>8, <1>9, <1>10, <1>11, <1>12, <1>13, <1>14, <1>15 DEF Next

\* Lists of values are lists of values.
LEMMA InitLists ==
    ASSUME Init
    PROVE  api.lists \in Lists /\ api = Quiet(api.lists)
<1>1. PICK s \in BoundedSeq(Item, MaxLen) \cup BoundedSeq(Key, MaxSort) :
         api = Quiet([l \in List |-> IF l = l1 THEN s ELSE IF l = l2 THEN Other ELSE << >>])
  BY DEF Init
<1> DEFINE ls == [l \in List |-> IF l = l1 THEN s ELSE IF l = l2 THEN Other ELSE << >>]
<1>2. Key \subseteq Value /\ Item \subseteq Value /\ Num \subseteq Value /\ MaxLen \in Nat /\ MaxSort \in Nat
  BY LibConstantsOK, Kinds
<1>3. s \in Seq(Value)
  <2>1. PICK S \in SUBSET Value, n \in Nat : s \in BoundedSeq(S, n)
    BY <1>2
  <2>2. PICK m \in 0..n : s \in [1..m -> S]
    BY <2>1 DEF BoundedSeq, SeqOf
  <2>3. m \in Nat /\ s \in [1..m -> Value]
    BY <2>1, <2>2
  <2> QED
    BY <2>3
<1>4. Other \in Seq(Value) /\ << >> \in Seq(Value)
  <2>1. Other \in Seq(Num)
    BY LibConstantsOK
  <2>2. Len(Other) \in Nat /\ Other \in [1..Len(Other) -> Num]
    BY <2>1
  <2>3. Other \in [1..Len(Other) -> Value]
    BY <1>2, <2>2
  <2> DEFINE m == Len(Other)
  <2>4. m \in Nat /\ Other \in [1..m -> Value]
    BY <2>2, <2>3
  <2> HIDE DEF m
  <2> QED
    BY <2>4
<1>5. ls \in Lists
  BY <1>3, <1>4 DEF Lists
<1>6. api = Quiet(ls)
  BY <1>1
<1> HIDE DEF ls
<1>7. api.lists = ls
  BY <1>5, <1>6, QuietGood
<1> QED
  BY <1>5, <1>6, <1>7

\* The invariant holds at first,
LEMMA LibInvInit ==
    ASSUME Init
    PROVE  LibInv
<1>1. api.lists \in Lists /\ api = Quiet(api.lists)
  BY InitLists
<1>2. job = NoJob /\ past = NoPast
  BY DEF Init
<1>3. job \in Jobs /\ job.fn = "none" /\ job.pc = "idle" /\ past \in Pasts /\ ~past.shrunk
  BY <1>2, NoneOK DEF NoPast
<1>4. Typed
  BY <1>1, <1>3 DEF Typed
<1>5. Phases
  BY <1>3 DEF Phases, Running
<1>6. LoopInv /\ IterUp /\ IterItems /\ SortInv
  BY <1>3 DEF LoopInv, LoopCounts, LoopFrame, LoopMakes, LoopResults, Looping, Ended, Loops, IterUp, IterItems,
              SortInv, SortItems, SortFrame, SortCall, Sorting
<1> QED
  BY <1>4, <1>5, <1>6 DEF LibInv

\* and every step keeps it.
LEMMA LibInvNext ==
    ASSUME LibInv, [Next]_vars
    PROVE  LibInv'
<1>1. Typed /\ Phases /\ LoopInv /\ IterUp /\ IterItems /\ SortInv
  BY DEF LibInv
<1>2. CASE UNCHANGED vars
  <2>1. api' = api /\ job' = job /\ past' = past
    BY <1>2 DEF vars
  <2>2. Typed' /\ Phases'
    BY <1>1, <2>1 DEF Typed, Phases, Running
  <2>3. LoopCounts'
    BY <1>1, <2>1 DEF LoopInv, LoopCounts, Looping, Running, Used, Before
  <2>8. LoopResults'
    BY <1>1, <2>1, Zenon DEF LoopInv, LoopResults, Before, Ended, Result
  <2>4. LoopFrame'
    BY <1>1, <2>1 DEF LoopInv, LoopFrame, Looping, Running, Base, Takes, Acc, Before
  <2>5. LoopMakes'
    BY <1>1, <2>1, SMTT(20) DEF LoopInv, LoopMakes, Looping, Running, Before, Yes, Chosen, TheOne
  <2>6. IterUp' /\ IterItems'
    BY <1>1, <2>1 DEF IterUp, IterItems, Before
  <2>7. SortInv'
    BY <1>1, <2>1 DEF SortInv, SortItems, SortFrame, SortCall, Sorting, Running, Before, Comparator, D, Extra
  <2> QED
    BY <2>2, <2>3, <2>4, <2>5, <2>6, <2>7, <2>8 DEF LibInv, LoopInv
<1>3. CASE Next
  <2>1. Phases'
    BY <1>3, PhasesStep
  <2>2. SUFFICES Typed' /\ LoopInv' /\ IterUp' /\ IterItems' /\ SortInv'
    BY <2>1 DEF LibInv
  <2>3. CASE CallSimple \/ CallPlus \/ CallSlice
    <3>1. Typed' /\ job'.fn \notin Loops \cup {"iter", "sort"}
      BY <1>1, <2>3, CallOtherStep
    <3> QED
      BY <3>1, OtherMethod DEF SortInv
  <2>4. CASE CallLoop \/ Turn \/ UseAnswer \/ Finish \/ ((AnswerCall \/ ChangeList) /\ job.fn \in Loops)
    <3>1. Typed' /\ LoopInv' /\ job'.fn \in Loops
      <4>1. CASE CallLoop
        BY <1>1, <4>1, CallLoopStep
      <4>2. CASE Turn
        BY <1>1, <4>2, TurnStep
      <4>3. CASE UseAnswer
        BY <1>1, <4>3, UseAnswerStep
      <4>4. CASE Finish
        BY <1>1, <4>4, FinishStep
      <4>5. CASE AnswerCall /\ job.fn \in Loops
        BY <1>1, <4>5, AnswerLoopStep, AnswerOf
      <4>6. CASE ChangeList /\ job.fn \in Loops
        BY <1>1, <4>6, ChangeLoopStep, ChangeIs
      <4> QED
        BY <2>4, <4>1, <4>2, <4>3, <4>4, <4>5, <4>6
    <3> QED
      BY <3>1, OnlyLoops
  <2>5. CASE \/ CallSort \/ CompareByCall \/ CompareNumbers \/ UseComparison
             \/ ((AnswerCall \/ ChangeList) /\ job.fn = "sort")
    <3>1. Typed' /\ SortInv' /\ job'.fn = "sort"
      <4>1. CASE CallSort
        BY <1>1, <4>1, CallSortStep
      <4>2. CASE CompareByCall
        BY <1>1, <4>2, CompareByCallStep
      <4>3. CASE CompareNumbers
        BY <1>1, <4>3, CompareNumbersStep
      <4>4. CASE UseComparison
        BY <1>1, <4>4, UseComparisonStep
      <4>5. CASE AnswerCall /\ job.fn = "sort"
        BY <1>1, <4>5, AnswerSortStep
      <4>6. CASE ChangeList /\ job.fn = "sort"
        BY <1>1, <4>6, ChangeSortStep
      <4> QED
        BY <2>5, <4>1, <4>2, <4>3, <4>4, <4>5, <4>6
    <3> QED
      BY <3>1, OnlySort
  <2>6. CASE CallIter \/ NextItem \/ EndBody \/ (ChangeList /\ job.fn = "iter")
    <3>1. Typed' /\ LoopInv' /\ IterUp' /\ IterItems' /\ job'.fn = "iter"
      <4>1. CASE CallIter
        BY <1>1, <4>1, CallIterStep
      <4>2. CASE NextItem
        <5>1. job.fn = "iter"
          BY <1>1, <4>2 DEF Phases, NextItem
        <5> QED
          BY <1>1, <4>2, <5>1, NextItemStep
      <4>3. CASE EndBody
        <5>1. job.fn = "iter"
          BY <1>1, <4>3 DEF Phases, EndBody
        <5> QED
          BY <1>1, <4>3, <5>1, BodySteps
      <4>4. CASE ChangeList /\ job.fn = "iter"
        BY <1>1, <4>4, BodySteps
      <4> QED
        BY <2>6, <4>1, <4>2, <4>3, <4>4
    <3> QED
      BY <3>1, OnlyIter
  <2>7. CASE Return \/ RaiseInCall
    <3>1. Leave /\ job.pc # "idle"
      BY <2>7 DEF Return, RaiseInCall
    <3>2. Typed' /\ job'.fn \notin Loops \cup {"iter", "sort"}
      BY <1>1, <3>1, LeaveStep
    <3> QED
      BY <3>2, OtherMethod DEF SortInv
  <2>8. CASE Strayed
    BY <1>2, <2>8 DEF Strayed, LibInv
  <2>9. (AnswerCall \/ ChangeList) => job.fn \in Loops \cup {"sort", "iter"}
    BY <1>1 DEF Phases, Running, AnswerCall, ChangeList
  <2>10. AnswerCall => job.fn \in Loops \cup {"sort"}
    BY <1>1 DEF Phases, Running, AnswerCall
  <2> QED
    BY <1>3, <2>3, <2>4, <2>5, <2>6, <2>7, <2>8, <2>9, <2>10 DEF Next
<1> QED
  BY <1>2, <1>3

\* The invariant of the methods of lists: for any items, arguments, functions and
\* changes, the frame and the upvalues are what the method at work takes them for.
THEOREM LibInvariant == Spec => []LibInv
<1>1. Init => LibInv
  BY LibInvInit
<1>2. LibInv /\ [Next]_vars => LibInv'
  BY LibInvNext
<1> QED
  BY <1>1, <1>2, PTL DEF Spec

\* The result of map, filter, find, foreach and reduce is the one that the answers
\* of the function for the items, in order, define (list_map to list_reduce).
THEOREM LoopsHaveResults == Spec => []LoopResults
<1>1. LibInv => LoopResults
  BY DEF LibInv, LoopInv
<1> QED
  BY <1>1, LibInvariant, PTL

\* sort leaves the same items, and leaves them in order when the comparator did not
\* contradict the order (list_sort, auxsort).
THEOREM ListsAreSorted == Spec => []SortWorks
<1>1. LibInv => SortWorks
  BY SortGivesWorks DEF LibInv, Phases
<1> QED
  BY <1>1, LibInvariant, PTL

\* The function is called with the item the loop is at, and that of reduce with what
\* it has so far as well.
THEOREM ItemsAreCalledWith == Spec => CalledWithItems
<1> DEFINE A == job.fn \in Loops /\ job'.pc = "called" /\ job.pc = "turn" /\ ~past.shrunk =>
                  /\ Callee(api', Takes) = past.args[1]
                  /\ ValueAt(api', -1) = api.lists[l1][job.i + 1]
                  /\ job.fn = "reduce" =>
                       ValueAt(api', -2) = IF past.answers = << >> THEN Before[1] ELSE Last(past.answers)
                  /\ job.i < Len(Before)
<1>1. LibInv /\ [Next]_vars => [A]_vars
  <2>1. SUFFICES ASSUME LibInv, Next, job.fn \in Loops, job'.pc = "called", job.pc = "turn", ~past.shrunk
                 PROVE  A
    OBVIOUS
  <2>2. Typed /\ LoopInv /\ job \in Jobs
    BY <2>1 DEF LibInv, Typed
  <2>3. Turn
    <3>1. ~Finish
      <4>1. Finish => job'.pc = "done"
        BY <2>2 DEF Finish, Jobs
      <4> QED
        BY <2>1, <4>1
    <3>2. job.fn # "sort"
      BY <2>1 DEF Loops
    <3>3. ~(Return \/ RaiseInCall \/ Strayed \/ ChangeList \/ AnswerCall \/ CallIter \/ NextItem \/ EndBody)
      BY <2>1 DEF Return, RaiseInCall, Strayed, ChangeList, AnswerCall, CallIter, NextItem, EndBody, Idle
    <3>4. ~(CallSimple \/ CallPlus \/ CallSlice \/ CallLoop \/ UseAnswer \/ CallSort)
      BY <2>1 DEF CallSimple, CallPlus, CallSlice, CallLoop, UseAnswer, CallSort, Idle
    <3>5. ~(CompareByCall \/ CompareNumbers \/ UseComparison)
      BY <3>2 DEF CompareByCall, CompareNumbers, UseComparison
    <3> QED
      BY <2>1, <3>1, <3>3, <3>4, <3>5 DEF Next
  <2>4. /\ Callee(api', Takes) = past.args[1] /\ ValueAt(api', -1) = api.lists[l1][job.i + 1]
        /\ job.fn = "reduce" => ValueAt(api', -2) = Acc
    BY <2>1, <2>2, <2>3, TurnPushes
  <2>5. job.i < Len(Before)
    BY <2>1, <2>2, <2>3 DEF Turn, LoopInv, LoopCounts, Looping, Running
  <2> QED
    BY <2>4, <2>5 DEF Acc
<1> QED
  BY <1>1, LibInvariant, PTL DEF Spec, CalledWithItems

-----------------------------------------------------------------------------
(* The callers of functions keep to the API, the errors they end with included *)

Clean(a) == ~a.misused /\ ~a.strays

\* An error changes nothing else, and what follows it in the model is as clean.
LEMMA FailsClean ==
    ASSUME NEW a, Good(a), Len(a.frame) >= 1, a.frame[1] = l1
    PROVE  LET b == Raise(a) IN
           /\ Clean(b) /\ Clean(tea_new_list(b, New)) /\ Clean(tea_pop(b, 1))
           /\ tea_len(b, 0) # 0 => Clean(tea_get_item(b, 0, 0))
<1> DEFINE b == Raise(a)
<1>1. a \in Apis /\ a.frame \in Seq(Value) /\ Len(a.frame) \in Nat /\ l1 \in List
  BY GoodOK, Kinds
<1>2. b \in Apis /\ b.frame = a.frame /\ b.lists = a.lists /\ ~b.misused /\ ~b.strays
  BY DEF Raise, Good, Apis
<1> HIDE DEF b
<1>3. \A c, v : c \in Apis /\ Clean(c) => Clean(Push(c, v))
  BY DEF Apis, Push, Clean
<1>4. Clean(tea_new_list(b, New))
  <2> DEFINE d == [b EXCEPT !.lists[New] = << >>]
  <2>1. Clean(d) /\ DOMAIN d = DOMAIN b
    BY <1>2 DEF Clean, Apis
  <2>2. tea_new_list(b, New) = Push(d, New)
    BY DEF tea_new_list
  <2> HIDE DEF d
  <2>3. Clean(Push(d, New))
    BY <1>2, <2>1 DEF Clean, Push, Apis
  <2> QED
    BY <2>2, <2>3
<1>5. Clean(tea_pop(b, 1))
  <2>1. (1 <= tea_get_top(b)) = TRUE
    BY <1>1, <1>2 DEF tea_get_top
  <2>2. Expect(b, TRUE) \in Apis /\ Clean(Expect(b, TRUE))
    BY <1>2 DEF Expect, Apis, Clean
  <2> DEFINE c == Expect(b, TRUE)
  <2>3. tea_pop(b, 1) = [c EXCEPT !.frame = SubSeq(@, 1, tea_get_top(b) - 1)]
    BY <2>1 DEF tea_pop
  <2> HIDE DEF c
  <2> QED
    BY <2>2, <2>3 DEF Clean, Apis, c
<1>6. ASSUME tea_len(b, 0) # 0 PROVE Clean(tea_get_item(b, 0, 0))
  <2>1. ListAt(b, 0) = l1
    <3>1. 0 + 1 = 1 /\ 1 \in DOMAIN b.frame /\ 0 >= 0 /\ ~(0 <= -11000)
      BY <1>1, <1>2
    <3> QED
      BY <1>2, <3>1 DEF ListAt, index2addr, Position, TEA_UPVALUES_INDEX
  <2>2. IsList(ListAt(b, 0)) = TRUE
    BY <1>1, <2>1 DEF IsList
  <2> DEFINE c == Expect(b, TRUE)
  <2>3. c \in Apis /\ Clean(c)
    BY <1>2 DEF Expect, Apis, Clean
  <2>4. tea_get_item(b, 0, 0) = c \/ tea_get_item(b, 0, 0) = Push(c, b.lists[ListAt(b, 0)][0 + 1])
    BY <1>6, <2>2 DEF tea_get_item
  <2> HIDE DEF c
  <2> QED
    BY <1>3, <2>3, <2>4
<1> QED
  BY <1>2, <1>4, <1>5, <1>6 DEF b, Clean

\* What precedes a loop is clean, whatever the method is given for a function.
LEMMA OpenedClean ==
    ASSUME NEW a, Good(a), Len(a.frame) = 2, a.frame[1] = l1, NEW fn \in Loops
    PROVE  Clean(Opened(fn, a))
<1> DEFINE b == Opened(fn, a)
           c == Check(a, 0, List)
           d == Check(c, 1, {Fn})
           e == IF fn = "filter" THEN a ELSE d
<1>1. CASE fn = "filter" \/ a.frame[2] = Fn
  BY <1>1, OpenedIs DEF Good, Clean
<1>2. CASE fn # "filter" /\ a.frame[2] # Fn
  <2>1. /\ index2addr(a, 0) = a.frame[1] /\ Valid(a, 0)
        /\ index2addr(a, 1) = a.frame[2] /\ Valid(a, 1)
    <3>1. 1 \in 1..Len(a.frame) /\ 2 \in 1..Len(a.frame) /\ 1 - 1 = 0 /\ 2 - 1 = 1
      OBVIOUS
    <3> QED
      BY <3>1, FromBase
  <2>2. c = a
    BY <2>1, CheckGood, Kinds
  <2>3. e = Raise(a)
    BY <1>2, <2>1, <2>2, CheckGood
  <2>4. b = CASE fn \in {"map", "filter"} -> tea_new_list(e, New)
              [] fn = "reduce" -> IF tea_len(e, 0) = 0 THEN tea_pop(e, 1) ELSE tea_get_item(e, 0, 0)
              [] OTHER -> e
    BY DEF Opened
  <2> HIDE DEF b, e, d, c
  <2>5. \/ b = tea_new_list(e, New)
        \/ tea_len(e, 0) = 0 /\ b = tea_pop(e, 1)
        \/ tea_len(e, 0) # 0 /\ b = tea_get_item(e, 0, 0)
        \/ b = e
    BY <2>4 DEF Loops
  <2>6. LET r == Raise(a) IN
        /\ Clean(r) /\ Clean(tea_new_list(r, New)) /\ Clean(tea_pop(r, 1))
        /\ tea_len(r, 0) # 0 => Clean(tea_get_item(r, 0, 0))
    BY FailsClean
  <2> QED
    BY <2>3, <2>5, <2>6 DEF b
<1> QED
  BY <1>1, <1>2

\* What a loop does with an answer is clean, also if it is not the kind it takes.
LEMMA UsedAnswerClean ==
    ASSUME NEW a, Good(a), NEW fn \in Loops, NEW i \in Nat,
           Len(a.frame) = (IF fn \in {"find", "foreach"} THEN 2 ELSE 3) + 1,
           a.frame[1] = l1, fn \in {"map", "filter"} => a.frame[3] = New, i < Len(a.lists[l1])
    PROVE  Clean(UsedAnswer(fn, a, i))
<1> DEFINE b == UsedAnswer(fn, a, i)
           n == Len(a.frame)
           c == Check(a, -1, {True, False})
<1>1. CASE fn \notin {"find", "filter"} \/ a.frame[n] \in {True, False}
  BY <1>1, UsedAnswerIs DEF Good, Clean
<1>2. CASE fn \in {"find", "filter"} /\ a.frame[n] \notin {True, False}
  <2>1. n \in {3, 4} /\ n >= 1
    OBVIOUS
  <2>2. index2addr(a, -1) = a.frame[n] /\ ValueAt(a, -1) = a.frame[n] /\ Valid(a, -1)
    <3>1. -1 \in Int /\ n \in 1..n /\ -1 = n - n - 1 /\ n < 100
      <4> HIDE DEF n
      <4> QED
        BY <2>1
    <3> QED
      BY <3>1, SlotValue
  <2>3. c = Raise(a)
    <3>1. -1 \in Int
      OBVIOUS
    <3> QED
      BY <1>2, <2>2, <3>1, CheckGood
  <2>4. b = tea_pop(c, 1)
    <3> HIDE DEF c
    <3> QED
      BY <1>2, <2>2 DEF UsedAnswer, c
  <2> QED
    BY <2>1, <2>3, <2>4, FailsClean DEF b
<1> QED
  BY <1>1, <1>2

\* What a loop returns is made within the API.
LEMMA ClosedClean ==
    ASSUME NEW a, Good(a), NEW fn \in Loops,
           Len(a.frame) = IF fn \in {"find", "foreach"} THEN 2 ELSE 3
    PROVE  Clean(Closed(fn, a))
<1>1. CASE fn \in {"map", "filter"}
  <2>1. 2 \in Int /\ 3 \in 1..Len(a.frame) /\ 2 = 3 - 1
    BY <1>1
  <2>2. Grown(a, tea_push_value(a, 2), a.frame[3])
    BY <1>1, <2>1, PushValueGood
  <2> QED
    BY <1>1, <2>2 DEF Closed, Grown, Good, Clean
<1>2. CASE fn = "find"
  <2>1. Grown(a, Push(a, Nil), Nil)
    BY PushGood, Kinds DEF Atom
  <2> QED
    BY <1>2, <2>1 DEF Closed, Grown, Good, Clean
<1>3. CASE fn = "foreach"
  <2>1. Expect(a, 1 >= 0) = a
    <3>1. 1 >= 0
      OBVIOUS
    <3> QED
      BY <3>1, ExpectTrue, Zenon
  <2>2. Closed(fn, a) = [a EXCEPT !.frame = [p \in 1..1 |-> IF p <= tea_get_top(a) THEN @[p] ELSE Nil]]
    BY <1>3, <2>1 DEF Closed, tea_set_top
  <2> QED
    BY <2>2 DEF Good, Apis, Clean
<1>4. CASE fn = "reduce"
  BY <1>4 DEF Closed, Good, Clean
<1> QED
  BY <1>1, <1>2, <1>3, <1>4 DEF Loops

\* A loop that starts is clean.
LEMMA CallLoopClean ==
    ASSUME Typed, CallLoop
    PROVE  Clean(api')
<1>0. PICK fn \in Loops : \E args \in ArgsOf(fn) : api' = Opened(fn, Enter(l1, args))
  BY DEF CallLoop
<1>1. PICK args \in ArgsOf(fn) : api' = Opened(fn, Enter(l1, args))
  BY <1>0
<1>2. job.pc = "idle" /\ args \in Seq(Value) /\ Len(args) = 1 /\ l1 \in Value
  BY LoopArgs, Kinds DEF CallLoop, Idle
<1> DEFINE a == Enter(l1, args)
<1>3. Good(a) /\ Len(a.frame) = Len(args) + 1 /\ a.frame[1] = l1
  BY <1>2, EnterGood
<1> HIDE DEF a
<1>4. Len(a.frame) = 2
  BY <1>2, <1>3
<1> QED
  BY <1>1, <1>3, <1>4, OpenedClean DEF a

\* The steps of a loop of a method are clean.
LEMMA LoopStepClean ==
    ASSUME LibInv, LibInv', job.fn \in Loops, ~past'.shrunk,
           \/ Turn \/ UseAnswer \/ Finish \/ AnswerCall \/ ChangeList
    PROVE  Clean(api')
<1>1. Typed /\ LoopInv /\ Phases /\ Phases' /\ LoopFrame' /\ job \in Jobs
  BY DEF LibInv, LoopInv, Typed
<1>2. CASE Turn
  <2>1. ~past.shrunk
    BY <1>2 DEF Turn
  <2> QED
    BY <1>1, <1>2, <2>1, TurnPushes DEF Good, Clean
<1>3. CASE UseAnswer \/ Finish
  <2>1. ~past.shrunk /\ Looping
    BY <1>3 DEF UseAnswer, Finish, Looping, Running
  <2>2. /\ Good(api) /\ Len(api.lists[l1]) >= job.len /\ api.frame[1] = l1
        /\ Len(api.frame) = Base + (IF job.pc = "turn" THEN 0 ELSE IF job.pc = "called" THEN 1 + Takes ELSE 1)
        /\ job.fn \in {"map", "filter"} => api.frame[3] = New
    BY <1>1, <2>1 DEF LoopInv, LoopFrame
  <2>3. Base = IF job.fn \in {"find", "foreach"} THEN 2 ELSE 3
    BY DEF Base
  <2>4. CASE UseAnswer
    <3>1. api' = UsedAnswer(job.fn, api, job.i) /\ job.pc = "answered"
      BY <2>4 DEF UseAnswer
    <3>2. job.i < Len(api.lists[l1]) /\ job.i \in Nat
      <4>1. job.i < job.len
        BY <1>1, <2>1, <3>1 DEF LoopInv, LoopCounts
      <4>2. Len(api.lists[l1]) \in Nat /\ job.i \in Nat /\ job.len \in Nat
        BY <1>1, <2>2, GoodOK, Kinds DEF Jobs
      <4> QED
        BY <2>2, <4>1, <4>2
    <3>3. Len(api.frame) = (IF job.fn \in {"find", "foreach"} THEN 2 ELSE 3) + 1
      BY <2>2, <2>3, <3>1
    <3> QED
      BY <2>2, <3>1, <3>2, <3>3, UsedAnswerClean
  <2>5. CASE Finish
    <3>1. api' = Closed(job.fn, api) /\ job.pc = "turn"
      BY <2>5 DEF Finish
    <3>2. Len(api.frame) = IF job.fn \in {"find", "foreach"} THEN 2 ELSE 3
      BY <2>2, <2>3, <3>1
    <3> QED
      BY <2>2, <3>1, <3>2, ClosedClean
  <2> QED
    BY <1>3, <2>4, <2>5
<1>4. CASE AnswerCall \/ ChangeList
  <2>1. job'.fn = job.fn /\ job'.pc \in {"answered", "called", "body"}
    BY <1>1, <1>4, AnswerOf, ChangeIs
  <2>2. Looping'
    BY <1>1, <2>1 DEF Looping, Running, Phases, Loops
  <2> QED
    BY <1>1, <2>2 DEF LoopFrame, Good, Clean
<1> QED
  BY <1>2, <1>3, <1>4

\* What is said of loops.
LoopsKeepApi ==
    /\ job.fn \in Loops /\ ~past.shrunk => Clean(api)
    /\ job.fn = "iter" => Clean(api)

\* Every step keeps it.
LEMMA LoopsKeepApiNext ==
    ASSUME LibInv, LibInv', LoopsKeepApi, [Next]_vars
    PROVE  LoopsKeepApi'
<1>1. Typed /\ Phases /\ LoopInv /\ IterUp /\ IterItems /\ Phases' /\ IterUp'
  BY DEF LibInv
<1>2. CASE UNCHANGED vars \/ Strayed
  BY <1>2 DEF vars, Strayed, LoopsKeepApi, Clean
<1>3. CASE CallSimple \/ CallPlus \/ CallSlice
  BY <1>1, <1>3, CallOtherStep DEF LoopsKeepApi
<1>4. CASE Return \/ RaiseInCall
  <2>1. Leave /\ job.pc # "idle"
    BY <1>4 DEF Return, RaiseInCall
  <2> QED
    BY <1>1, <2>1, LeaveStep DEF LoopsKeepApi
<1>5. CASE CallLoop
  <2>1. Clean(api') /\ job'.fn \in Loops
    BY <1>1, <1>5, CallLoopStep, CallLoopClean
  <2> QED
    BY <2>1 DEF LoopsKeepApi, Loops
<1>6. CASE (Turn \/ UseAnswer \/ Finish \/ AnswerCall \/ ChangeList) /\ job.fn \in Loops
  <2>1. job'.fn = job.fn
    <3>1. Turn => job'.fn = job.fn
      BY <1>1, CallsIs DEF Turn, Typed
    <3>2. UseAnswer \/ Finish => job'.fn = job.fn
      BY <1>1 DEF UseAnswer, Finish, Typed, Jobs
    <3>3. AnswerCall \/ ChangeList => job'.fn = job.fn
      BY <1>1, AnswerOf, ChangeIs
    <3> QED
      BY <1>6, <3>1, <3>2, <3>3
  <2>2. ~past'.shrunk => Clean(api')
    BY <1>6, LoopStepClean
  <2> QED
    BY <1>6, <2>1, <2>2 DEF LoopsKeepApi, Loops
<1>7. CASE \/ CallSort \/ CompareByCall \/ CompareNumbers \/ UseComparison
           \/ ((AnswerCall \/ ChangeList) /\ job.fn = "sort")
  <2>1. job'.fn = "sort"
    <3>1. CASE CallSort
      BY <1>1, <3>1, CallSortStep DEF LibInv
    <3>2. CompareByCall => job'.fn = "sort"
      BY <1>1, CallsIs DEF CompareByCall, Typed
    <3>3. CompareNumbers \/ UseComparison => job'.fn = "sort"
      <4>1. ASSUME NEW r, Resumed(r), job.fn = "sort" PROVE job'.fn = "sort"
        BY <1>1, <4>1 DEF Resumed, Typed, Jobs
      <4> QED
        BY <4>1 DEF CompareNumbers, UseComparison
    <3>4. (AnswerCall \/ ChangeList) /\ job.fn = "sort" => job'.fn = "sort"
      BY <1>1, AnswerOf, ChangeIs
    <3> QED
      BY <1>7, <3>1, <3>2, <3>3, <3>4
  <2> QED
    BY <2>1 DEF LoopsKeepApi, Loops
<1>8. CASE CallIter
  <2>1. job'.fn = "iter" /\ job'.pc = "next"
    BY <1>1, <1>8, CallIterStep
  <2> QED
    BY <1>1, <2>1 DEF LoopsKeepApi, Loops, IterUp, Good, Clean
<1>9. CASE NextItem \/ EndBody
  <2>1. job.fn = "iter"
    BY <1>1, <1>9 DEF Phases, NextItem, EndBody
  <2>2. job'.fn = "iter"
    BY <1>1, <1>9, <2>1 DEF NextItem, EndBody, Typed, Jobs
  <2>3. Clean(api')
    <3>1. NextItem => Clean(api')
      BY <1>1, <2>1, NextItemIs DEF Good, Clean
    <3>2. EndBody => Clean(api')
      BY <2>1 DEF EndBody, LoopsKeepApi
    <3> QED
      BY <1>9, <3>1, <3>2
  <2> QED
    BY <2>2, <2>3 DEF LoopsKeepApi, Loops
<1>10. CASE ChangeList /\ job.fn = "iter"
  <2>1. job' = job /\ job.pc \in {"called", "body"}
    BY <1>1, <1>10, ChangeIs
  <2>2. job.pc = "body"
    BY <1>1, <1>10, <2>1 DEF Phases, Running, Loops
  <2> QED
    BY <1>1, <1>10, <2>1, <2>2 DEF LoopsKeepApi, Loops, IterUp, Good, Clean
<1>11. (AnswerCall \/ ChangeList) => job.fn \in Loops \cup {"sort", "iter"}
  BY <1>1 DEF Phases, Running, AnswerCall, ChangeList
<1>12. AnswerCall => job.fn \in Loops \cup {"sort"}
  BY <1>1 DEF Phases, Running, AnswerCall
<1>13. Turn \/ UseAnswer \/ Finish => job.fn \in Loops
  BY DEF Turn, UseAnswer, Finish
<1> QED
  BY <1>2, <1>3, <1>4, <1>5, <1>6, <1>7, <1>8, <1>9, <1>10, <1>11, <1>12, <1>13 DEF Next

\* The methods that call functions keep to the API up to the error they may end with:
\* map, filter, find, foreach, reduce and the loop of the program (lib_list.c) for any
\* list, any answers and any change that does not shorten the list, sort (list_sort,
\* auxsort) of a list that nothing else changes.
THEOREM CallsKeepApi == Spec => []CallersKeepApi
<1>1. Init => LibInv /\ LoopsKeepApi
  <2>1. Init => LoopsKeepApi
    BY DEF Init, NoJob, LoopsKeepApi, Loops
  <2> QED
    BY <2>1, LibInvInit
<1>2. LibInv /\ LibInv' /\ LoopsKeepApi /\ [Next]_vars => LoopsKeepApi'
  BY LoopsKeepApiNext
<1>3. LibInv /\ LoopsKeepApi => CallersKeepApi
  BY DEF LibInv, Phases, SortInv, SortItems, Tidy, LoopsKeepApi, Clean, CallersKeepApi
<1> QED
  BY <1>1, <1>2, <1>3, LibInvariant, PTL DEF Spec

=============================================================================
