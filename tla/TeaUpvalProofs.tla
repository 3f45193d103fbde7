--------------------------- MODULE TeaUpvalProofs ---------------------------
(***************************************************************************)
(* The list of open upvalues stays sorted and inside the stack, for any    *)
(* number of upvalues, closures and calls and any height of the stack, if  *)
(* no gc method moves the stack while tea_func_finduv allocates.  Then     *)
(* closures share the variables of CapturedVariables: the abstract cells   *)
(* are the classes of names, of slots and of captures, that have one       *)
(* place, and each step changes the classes as an abstract step does.      *)
(***************************************************************************)
EXTENDS TeaUpval, TeaLemmas

\* Only linked upvalues point to the stack.
OthersClosed == \A u \in Upval \ Range(open) : location[u] = Own
OpenPlaced ==
    \A u \in Range(open) : location[u].block = block /\ location[u].slot \in 1..Len(stack)

\* No frame begins below the first slot.
BasesOK == Len(bases) >= 1 /\ \A k \in DOMAIN bases : bases[k] >= 1

UpvalInv == TypeOK /\ OpenSorted /\ OpenPlaced /\ OthersClosed /\ BasesOK

Slot(u) == location[u].slot
Places == [block : Blocks, slot : Nat]

-----------------------------------------------------------------------------
(* The list of open upvalues                                               *)

\* A linked upvalue has a place in the stack, and no two have the same.
LEMMA OpenOK ==
    ASSUME UpvalInv
    PROVE  /\ Len(open) \in Nat /\ DOMAIN open = 1..Len(open)
           /\ \A j \in 1..Len(open) : open[j] \in Upval /\ open[j] \in Range(open)
           /\ \A u \in Range(open) : u \in Upval /\ \E j \in 1..Len(open) : u = open[j]
           /\ \A u \in Range(open) : location[u] \in Places /\ location[u] # Own
           /\ \A u \in Upval : Slot(u) \in Nat
           /\ \A u, w \in Range(open) : Slot(u) = Slot(w) => u = w
<1>1. open \in Seq(Upval) /\ location \in [Upval -> Places \cup {Own}]
  BY DEF UpvalInv, TypeOK, Places
<1>2. Len(open) \in Nat /\ DOMAIN open = 1..Len(open)
  BY <1>1
<1>3. \A j \in 1..Len(open) : open[j] \in Upval /\ open[j] \in Range(open)
  BY <1>1, <1>2 DEF Range
<1>4. \A u \in Range(open) : u \in Upval /\ \E j \in 1..Len(open) : u = open[j]
  BY <1>1, <1>2 DEF Range
<1>5. ASSUME NEW u \in Range(open) PROVE location[u] # Own
  <2>1. location[u].block \in Blocks
    BY DEF UpvalInv, OpenPlaced, TypeOK
  <2>2. Own.block = 0 /\ 0 \notin Blocks
    BY DEF Own, Blocks
  <2> QED
    BY <2>1, <2>2
<1>6. ASSUME NEW u \in Upval PROVE Slot(u) \in Nat
  <2>1. Own.slot = 0 /\ \A r \in Places : r.slot \in Nat
    BY DEF Own, Places
  <2> QED
    BY <1>1, <2>1 DEF Slot
<1>7. ASSUME NEW u \in Range(open), NEW w \in Range(open), Slot(u) = Slot(w)
      PROVE  u = w
  <2>1. PICK j \in 1..Len(open), k \in 1..Len(open) : u = open[j] /\ w = open[k]
    BY <1>4
  <2>2. ~(j < k) /\ ~(k < j)
    BY <1>2, <1>4, <1>6, <1>7, <2>1 DEF UpvalInv, OpenSorted, Slot
  <2> QED
    BY <1>2, <2>1, <2>2
<1> QED
  BY <1>1, <1>2, <1>3, <1>4, <1>5, <1>6, <1>7

\* In a sorted list the upvalues above a slot are the first ones: the loops of
\* tea_func_finduv and tea_func_closeuv stop at the right place.
LEMMA AboveIsPrefix ==
    ASSUME UpvalInv, NEW i \in Int
    PROVE  /\ Above(i) \in 0..Len(open)
           /\ \A j \in 1..Len(open) : j <= Above(i) <=> Slot(open[j]) > i
<1> DEFINE S == {k \in DOMAIN open : \A j \in 1..k : location[open[j]].slot > i}
<1>1. Len(open) \in Nat /\ DOMAIN open = 1..Len(open)
      /\ \A j \in 1..Len(open) : Slot(open[j]) \in Nat
  BY OpenOK
<1>2. S \in SUBSET (1..Len(open)) /\ \A k \in S : \A j \in 1..k : j \in S
  BY <1>1
<1>3. S = 1..Above(i) /\ Above(i) \in 0..Len(open)
  <2> HIDE DEF S
  <2>1. S = 1..Cardinality(S) /\ Cardinality(S) \in 0..Len(open)
    BY <1>1, <1>2, InitialSegment
  <2> QED
    BY <2>1 DEF Above, S
<1>4. ASSUME NEW j \in 1..Len(open) PROVE j \in S <=> Slot(open[j]) > i
  <2>1. ASSUME Slot(open[j]) > i, NEW h \in 1..j PROVE location[open[h]].slot > i
    <3>1. h \in 1..Len(open) /\ (h = j \/ h < j)
      BY <1>1
    <3>2. h < j => Slot(open[h]) > Slot(open[j])
      BY <1>1, <3>1 DEF UpvalInv, OpenSorted, Slot
    <3> QED
      BY <1>1, <2>1, <3>1, <3>2 DEF Slot
  <2> QED
    BY <1>1, <2>1 DEF Slot
<1> QED
  BY <1>1, <1>3, <1>4

\* tea_func_finduv finds the open upvalue of a slot if there is one.
LEMMA FoundIffOpen ==
    ASSUME UpvalInv, NEW i \in Int
    PROVE  /\ Found(i) <=> \E u \in Range(open) : Slot(u) = i
           /\ Found(i) => /\ open[Above(i) + 1] \in Range(open)
                          /\ Slot(open[Above(i) + 1]) = i
<1>1. /\ Above(i) \in 0..Len(open)
      /\ \A j \in 1..Len(open) : j <= Above(i) <=> Slot(open[j]) > i
  BY AboveIsPrefix
<1>2. Len(open) \in Nat /\ \A j \in 1..Len(open) : Slot(open[j]) \in Nat /\ open[j] \in Range(open)
  BY OpenOK
<1>3. Found(i) => /\ open[Above(i) + 1] \in Range(open)
                  /\ Slot(open[Above(i) + 1]) = i
  BY <1>1, <1>2 DEF Found, Slot
<1>4. ASSUME NEW u \in Range(open), Slot(u) = i PROVE Found(i)
  <2>1. PICK j \in 1..Len(open) : u = open[j]
    BY OpenOK
  <2>2. j > Above(i) /\ Above(i) + 1 \in 1..Len(open)
    BY <1>1, <1>2, <1>4, <2>1
  <2>3. j = Above(i) + 1 \/ Slot(open[Above(i) + 1]) > Slot(open[j])
    <3>1. Above(i) + 1 \in DOMAIN open /\ j \in DOMAIN open
      BY <2>2, OpenOK
    <3>2. Above(i) + 1 < j => location[open[Above(i) + 1]].slot > location[open[j]].slot
      BY <3>1 DEF UpvalInv, OpenSorted
    <3> QED
      BY <1>1, <1>2, <2>1, <2>2, <3>2 DEF Slot
  <2>4. ~(Slot(open[Above(i) + 1]) > i)
    BY <1>1, <2>2
  <2>5. Slot(open[Above(i) + 1]) = i
    BY <1>4, <2>1, <2>3, <2>4
  <2> QED
    BY <1>1, <2>2, <2>5 DEF Found, Slot
<1> QED
  BY <1>3, <1>4

\* tea_func_closeuv closes the upvalues from slot n on, each with the value of its
\* slot, and no other.
LEMMA CloseOK ==
    ASSUME UpvalInv, NEW n \in Nat, Close(n)
    PROVE  /\ open' \in Seq(Upval)
           /\ Range(open') = {u \in Range(open) : Slot(u) < n}
           /\ location' = [u \in Upval |-> IF u \in Range(open) /\ Slot(u) >= n THEN Own
                                           ELSE location[u]]
           /\ closed' = [u \in Upval |-> IF u \in Range(open) /\ Slot(u) >= n
                                         THEN stack[Slot(u)] ELSE closed[u]]
           /\ OpenSorted'
<1> DEFINE k == Above(n - 1)
           front == SubSeq(open, 1, k)
<1>1. /\ k \in 0..Len(open)
      /\ \A j \in 1..Len(open) : j <= k <=> Slot(open[j]) > n - 1
  BY AboveIsPrefix
<1>2. /\ Len(open) \in Nat /\ DOMAIN open = 1..Len(open) /\ open \in Seq(Upval)
      /\ \A j \in 1..Len(open) : Slot(open[j]) \in Nat /\ open[j] \in Range(open)
      /\ \A u \in Range(open) : \E j \in 1..Len(open) : u = open[j]
      /\ \A u, w \in Range(open) : Slot(u) = Slot(w) => u = w
  BY OpenOK DEF UpvalInv, TypeOK
<1>3. /\ open' = SubSeq(open, k+1, Len(open))
      /\ location' = [u \in Upval |-> IF u \in Range(front) THEN Own ELSE location[u]]
      /\ closed' = [u \in Upval |-> IF u \in Range(front) THEN stack[location[u].slot] ELSE closed[u]]
  BY DEF Close
<1> HIDE DEF k
<1>4. /\ open' \in Seq(Upval) /\ Len(open') = Len(open) - k
      /\ \A j \in 1..Len(open') : open'[j] = open[j+k]
      /\ \A u : u \in Range(open') <=> \E j \in (k+1)..Len(open) : u = open[j]
  <2> DEFINE m == k+1
             t == SubSeq(open, m, Len(open))
  <2>1. m \in 1..(Len(open)+1) /\ open' = t
    BY <1>1, <1>2, <1>3
  <2> HIDE DEF m
  <2>2. /\ t \in Seq(Upval) /\ Len(t) = Len(open) + 1 - m
        /\ \A j \in 1..(Len(open) + 1 - m) : t[j] = open[j+m-1]
        /\ \A u : u \in Range(t) <=> \E j \in m..Len(open) : u = open[j]
    BY <1>2, <2>1, SuffixOK
  <2> HIDE DEF t
  <2>3. m = k+1 /\ k \in Int /\ Len(open) \in Int
    BY <1>1, <1>2 DEF m
  <2>4. Len(t) = Len(open) - k /\ \A j \in 1..Len(t) : t[j] = open[j+k]
    <3>1. Len(t) = Len(open) - k
      BY <2>2, <2>3
    <3>2. ASSUME NEW j \in 1..Len(t) PROVE t[j] = open[j+k]
      <4>1. j \in 1..(Len(open) + 1 - m) /\ j+m-1 = j+k
        BY <2>2, <2>3, <3>1
      <4> QED
        BY <2>2, <4>1
    <3> QED
      BY <3>1, <3>2
  <2> QED
    BY <2>1, <2>2, <2>3, <2>4
<1>5. \A u : u \in Range(front) <=> \E j \in 1..k : u = open[j]
  BY <1>1, <1>2, PrefixOK
<1> HIDE DEF front
<1>6. Range(front) = {u \in Range(open) : Slot(u) >= n}
  <2>1. \A j \in 1..Len(open) : j \in 1..k <=> Slot(open[j]) >= n
    BY <1>1, <1>2
  <2>2. \A j \in 1..k : j \in 1..Len(open)
    BY <1>1
  <2> QED
    BY <1>2, <1>5, <2>1, <2>2
<1>7. Range(open') = {u \in Range(open) : Slot(u) < n}
  <2>1. \A j \in 1..Len(open) : j \in (k+1)..Len(open) <=> Slot(open[j]) < n
    BY <1>1, <1>2
  <2>2. \A j \in (k+1)..Len(open) : j \in 1..Len(open)
    BY <1>1
  <2> QED
    BY <1>2, <1>4, <2>1, <2>2
<1>8. \A u \in Range(open') : location'[u] = location[u]
  BY <1>2, <1>3, <1>6, <1>7, OpenOK
<1>9. OpenSorted'
  <2> SUFFICES ASSUME NEW i \in DOMAIN open', NEW j \in DOMAIN open', i < j
               PROVE  location'[open'[i]].slot > location'[open'[j]].slot
    BY DEF OpenSorted
  <2>1. /\ i \in 1..Len(open') /\ j \in 1..Len(open')
        /\ i+k \in 1..Len(open) /\ j+k \in 1..Len(open) /\ i+k < j+k
    BY <1>1, <1>2, <1>4
  <2>2. location[open[i+k]].slot > location[open[j+k]].slot
    BY <1>2, <2>1 DEF UpvalInv, OpenSorted
  <2>3. open'[i] \in Range(open') /\ open'[j] \in Range(open')
    BY DEF Range
  <2> QED
    BY <1>4, <1>8, <2>1, <2>2, <2>3
<1> QED
  BY <1>3, <1>4, <1>6, <1>7, <1>9 DEF Slot

-----------------------------------------------------------------------------
(* Every step preserves the invariant.                                     *)

\* The list of open upvalues is empty at first.
LEMMA InitUpval == Init => UpvalInv
<1> SUFFICES ASSUME Init PROVE UpvalInv
  OBVIOUS
<1>1. TypeOK
  BY UpvalConstantsOK DEF Init, TypeOK, Blocks
<1>2. DOMAIN open = {} /\ Range(open) = {}
  BY DEF Init, Range
<1>3. OpenSorted /\ OpenPlaced /\ OthersClosed
  BY <1>2 DEF Init, OpenSorted, OpenPlaced, OthersClosed
<1>4. BasesOK
  BY DEF Init, BasesOK
<1> QED
  BY <1>1, <1>3, <1>4 DEF UpvalInv

\* The frames that are left when one returns or fails, and the one a call adds.
LEMMA BasesKept ==
    ASSUME UpvalInv, NEW k \in 1..Len(bases)
    PROVE  /\ bases[k] \in Nat /\ bases[k] >= 1 /\ Base \in Nat /\ Base >= 1
           /\ bases' = SubSeq(bases, 1, k) => bases' \in Seq(Nat) /\ BasesOK'
<1>1. bases \in Seq(Nat) /\ Len(bases) \in Nat /\ DOMAIN bases = 1..Len(bases)
      /\ Len(bases) >= 1 /\ \A j \in 1..Len(bases) : bases[j] >= 1 /\ bases[j] \in Nat
  BY DEF UpvalInv, TypeOK, BasesOK
<1>2. ASSUME bases' = SubSeq(bases, 1, k) PROVE bases' \in Seq(Nat) /\ BasesOK'
  <2>1. SubSeq(bases, 1, k) \in Seq(Nat) /\ Len(SubSeq(bases, 1, k)) = k
        /\ \A j \in 1..k : SubSeq(bases, 1, k)[j] = bases[j]
    BY <1>1
  <2>2. bases' \in Seq(Nat) /\ Len(bases') = k /\ DOMAIN bases' = 1..k
        /\ \A j \in 1..k : bases'[j] = bases[j]
    BY <1>2, <2>1
  <2> QED
    BY <1>1, <2>2 DEF BasesOK
<1> QED
  BY <1>1, <1>2 DEF Base

\* Steps that leave the list, the places and the frames alone and do not shorten the stack.
LEMMA ListUntouched ==
    ASSUME UpvalInv, UNCHANGED <<block, bases, open, location>>,
           stack' \in Seq(Value), Len(stack') >= Len(stack),
           closed' \in [Upval -> Value], captures' \in [Closure -> Upval \cup {None}]
    PROVE  UpvalInv'
<1>1. TypeOK'
  BY DEF UpvalInv, TypeOK
<1>2. OpenSorted' /\ OthersClosed' /\ BasesOK'
  BY DEF UpvalInv, OpenSorted, OthersClosed, BasesOK
<1>3. OpenPlaced'
  <2>1. Len(stack) \in Nat /\ Len(stack') \in Nat
    BY DEF UpvalInv, TypeOK
  <2> QED
    BY <2>1, OpenOK DEF UpvalInv, OpenPlaced, Slot
<1> QED
  BY <1>1, <1>2, <1>3 DEF UpvalInv

\* Declaring a local variable keeps the list sound.
LEMMA DeclareInv == ASSUME UpvalInv, NEW v \in Value, Declare(v) PROVE UpvalInv'
<1>1. stack' \in Seq(Value) /\ Len(stack') >= Len(stack)
  BY DEF UpvalInv, TypeOK, Declare
<1> QED
  BY <1>1, ListUntouched DEF UpvalInv, TypeOK, Declare

\* Assigning a local variable keeps the list sound.
LEMMA AssignInv ==
    ASSUME UpvalInv, NEW i \in DOMAIN stack, NEW v \in Value, Assign(i, v) PROVE UpvalInv'
<1>1. stack' \in Seq(Value) /\ Len(stack') >= Len(stack)
  BY DEF UpvalInv, TypeOK, Assign
<1> QED
  BY <1>1, ListUntouched DEF UpvalInv, TypeOK, Assign

\* Through an open upvalue only slots in use are written.
LEMMA SetUpvalueInv ==
    ASSUME UpvalInv, NEW c \in Closure, NEW v \in Value, SetUpvalue(c, v) PROVE UpvalInv'
<1>1. /\ stack \in Seq(Value) /\ closed \in [Upval -> Value] /\ Len(stack) \in Nat
      /\ captures \in [Closure -> Upval \cup {None}]
      /\ UNCHANGED <<block, bases, open, location, captures>>
  BY DEF UpvalInv, TypeOK, SetUpvalue
<1>2. captures[c] \in Upval
  BY <1>1 DEF SetUpvalue, Free
<1>3. CASE location[captures[c]] = Own
  <2>1. closed' \in [Upval -> Value] /\ UNCHANGED stack
    BY <1>1, <1>2, <1>3 DEF SetUpvalue
  <2> QED
    BY <1>1, <2>1, ListUntouched
<1>4. CASE location[captures[c]] # Own
  <2>1. location[captures[c]].slot \in 1..Len(stack)
    BY <1>2, <1>4 DEF UpvalInv, OthersClosed, OpenPlaced
  <2>2. stack' = [stack EXCEPT ![location[captures[c]].slot] = v] /\ UNCHANGED closed
    BY <1>4 DEF SetUpvalue
  <2>3. stack' \in Seq(Value) /\ Len(stack') = Len(stack)
    BY <1>1, <2>1, <2>2
  <2> QED
    BY <1>1, <2>2, <2>3, ListUntouched
<1> QED
  BY <1>3, <1>4

\* Closures come, share an upvalue and go.
LEMMA ClosureInv ==
    ASSUME UpvalInv, NEW c \in Closure, NEW d \in Closure, CaptureUpvalue(c, d) \/ Forget(c)
    PROVE  UpvalInv'
<1>1. captures \in [Closure -> Upval \cup {None}] /\ stack \in Seq(Value) /\ Len(stack) \in Nat
  BY DEF UpvalInv, TypeOK
<1>2. captures' \in [Closure -> Upval \cup {None}]
  BY <1>1 DEF CaptureUpvalue, Forget
<1> QED
  BY <1>1, <1>2, ListUntouched DEF UpvalInv, TypeOK, CaptureUpvalue, Forget

\* Moving the stack takes every open upvalue along.
LEMMA MovedPlace ==
    ASSUME UpvalInv, NEW u \in Range(open), NEW b \in Blocks
    PROVE  /\ [location[u] EXCEPT !.block = b] \in Places
           /\ [location[u] EXCEPT !.block = b].slot = Slot(u)
           /\ [location[u] EXCEPT !.block = b].block = b
<1>1. location[u] \in Places
  BY OpenOK
<1> QED
  BY <1>1 DEF Places, Slot

\* Moving the stack keeps the list sound: what the upvalues point to moves along.
LEMMA GrowInv == ASSUME UpvalInv, Grow PROVE UpvalInv'
<1>1. /\ UNCHANGED <<stack, bases, open, closed, captures>>
      /\ block' \in Blocks
      /\ location' = [u \in Upval |-> IF u \in Range(open)
                                      THEN [location[u] EXCEPT !.block = block'] ELSE location[u]]
  BY DEF Grow, Move, UpvalInv, TypeOK, Blocks
<1>2. location \in [Upval -> Places \cup {Own}] /\ Range(open) \subseteq Upval
  BY OpenOK DEF UpvalInv, TypeOK, Places
<1>3. \A u \in Range(open) : location'[u] \in Places /\ location'[u].slot = Slot(u)
                             /\ location'[u].block = block'
  BY <1>1, <1>2, MovedPlace
<1>4. TypeOK'
  BY <1>1, <1>2, <1>3 DEF UpvalInv, TypeOK, Places
<1>5. OpenSorted'
  BY <1>1, <1>3, OpenOK DEF UpvalInv, OpenSorted, Slot
<1>6. OpenPlaced' /\ OthersClosed' /\ BasesOK'
  BY <1>1, <1>2, <1>3 DEF UpvalInv, OpenPlaced, OthersClosed, BasesOK, Slot
<1> QED
  BY <1>4, <1>5, <1>6 DEF UpvalInv

\* A call keeps the list sound.
LEMMA CallInv ==
    ASSUME UpvalInv, NEW n \in 1..Len(stack)+1, Call(n) PROVE UpvalInv'
<1>1. bases \in Seq(Nat) /\ bases' = Append(bases, n) /\ n \in Nat /\ n >= 1
      /\ UNCHANGED <<stack, block, open, location, closed, captures>>
  BY DEF UpvalInv, TypeOK, Call
<1>2. /\ bases' \in Seq(Nat) /\ Len(bases') = Len(bases) + 1
      /\ \A k \in 1..Len(bases') : bases'[k] = IF k = Len(bases) + 1 THEN n ELSE bases[k]
      /\ DOMAIN bases = 1..Len(bases) /\ DOMAIN bases' = 1..Len(bases')
  BY <1>1
<1>3. BasesOK'
  BY <1>1, <1>2 DEF UpvalInv, BasesOK
<1>4. TypeOK'
  BY <1>1, <1>2 DEF UpvalInv, TypeOK
<1> QED
  BY <1>1, <1>3, <1>4 DEF UpvalInv, OpenSorted, OpenPlaced, OthersClosed

\* A new upvalue goes where tea_func_finduv stopped, and the list stays sorted.
LEMMA CaptureLocalInv ==
    ASSUME UpvalInv, GcMoves = FALSE, NEW c \in Closure, NEW i \in DOMAIN stack, CaptureLocal(c, i)
    PROVE  UpvalInv'
<1>1. /\ stack \in Seq(Value) /\ i \in 1..Len(stack) /\ Len(stack) \in Nat
      /\ block \in Blocks /\ open \in Seq(Upval)
      /\ captures \in [Closure -> Upval \cup {None}] /\ closed \in [Upval -> Value]
      /\ location \in [Upval -> Places \cup {Own}]
      /\ UNCHANGED <<stack, bases>>
  BY DEF UpvalInv, TypeOK, Places, CaptureLocal
<1>2. CASE Found(i)
  <2>1. captures' = [captures EXCEPT ![c] = open[Above(i) + 1]]
        /\ UNCHANGED <<block, open, location, closed>>
    BY <1>2 DEF CaptureLocal
  <2>2. open[Above(i) + 1] \in Upval
    BY <1>1, <1>2, FoundIffOpen, OpenOK
  <2> QED
    BY <1>1, <2>1, <2>2, ListUntouched
<1>3. CASE ~Found(i)
  <2>1. PICK u \in Upval :
            /\ u \notin Range(open)
            /\ open' = InsertAt(open, Above(i) + 1, u)
            /\ captures' = [captures EXCEPT ![c] = u]
            /\ closed' = [closed EXCEPT ![u] = Nil]
            /\ block' = block
            /\ location' = [w \in Upval |->
                   IF w = u THEN [block |-> block, slot |-> i]
                   ELSE IF w \in Range(open) THEN [location[w] EXCEPT !.block = block']
                   ELSE location[w]]
    BY <1>3 DEF CaptureLocal, Unused, NewClosed
  <2> DEFINE p == Above(i) + 1
  <2>2. /\ p \in 1..Len(open)+1
        /\ \A j \in 1..Len(open) : j < p <=> Slot(open[j]) > i
        /\ \A j \in 1..Len(open) : Slot(open[j]) # i
        /\ Len(open) \in Nat
        /\ \A j \in 1..Len(open) : open[j] \in Range(open) /\ Slot(open[j]) \in Nat
    <3>1. i \in Int /\ Len(open) \in Nat
          /\ \A j \in 1..Len(open) : open[j] \in Range(open) /\ Slot(open[j]) \in Nat
      BY <1>1, OpenOK
    <3>2. \A w \in Range(open) : Slot(w) # i
      BY <1>3, <3>1, FoundIffOpen
    <3>3. /\ Above(i) \in 0..Len(open)
          /\ \A j \in 1..Len(open) : j <= Above(i) <=> Slot(open[j]) > i
      BY <3>1, AboveIsPrefix
    <3> QED
      BY <3>1, <3>2, <3>3
  <2> HIDE DEF p
  <2>3. /\ open' \in Seq(Upval) /\ Len(open') = Len(open) + 1
        /\ \A j \in 1..Len(open)+1 :
              open'[j] = IF j < p THEN open[j] ELSE IF j = p THEN u ELSE open[j-1]
        /\ Range(open') = Range(open) \cup {u}
    <3>1. open' = InsertAt(open, p, u)
      BY <2>1 DEF p
    <3>2. /\ InsertAt(open, p, u) \in Seq(Upval)
          /\ Len(InsertAt(open, p, u)) = Len(open) + 1
          /\ \A j \in 1..Len(open)+1 : InsertAt(open, p, u)[j] =
                 IF j < p THEN open[j] ELSE IF j = p THEN u ELSE open[j-1]
          /\ Range(InsertAt(open, p, u)) = Range(open) \cup {u}
      BY <1>1, <2>2, InsertAtOK
    <3> QED
      BY <3>1, <3>2
  <2>4. /\ location'[u] = [block |-> block, slot |-> i]
        /\ location'[u] \in Places /\ location'[u].slot = i /\ location'[u].block = block
    BY <1>1, <2>1 DEF Places
  <2>5. \A w \in Range(open) : /\ location'[w] \in Places
                               /\ location'[w].slot = Slot(w)
                               /\ location'[w].block = block
    BY <1>1, <2>1, MovedPlace, OpenOK
  <2>6. \A w \in Upval \ Range(open') : location'[w] = location[w]
    BY <2>1, <2>3
  <2>7. TypeOK'
    <3>1. location' \in [Upval -> Places \cup {Own}]
      <4>1. \A w \in Upval : location'[w] \in Places \cup {Own}
        BY <1>1, <2>3, <2>4, <2>5, <2>6
      <4> QED
        BY <2>1, <4>1
    <3>2. captures' \in [Closure -> Upval \cup {None}] /\ closed' \in [Upval -> Value]
      BY <1>1, <2>1, UpvalConstantsOK
    <3> QED
      BY <1>1, <2>1, <2>3, <3>1, <3>2 DEF UpvalInv, TypeOK, Places
  <2>8. OpenSorted'
    <3>1. \A j \in 1..Len(open)+1 : location'[open'[j]].slot =
              IF j < p THEN Slot(open[j]) ELSE IF j = p THEN i ELSE Slot(open[j-1])
      <4> TAKE j \in 1..Len(open)+1
      <4>1. j < p => j \in 1..Len(open)
        BY <2>2
      <4>2. j > p => j-1 \in 1..Len(open)
        BY <2>2
      <4> QED
        BY <2>2, <2>3, <2>4, <2>5, <4>1, <4>2
    <3>2. \A j, k \in 1..Len(open) : j < k => Slot(open[j]) > Slot(open[k])
      BY OpenOK DEF UpvalInv, OpenSorted, Slot
    <3> SUFFICES ASSUME NEW j \in 1..Len(open)+1, NEW k \in 1..Len(open)+1, j < k
                 PROVE  location'[open'[j]].slot > location'[open'[k]].slot
      BY <2>3 DEF OpenSorted
    <3>3. CASE k < p
      BY <2>2, <3>1, <3>2, <3>3
    <3>4. CASE k = p
      BY <2>2, <3>1, <3>4
    <3>5. CASE j = p
      <4>1. k-1 \in 1..Len(open) /\ ~(k-1 < p)
        BY <2>2, <3>5
      <4>2. Slot(open[k-1]) < i
        BY <1>1, <2>2, <4>1
      <4> QED
        BY <2>2, <3>1, <3>5, <4>2
    <3>6. CASE j < p /\ k > p
      <4>1. k-1 \in 1..Len(open) /\ j \in 1..Len(open) /\ j < k-1
        BY <2>2, <3>6
      <4> QED
        BY <2>2, <3>1, <3>2, <3>6, <4>1
    <3>7. CASE j > p
      <4>1. k-1 \in 1..Len(open) /\ j-1 \in 1..Len(open) /\ j-1 < k-1
        BY <2>2, <3>7
      <4> QED
        BY <2>2, <3>1, <3>2, <3>7, <4>1
    <3> QED
      BY <2>2, <3>3, <3>4, <3>5, <3>6, <3>7
  <2>9. OpenPlaced' /\ OthersClosed' /\ BasesOK'
    BY <1>1, <2>1, <2>3, <2>4, <2>5, <2>6 DEF UpvalInv, OpenPlaced, OthersClosed, BasesOK, Slot
  <2> QED
    BY <2>7, <2>8, <2>9 DEF UpvalInv
<1> QED
  BY <1>2, <1>3

\* Cutting the stack below slot n once the upvalues from n on are closed.
LEMMA CutInv ==
    ASSUME UpvalInv, NEW n \in Nat, n >= 1, Close(n), Len(stack) >= n,
           UNCHANGED <<block, captures>>,
           stack' \in Seq(Value), Len(stack') >= n-1,
           bases' \in Seq(Nat), BasesOK'
    PROVE  UpvalInv'
<1>1. /\ open' \in Seq(Upval)
      /\ Range(open') = {u \in Range(open) : Slot(u) < n}
      /\ location' = [u \in Upval |-> IF u \in Range(open) /\ Slot(u) >= n THEN Own
                                      ELSE location[u]]
      /\ closed' = [u \in Upval |-> IF u \in Range(open) /\ Slot(u) >= n
                                    THEN stack[Slot(u)] ELSE closed[u]]
      /\ OpenSorted'
  BY CloseOK
<1>2. /\ stack \in Seq(Value) /\ closed \in [Upval -> Value] /\ block \in Blocks
      /\ location \in [Upval -> Places \cup {Own}]
      /\ captures \in [Closure -> Upval \cup {None}]
      /\ \A u \in Range(open) : u \in Upval /\ Slot(u) \in 1..Len(stack) /\ location[u].block = block
      /\ Len(stack) \in Nat /\ Len(stack') \in Nat
  BY OpenOK DEF UpvalInv, TypeOK, Places, OpenPlaced, Slot
<1>3. location' \in [Upval -> Places \cup {Own}] /\ closed' \in [Upval -> Value]
  <2>1. \A u \in Range(open) : stack[Slot(u)] \in Value
    BY <1>2
  <2> QED
    BY <1>1, <1>2, <2>1
<1>4. TypeOK'
  BY <1>1, <1>2, <1>3 DEF TypeOK, Places
<1>5. \A u \in Range(open') : /\ u \in Range(open) /\ Slot(u) < n
                              /\ location'[u] = location[u]
  BY <1>1, <1>2
<1>6. OpenPlaced'
  BY <1>2, <1>5 DEF OpenPlaced, Slot
<1>7. OthersClosed'
  <2> SUFFICES ASSUME NEW u \in Upval, u \notin Range(open') PROVE location'[u] = Own
    BY DEF OthersClosed
  <2>1. CASE u \in Range(open)
    BY <1>1, <1>2, <2>1
  <2>2. CASE u \notin Range(open)
    BY <1>1, <2>2 DEF UpvalInv, OthersClosed
  <2> QED
    BY <2>1, <2>2
<1> QED
  BY <1>1, <1>4, <1>6, <1>7 DEF UpvalInv

\* The compiler emits BC_POP only for a local that no function captured.
LEMMA EndLocalInv == ASSUME UpvalInv, EndLocal PROVE UpvalInv'
<1> DEFINE n == Len(stack)
<1>1. /\ n \in Nat /\ n >= 1 /\ stack \in Seq(Value)
      /\ bases \in Seq(Nat) /\ Len(bases) \in 1..Len(bases) /\ BasesOK
  <2>1. /\ stack \in Seq(Value) /\ bases \in Seq(Nat) /\ BasesOK
    BY DEF UpvalInv, TypeOK
  <2>2. Len(bases) \in 1..Len(bases)
    BY <2>1 DEF BasesOK
  <2>3. Base \in Nat /\ Base >= 1
    BY <2>2, BasesKept
  <2> QED
    BY <2>1, <2>2, <2>3 DEF EndLocal
<1>2. /\ UNCHANGED <<block, bases, captures>>
      /\ stack' = SubSeq(stack, 1, n-1)
  BY DEF EndLocal
<1>3. stack' \in Seq(Value) /\ Len(stack') = n-1
  <2> DEFINE m == n-1
  <2>1. m \in 0..Len(stack) /\ stack' = SubSeq(stack, 1, m)
    BY <1>1, <1>2
  <2> HIDE DEF m
  <2>2. stack' \in Seq(Value) /\ Len(stack') = m
    BY <1>1, <2>1, PrefixOK
  <2> QED
    BY <2>2 DEF m
<1>4. CASE Close(n)
  <2>1. bases' \in Seq(Nat) /\ BasesOK'
    BY <1>1, <1>2 DEF BasesOK
  <2>2. Len(stack) >= n /\ Len(stack') >= n-1 /\ n \in Nat /\ n >= 1
    BY <1>1, <1>3
  <2>3. stack' \in Seq(Value) /\ UNCHANGED <<block, captures>>
    BY <1>2, <1>3
  <2> QED
    BY <1>4, <2>1, <2>2, <2>3, CutInv
<1>5. CASE UNCHANGED <<open, location, closed>> /\ ~Found(n)
  <2>1. \A u \in Range(open) : Slot(u) # n
    BY <1>1, <1>5, FoundIffOpen
  <2>2. OpenPlaced'
    BY <1>1, <1>2, <1>3, <1>5, <2>1 DEF UpvalInv, OpenPlaced, Slot
  <2>3. TypeOK'
    BY <1>2, <1>3, <1>5 DEF UpvalInv, TypeOK
  <2> QED
    BY <1>2, <1>5, <2>2, <2>3 DEF UpvalInv, OpenSorted, OthersClosed, BasesOK
<1> QED
  BY <1>4, <1>5 DEF EndLocal

\* A return keeps the list sound: it closes the upvalues of the frame.
LEMMA ReturnInv == ASSUME UpvalInv, Return PROVE UpvalInv'
<1>1. /\ Len(bases) > 1 /\ Len(stack) >= Base /\ Close(Base)
      /\ stack' = Append(SubSeq(stack, 1, Base - 1), stack[Len(stack)])
      /\ bases' = SubSeq(bases, 1, Len(bases) - 1)
      /\ UNCHANGED <<block, captures>>
  BY DEF Return
<1>2. stack \in Seq(Value) /\ bases \in Seq(Nat)
  BY DEF UpvalInv, TypeOK
<1>3. Len(bases) \in 1..Len(bases) /\ Len(bases) - 1 \in 1..Len(bases)
  BY <1>1, <1>2
<1>4. Base \in Nat /\ Base >= 1 /\ bases' \in Seq(Nat) /\ BasesOK'
  BY <1>1, <1>3, BasesKept
<1>5. stack' \in Seq(Value) /\ Len(stack') = Base
  BY <1>1, <1>2, <1>4
<1> QED
  BY <1>1, <1>4, <1>5, CutInv

\* An error keeps the list sound: it closes the upvalues of all frames it leaves.
LEMMA UnwindInv ==
    ASSUME UpvalInv, NEW k \in 2..Len(bases), NEW v \in Value, Unwind(k, v) PROVE UpvalInv'
<1> DEFINE n == bases[k]
<1>1. /\ Len(stack) >= n /\ Close(n)
      /\ stack' = Append(SubSeq(stack, 1, n - 1), v)
      /\ bases' = SubSeq(bases, 1, k - 1)
      /\ UNCHANGED <<block, captures>>
  BY DEF Unwind
<1>2. stack \in Seq(Value) /\ bases \in Seq(Nat)
  BY DEF UpvalInv, TypeOK
<1>3. k \in 1..Len(bases) /\ k-1 \in 1..Len(bases)
  BY <1>2
<1>4. n \in Nat /\ n >= 1 /\ bases' \in Seq(Nat) /\ BasesOK'
  BY <1>1, <1>3, BasesKept
<1>5. stack' \in Seq(Value) /\ Len(stack') = n
  BY <1>1, <1>2, <1>4
<1> HIDE DEF n
<1> QED
  BY <1>1, <1>4, <1>5, CutInv

\* Every step keeps the list sound.
LEMMA NextUpval == ASSUME UpvalInv, GcMoves = FALSE, [Next]_vars PROVE UpvalInv'
<1>1. CASE UNCHANGED vars
  BY <1>1 DEF vars, UpvalInv, TypeOK, OpenSorted, OpenPlaced, OthersClosed, BasesOK
<1> QED
  BY <1>1, DeclareInv, AssignInv, CaptureLocalInv, ClosureInv, SetUpvalueInv, EndLocalInv,
     CallInv, ReturnInv, UnwindInv, GrowInv DEF Next

\* The list is sound always.
LEMMA SpecUpval == ASSUME GcMoves = FALSE PROVE Spec => []UpvalInv
<1>1. Init => UpvalInv
  BY InitUpval
<1>2. UpvalInv /\ [Next]_vars => UpvalInv'
  BY NextUpval
<1> QED
  BY <1>1, <1>2, PTL DEF Spec

\* The list of open upvalues is strictly descending and points into the stack as it
\* is allocated now, so that tea_func_finduv finds the one upvalue of a slot and
\* tea_func_closeuv misses none.
THEOREM OpenListIsSound == ASSUME GcMoves = FALSE PROVE Spec => []OpenListSound
<1>1. UpvalInv => OpenListSound
  <2> SUFFICES ASSUME UpvalInv PROVE OpenInStack
    BY DEF UpvalInv, OpenListSound
  <2>1. ASSUME NEW c \in Closure, ~Free(c), captures[c] \notin Range(open)
        PROVE  location[captures[c]] = Own
    BY <2>1 DEF UpvalInv, OthersClosed, TypeOK, Free
  <2> QED
    BY <2>1 DEF UpvalInv, OpenPlaced, OpenInStack
<1> QED
  BY <1>1, SpecUpval, PTL

-----------------------------------------------------------------------------
(* Variables as classes of names                                           *)
(*                                                                         *)
(* A set N of names, a key K[n] and a value V[n] of each: the names with   *)
(* one key denote one variable.                                            *)

Class(N, K, n) == {m \in N : K[m] = K[n]}
CellFor(N, K, V, n) == [names |-> Class(N, K, n), val |-> V[n]]
Rep(N, K, V) == {CellFor(N, K, V, n) : n \in N}
OneValue(N, K, V) == \A m, n \in N : K[m] = K[n] => V[m] = V[n]
SameKeys(N, K, L) == \A m, n \in N : K[m] = K[n] <=> L[m] = L[n]

\* CapturedVariables' operators, of a given set of cells.
CellWith(cs, name) == CHOOSE c \in cs : name \in c.names
Dropped(cs, D) == {c \in {[names |-> d.names \ D, val |-> d.val] : d \in cs} : c.names # {}}

\* How keys L and values W differ from K and V after an assignment through name n, a
\* capture of n's variable by x, a declaration of x, and the loss of the names in D.
Assigned(N, K, V, L, W, n, v) ==
    /\ OneValue(N, K, V) /\ n \in N /\ SameKeys(N, K, L)
    /\ \A m \in N : W[m] = IF K[m] = K[n] THEN v ELSE V[m]
Shared(N, K, V, L, W, n, x) ==
    /\ OneValue(N, K, V) /\ n \in N /\ x \notin N /\ SameKeys(N, K, L)
    /\ \A m \in N : W[m] = V[m] /\ (L[m] = L[x] <=> K[m] = K[n])
    /\ W[x] = V[n]
Declared(N, K, V, L, W, x, v) ==
    /\ x \notin N /\ SameKeys(N, K, L)
    /\ \A m \in N : W[m] = V[m] /\ L[m] # L[x]
    /\ W[x] = v
Lost(N, K, V, L, W, D) ==
    /\ OneValue(N, K, V) /\ SameKeys(N \ D, K, L)
    /\ \A m \in N \ D : W[m] = V[m]

\* Names with the same key have the same class and so the same variable.
LEMMA ClassOK ==
    ASSUME NEW N, NEW K, NEW V, OneValue(N, K, V), NEW n \in N
    PROVE  /\ n \in Class(N, K, n) /\ Class(N, K, n) \subseteq N
           /\ \A m \in N : m \in Class(N, K, n) <=> K[m] = K[n]
           /\ \A m \in N : K[m] = K[n] => Class(N, K, m) = Class(N, K, n) /\ V[m] = V[n]
           /\ CellFor(N, K, V, n).names = Class(N, K, n) /\ CellFor(N, K, V, n).val = V[n]
           /\ \A m \in N : CellFor(N, K, V, m) = CellFor(N, K, V, n) <=> K[m] = K[n]
<1>1. n \in Class(N, K, n) /\ Class(N, K, n) \subseteq N
  BY DEF Class
<1>2. \A m \in N : m \in Class(N, K, n) <=> K[m] = K[n]
  BY DEF Class
<1>3. \A m \in N : K[m] = K[n] => Class(N, K, m) = Class(N, K, n) /\ V[m] = V[n]
  BY DEF Class, OneValue
<1>4. \A m \in N : CellFor(N, K, V, m).names = Class(N, K, m) /\ CellFor(N, K, V, m).val = V[m]
  BY DEF CellFor
<1>5. ASSUME NEW m \in N PROVE CellFor(N, K, V, m) = CellFor(N, K, V, n) <=> K[m] = K[n]
  <2>1. ASSUME K[m] = K[n] PROVE CellFor(N, K, V, m) = CellFor(N, K, V, n)
    BY <1>3, <2>1 DEF CellFor
  <2>2. ASSUME CellFor(N, K, V, m) = CellFor(N, K, V, n) PROVE K[m] = K[n]
    <3>1. Class(N, K, m) = Class(N, K, n)
      BY <1>4, <2>2
    <3> QED
      BY <1>2, <3>1 DEF Class
  <2> QED
    BY <2>1, <2>2
<1> QED
  BY <1>1, <1>2, <1>3, <1>4, <1>5

\* Each name denotes one variable.
LEMMA RepCell ==
    ASSUME NEW N, NEW K, NEW V, OneValue(N, K, V), NEW n \in N
    PROVE  CellWith(Rep(N, K, V), n) = CellFor(N, K, V, n)
<1>1. CellFor(N, K, V, n) \in Rep(N, K, V) /\ n \in CellFor(N, K, V, n).names
  BY ClassOK DEF Rep
<1>2. ASSUME NEW c \in Rep(N, K, V), n \in c.names PROVE c = CellFor(N, K, V, n)
  <2>1. PICK m \in N : c = CellFor(N, K, V, m)
    BY DEF Rep
  <2>2. K[n] = K[m]
    BY <1>2, <2>1, ClassOK
  <2> QED
    BY <2>1, <2>2, ClassOK
<1> QED
  BY <1>1, <1>2 DEF CellWith

\* The classes of names that share a place contain every name once.
LEMMA RepNames ==
    ASSUME NEW N, NEW K, NEW V, OneValue(N, K, V)
    PROVE  UNION {c.names : c \in Rep(N, K, V)} = N
<1>1. ASSUME NEW n \in N PROVE \E c \in Rep(N, K, V) : n \in c.names
  BY ClassOK DEF Rep
<1>2. ASSUME NEW c \in Rep(N, K, V) PROVE c.names \subseteq N
  BY ClassOK DEF Rep
<1> QED
  BY <1>1, <1>2

\* Records of a name set and a value, changed in one field.
LEMMA CellUpdate ==
    ASSUME NEW M, NEW x, NEW y, NEW c, c = [names |-> M, val |-> x]
    PROVE  /\ [c EXCEPT !.val = y] = [names |-> M, val |-> y]
           /\ [c EXCEPT !.names = @ \cup {y}] = [names |-> M \cup {y}, val |-> x]
BY Z3

\* Assigning through one name of a variable.
LEMMA RepAssign ==
    ASSUME NEW N, NEW K, NEW V, NEW L, NEW W, NEW n, NEW v, Assigned(N, K, V, L, W, n, v)
    PROVE  Rep(N, L, W) = (Rep(N, K, V) \ {CellWith(Rep(N, K, V), n)})
                              \cup {[CellWith(Rep(N, K, V), n) EXCEPT !.val = v]}
<1> USE DEF Assigned
<1> DEFINE c == CellFor(N, K, V, n)
           d == [names |-> Class(N, K, n), val |-> v]
<1>1. CellWith(Rep(N, K, V), n) = c /\ [c EXCEPT !.val = v] = d
  BY RepCell, CellUpdate DEF CellFor
<1>2. \A m \in N : Class(N, L, m) = Class(N, K, m)
  BY DEF Class, SameKeys
<1>3. ASSUME NEW m \in N, K[m] = K[n] PROVE CellFor(N, L, W, m) = d /\ CellFor(N, K, V, m) = c
  BY <1>2, <1>3, ClassOK DEF CellFor
<1>4. ASSUME NEW m \in N, K[m] # K[n]
      PROVE  CellFor(N, L, W, m) = CellFor(N, K, V, m) /\ CellFor(N, K, V, m) # c
  <2>1. CellFor(N, L, W, m) = CellFor(N, K, V, m)
    BY <1>2, <1>4 DEF CellFor
  <2>2. CellFor(N, K, V, m) # c
    BY <1>4, ClassOK
  <2> QED
    BY <2>1, <2>2
<1> HIDE DEF c, d
<1>5. Rep(N, L, W) = (Rep(N, K, V) \ {c}) \cup {d}
  <2>1. ASSUME NEW m \in N PROVE CellFor(N, L, W, m) \in (Rep(N, K, V) \ {c}) \cup {d}
    BY <1>3, <1>4 DEF Rep
  <2>2. ASSUME NEW m \in N, CellFor(N, K, V, m) # c PROVE CellFor(N, K, V, m) \in Rep(N, L, W)
    BY <1>3, <1>4, <2>2 DEF Rep
  <2>3. d \in Rep(N, L, W)
    BY <1>3 DEF Rep
  <2> QED
    BY <2>1, <2>2, <2>3 DEF Rep
<1> QED
  BY <1>1, <1>5

\* A new name for a variable.
LEMMA RepCapture ==
    ASSUME NEW N, NEW K, NEW V, NEW L, NEW W, NEW n, NEW x, Shared(N, K, V, L, W, n, x)
    PROVE  Rep(N \cup {x}, L, W) =
               (Rep(N, K, V) \ {CellWith(Rep(N, K, V), n)})
                   \cup {[CellWith(Rep(N, K, V), n) EXCEPT !.names = @ \cup {x}]}
<1> USE DEF Shared
<1> DEFINE c == CellFor(N, K, V, n)
           d == [names |-> Class(N, K, n) \cup {x}, val |-> V[n]]
           M == N \cup {x}
<1>1. CellWith(Rep(N, K, V), n) = c /\ [c EXCEPT !.names = @ \cup {x}] = d
  <2>1. CellWith(Rep(N, K, V), n) = c
    BY RepCell
  <2>2. c = [names |-> Class(N, K, n), val |-> V[n]]
    BY DEF CellFor
  <2> HIDE DEF c
  <2>3. [c EXCEPT !.names = @ \cup {x}] = d
    BY <2>2, CellUpdate
  <2> QED
    BY <2>1, <2>3
<1>2. ASSUME NEW m \in N, K[m] = K[n] PROVE CellFor(M, L, W, m) = d /\ CellFor(N, K, V, m) = c
  <2>1. Class(M, L, m) = Class(N, K, n) \cup {x}
    BY <1>2 DEF Class, SameKeys
  <2> QED
    BY <1>2, <2>1, ClassOK DEF CellFor
<1>3. CellFor(M, L, W, x) = d
  <2>1. Class(M, L, x) = Class(N, K, n) \cup {x}
    BY DEF Class
  <2> QED
    BY <2>1 DEF CellFor
<1>4. ASSUME NEW m \in N, K[m] # K[n]
      PROVE  CellFor(M, L, W, m) = CellFor(N, K, V, m) /\ CellFor(N, K, V, m) # c
  <2>1. Class(M, L, m) = Class(N, K, m)
    BY <1>4 DEF Class, SameKeys
  <2> QED
    BY <1>4, <2>1, ClassOK DEF CellFor
<1> HIDE DEF c, d
<1>5. Rep(M, L, W) = (Rep(N, K, V) \ {c}) \cup {d}
  <2>1. ASSUME NEW m \in M PROVE CellFor(M, L, W, m) \in (Rep(N, K, V) \ {c}) \cup {d}
    BY <1>2, <1>3, <1>4 DEF Rep
  <2>2. ASSUME NEW m \in N, CellFor(N, K, V, m) # c PROVE CellFor(N, K, V, m) \in Rep(M, L, W)
    BY <1>2, <1>4, <2>2 DEF Rep
  <2>3. d \in Rep(M, L, W)
    BY <1>3 DEF Rep
  <2> HIDE DEF M
  <2> QED
    BY <2>1, <2>2, <2>3 DEF Rep
<1> QED
  BY <1>1, <1>5

\* A variable with one name, which was not in use.
LEMMA RepDeclare ==
    ASSUME NEW N, NEW K, NEW V, NEW L, NEW W, NEW x, NEW v, Declared(N, K, V, L, W, x, v)
    PROVE  Rep(N \cup {x}, L, W) = Rep(N, K, V) \cup {[names |-> {x}, val |-> v]}
<1> USE DEF Declared
<1> DEFINE M == N \cup {x}
           d == [names |-> {x}, val |-> v]
<1>1. CellFor(M, L, W, x) = d
  <2>1. Class(M, L, x) = {x}
    BY DEF Class
  <2> QED
    BY <2>1 DEF CellFor
<1>2. ASSUME NEW m \in N PROVE CellFor(M, L, W, m) = CellFor(N, K, V, m)
  <2>1. Class(M, L, m) = Class(N, K, m)
    BY DEF Class, SameKeys
  <2> QED
    BY <2>1 DEF CellFor
<1> HIDE DEF d
<1>3. Rep(M, L, W) = Rep(N, K, V) \cup {d}
  <2>1. ASSUME NEW m \in M PROVE CellFor(M, L, W, m) \in Rep(N, K, V) \cup {d}
    BY <1>1, <1>2 DEF Rep
  <2>2. ASSUME NEW m \in N PROVE CellFor(N, K, V, m) \in Rep(M, L, W)
    BY <1>2 DEF Rep
  <2>3. d \in Rep(M, L, W)
    BY <1>1 DEF Rep
  <2> HIDE DEF M
  <2> QED
    BY <2>1, <2>2, <2>3 DEF Rep
<1> QED
  BY <1>3 DEF d

\* Names that are no longer used; a variable without a name is gone.
LEMMA RepDrop ==
    ASSUME NEW N, NEW K, NEW V, NEW L, NEW W, NEW D, Lost(N, K, V, L, W, D)
    PROVE  Rep(N \ D, L, W) = Dropped(Rep(N, K, V), D)
<1> USE DEF Lost
<1> DEFINE M == N \ D
           cut(m) == [names |-> CellFor(N, K, V, m).names \ D, val |-> CellFor(N, K, V, m).val]
<1>1. ASSUME NEW m \in N PROVE cut(m).names = Class(N, K, m) \ D /\ cut(m).val = V[m]
  BY ClassOK
<1>2. ASSUME NEW m \in M, NEW n \in N, K[m] = K[n] PROVE CellFor(M, L, W, m) = cut(n)
  <2>1. Class(M, L, m) = Class(N, K, n) \ D
    BY <1>2 DEF Class, SameKeys
  <2>2. W[m] = V[n]
    BY <1>2 DEF OneValue
  <2> QED
    BY <2>1, <2>2, ClassOK DEF CellFor
<1>3. \A c : c \in Dropped(Rep(N, K, V), D) <=> \E n \in N : c = cut(n) /\ c.names # {}
  BY DEF Dropped, Rep
<1>4. ASSUME NEW m \in M PROVE CellFor(M, L, W, m) \in Dropped(Rep(N, K, V), D)
  <2>1. CellFor(M, L, W, m) = cut(m)
    BY <1>2
  <2>2. m \in cut(m).names
    BY <1>1, ClassOK
  <2> HIDE DEF cut
  <2> QED
    BY <1>3, <2>1, <2>2
<1>5. ASSUME NEW n \in N, cut(n).names # {} PROVE cut(n) \in Rep(M, L, W)
  <2>1. PICK m \in Class(N, K, n) : m \notin D
    BY <1>1, <1>5
  <2>2. m \in M /\ K[m] = K[n]
    BY <2>1 DEF Class
  <2> HIDE DEF cut
  <2> QED
    BY <1>2, <2>2 DEF Rep
<1> HIDE DEF cut, M
<1>6. Rep(M, L, W) = Dropped(Rep(N, K, V), D)
  <2>1. ASSUME NEW c \in Rep(M, L, W) PROVE c \in Dropped(Rep(N, K, V), D)
    BY <1>4 DEF Rep
  <2>2. ASSUME NEW c \in Dropped(Rep(N, K, V), D) PROVE c \in Rep(M, L, W)
    BY <1>3, <1>5
  <2> QED
    BY <2>1, <2>2
<1> QED
  BY <1>6 DEF M

\* Only which names have equal keys matters.
LEMMA RepSame ==
    ASSUME NEW N, NEW K, NEW V, NEW L, NEW W, SameKeys(N, K, L), \A m \in N : W[m] = V[m]
    PROVE  Rep(N, L, W) = Rep(N, K, V)
<1>1. ASSUME NEW m \in N PROVE CellFor(N, L, W, m) = CellFor(N, K, V, m)
  BY DEF CellFor, Class, SameKeys
<1> QED
  BY <1>1 DEF Rep

-----------------------------------------------------------------------------
(* The variables of a state                                                *)

NameSet == (DOMAIN stack) \cup {c \in Closure : captures[c] # None}
IsShut(c) == location[captures[c]] = Own
Key(n) ==
    IF n \in Closure
    THEN IF IsShut(n) THEN <<0, captures[n]>> ELSE <<Slot(captures[n]), None>>
    ELSE <<n, None>>
Val(n) ==
    IF n \in Closure
    THEN IF IsShut(n) THEN closed[captures[n]] ELSE stack[Slot(captures[n])]
    ELSE stack[n]
Keys == [n \in NameSet |-> Key(n)]
Vals == [n \in NameSet |-> Val(n)]
Cells == {Cell(i) : i \in DOMAIN stack} \cup ClosedCells

\* What a closure captured is closed or in use.
LEMMA CapturedOK ==
    ASSUME UpvalInv
    PROVE  /\ stack \in Seq(Value) /\ Len(stack) \in Nat /\ DOMAIN stack = 1..Len(stack)
           /\ captures \in [Closure -> Upval \cup {None}] /\ closed \in [Upval -> Value]
           /\ \A c \in Closure : c \notin Int
           /\ \A c \in Closure : captures[c] # None =>
                /\ captures[c] \in Upval
                /\ IsShut(c) <=> captures[c] \notin Range(open)
                /\ ~IsShut(c) => Slot(captures[c]) \in 1..Len(stack)
           /\ NameSet \subseteq (1..Len(stack)) \cup Closure
           /\ \A i \in 1..Len(stack) : i \notin Closure /\ i \in NameSet
<1>1. /\ stack \in Seq(Value) /\ captures \in [Closure -> Upval \cup {None}]
      /\ closed \in [Upval -> Value]
  BY DEF UpvalInv, TypeOK
<1>2. Len(stack) \in Nat /\ DOMAIN stack = 1..Len(stack)
  BY <1>1
<1>3. (\A c \in Closure : c \notin Int) /\ \A i \in 1..Len(stack) : i \notin Closure
  BY <1>2, UpvalConstantsOK
<1>4. ASSUME NEW c \in Closure, captures[c] # None
      PROVE  /\ captures[c] \in Upval
             /\ IsShut(c) <=> captures[c] \notin Range(open)
             /\ ~IsShut(c) => Slot(captures[c]) \in 1..Len(stack)
  <2>1. captures[c] \in Upval
    BY <1>1, <1>4
  <2> QED
    BY <2>1, OpenOK DEF UpvalInv, OthersClosed, OpenPlaced, IsShut, Slot
<1> QED
  BY <1>1, <1>2, <1>3, <1>4 DEF NameSet

\* Names with one key show one value.
LEMMA OneValueOK == ASSUME UpvalInv PROVE OneValue(NameSet, Keys, Vals)
<1> SUFFICES ASSUME NEW m \in NameSet, NEW n \in NameSet, Key(m) = Key(n)
             PROVE  Val(m) = Val(n)
  BY DEF OneValue, Keys, Vals
<1>1. \A i \in 1..Len(stack) : i # 0
  BY CapturedOK
<1>2. \A k \in NameSet : /\ k \in Closure \/ k \in 1..Len(stack)
                         /\ k \in Closure => captures[k] # None
  BY CapturedOK DEF NameSet
<1>3. \A k \in NameSet : Key(k)[1] = 0 => Val(k) = closed[Key(k)[2]]
  BY <1>1, <1>2, CapturedOK DEF Key, Val
<1>4. \A k \in NameSet : Key(k)[1] # 0 => Val(k) = stack[Key(k)[1]]
  BY <1>1, <1>2, CapturedOK DEF Key, Val
<1> QED
  BY <1>3, <1>4

\* The abstract variables are the classes of names of the state.
LEMMA CellsAreClasses == ASSUME UpvalInv PROVE Cells = Rep(NameSet, Keys, Vals)
<1>1. \A k \in NameSet : /\ k \in Closure \/ k \in 1..Len(stack)
                         /\ k \in Closure => captures[k] # None
  BY CapturedOK DEF NameSet
<1>2. ASSUME NEW i \in 1..Len(stack) PROVE Cell(i) = CellFor(NameSet, Keys, Vals, i)
  <2>1. i \in NameSet /\ Key(i) = <<i, None>> /\ Val(i) = stack[i] /\ i # 0
    BY CapturedOK DEF Key, Val
  <2> DEFINE names == {i} \cup UNION {Shown(u) : u \in {w \in Range(open) : location[w].slot = i}}
  <2>2. ASSUME NEW m \in names PROVE m \in NameSet /\ Key(m) = <<i, None>>
    <3>1. CASE m = i
      BY <2>1, <3>1
    <3>2. CASE m # i
      <4>1. PICK u \in Range(open) : Slot(u) = i /\ m \in Shown(u)
        BY <3>2 DEF Slot
      <4>2. m \in Closure /\ captures[m] = u /\ u \in Upval /\ u # None
        BY <4>1, OpenOK, UpvalConstantsOK DEF Shown
      <4>3. ~IsShut(m)
        BY <4>2, CapturedOK
      <4> QED
        BY <4>1, <4>2, <4>3 DEF NameSet, Key
    <3> QED
      BY <3>1, <3>2
  <2>3. ASSUME NEW m \in NameSet, Key(m) = <<i, None>> PROVE m \in names
    <3>1. CASE m \in Closure
      <4>1. ~IsShut(m) /\ Slot(captures[m]) = i
        BY <2>1, <2>3, <3>1 DEF Key
      <4>2. captures[m] \in Range(open) /\ m \in Shown(captures[m])
        BY <1>1, <3>1, <4>1, CapturedOK DEF Shown
      <4> QED
        BY <4>1, <4>2 DEF Slot
    <3>2. CASE m \notin Closure
      BY <2>3, <3>2 DEF Key
    <3> QED
      BY <3>1, <3>2
  <2>4. names = Class(NameSet, Keys, i)
    <3> HIDE DEF names
    <3>1. \A m \in NameSet : Keys[m] = Key(m)
      BY DEF Keys
    <3> QED
      BY <2>1, <2>2, <2>3, <3>1 DEF Class
  <2>5. Cell(i) = [names |-> names, val |-> stack[i]]
    BY DEF Cell
  <2> QED
    BY <2>1, <2>4, <2>5 DEF CellFor, Vals
<1>3. ASSUME NEW c \in NameSet, c \in Closure, IsShut(c)
      PROVE  /\ captures[c] \in Upval /\ location[captures[c]] = Own /\ Shown(captures[c]) # {}
             /\ [names |-> Shown(captures[c]), val |-> closed[captures[c]]]
                   = CellFor(NameSet, Keys, Vals, c)
  <2> DEFINE u == captures[c]
  <2>1. u \in Upval /\ u # None /\ location[u] = Own /\ c \in Shown(u)
    BY <1>1, <1>3, CapturedOK DEF IsShut, Shown
  <2>2. Key(c) = <<0, u>> /\ Val(c) = closed[u]
    BY <1>3 DEF Key, Val
  <2>3. ASSUME NEW m \in Shown(u) PROVE m \in NameSet /\ Key(m) = <<0, u>>
    <3>1. m \in Closure /\ captures[m] = u /\ IsShut(m)
      BY <2>1 DEF Shown, IsShut
    <3> QED
      BY <2>1, <3>1 DEF NameSet, Key
  <2>4. ASSUME NEW m \in NameSet, Key(m) = <<0, u>> PROVE m \in Shown(u)
    <3>1. \A i \in 1..Len(stack) : i # 0
      BY CapturedOK
    <3>2. m \in Closure
      BY <1>1, <2>4, <3>1 DEF Key
    <3>3. IsShut(m)
      BY <1>1, <2>4, <3>1, <3>2, CapturedOK DEF Key
    <3> QED
      BY <2>4, <3>2, <3>3 DEF Key, Shown
  <2>5. Shown(u) = Class(NameSet, Keys, c)
    <3>1. \A m \in NameSet : Keys[m] = Key(m)
      BY DEF Keys
    <3> HIDE DEF u
    <3> QED
      BY <2>2, <2>3, <2>4, <3>1 DEF Class
  <2> QED
    BY <2>1, <2>2, <2>5 DEF CellFor, Vals
<1>4. ASSUME NEW c \in NameSet, c \in Closure, ~IsShut(c)
      PROVE  \E i \in 1..Len(stack) : Cell(i) = CellFor(NameSet, Keys, Vals, c)
  <2> DEFINE i == Slot(captures[c])
  <2>1. i \in 1..Len(stack) /\ Key(c) = <<i, None>>
    BY <1>1, <1>4, CapturedOK DEF Key
  <2>2. i \in NameSet /\ Key(i) = <<i, None>>
    BY <2>1, CapturedOK DEF Key
  <2>3. Keys[c] = Keys[i]
    BY <2>1, <2>2 DEF Keys
  <2> HIDE DEF i
  <2>4. CellFor(NameSet, Keys, Vals, c) = CellFor(NameSet, Keys, Vals, i)
    BY <2>2, <2>3, OneValueOK, ClassOK
  <2> QED
    BY <1>2, <2>1, <2>4
<1>5. ASSUME NEW x \in Cells PROVE x \in Rep(NameSet, Keys, Vals)
  <2>1. CASE x \in {Cell(i) : i \in DOMAIN stack}
    BY <1>2, <2>1, CapturedOK DEF Rep
  <2>2. CASE x \in ClosedCells
    <3>1. PICK u \in Upval : location[u] = Own /\ Shown(u) # {}
                             /\ x = [names |-> Shown(u), val |-> closed[u]]
      BY <2>2 DEF ClosedCells
    <3>2. PICK c \in Closure : captures[c] = u
      BY <3>1 DEF Shown
    <3>3. c \in NameSet /\ IsShut(c)
      BY <3>1, <3>2, UpvalConstantsOK DEF NameSet, IsShut
    <3> QED
      BY <1>3, <3>1, <3>2, <3>3 DEF Rep
  <2> QED
    BY <2>1, <2>2 DEF Cells
<1>6. ASSUME NEW n \in NameSet PROVE CellFor(NameSet, Keys, Vals, n) \in Cells
  <2>1. CASE n \in Closure /\ IsShut(n)
    BY <1>3, <2>1 DEF Cells, ClosedCells
  <2>2. CASE n \in Closure /\ ~IsShut(n)
    BY <1>4, <2>2, CapturedOK DEF Cells
  <2>3. CASE n \notin Closure
    BY <1>1, <1>2, <2>3, CapturedOK DEF Cells
  <2> QED
    BY <2>1, <2>2, <2>3
<1> QED
  BY <1>5, <1>6 DEF Rep

\* The variables before and after a step.
Represented == Cells = Rep(NameSet, Keys, Vals)

\* The abstract cells are the classes of names of TeaUpval.
LEMMA CellsRepresented == UpvalInv => Represented
BY CellsAreClasses DEF Represented

\* Before and after a step the cells are given by the places and the values of the names.
LEMMA StepRep ==
    ASSUME UpvalInv, UpvalInv'
    PROVE  /\ Cells = Rep(NameSet, Keys, Vals) /\ Cells' = Rep(NameSet', Keys', Vals')
           /\ OneValue(NameSet, Keys, Vals)
           /\ \A m \in NameSet : Keys[m] = Key(m) /\ Vals[m] = Val(m)
           /\ \A m \in NameSet' : Keys'[m] = Key(m)' /\ Vals'[m] = Val(m)'
<1>1. Represented'
  BY CellsRepresented, PTL
<1>2. \A m \in NameSet : Keys[m] = Key(m) /\ Vals[m] = Val(m)
  BY DEF Keys, Vals
<1>3. \A m \in NameSet' : Keys'[m] = Key(m)' /\ Vals'[m] = Val(m)'
  BY DEF Keys, Vals
<1> QED
  BY <1>1, <1>2, <1>3, CellsAreClasses, OneValueOK DEF Represented

\* CapturedVariables, of these variables.
LEMMA AbstractOps ==
    /\ \A n : Variables!CellOf(n) = CellWith(Cells, n)
    /\ Variables!Names = UNION {c.names : c \in Cells}
    /\ \A D : Variables!Without(D) = Dropped(Cells, D)
BY DEF Variables!CellOf, Variables!Names, Variables!Without, CellWith, Dropped, Cells

\* Giving the names of one place a new value is an abstract assignment.
LEMMA AbstractAssign ==
    ASSUME UpvalInv, UpvalInv', NEW n \in NameSet, NEW v \in Value,
           NameSet' = NameSet, Len(stack') = Len(stack),
           \A m, k \in NameSet : Key(m) = Key(k) <=> Key(m)' = Key(k)',
           \A m \in NameSet : Val(m)' = IF Key(m) = Key(n) THEN v ELSE Val(m)
    PROVE  Variables!Next
<1>1. Assigned(NameSet, Keys, Vals, Keys', Vals', n, v)
  BY StepRep DEF Assigned, SameKeys
<1>2. Rep(NameSet, Keys', Vals') = (Rep(NameSet, Keys, Vals) \ {CellWith(Rep(NameSet, Keys, Vals), n)})
          \cup {[CellWith(Rep(NameSet, Keys, Vals), n) EXCEPT !.val = v]}
  BY <1>1, RepAssign
<1>3. Cells' = (Cells \ {CellWith(Cells, n)}) \cup {[CellWith(Cells, n) EXCEPT !.val = v]}
  BY <1>2, StepRep
<1>4. n \in Variables!Names
  BY StepRep, RepNames, AbstractOps
<1>5. Variables!Assign(n, v)
  BY <1>3, AbstractOps DEF Variables!Assign, Cells
<1> QED
  BY <1>4, <1>5 DEF Variables!Next

\* Giving a place another name is an abstract capture.
LEMMA AbstractCapture ==
    ASSUME UpvalInv, UpvalInv', NEW c \in Closure, c \notin NameSet, NEW n \in NameSet,
           NameSet' = NameSet \cup {c}, Len(stack') = Len(stack),
           \A m, k \in NameSet : Key(m) = Key(k) <=> Key(m)' = Key(k)',
           \A m \in NameSet : Key(m)' = Key(c)' <=> Key(m) = Key(n),
           \A m \in NameSet : Val(m)' = Val(m),
           Val(c)' = Val(n)
    PROVE  Variables!Next
<1>1. Shared(NameSet, Keys, Vals, Keys', Vals', n, c)
  BY StepRep DEF Shared, SameKeys
<1>2. Rep(NameSet \cup {c}, Keys', Vals') =
          (Rep(NameSet, Keys, Vals) \ {CellWith(Rep(NameSet, Keys, Vals), n)})
              \cup {[CellWith(Rep(NameSet, Keys, Vals), n) EXCEPT !.names = @ \cup {c}]}
  BY <1>1, RepCapture
<1>3. Cells' = (Cells \ {CellWith(Cells, n)}) \cup {[CellWith(Cells, n) EXCEPT !.names = @ \cup {c}]}
  BY <1>2, StepRep
<1>4. Variables!Names = NameSet
  BY StepRep, RepNames, AbstractOps
<1>5. Variables!Capture(c, n)
  BY <1>3, <1>4, AbstractOps DEF Variables!Capture, Cells
<1> QED
  BY <1>4, <1>5 DEF Variables!Next

\* Dropping names drops them from their cells.
LEMMA AbstractDrop ==
    ASSUME UpvalInv, UpvalInv', NEW D, NameSet' = NameSet \ D,
           \A m, k \in NameSet \ D : Key(m) = Key(k) <=> Key(m)' = Key(k)',
           \A m \in NameSet \ D : Val(m)' = Val(m)
    PROVE  Cells' = Variables!Without(D)
<1>1. Lost(NameSet, Keys, Vals, Keys', Vals', D)
  BY StepRep DEF Lost, SameKeys
<1>2. Rep(NameSet \ D, Keys', Vals') = Dropped(Rep(NameSet, Keys, Vals), D)
  BY <1>1, RepDrop
<1> QED
  BY <1>2, StepRep, AbstractOps

\* The names in D go, and x becomes the name of a new variable.
Replaced(D, x, v) ==
    /\ NameSet' = (NameSet \ D) \cup {x} /\ x \notin NameSet \ D
    /\ \A m, k \in NameSet \ D : Key(m) = Key(k) <=> Key(m)' = Key(k)'
    /\ \A m \in NameSet \ D : Val(m)' = Val(m) /\ Key(m)' # Key(x)'
    /\ Val(x)' = v

\* a name that is dropped and declared gets a cell of its own,
LEMMA AbstractReplace ==
    ASSUME UpvalInv, UpvalInv', NEW D, NEW x, NEW v, Replaced(D, x, v)
    PROVE  Cells' = Variables!Without(D) \cup {[names |-> {x}, val |-> v]}
<1> USE DEF Replaced
<1> DEFINE N == NameSet \ D
<1>1. Lost(NameSet, Keys, Vals, Keys, Vals, D) /\ Declared(N, Keys, Vals, Keys', Vals', x, v)
  BY StepRep DEF Lost, Declared, SameKeys
<1>2. Rep(NameSet \ D, Keys, Vals) = Dropped(Rep(NameSet, Keys, Vals), D)
  BY <1>1, RepDrop
<1> HIDE DEF N
<1>3. Rep(N \cup {x}, Keys', Vals') = Rep(N, Keys, Vals) \cup {[names |-> {x}, val |-> v]}
  BY <1>1, RepDeclare
<1> QED
  BY <1>2, <1>3, StepRep, AbstractOps DEF N

\* Keeping places and values keeps the cells.
LEMMA AbstractSame ==
    ASSUME UpvalInv, UpvalInv', NameSet' = NameSet,
           \A m \in NameSet : Key(m)' = Key(m) /\ Val(m)' = Val(m)
    PROVE  Cells' = Cells
<1>1. SameKeys(NameSet, Keys, Keys') /\ \A m \in NameSet : Vals'[m] = Vals[m]
  BY StepRep DEF SameKeys
<1>2. Rep(NameSet, Keys', Vals') = Rep(NameSet, Keys, Vals)
  BY <1>1, RepSame
<1> QED
  BY <1>2, StepRep

-----------------------------------------------------------------------------
(* Every step is one of CapturedVariables, or changes no variable.         *)

\* What a name denotes.
LEMMA KeyForms ==
    ASSUME UpvalInv, NEW m \in NameSet
    PROVE  \/ /\ m \in Closure /\ captures[m] \in Upval /\ captures[m] # None /\ IsShut(m)
              /\ captures[m] \notin Range(open)
              /\ Key(m) = <<0, captures[m]>> /\ Val(m) = closed[captures[m]]
           \/ /\ m \in Closure /\ captures[m] \in Range(open) /\ captures[m] \in Upval
              /\ captures[m] # None /\ ~IsShut(m)
              /\ Slot(captures[m]) \in 1..Len(stack) /\ Slot(captures[m]) # 0
              /\ Key(m) = <<Slot(captures[m]), None>> /\ Val(m) = stack[Slot(captures[m])]
           \/ /\ m \notin Closure /\ m \in 1..Len(stack) /\ m # 0
              /\ Key(m) = <<m, None>> /\ Val(m) = stack[m]
<1>1. \A i \in 1..Len(stack) : i # 0
  BY CapturedOK
<1>2. CASE m \in Closure
  <2>1. captures[m] # None
    BY <1>2, CapturedOK DEF NameSet
  <2>2. /\ captures[m] \in Upval
        /\ IsShut(m) <=> captures[m] \notin Range(open)
        /\ ~IsShut(m) => Slot(captures[m]) \in 1..Len(stack)
    BY <1>2, <2>1, CapturedOK
  <2> QED
    BY <1>1, <1>2, <2>1, <2>2 DEF Key, Val
<1>3. CASE m \notin Closure
  BY <1>1, <1>3, CapturedOK DEF Key, Val
<1> QED
  BY <1>2, <1>3

\* Declaring a local is an abstract declaration.
LEMMA DeclareStep ==
    ASSUME UpvalInv, UpvalInv', NEW v \in Value, Declare(v) PROVE Variables!Next
<1>0. Len(stack) \in Nat /\ Len(stack) + 1 \in Int
  BY CapturedOK
<1>1. PICK x \in Int : x = Len(stack) + 1
  BY <1>0
<1>2. /\ stack \in Seq(Value) /\ Len(stack) \in Nat /\ x # 0
      /\ stack' = Append(stack, v)
      /\ UNCHANGED <<open, location, closed, captures>>
  BY <1>1, CapturedOK DEF Declare
<1>3. /\ Len(stack') = x /\ DOMAIN stack' = 1..x /\ DOMAIN stack = 1..Len(stack)
      /\ stack'[x] = v /\ \A i \in 1..Len(stack) : stack'[i] = stack[i]
  BY <1>1, <1>2
<1>4. NameSet' = (NameSet \ {}) \cup {x} /\ x \notin NameSet \ {} /\ x \notin Closure
  <2>1. x \notin Closure /\ x \notin 1..Len(stack)
    BY <1>1, <1>2, UpvalConstantsOK
  <2>2. 1..x = (1..Len(stack)) \cup {x}
    BY <1>1, <1>2
  <2> QED
    BY <1>2, <1>3, <2>1, <2>2 DEF NameSet
<1>5. \A m \in NameSet : Key(m)' = Key(m)
  BY <1>2 DEF Key, IsShut, Slot
<1>6. \A m \in NameSet : Val(m)' = Val(m)
  BY <1>2, <1>3, KeyForms DEF Val, IsShut, Slot
<1>7. Key(x)' = <<x, None>> /\ Val(x)' = v
  BY <1>3, <1>4 DEF Key, Val
<1>8. \A m \in NameSet : Key(m) # <<x, None>>
  <2>1. \A i \in 1..Len(stack) : i # x
    BY <1>1, <1>2
  <2> QED
    BY <1>2, <2>1, KeyForms
<1>9. Cells' = Variables!Without({}) \cup {[names |-> {x}, val |-> v]}
  <2>1. Replaced({}, x, v)
    BY <1>4, <1>5, <1>6, <1>7, <1>8 DEF Replaced
  <2> QED
    BY <2>1, AbstractReplace
<1>10. Variables!Without({}) = Cells
  <2>1. Lost(NameSet, Keys, Vals, Keys, Vals, {})
    BY StepRep DEF Lost, SameKeys
  <2>2. Rep(NameSet \ {}, Keys, Vals) = Dropped(Rep(NameSet, Keys, Vals), {})
    BY <2>1, RepDrop
  <2>3. NameSet \ {} = NameSet
    OBVIOUS
  <2> QED
    BY <2>2, <2>3, StepRep, AbstractOps
<1>11. Variables!Declare(v)
  BY <1>1, <1>3, <1>9, <1>10 DEF Variables!Declare, Cells
<1> QED
  BY <1>11 DEF Variables!Next

\* Assigning a local is an abstract assignment.
LEMMA AssignStep ==
    ASSUME UpvalInv, UpvalInv', NEW i \in DOMAIN stack, NEW v \in Value, Assign(i, v)
    PROVE  Variables!Next
<1>1. /\ stack \in Seq(Value) /\ i \in 1..Len(stack) /\ i # 0 /\ i \notin Closure
      /\ stack' = [stack EXCEPT ![i] = v]
      /\ UNCHANGED <<open, location, closed, captures>>
  BY CapturedOK DEF Assign
<1>2. /\ Len(stack') = Len(stack) /\ DOMAIN stack' = DOMAIN stack
      /\ \A j \in 1..Len(stack) : stack'[j] = IF j = i THEN v ELSE stack[j]
  BY <1>1
<1>3. NameSet' = NameSet /\ i \in NameSet
  BY <1>1, <1>2, CapturedOK DEF NameSet
<1>4. \A m \in NameSet : Key(m)' = Key(m)
  BY <1>1 DEF Key, IsShut, Slot
<1>5. Key(i) = <<i, None>>
  BY <1>1 DEF Key
<1>6. \A m \in NameSet : Val(m)' = IF Key(m) = Key(i) THEN v ELSE Val(m)
  BY <1>1, <1>2, <1>5, KeyForms DEF Val, IsShut, Slot
<1> QED
  BY <1>2, <1>3, <1>4, <1>6, AbstractAssign

\* Assigning through an upvalue is an abstract assignment (BC_SETUPVAL).
LEMMA SetUpvalueStep ==
    ASSUME UpvalInv, UpvalInv', NEW c \in Closure, NEW v \in Value, SetUpvalue(c, v)
    PROVE  Variables!Next
<1>1. /\ c \in NameSet /\ UNCHANGED <<open, location, captures>>
      /\ stack \in Seq(Value) /\ closed \in [Upval -> Value]
  BY CapturedOK DEF SetUpvalue, Free, NameSet
<1>2. \A m \in NameSet : Key(m)' = Key(m)
  BY <1>1 DEF Key, IsShut, Slot
<1>3. CASE IsShut(c)
  <2>1. closed' = [closed EXCEPT ![captures[c]] = v] /\ UNCHANGED stack
    BY <1>3 DEF SetUpvalue, IsShut
  <2>2. \A m \in NameSet : Val(m)' = IF Key(m) = Key(c) THEN v ELSE Val(m)
    BY <1>1, <1>3, <2>1, KeyForms DEF Val, IsShut, Slot
  <2>3. NameSet' = NameSet /\ Len(stack') = Len(stack)
    BY <1>1, <2>1 DEF NameSet
  <2> QED
    BY <1>1, <1>2, <2>2, <2>3, AbstractAssign
<1>4. CASE ~IsShut(c)
  <2> DEFINE i == Slot(captures[c])
  <2>1. stack' = [stack EXCEPT ![i] = v] /\ UNCHANGED closed
    BY <1>4 DEF SetUpvalue, IsShut, Slot
  <2>2. i \in 1..Len(stack)
    BY <1>1, <1>4, KeyForms
  <2>3. /\ Len(stack') = Len(stack) /\ DOMAIN stack' = DOMAIN stack
        /\ \A j \in 1..Len(stack) : stack'[j] = IF j = i THEN v ELSE stack[j]
    BY <1>1, <2>1, <2>2
  <2>4. Key(c) = <<i, None>>
    BY <1>4 DEF Key
  <2> HIDE DEF i
  <2>5. \A m \in NameSet : Val(m)' = IF Key(m) = Key(c) THEN v ELSE Val(m)
    BY <1>1, <2>1, <2>2, <2>3, <2>4, KeyForms DEF Val, IsShut, Slot
  <2>6. NameSet' = NameSet
    BY <1>1, <2>3 DEF NameSet
  <2> QED
    BY <1>1, <1>2, <2>3, <2>5, <2>6, AbstractAssign
<1> QED
  BY <1>3, <1>4

\* A name that keeps its upvalue, and the upvalue its slot or its value.
LEMMA NameKept ==
    ASSUME UpvalInv, NEW m \in NameSet, UNCHANGED stack,
           m \in Closure =>
               /\ captures'[m] = captures[m] /\ closed'[captures[m]] = closed[captures[m]]
               /\ IsShut(m) => location'[captures[m]] = Own
               /\ ~IsShut(m) => /\ location'[captures[m]] # Own
                                /\ location'[captures[m]].slot = Slot(captures[m])
    PROVE  Key(m)' = Key(m) /\ Val(m)' = Val(m)
<1>1. CASE m \in Closure /\ IsShut(m)
  BY <1>1 DEF Key, Val, IsShut, Slot
<1>2. CASE m \in Closure /\ ~IsShut(m)
  BY <1>2 DEF Key, Val, IsShut, Slot
<1>3. CASE m \notin Closure
  BY <1>3 DEF Key, Val
<1> QED
  BY <1>1, <1>2, <1>3

\* An upvalue whose block changes still names its slot.
LEMMA MovedName ==
    ASSUME UpvalInv, NEW u \in Range(open), NEW b \in Blocks,
           location'[u] = [location[u] EXCEPT !.block = b]
    PROVE  location'[u] # Own /\ location'[u].slot = Slot(u)
<1>1. location'[u] \in Places /\ location'[u].slot = Slot(u)
  BY MovedPlace
<1>2. location'[u].block \in Blocks
  BY <1>1 DEF Places
<1>3. Own.block = 0 /\ 0 \notin Blocks
  BY DEF Own, Blocks
<1> QED
  BY <1>1, <1>2, <1>3

\* tea_func_newT: the new closure shows the local, whether its upvalue existed or not.
LEMMA CaptureLocalStep ==
    ASSUME UpvalInv, UpvalInv', GcMoves = FALSE, NEW c \in Closure, NEW i \in DOMAIN stack,
           CaptureLocal(c, i)
    PROVE  Variables!Next
<1>1. /\ i \in NameSet /\ i \in 1..Len(stack) /\ i \notin Closure
      /\ Key(i) = <<i, None>> /\ Val(i) = stack[i]
      /\ captures \in [Closure -> Upval \cup {None}] /\ closed \in [Upval -> Value]
      /\ UNCHANGED stack /\ captures[c] = None /\ c \notin NameSet /\ block \in Blocks
  BY CapturedOK DEF CaptureLocal, Free, Key, Val, NameSet, UpvalInv, TypeOK
<1>2. CASE Found(i)
  <2>1. PICK u \in Upval : u = open[Above(i) + 1] /\ u \in Range(open) /\ Slot(u) = i
    BY <1>1, <1>2, FoundIffOpen, OpenOK
  <2>2. captures' = [captures EXCEPT ![c] = u] /\ UNCHANGED <<block, open, location, closed>>
    BY <1>2, <2>1 DEF CaptureLocal
  <2>3. \A m \in NameSet : Key(m)' = Key(m) /\ Val(m)' = Val(m)
    <3> SUFFICES ASSUME NEW m \in NameSet PROVE Key(m)' = Key(m) /\ Val(m)' = Val(m)
      OBVIOUS
    <3>1. m \in Closure => captures'[m] = captures[m]
      BY <1>1, <2>2
    <3> QED
      BY <1>1, <2>2, <3>1, NameKept DEF IsShut, Slot
  <2>4. Key(c)' = <<i, None>> /\ Val(c)' = stack[i]
    <3>1. captures'[c] = u /\ location'[u] # Own /\ location'[u].slot = i
      BY <1>1, <2>1, <2>2, OpenOK DEF Slot
    <3> QED
      BY <1>1, <3>1 DEF Key, Val, IsShut, Slot
  <2>5. NameSet' = NameSet \cup {c}
    BY <1>1, <2>1, <2>2, UpvalConstantsOK DEF NameSet
  <2> QED
    BY <1>1, <2>3, <2>4, <2>5, AbstractCapture
<1>3. CASE ~Found(i)
  <2>1. PICK u \in Upval :
            /\ Unused(u)
            /\ captures' = [captures EXCEPT ![c] = u]
            /\ closed' = [closed EXCEPT ![u] = Nil]
            /\ block' = block
            /\ location' = [w \in Upval |->
                   IF w = u THEN [block |-> block, slot |-> i]
                   ELSE IF w \in Range(open) THEN [location[w] EXCEPT !.block = block']
                   ELSE location[w]]
    BY <1>3 DEF CaptureLocal, NewClosed
  <2>2. \A m \in NameSet : Key(m)' = Key(m) /\ Val(m)' = Val(m)
    <3> SUFFICES ASSUME NEW m \in NameSet PROVE Key(m)' = Key(m) /\ Val(m)' = Val(m)
      OBVIOUS
    <3>1. CASE m \in Closure
      <4>1. captures'[m] = captures[m] /\ captures[m] # u /\ captures[m] \in Upval
        BY <1>1, <2>1, <3>1, KeyForms DEF Unused
      <4>2. closed'[captures[m]] = closed[captures[m]]
        BY <1>1, <2>1, <4>1
      <4>3. IsShut(m) => location'[captures[m]] = Own
        BY <2>1, <3>1, <4>1, KeyForms DEF IsShut
      <4>4. ~IsShut(m) => location'[captures[m]] # Own
                          /\ location'[captures[m]].slot = Slot(captures[m])
        <5>1. ~IsShut(m) => captures[m] \in Range(open)
          BY <3>1, KeyForms
        <5> QED
          BY <1>1, <2>1, <4>1, <5>1, MovedName
      <4> QED
        BY <1>1, <4>1, <4>2, <4>3, <4>4, NameKept
    <3>2. CASE m \notin Closure
      BY <1>1, <3>2, NameKept
    <3> QED
      BY <3>1, <3>2
  <2>3. Key(c)' = <<i, None>> /\ Val(c)' = stack[i]
    <3>1. captures'[c] = u /\ location'[u] = [block |-> block, slot |-> i]
      BY <1>1, <2>1
    <3>2. location'[u].slot = i /\ location'[u].block \in Blocks
      BY <1>1, <3>1
    <3>3. Own.block = 0 /\ 0 \notin Blocks
      BY DEF Own, Blocks
    <3>4. location'[u] # Own
      BY <3>2, <3>3
    <3> QED
      BY <1>1, <3>1, <3>2, <3>4 DEF Key, Val, IsShut, Slot
  <2>4. NameSet' = NameSet \cup {c}
    BY <1>1, <2>1, UpvalConstantsOK DEF NameSet
  <2> QED
    BY <1>1, <2>2, <2>3, <2>4, AbstractCapture
<1> QED
  BY <1>2, <1>3

\* Sharing the upvalue of the enclosing function is an abstract capture (BC_CLOSURE).
LEMMA CaptureUpvalueStep ==
    ASSUME UpvalInv, UpvalInv', NEW c \in Closure, NEW d \in Closure, CaptureUpvalue(c, d)
    PROVE  Variables!Next
<1>1. /\ c \notin NameSet /\ d \in NameSet /\ captures[d] \in Upval /\ captures[d] # None
      /\ captures \in [Closure -> Upval \cup {None}]
      /\ captures' = [captures EXCEPT ![c] = captures[d]]
      /\ UNCHANGED <<stack, open, location, closed>>
  BY CapturedOK DEF CaptureUpvalue, Free, NameSet
<1>2. \A m \in NameSet : Key(m)' = Key(m) /\ Val(m)' = Val(m)
  <2> SUFFICES ASSUME NEW m \in NameSet PROVE Key(m)' = Key(m) /\ Val(m)' = Val(m)
    OBVIOUS
  <2>1. m \in Closure => captures'[m] = captures[m]
    BY <1>1
  <2> QED
    BY <1>1, <2>1, NameKept DEF IsShut, Slot
<1>3. Key(c)' = Key(d) /\ Val(c)' = Val(d)
  <2>1. captures'[c] = captures[d]
    BY <1>1
  <2> QED
    BY <1>1, <2>1 DEF Key, Val, IsShut, Slot
<1>4. NameSet' = NameSet \cup {c}
  BY <1>1 DEF NameSet
<1> QED
  BY <1>1, <1>2, <1>3, <1>4, AbstractCapture

\* Dropping a closure drops its name.
LEMMA ForgetStep ==
    ASSUME UpvalInv, UpvalInv', NEW c \in Closure, Forget(c) PROVE Variables!Next
<1>1. /\ c \in NameSet /\ c \notin DOMAIN stack
      /\ captures \in [Closure -> Upval \cup {None}]
      /\ captures' = [captures EXCEPT ![c] = None]
      /\ UNCHANGED <<stack, open, location, closed>>
  BY CapturedOK DEF Forget, Free, NameSet
<1>2. \A m \in NameSet \ {c} : Key(m)' = Key(m) /\ Val(m)' = Val(m)
  <2> SUFFICES ASSUME NEW m \in NameSet \ {c} PROVE Key(m)' = Key(m) /\ Val(m)' = Val(m)
    OBVIOUS
  <2>1. m \in Closure => captures'[m] = captures[m]
    BY <1>1
  <2> QED
    BY <1>1, <2>1, NameKept DEF IsShut, Slot
<1>3. NameSet' = NameSet \ {c}
  BY <1>1 DEF NameSet
<1>4. Cells' = Variables!Without({c})
  BY <1>2, <1>3, AbstractDrop
<1>5. c \in Variables!Names
  BY <1>1, StepRep, RepNames, AbstractOps
<1>6. Variables!Forget(c)
  BY <1>1, <1>4, <1>5 DEF Variables!Forget, Cells
<1> QED
  BY <1>6 DEF Variables!Next

-----------------------------------------------------------------------------
(* Leaving scopes                                                          *)

\* Closing the upvalues from slot n on changes no variable of a name that is left.
LEMMA CutNames ==
    ASSUME UpvalInv, NEW n \in Nat, n >= 1, Close(n), UNCHANGED captures,
           \A i \in 1..Len(stack) : i < n => stack'[i] = stack[i]
    PROVE  /\ \A m, k \in NameSet \ (n..Len(stack)) : Key(m) = Key(k) <=> Key(m)' = Key(k)'
           /\ \A m \in NameSet \ (n..Len(stack)) : Val(m)' = Val(m) /\ Key(m)' # <<n, None>>
<1> DEFINE N == NameSet \ (n..Len(stack))
           Moved(m) == m \in Closure /\ captures[m] \in Range(open) /\ Slot(captures[m]) >= n
<1>1. /\ location' = [u \in Upval |-> IF u \in Range(open) /\ Slot(u) >= n THEN Own
                                       ELSE location[u]]
      /\ closed' = [u \in Upval |-> IF u \in Range(open) /\ Slot(u) >= n
                                    THEN stack[Slot(u)] ELSE closed[u]]
  BY CloseOK
<1>2. n # 0 /\ Len(stack) \in Nat
  BY CapturedOK
<1>3. ASSUME NEW m \in N, Moved(m)
      PROVE  /\ Key(m) = <<Slot(captures[m]), None>> /\ Key(m)' = <<0, captures[m]>>
             /\ Val(m)' = Val(m)
  <2>1. /\ Key(m) = <<Slot(captures[m]), None>> /\ Val(m) = stack[Slot(captures[m])]
        /\ captures[m] \in Upval
    BY <1>3, KeyForms
  <2>2. captures'[m] = captures[m] /\ location'[captures[m]] = Own
        /\ closed'[captures[m]] = stack[Slot(captures[m])]
    BY <1>1, <1>3, <2>1
  <2> QED
    BY <1>3, <2>1, <2>2 DEF Key, Val, IsShut
<1>4. ASSUME NEW m \in N, ~Moved(m)
      PROVE  /\ Key(m)' = Key(m) /\ Val(m)' = Val(m)
             /\ \/ Key(m)[1] \in 1..(n-1)
                \/ Key(m)[1] = 0 /\ Key(m)[2] \notin Range(open)
  <2>1. CASE m \in Closure /\ IsShut(m)
    <3>1. Key(m) = <<0, captures[m]>> /\ captures[m] \in Upval /\ captures[m] \notin Range(open)
          /\ Val(m) = closed[captures[m]]
      BY <2>1, KeyForms
    <3>2. captures'[m] = captures[m] /\ location'[captures[m]] = Own
          /\ closed'[captures[m]] = closed[captures[m]]
      BY <1>1, <2>1, <3>1 DEF IsShut
    <3> QED
      BY <2>1, <3>1, <3>2 DEF Key, Val, IsShut
  <2>2. CASE m \in Closure /\ ~IsShut(m)
    <3>1. /\ Key(m) = <<Slot(captures[m]), None>> /\ captures[m] \in Upval
          /\ captures[m] \in Range(open) /\ Slot(captures[m]) \in 1..Len(stack)
          /\ Val(m) = stack[Slot(captures[m])]
      BY <2>2, KeyForms
    <3>2. ~(Slot(captures[m]) >= n)
      BY <1>4, <2>2, <3>1
    <3>3. Slot(captures[m]) \in 1..(n-1) /\ stack'[Slot(captures[m])] = stack[Slot(captures[m])]
      BY <1>2, <3>1, <3>2
    <3>4. captures'[m] = captures[m] /\ location'[captures[m]] = location[captures[m]]
      BY <1>1, <3>1, <3>2
    <3> QED
      BY <2>2, <3>1, <3>3, <3>4 DEF Key, Val, IsShut, Slot
  <2>3. CASE m \notin Closure
    <3>1. Key(m) = <<m, None>> /\ Val(m) = stack[m] /\ m \in 1..Len(stack)
      BY <2>3, KeyForms
    <3>2. m \in 1..(n-1) /\ stack'[m] = stack[m]
      BY <1>2, <3>1
    <3> QED
      BY <2>3, <3>1, <3>2 DEF Key, Val
  <2> QED
    BY <2>1, <2>2, <2>3
<1>5. \A m \in N : Moved(m) => Slot(captures[m]) \in Nat /\ Slot(captures[m]) >= n
  BY OpenOK
<1>6. \A m \in N : Moved(m) => captures[m] \in Range(open)
  OBVIOUS
<1> HIDE DEF Moved
<1>7. ASSUME NEW m \in N, NEW k \in N PROVE Key(m) = Key(k) <=> Key(m)' = Key(k)'
  <2>1. CASE Moved(m) /\ Moved(k)
    <3>1. Slot(captures[m]) = Slot(captures[k]) <=> captures[m] = captures[k]
      BY <1>6, <2>1, OpenOK
    <3> QED
      BY <1>3, <2>1, <3>1
  <2>2. CASE ~Moved(m) /\ ~Moved(k)
    BY <1>4, <2>2
  <2>3. ASSUME NEW a \in N, NEW b \in N, Moved(a), ~Moved(b)
        PROVE  Key(a) # Key(b) /\ Key(a)' # Key(b)'
    <3>1. Key(a)[1] \in Nat /\ Key(a)[1] >= n /\ Key(a)'[1] = 0 /\ Key(a)'[2] \in Range(open)
      BY <1>3, <1>5, <1>6, <2>3
    <3>2. Key(b)' = Key(b) /\ (Key(b)[1] \in 1..(n-1) \/ (Key(b)[1] = 0 /\ Key(b)[2] \notin Range(open)))
      BY <1>4, <2>3
    <3> QED
      BY <1>2, <3>1, <3>2
  <2> QED
    BY <2>1, <2>2, <2>3
<1>8. ASSUME NEW m \in N PROVE Val(m)' = Val(m) /\ Key(m)' # <<n, None>>
  <2>1. CASE Moved(m)
    BY <1>2, <1>3, <2>1
  <2>2. CASE ~Moved(m)
    <3>1. Key(m)' = Key(m) /\ Val(m)' = Val(m) /\ (Key(m)[1] \in 1..(n-1) \/ Key(m)[1] = 0)
      BY <1>4, <2>2
    <3> QED
      BY <1>2, <3>1
  <2> QED
    BY <2>1, <2>2
<1> QED
  BY <1>7, <1>8

\* Leaving a function or a protected call: its names go, the result takes their place.
LEMMA UnwindTo ==
    ASSUME UpvalInv, UpvalInv', NEW n \in Nat, n >= 1, NEW v \in Value, Len(stack) >= n,
           Close(n), UNCHANGED captures, stack' = Append(SubSeq(stack, 1, n-1), v)
    PROVE  Variables!Next
<1>1. stack \in Seq(Value) /\ Len(stack) \in Nat /\ n \notin Closure /\ n # 0
      /\ DOMAIN stack = 1..Len(stack)
  BY CapturedOK, UpvalConstantsOK
<1>2. /\ Len(stack') = n /\ DOMAIN stack' = 1..n /\ stack'[n] = v
      /\ \A i \in 1..Len(stack) : i < n => stack'[i] = stack[i]
  BY <1>1
<1>3. /\ \A m, k \in NameSet \ (n..Len(stack)) : Key(m) = Key(k) <=> Key(m)' = Key(k)'
      /\ \A m \in NameSet \ (n..Len(stack)) : Val(m)' = Val(m) /\ Key(m)' # <<n, None>>
  BY <1>2, CutNames
<1>4. Key(n)' = <<n, None>> /\ Val(n)' = v
  BY <1>1, <1>2 DEF Key, Val
<1>5. NameSet' = (NameSet \ (n..Len(stack))) \cup {n} /\ n \notin NameSet \ (n..Len(stack))
  <2>1. 1..n = ((1..Len(stack)) \ (n..Len(stack))) \cup {n} /\ n \in n..Len(stack)
    BY <1>1
  <2>2. \A c \in Closure : c \notin n..Len(stack)
    BY CapturedOK
  <2> QED
    BY <1>1, <1>2, <2>1, <2>2 DEF NameSet
<1>6. Cells' = Variables!Without(n..Len(stack)) \cup {[names |-> {n}, val |-> v]}
  <2>1. Replaced(n..Len(stack), n, v)
    BY <1>3, <1>4, <1>5 DEF Replaced
  <2> QED
    BY <2>1, AbstractReplace
<1>7. n-1 \in 0..Len(stack) /\ (n-1)+1 = n
  BY <1>1
<1>8. Variables!Unwind(n-1, v)
  BY <1>2, <1>6, <1>7 DEF Variables!Unwind, Cells
<1> QED
  BY <1>7, <1>8 DEF Variables!Next

\* A return ends the locals of a frame, and no captured variable with them (BC_RETURN).
LEMMA ReturnStep == ASSUME UpvalInv, UpvalInv', Return PROVE Variables!Next
<1>1. Base \in Nat /\ Base >= 1
  <2>1. Len(bases) \in 1..Len(bases)
    BY DEF UpvalInv, TypeOK, BasesOK
  <2> QED
    BY <2>1, BasesKept
<1>2. stack \in Seq(Value) /\ Len(stack) \in Nat /\ Len(stack) >= Base
  BY CapturedOK DEF Return
<1>3. stack[Len(stack)] \in Value
  BY <1>1, <1>2
<1>4. PICK n \in Nat, v \in Value : n = Base /\ v = stack[Len(stack)]
  BY <1>1, <1>3
<1> QED
  BY <1>1, <1>2, <1>4, UnwindTo DEF Return

\* An error ends the locals of the frames it leaves, and no captured variable with them.
LEMMA UnwindStep ==
    ASSUME UpvalInv, UpvalInv', NEW k \in 2..Len(bases), NEW v \in Value, Unwind(k, v)
    PROVE  Variables!Next
<1>1. bases[k] \in Nat /\ bases[k] >= 1
  <2>1. k \in 1..Len(bases)
    BY DEF UpvalInv, TypeOK
  <2> QED
    BY <2>1, BasesKept
<1>2. PICK n \in Nat : n = bases[k]
  BY <1>1
<1> QED
  BY <1>1, <1>2, UnwindTo DEF Unwind

\* The end of a block ends its local, and no captured variable (BC_CLOSEUPVAL).
LEMMA EndLocalStep == ASSUME UpvalInv, UpvalInv', EndLocal PROVE Variables!Next
<1>1. Base \in Nat /\ Base >= 1 /\ Len(stack) >= Base
  <2>1. Len(bases) \in 1..Len(bases)
    BY DEF UpvalInv, TypeOK, BasesOK
  <2> QED
    BY <2>1, BasesKept DEF EndLocal
<1>2. PICK n \in Nat : n = Len(stack)
  BY CapturedOK
<1>3. /\ stack \in Seq(Value) /\ n >= 1 /\ DOMAIN stack = 1..n
      /\ stack' = SubSeq(stack, 1, n-1) /\ UNCHANGED captures
  BY <1>1, <1>2, CapturedOK DEF EndLocal
<1>4. /\ Len(stack') = n-1 /\ DOMAIN stack' = 1..(n-1)
      /\ \A i \in 1..Len(stack) : i < n => stack'[i] = stack[i]
  BY <1>2, <1>3
<1>5. NameSet' = NameSet \ (n..Len(stack))
  <2>1. 1..(n-1) = (1..n) \ (n..n)
    BY <1>3
  <2>2. \A c \in Closure : c \notin n..n
    BY UpvalConstantsOK
  <2> QED
    BY <1>2, <1>3, <1>4, <2>1, <2>2 DEF NameSet
<1>6. /\ \A m, k \in NameSet \ (n..Len(stack)) : Key(m) = Key(k) <=> Key(m)' = Key(k)'
      /\ \A m \in NameSet \ (n..Len(stack)) : Val(m)' = Val(m)
  <2>1. CASE Close(n)
    BY <1>3, <1>4, <2>1, CutNames
  <2>2. CASE UNCHANGED <<open, location, closed>> /\ ~Found(n)
    <3>1. \A u \in Range(open) : Slot(u) # n
      BY <2>2, FoundIffOpen
    <3>2. \A m \in NameSet \ (n..Len(stack)) : Key(m)' = Key(m)
      BY <1>3, <2>2 DEF Key, IsShut, Slot
    <3>3. ASSUME NEW m \in NameSet \ (n..Len(stack)) PROVE Val(m)' = Val(m)
      <4>1. CASE m \in Closure /\ IsShut(m)
        BY <1>3, <2>2, <4>1 DEF Val, IsShut
      <4>2. CASE m \in Closure /\ ~IsShut(m)
        <5>1. Slot(captures[m]) \in 1..Len(stack) /\ Slot(captures[m]) < n
          BY <1>2, <3>1, <4>2, KeyForms
        <5> QED
          BY <1>3, <1>4, <2>2, <4>2, <5>1 DEF Val, IsShut, Slot
      <4>3. CASE m \notin Closure
        <5>1. m \in 1..Len(stack) /\ m < n
          BY <1>2, <4>3, KeyForms
        <5> QED
          BY <1>4, <4>3, <5>1 DEF Val
      <4> QED
        BY <4>1, <4>2, <4>3
    <3> QED
      BY <3>2, <3>3
  <2> QED
    BY <1>2, <2>1, <2>2 DEF EndLocal
<1>8. Cells' = Variables!Without(n..Len(stack))
  BY <1>5, <1>6, AbstractDrop
<1>9. n-1 \in 0..Len(stack) /\ (n-1)+1 = n
  BY <1>2, <1>3
<1>10. Variables!EndScopes(n-1)
  BY <1>4, <1>8, <1>9 DEF Variables!EndScopes, Cells
<1> QED
  BY <1>9, <1>10 DEF Variables!Next

\* A move of the stack and a call change no variable.
LEMMA QuietStep ==
    ASSUME UpvalInv, UpvalInv', UNCHANGED vars \/ Grow \/ (\E n \in 1..Len(stack)+1 : Call(n))
    PROVE  UNCHANGED Variables!vars
<1>1. UNCHANGED <<stack, open, closed, captures>>
  BY DEF vars, Grow, Call
<1>2. ASSUME NEW u \in Upval
      PROVE  /\ u \in Range(open) => location'[u] # Own /\ location'[u].slot = Slot(u)
             /\ u \notin Range(open) => location'[u] = Own
  <2>1. u \in Range(open) => location[u] # Own /\ Slot(u) = location[u].slot
    BY OpenOK DEF Slot
  <2>2. u \notin Range(open) => location[u] = Own
    BY DEF UpvalInv, OthersClosed
  <2>3. CASE UNCHANGED location
    BY <2>1, <2>2, <2>3
  <2>4. CASE Grow
    <3>1. block' \in Blocks
      BY <2>4 DEF Grow, Move, UpvalInv, TypeOK, Blocks
    <3>2. location'[u] = IF u \in Range(open) THEN [location[u] EXCEPT !.block = block']
                         ELSE location[u]
      BY <2>4 DEF Grow, Move
    <3> QED
      BY <2>2, <3>1, <3>2, MovedName
  <2> QED
    BY <2>3, <2>4 DEF vars, Call
<1>3. ASSUME NEW m \in NameSet PROVE Key(m)' = Key(m) /\ Val(m)' = Val(m)
  <2>1. m \in Closure => /\ captures'[m] = captures[m] /\ captures[m] \in Upval
                         /\ closed'[captures[m]] = closed[captures[m]]
                         /\ IsShut(m) <=> captures[m] \notin Range(open)
    BY <1>1, KeyForms
  <2> QED
    BY <1>1, <1>2, <2>1, NameKept
<1>4. NameSet' = NameSet
  BY <1>1 DEF NameSet
<1>5. Cells' = Cells
  BY <1>3, <1>4, AbstractSame
<1> QED
  BY <1>1, <1>5 DEF Variables!vars, Cells

\* The initial state is an abstract one.
LEMMA InitVariables == ASSUME Init PROVE Variables!Init
<1>1. stack = <<>> /\ DOMAIN stack = {} /\ Len(stack) = 0
  BY DEF Init
<1>2. \A u \in Upval : Shown(u) = {}
  BY UpvalConstantsOK DEF Init, Shown
<1>3. ClosedCells = {} /\ {Cell(i) : i \in DOMAIN stack} = {}
  BY <1>1, <1>2 DEF ClosedCells
<1> QED
  BY <1>1, <1>3 DEF Variables!Init

\* Every step is an abstract step or a stutter.
LEMMA StepVariables ==
    ASSUME UpvalInv, UpvalInv', GcMoves = FALSE, [Next]_vars
    PROVE  [Variables!Next]_(Variables!vars)
<1>1. CASE Next
  BY <1>1, DeclareStep, AssignStep, CaptureLocalStep, CaptureUpvalueStep, SetUpvalueStep,
     ForgetStep, EndLocalStep, ReturnStep, UnwindStep, QuietStep DEF Next
<1> QED
  BY <1>1, QuietStep

\* A captured variable is one variable, whoever uses it: every step of the upvalues
\* is a step of CapturedVariables, in which closures share variables, not values.
THEOREM UpvaluesAreVariables == ASSUME GcMoves = FALSE PROVE Spec => SharedVariables
<1>1. Init => Variables!Init
  BY InitVariables
<1>2. UpvalInv /\ UpvalInv' /\ [Next]_vars => [Variables!Next]_(Variables!vars)
  BY StepVariables
<1> QED
  BY <1>1, <1>2, SpecUpval, PTL DEF Spec, SharedVariables, Variables!Spec
=============================================================================
