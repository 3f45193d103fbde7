---------------------------- MODULE TeaGCProofs ----------------------------
(***************************************************************************)
(* The collector, for every heap size and stack height.                    *)
(*                                                                         *)
(* First the programs whose userdata have no gc method.  The collector     *)
(* frees nothing they can reach and keeps only that, if what they reach    *)
(* through references it overlooks is reached otherwise when a collection  *)
(* starts (HiddenReached).  It always is where no such reference is used.  *)
(* Then all programs: the userdata lists, the order of gc method and       *)
(* free, the roots.  Then those whose userdata all have a gc method        *)
(* (AllFinalized): what a gc method is about to use is live.               *)
(***************************************************************************)
EXTENDS TeaGC, TeaLemmas, TLAPS

-----------------------------------------------------------------------------
(* Sequences                                                               *)

Injective(s) == \A i, j \in DOMAIN s : s[i] = s[j] => i = j
Increasing(s) == \A i, j \in DOMAIN s : i < j => s[i] < s[j]

\* What pushing a value adds to the roots.
LEMMA RangeAppend ==
    ASSUME NEW S, NEW s \in Seq(S), NEW x \in S
    PROVE  /\ Append(s, x) \in Seq(S)
           /\ Range(Append(s, x)) = Range(s) \cup {x}
<1>1. Append(s, x) \in Seq(S)
  OBVIOUS
<1>2. /\ DOMAIN Append(s, x) = 1..Len(s)+1
      /\ \A i \in 1..Len(s) : Append(s, x)[i] = s[i]
      /\ Append(s, x)[Len(s)+1] = x
      /\ DOMAIN s = 1..Len(s)
  OBVIOUS
<1>3. Range(Append(s, x)) \subseteq Range(s) \cup {x}
  BY <1>2 DEF Range
<1>4. Range(s) \cup {x} \subseteq Range(Append(s, x))
  BY <1>2 DEF Range
<1> QED
  BY <1>1, <1>3, <1>4

\* Linking an object at the front of a list.
LEMMA RangeCons ==
    ASSUME NEW S, NEW s \in Seq(S), NEW x \in S
    PROVE  /\ <<x>> \o s \in Seq(S)
           /\ Range(<<x>> \o s) = Range(s) \cup {x}
<1> DEFINE t == <<x>> \o s
<1>1. t \in Seq(S)
  OBVIOUS
<1>2. /\ DOMAIN t = 1..Len(s)+1
      /\ DOMAIN s = 1..Len(s)
      /\ t[1] = x
      /\ \A i \in 1..Len(s) : t[i+1] = s[i]
  OBVIOUS
<1>3. \A i \in 1..Len(s)+1 : i = 1 \/ (i-1 \in 1..Len(s) /\ t[i] = s[i-1])
  OBVIOUS
<1>4. Range(t) \subseteq Range(s) \cup {x}
  BY <1>2, <1>3 DEF Range
<1>5. Range(s) \cup {x} \subseteq Range(t)
  <2>1. x \in Range(t)
    BY <1>2 DEF Range
  <2>2. ASSUME NEW y \in Range(s) PROVE y \in Range(t)
    <3>1. PICK i \in 1..Len(s) : y = s[i]
      BY <1>2 DEF Range
    <3>2. i+1 \in DOMAIN t /\ t[i+1] = y
      BY <1>2, <3>1
    <3> QED
      BY <3>2 DEF Range
  <2> QED
    BY <2>1, <2>2
<1> QED
  BY <1>1, <1>4, <1>5

\* Dropping the top of the stack adds no root.
LEMMA RangePrefix ==
    ASSUME NEW S, NEW s \in Seq(S), NEW n \in 0..Len(s)
    PROVE  /\ SubSeq(s, 1, n) \in Seq(S)
           /\ Range(SubSeq(s, 1, n)) \subseteq Range(s)
<1>1. SubSeq(s, 1, n) \in Seq(S)
  OBVIOUS
<1>2. /\ DOMAIN SubSeq(s, 1, n) = 1..n
      /\ \A i \in 1..n : SubSeq(s, 1, n)[i] = s[i]
      /\ 1..n \subseteq DOMAIN s
  OBVIOUS
<1> QED
  BY <1>1, <1>2 DEF Range

\* Putting one list before another.
LEMMA ConcatInjective ==
    ASSUME NEW S, NEW s \in Seq(S), NEW t \in Seq(S)
    PROVE  /\ s \o t \in Seq(S)
           /\ Range(s \o t) = Range(s) \cup Range(t)
           /\ (Injective(s) /\ Injective(t) /\ Range(s) \cap Range(t) = {}) => Injective(s \o t)
<1> DEFINE u == s \o t
<1>1. /\ u \in Seq(S) /\ DOMAIN u = 1..Len(s)+Len(t) /\ DOMAIN s = 1..Len(s) /\ DOMAIN t = 1..Len(t)
      /\ Len(s) \in Nat /\ Len(t) \in Nat
      /\ \A i \in 1..Len(s)+Len(t) : u[i] = IF i <= Len(s) THEN s[i] ELSE t[i-Len(s)]
  OBVIOUS
<1> HIDE DEF u
<1>2. \A i \in DOMAIN u : \/ i \in DOMAIN s /\ u[i] = s[i]
                          \/ i \notin DOMAIN s /\ i - Len(s) \in DOMAIN t /\ u[i] = t[i-Len(s)]
  BY <1>1
<1>3. \A i \in DOMAIN s : i \in DOMAIN u /\ u[i] = s[i]
  BY <1>1
<1>4. \A i \in DOMAIN t : i + Len(s) \in DOMAIN u /\ u[i + Len(s)] = t[i]
  <2> SUFFICES ASSUME NEW i \in DOMAIN t PROVE i + Len(s) \in DOMAIN u /\ u[i + Len(s)] = t[i]
    OBVIOUS
  <2>1. i + Len(s) \in DOMAIN u /\ ~(i + Len(s) <= Len(s)) /\ (i + Len(s)) - Len(s) = i
    BY <1>1
  <2> QED
    BY <1>1, <2>1
<1>5. Range(u) \subseteq Range(s) \cup Range(t)
  BY <1>2 DEF Range
<1>6. Range(s) \cup Range(t) \subseteq Range(u)
  <2>1. \A i \in DOMAIN s : s[i] \in Range(u)
    BY <1>3 DEF Range
  <2>2. \A i \in DOMAIN t : t[i] \in Range(u)
    BY <1>4 DEF Range
  <2> QED
    BY <2>1, <2>2 DEF Range
<1>7. ASSUME Injective(s), Injective(t), Range(s) \cap Range(t) = {} PROVE Injective(u)
  <2> SUFFICES ASSUME NEW i \in DOMAIN u, NEW j \in DOMAIN u, u[i] = u[j] PROVE i = j
    BY DEF Injective
  <2>1. CASE i \in DOMAIN s /\ j \in DOMAIN s
    BY <1>3, <1>7, <2>1 DEF Injective
  <2>2. CASE i \notin DOMAIN s /\ j \notin DOMAIN s
    <3>1. i - Len(s) \in DOMAIN t /\ j - Len(s) \in DOMAIN t /\ t[i - Len(s)] = t[j - Len(s)]
      BY <1>2, <2>2
    <3>2. i - Len(s) = j - Len(s)
      BY <1>7, <3>1 DEF Injective
    <3> QED
      BY <1>1, <3>2
  <2>3. ASSUME NEW x \in DOMAIN u, NEW y \in DOMAIN u, x \in DOMAIN s, y \notin DOMAIN s PROVE u[x] # u[y]
    <3>1. u[x] \in Range(s)
      BY <1>3, <2>3 DEF Range
    <3>2. u[y] \in Range(t)
      BY <1>2, <2>3 DEF Range
    <3> QED
      BY <1>7, <3>1, <3>2
  <2> QED
    BY <2>1, <2>2, <2>3
<1> QED
  BY <1>1, <1>5, <1>6, <1>7 DEF u

\* What a filter does.
Filtered(s, A, t) ==
    /\ Range(t) = Range(s) \cap A
    /\ Injective(s) => Injective(t)
    /\ Range(s) \cap A = {} => t = <<>>
    /\ Range(s) \subseteq A => t = s

\* Only is a filter.
LEMMA OnlyOK ==
    ASSUME NEW S, NEW s \in Seq(S), NEW A
    PROVE  /\ Only(s, A) \in Seq(S) /\ Filtered(s, A, Only(s, A))
           /\ (S = Nat /\ Increasing(s)) => Increasing(Only(s, A))
<1> DEFINE n == Len(s)
           front[i \in 0..n] ==
               IF i = 0 THEN <<>>
               ELSE IF s[i] \in A THEN Append(front[i-1], s[i]) ELSE front[i-1]
           Step(i, r) == IF s[i] \in A THEN Append(r, s[i]) ELSE r
<1>1. Only(s, A) = front[n]
  BY DEF Only
<1>2. n \in Nat /\ DOMAIN s = 1..n /\ \A i \in 1..n : s[i] \in S
  OBVIOUS
<1>3. front = [i \in 0..n |-> IF i = 0 THEN <<>> ELSE Step(i, front[i-1])]
  <2> SUFFICES \E f : f = [i \in 0..n |-> IF i = 0 THEN <<>> ELSE Step(i, f[i-1])]
    BY DEF front
  <2>0. ASSUME NEW i \in 1..n, NEW r \in Seq(S) PROVE Step(i, r) \in Seq(S)
    BY <1>2
  <2> HIDE DEF Step, n
  <2> DEFINE G == [x \in (1..n) \X Seq(S) |-> Step(x[1], x[2])]
  <2>1. G \in [(1..n) \X Seq(S) -> Seq(S)]
    BY <2>0
  <2>2. \A i \in 1..n : \A r \in Seq(S) : G[<<i, r>>] = Step(i, r)
    OBVIOUS
  <2> HIDE DEF G
  <2>3. PICK f \in [0..n -> Seq(S)] : f[0] = <<>> /\ \A i \in 1..n : f[i] = G[<<i, f[i-1]>>]
    <3>1. <<>> \in Seq(S)
      OBVIOUS
    <3>2. PICK f \in [0..n -> Seq(S)] : Iterates(f, n, <<>>, G)
      BY <1>2, <2>1, <3>1, RecursiveSequence
    <3> QED
      BY <3>2 DEF Iterates
  <2>4. \A i \in 1..n : f[i] = Step(i, f[i-1])
    <3>1. \A i \in 1..n : f[i-1] \in Seq(S)
      BY <1>2
    <3> QED
      BY <2>2, <2>3, <3>1
  <2>5. f = [i \in 0..n |-> IF i = 0 THEN <<>> ELSE Step(i, f[i-1])]
    BY <2>3, <2>4
  <2> QED
    BY <2>5
<1> HIDE DEF front
<1>4. front[0] = <<>> /\ \A i \in 1..n : front[i] = Step(i, front[i-1])
  <2> HIDE DEF Step, n
  <2>1. ASSUME NEW i \in 1..n PROVE front[i] = Step(i, front[i-1])
    BY <1>2, <1>3
  <2>2. 0 \in 0..n
    BY <1>2
  <2> QED
    BY <1>3, <2>1, <2>2
<1> HIDE DEF n, Step
<1> DEFINE Taken(i) == {s[j] : j \in {x \in 1..i : s[x] \in A}}
           Good(i) ==
               /\ front[i] \in Seq(S)
               /\ Range(front[i]) = Taken(i)
               /\ Injective(s) => Injective(front[i])
               /\ (\A x \in 1..i : s[x] \in A) =>
                     Len(front[i]) = i /\ \A x \in 1..i : front[i][x] = s[x]
               /\ (S = Nat /\ Increasing(s)) => Increasing(front[i])
<1>5. Good(0)
  <2>1. Taken(0) = {} /\ front[0] = <<>>
    BY <1>4
  <2>2. front[0] \in Seq(S) /\ DOMAIN front[0] = {} /\ Len(front[0]) = 0
    BY <2>1
  <2> QED
    BY <2>1, <2>2 DEF Range, Injective, Increasing
<1>6. ASSUME NEW i \in 1..n, Good(i-1) PROVE Good(i)
  <2>1. PICK r : r = front[i-1]
    OBVIOUS
  <2>2. /\ r \in Seq(S) /\ Range(r) = Taken(i-1) /\ (Injective(s) => Injective(r))
        /\ (\A x \in 1..i-1 : s[x] \in A) => Len(r) = i-1 /\ \A x \in 1..i-1 : r[x] = s[x]
        /\ (S = Nat /\ Increasing(s)) => Increasing(r)
    BY <1>6, <2>1
  <2>3. front[i] = IF s[i] \in A THEN Append(r, s[i]) ELSE r
    BY <1>4, <2>1 DEF Step
  <2>4. i \in Nat /\ s[i] \in S /\ i \in DOMAIN s /\ \A x : x \in 1..i <=> x \in 1..i-1 \/ x = i
    BY <1>2
  <2>5. CASE s[i] \notin A
    <3>1. Taken(i) = Taken(i-1)
      BY <2>4, <2>5
    <3> QED
      BY <2>2, <2>3, <2>4, <2>5, <3>1
  <2>6. CASE s[i] \in A
    <3> DEFINE t == Append(r, s[i])
    <3>1. Taken(i) = Taken(i-1) \cup {s[i]}
      BY <2>4, <2>6
    <3>2. /\ t \in Seq(S) /\ Len(t) = Len(r) + 1 /\ DOMAIN t = 1..Len(r)+1 /\ DOMAIN r = 1..Len(r)
          /\ t[Len(r)+1] = s[i] /\ (\A x \in 1..Len(r) : t[x] = r[x]) /\ Len(r) \in Nat
      BY <2>2, <2>4
    <3> HIDE DEF t
    <3>3. Range(t) = Range(r) \cup {s[i]}
      BY <3>2 DEF Range
    <3>4. \A x \in 1..Len(r) : \E j \in 1..i-1 : r[x] = s[j] /\ j \in DOMAIN s
      <4>1. \A x \in 1..Len(r) : r[x] \in Taken(i-1)
        BY <2>2, <3>2 DEF Range
      <4> QED
        BY <1>2, <2>4, <4>1
    <3>5. Injective(s) => Injective(t)
      <4> SUFFICES ASSUME Injective(s), NEW x \in DOMAIN t, NEW y \in DOMAIN t, t[x] = t[y] PROVE x = y
        BY DEF Injective
      <4>1. \A z \in 1..Len(r) : r[z] # s[i]
        BY <2>4, <3>4 DEF Injective
      <4> QED
        BY <2>2, <3>2, <4>1 DEF Injective
    <3>6. (S = Nat /\ Increasing(s)) => Increasing(t)
      <4> SUFFICES ASSUME S = Nat, Increasing(s), NEW x \in DOMAIN t, NEW y \in DOMAIN t, x < y
                   PROVE  t[x] < t[y]
        BY DEF Increasing
      <4>1. \A z \in 1..Len(r) : r[z] < s[i]
        <5>1. \A j \in DOMAIN s : j < i => s[j] < s[i]
          BY <2>4 DEF Increasing
        <5>2. \A j \in 1..i-1 : j < i
          BY <2>4
        <5> QED
          BY <3>4, <5>1, <5>2
      <4>2. \A z, w \in 1..Len(r) : z < w => r[z] < r[w]
        BY <2>2, <3>2 DEF Increasing
      <4>3. CASE y = Len(r) + 1
        BY <3>2, <4>1, <4>3
      <4>4. CASE y # Len(r) + 1
        <5>1. y \in 1..Len(r) /\ x \in 1..Len(r)
          BY <3>2, <4>4
        <5>2. t[x] = r[x] /\ t[y] = r[y] /\ r[x] < r[y]
          BY <3>2, <4>2, <5>1
        <5> QED
          BY <5>2
      <4> QED
        BY <4>3, <4>4
    <3>7. (\A x \in 1..i : s[x] \in A) => Len(t) = i /\ \A x \in 1..i : t[x] = s[x]
      <4> SUFFICES ASSUME \A x \in 1..i : s[x] \in A PROVE Len(t) = i /\ \A x \in 1..i : t[x] = s[x]
        OBVIOUS
      <4>1. Len(r) = i-1 /\ \A x \in 1..i-1 : r[x] = s[x]
        BY <2>2, <2>4
      <4> QED
        BY <2>4, <3>2, <4>1
    <3>8. front[i] = t
      BY <2>3, <2>6 DEF t
    <3> QED
      BY <2>2, <3>1, <3>2, <3>3, <3>5, <3>6, <3>7, <3>8
  <2> QED
    BY <2>5, <2>6
<1>7. Good(n)
  <2> HIDE DEF Good
  <2>1. ASSUME ~Good(n) PROVE FALSE
    <3> DEFINE T == {i \in 0..n : ~Good(i)}
    <3>1. T \in SUBSET Nat /\ T # {}
      BY <1>2, <2>1
    <3>2. PICK i \in T : \A y \in T : i <= y
      BY <3>1, LeastNatural
    <3>3. i \in 0..n /\ ~Good(i) /\ i # 0
      BY <1>5, <3>2
    <3>4. i \in 1..n /\ i-1 \in 0..n /\ ~(i <= i-1)
      BY <1>2, <3>3
    <3>5. Good(i-1)
      BY <3>2, <3>4
    <3> QED
      BY <1>6, <3>3, <3>4, <3>5
  <2> QED
    BY <2>1
<1>8. PICK t : t = front[n]
  OBVIOUS
<1>9. /\ t \in Seq(S) /\ Range(t) = Taken(n) /\ (Injective(s) => Injective(t))
      /\ (\A x \in 1..n : s[x] \in A) => Len(t) = n /\ \A x \in 1..n : t[x] = s[x]
      /\ (S = Nat /\ Increasing(s)) => Increasing(t)
  BY <1>7, <1>8
<1>10. Taken(n) = Range(s) \cap A
  BY <1>2 DEF Range
<1>11. Range(s) \cap A = {} => t = <<>>
  <2>1. Range(t) = {} => Len(t) = 0
    <3>1. DOMAIN t = 1..Len(t) /\ Len(t) \in Nat
      BY <1>9
    <3>2. Range(t) = {} => 1 \notin DOMAIN t
      BY DEF Range
    <3> QED
      BY <3>1, <3>2
  <2> QED
    BY <1>9, <1>10, <2>1
<1>12. Range(s) \subseteq A => t = s
  <2>1. Range(s) \subseteq A => \A x \in 1..n : s[x] \in A
    BY <1>2 DEF Range
  <2> QED
    BY <1>2, <1>9, <2>1 DEF n
<1> QED
  BY <1>1, <1>8, <1>9, <1>10, <1>11, <1>12 DEF Filtered
\* A filter that rejects nothing, and one that rejects everything.
LEMMA OnlyExtremes ==
    ASSUME NEW S, NEW s \in Seq(S)
    PROVE  /\ Only(s, Range(s)) = s
           /\ Only(s, {}) = <<>>
<1>1. Filtered(s, Range(s), Only(s, Range(s))) /\ Filtered(s, {}, Only(s, {}))
  BY OnlyOK
<1> QED
  BY <1>1 DEF Filtered

\* The lower frames.
LEMMA FramesPrefix ==
    ASSUME NEW fr \in Seq(Nat), Increasing(fr), NEW n \in 0..Len(fr)
    PROVE  /\ SubSeq(fr, 1, n) \in Seq(Nat) /\ DOMAIN SubSeq(fr, 1, n) = 1..n
           /\ Increasing(SubSeq(fr, 1, n))
           /\ \A k \in 1..n : SubSeq(fr, 1, n)[k] = fr[k]
<1> DEFINE t == SubSeq(fr, 1, n)
<1>1. t \in Seq(Nat) /\ DOMAIN t = 1..n /\ \A k \in 1..n : k \in DOMAIN fr /\ t[k] = fr[k]
  OBVIOUS
<1> HIDE DEF t
<1>2. Increasing(t)
  BY <1>1 DEF Increasing
<1> QED
  BY <1>1, <1>2 DEF t

\* The first of a queue, and the rest.
LEMMA QueueHead ==
    ASSUME NEW S, NEW q \in Seq(S), q # <<>>, Injective(q)
    PROVE  /\ Head(q) \in S /\ Tail(q) \in Seq(S) /\ Injective(Tail(q))
           /\ Range(q) = Range(Tail(q)) \cup {Head(q)} /\ Head(q) \notin Range(Tail(q))
<1> DEFINE t == Tail(q)
           h == Head(q)
<1>1. /\ h = q[1] /\ h \in S /\ t \in Seq(S) /\ Len(q) \in Nat \ {0} /\ DOMAIN q = 1..Len(q)
      /\ DOMAIN t = 1..Len(q)-1 /\ \A i \in 1..Len(q)-1 : t[i] = q[i+1]
  OBVIOUS
<1> HIDE DEF t, h
<1>2. \A i \in DOMAIN t : i+1 \in DOMAIN q /\ i+1 # 1 /\ t[i] = q[i+1]
  BY <1>1
<1>3. \A i \in DOMAIN q : i = 1 \/ (i-1 \in DOMAIN t /\ t[i-1] = q[i])
  BY <1>1
<1>4. Injective(t)
  BY <1>1, <1>2 DEF Injective
<1>5. h \notin Range(t)
  <2>1. 1 \in DOMAIN q
    BY <1>1
  <2> QED
    BY <1>1, <1>2, <2>1 DEF Range, Injective
<1>6. Range(q) = Range(t) \cup {h}
  <2>1. Range(q) \subseteq Range(t) \cup {h}
    BY <1>1, <1>3 DEF Range
  <2>2. 1 \in DOMAIN q
    BY <1>1
  <2>3. Range(t) \cup {h} \subseteq Range(q)
    BY <1>1, <1>2, <2>2 DEF Range
  <2> QED
    BY <2>1, <2>3
<1> QED
  BY <1>1, <1>4, <1>5, <1>6 DEF t, h

-----------------------------------------------------------------------------
(* The heap                                                                *)

\* Where no slot is hidden and no entry holds two accessors, the collector
\* visits all the references an object holds.
LEMMA TracedIsChildren ==
    ASSUME HiddenSlots = {}, OneAccessor, NEW o \in Obj
    PROVE  Traced(o) = Children(o)
<1>1. kind[o] = "class" => ref[o].a = Null \/ ref[o].b = Null
  BY DEF OneAccessor
<1> QED
  BY <1>1 DEF Traced, Children

\* The collector follows references an object holds, and no others.
LEMMA TracedInChildren ==
    ASSUME NEW o PROVE Traced(o) \subseteq Children(o) /\ Null \notin Traced(o)
  BY DEF Traced, Children

\* What is closed under references is closed under those the collector follows.
LEMMA ClosedIsTraced == ASSUME NEW G, ClosedSet(G) PROVE TracedSet(G)
  BY TracedInChildren DEF ClosedSet, TracedSet

-----------------------------------------------------------------------------
(* Programs without gc methods: every step preserves IndInv.               *)

\* The invariant holds at first.
LEMMA InitInd == Init => IndInv
<1> SUFFICES ASSUME Init PROVE IndInv
  OBVIOUS
<1>1. TypeOK
  <2>1. /\ kind \in [Obj -> Kinds \cup {"free"}]
        /\ ref \in [Obj -> [a : Obj \cup {Null}, b : Obj \cup {Null}]]
        /\ gcm \in [Obj -> BOOLEAN]
        /\ nfin \in [Obj -> 0..2]
    BY DEF Init, NoRefs
  <2>2. rootud \in Seq(Obj) /\ mmudata \in Seq(Obj)
    BY DEF Init
  <2>3. stack \in Seq(Obj \cup {Null}) /\ frames \in Seq(Nat)
    BY DEF Init
  <2> QED
    BY <2>1, <2>2, <2>3 DEF Init, TypeOK, Phases
<1>2. Range(stack) = {} /\ Range(rootud) = {}
  BY DEF Init, Range
<1>3. HeapSafe
  BY <1>2 DEF HeapSafe, Roots, ClosedSet, Live, Init
<1> QED
  BY <1>1, <1>2, <1>3
     DEF IndInv, Init, QueueIdle, MarksOK, UdataOK, TriColor, MarkedReachable, NoRefs

\* The program runs only outside collections, where the marks constrain nothing.
LEMMA NewInd ==
    ASSUME GcMethods \subseteq {FALSE}, IndInv,
           NEW o \in Obj, NEW k \in Kinds, NEW g \in GcMethods, New(o, k, g)
    PROVE  IndInv'
<1> USE DEF New, Running, InFinalizer, heap, marks, lists, calls
<1>0. /\ TypeOK /\ QueueIdle /\ MarksOK /\ UdataOK /\ HeapSafe
      /\ phase = "run" /\ phase' = "run" /\ black = {} /\ fin = {} /\ gray = {}
  BY DEF IndInv, MarksOK
<1>1. /\ stack' \in Seq(Obj \cup {Null})
      /\ Range(stack') = Range(stack) \cup {o}
  <2>1. stack \in Seq(Obj \cup {Null}) /\ o \in Obj \cup {Null} /\ stack' = Append(stack, o)
    BY <1>0 DEF TypeOK
  <2> QED
    BY ONLY <2>1, RangeAppend
<1>2. /\ rootud' \in Seq(Obj)
      /\ Range(rootud') = Range(rootud) \cup (IF k = "udata" THEN {o} ELSE {})
  BY <1>0, RangeCons DEF TypeOK
<1>3. TypeOK'
  BY <1>0, <1>1, <1>2 DEF TypeOK, NoRefs, Phases
<1>4. QueueIdle'
  BY <1>0 DEF QueueIdle, TypeOK
<1>5. MarksOK' /\ TriColor' /\ MarkedReachable'
  BY <1>0 DEF MarksOK, TriColor, MarkedReachable
<1>6. UdataOK'
  BY <1>0, <1>2 DEF UdataOK, TypeOK
<1>7. HeapSafe'
  <2>1. PICK G \in SUBSET Live : Roots \subseteq G /\ ClosedSet(G)
    BY <1>0 DEF HeapSafe
  <2>2. G \cup {o} \subseteq Live'
    BY <1>0, <2>1, ConstantsOK DEF Live, TypeOK, AllKinds
  <2>3. Roots' \subseteq G \cup {o}
    BY <2>1, <1>1 DEF Roots
  <2>4. \A x \in G : Children(x)' = Children(x)
    BY <1>0, <2>1 DEF Children, TypeOK, Live
  <2>5. Children(o)' = {}
    BY <1>0 DEF Children, TypeOK, NoRefs
  <2>6. ClosedSet(G \cup {o})'
    BY <2>1, <2>4, <2>5 DEF ClosedSet
  <2> QED
    BY <2>2, <2>3, <2>6 DEF HeapSafe
<1> QED
  BY <1>3, <1>4, <1>5, <1>6, <1>7 DEF IndInv

\* A store keeps the invariant.
LEMMA StoreInd ==
    ASSUME IndInv,
           NEW i \in DOMAIN stack, NEW j \in DOMAIN stack, NEW f \in {"a", "b"}, Store(i, f, j)
    PROVE  IndInv'
<1> USE DEF Store, Running, InFinalizer, heap, marks, lists, calls
<1>0. /\ TypeOK /\ QueueIdle /\ MarksOK /\ UdataOK /\ HeapSafe
      /\ phase = "run" /\ black = {} /\ fin = {} /\ gray = {}
  BY DEF IndInv, MarksOK
<1> DEFINE o == stack[i]
           v == stack[j]
<1>1. o \in Obj /\ v \in Obj \cup {Null} /\ o \in Range(stack) /\ v \in Range(stack)
  BY <1>0 DEF TypeOK, Range
<1>2. TypeOK'
  BY <1>0, <1>1 DEF TypeOK
<1>3. QueueIdle' /\ MarksOK' /\ UdataOK' /\ TriColor' /\ MarkedReachable'
  BY <1>0 DEF QueueIdle, MarksOK, UdataOK, TriColor, MarkedReachable
<1>4. HeapSafe'
  <2>1. PICK G \in SUBSET Live : Roots \subseteq G /\ ClosedSet(G)
    BY <1>0 DEF HeapSafe
  <2>2. \A x \in G : Children(x)' \subseteq Children(x) \cup ({v} \ {Null})
    BY <1>0, <1>1, <2>1 DEF Children, TypeOK, Live
  <2>3. ClosedSet(G)'
    BY <1>1, <2>1, <2>2 DEF ClosedSet, Roots
  <2> QED
    BY <2>1, <2>3 DEF HeapSafe, Roots, Live
<1> QED
  BY <1>2, <1>3, <1>4 DEF IndInv

\* The steps that change only the stack.
LEMMA StackInd ==
    ASSUME IndInv, phase = "run", TypeOK',
           \A v \in Range(stack') :
               v = Null \/ v \in Range(stack) \/ \E r \in Roots : v \in Children(r),
           UNCHANGED <<heap, marks, lists, frames, phase, closing>>
    PROVE  IndInv'
<1> USE DEF heap, marks, lists, calls
<1>0. /\ TypeOK /\ QueueIdle /\ MarksOK /\ UdataOK /\ HeapSafe
      /\ phase = "run" /\ black = {} /\ fin = {} /\ gray = {}
  BY DEF IndInv, MarksOK
<1>1. QueueIdle' /\ MarksOK' /\ UdataOK' /\ TriColor' /\ MarkedReachable'
  BY <1>0 DEF QueueIdle, MarksOK, UdataOK, TriColor, MarkedReachable
<1>2. PICK G \in SUBSET Live : Roots \subseteq G /\ ClosedSet(G)
  BY <1>0 DEF HeapSafe
<1>3. Roots' \subseteq G
  BY <1>2 DEF Roots, ClosedSet
<1>4. HeapSafe'
  BY <1>2, <1>3 DEF HeapSafe, ClosedSet, Children, Live
<1> QED
  BY <1>1, <1>4 DEF IndInv

\* Every step of the program keeps the invariant.
LEMMA ProgramInd == ASSUME GcMethods \subseteq {FALSE}, IndInv, Program PROVE IndInv'
<1> USE DEF heap, marks, lists, calls
<1>0. /\ TypeOK /\ QueueIdle /\ DOMAIN stack = 1..Len(stack) /\ Len(stack) \in Nat
      /\ stack \in Seq(Obj \cup {Null})
  BY DEF IndInv, TypeOK
<1>1. ASSUME NEW o \in Obj, NEW k \in Kinds, NEW g \in GcMethods, New(o, k, g) PROVE IndInv'
  BY <1>1, NewInd
<1>2. ASSUME NEW i \in DOMAIN stack, NEW j \in DOMAIN stack, NEW f \in {"a", "b"}, Store(i, f, j)
      PROVE IndInv'
  BY <1>2, StoreInd
<1>3. ASSUME NEW i \in DOMAIN stack, NEW f \in {"a", "b"}, Load(i, f) PROVE IndInv'
  <2> DEFINE o == stack[i]
             v == ref[o][f]
  <2>1. /\ o \in Obj /\ o \in Range(stack) /\ v \in Obj \cup {Null}
        /\ stack' = Append(stack, v) /\ phase = "run"
        /\ UNCHANGED <<heap, marks, lists, frames, phase, closing, nfin>>
    BY <1>0, <1>3 DEF Load, Running, TypeOK, Range
  <2>2. v \in Children(o) \cup {Null} /\ o \in Roots
    BY <2>1, <1>0, ConstantsOK DEF Children, Roots
  <2>3. stack' \in Seq(Obj \cup {Null}) /\ Range(stack') = Range(stack) \cup {v}
    BY ONLY <2>1, <1>0, RangeAppend
  <2>4. TypeOK'
    BY <1>0, <2>1, <2>3 DEF TypeOK
  <2> QED
    BY <2>1, <2>2, <2>3, <2>4, StackInd
<1>4. CASE Pop
  <2>1. Len(stack) - 1 \in 0..Len(stack)
    BY <1>0, <1>4 DEF Pop, Floor, InFinalizer, Running, QueueIdle
  <2>2. stack' \in Seq(Obj \cup {Null}) /\ Range(stack') \subseteq Range(stack)
    BY <1>0, <1>4, <2>1, RangePrefix DEF Pop
  <2>3. TypeOK'
    BY <1>0, <1>4, <2>2 DEF Pop, TypeOK
  <2> QED
    BY <1>4, <2>2, <2>3, StackInd DEF Pop, Running
<1>5. ASSUME NEW h \in 0..Len(stack), Throw(h) PROVE IndInv'
  <2>1. ~closing /\ frames = <<>> /\ phase = "run"
    BY <1>0, <1>5 DEF Throw, QueueIdle
  <2>2. stack' = SubSeq(stack, 1, h) /\ frames' = <<>> /\ phase' = phase /\ closing' = closing
    <3>1. frames \in Seq(Nat) /\ Range(frames) = {}
      BY <2>1 DEF Range
    <3>2. Only(frames, 1..h) = <<>>
      BY <3>1, OnlyOK DEF Filtered
    <3> QED
      BY <2>1, <3>2, <1>5 DEF Throw
  <2>3. stack' \in Seq(Obj \cup {Null}) /\ Range(stack') \subseteq Range(stack)
    BY <1>0, <2>2, RangePrefix
  <2>4. TypeOK'
    BY <1>0, <1>5, <2>1, <2>2, <2>3 DEF Throw, TypeOK
  <2> QED
    BY <1>5, <2>1, <2>2, <2>3, <2>4, StackInd DEF Throw
<1>6. ASSUME NEW i \in DOMAIN stack, NEW j \in DOMAIN stack, Copy(i, j) PROVE IndInv'
  <2>1. stack' = [stack EXCEPT ![i] = stack[j]] /\ phase = "run"
    BY <1>6 DEF Copy, Running
  <2>2. stack' \in Seq(Obj \cup {Null}) /\ Range(stack') \subseteq Range(stack)
    BY <1>0, <2>1 DEF Range
  <2>3. TypeOK'
    BY <1>0, <1>6, <2>2 DEF Copy, TypeOK
  <2> QED
    BY <1>6, <2>1, <2>2, <2>3, StackInd DEF Copy
<1> QED
  BY <1>1, <1>2, <1>3, <1>4, <1>5, <1>6 DEF Program

\* The start of a collection keeps the invariant.
LEMMA MarkRootsInd == ASSUME IndInv, MarkRoots PROVE IndInv'
<1> USE DEF MarkRoots, Running, heap, marks, lists, calls
<1>0. /\ TypeOK /\ QueueIdle /\ MarksOK /\ UdataOK /\ HeapSafe
      /\ phase = "run" /\ phase' = "trace" /\ black = {} /\ fin = {} /\ gray = {}
  BY DEF IndInv, MarksOK
<1>1. black' = Roots /\ gray' = Roots
  BY <1>0 DEF Markable, Roots
<1>2. Roots \subseteq Obj
  BY <1>0 DEF Roots, TypeOK, Range
<1>3. TypeOK'
  BY <1>0, <1>1, <1>2 DEF TypeOK, Phases
<1>4. QueueIdle' /\ MarksOK' /\ UdataOK'
  BY <1>0, <1>1 DEF QueueIdle, MarksOK, UdataOK, InFinalizer
<1>5. HeapSafe'
  BY <1>0 DEF HeapSafe, Roots, ClosedSet, Children, Live
<1>6. TriColor' /\ MarkedReachable'
  BY <1>1 DEF TriColor, MarkedReachable, Roots
<1> QED
  BY <1>3, <1>4, <1>5, <1>6 DEF IndInv

\* Tracing one object keeps the invariant.
LEMMA TraceInd == ASSUME IndInv, NEW o \in Obj, Trace(o) PROVE IndInv'
<1> USE DEF Trace, heap, marks, lists, calls
<1>0. /\ TypeOK /\ QueueIdle /\ MarksOK /\ UdataOK /\ HeapSafe
      /\ TriColor /\ MarkedReachable
      /\ phase = "trace" /\ phase' = "trace" /\ o \in gray /\ fin = {} /\ gray \subseteq black
  BY DEF IndInv, MarksOK
<1>1. /\ black' = black \cup Traced(o)
      /\ gray' = (gray \ {o}) \cup (Traced(o) \ black)
  BY <1>0, TracedInChildren DEF Markable
<1>2. Traced(o) \subseteq Obj
  BY <1>0, TracedInChildren DEF Children, TypeOK
<1>3. TypeOK'
  BY <1>0, <1>1, <1>2 DEF TypeOK, Phases
<1>4. QueueIdle' /\ MarksOK' /\ UdataOK'
  BY <1>0, <1>1 DEF QueueIdle, MarksOK, UdataOK
<1>5. HeapSafe'
  BY <1>0 DEF HeapSafe, Roots, ClosedSet, Children, Live
<1>6. TriColor'
  <2>1. Range(mmudata) = {} /\ mmudata' = mmudata
    BY <1>0 DEF QueueIdle, Range
  <2>2. \A x : Traced(x)' = Traced(x)
    BY DEF Traced
  <2>3. ASSUME NEW x \in black' \ gray' PROVE Traced(x) \subseteq black'
    <3>1. CASE x = o
      BY <3>1, <1>1
    <3>2. CASE x # o
      <4>1. x \in black \ gray
        BY <3>2, <1>1
      <4>2. Traced(x) \subseteq black
        BY <1>0, <2>1, <4>1 DEF TriColor
      <4> QED
        BY <1>1, <4>2
    <3> QED
      BY <3>1, <3>2
  <2> QED
    BY <2>2, <2>3 DEF TriColor
<1>7. MarkedReachable'
  <2>1. Roots' = Roots /\ \A G : TracedSet(G)' = TracedSet(G)
    BY DEF Roots, TracedSet, Traced
  <2>2. Roots' \subseteq black'
    BY <1>0, <1>1, <2>1 DEF MarkedReachable
  <2>3. ASSUME NEW G \in SUBSET Obj, Roots \subseteq G, TracedSet(G) PROVE black' \subseteq G
    <3>1. black \subseteq G
      BY <1>0, <2>3 DEF MarkedReachable
    <3>2. o \in G
      BY <1>0, <3>1
    <3> QED
      BY <1>1, <3>1, <3>2, <2>3 DEF TracedSet
  <2> QED
    BY <2>1, <2>2, <2>3 DEF MarkedReachable
<1> QED
  BY <1>3, <1>4, <1>5, <1>6, <1>7 DEF IndInv

\* Separating: nothing is queued, and every userdata becomes marked or flagged.
LEMMA SeparateUdataIdle ==
    ASSUME TypeOK, QueueIdle, SeparateUdata
    PROVE  /\ rootud' = rootud
           /\ mmudata' = <<>>
           /\ fin' = fin \cup (Range(rootud) \ (black \cup fin))
<1>1. rootud \in Seq(Obj) /\ Range(rootud) \subseteq Obj /\ mmudata = <<>>
  BY DEF TypeOK, QueueIdle, Range
<1> DEFINE unmarked == Range(rootud) \ (black \cup fin)
           need == {o \in unmarked : gcm[o]}
<1>2. need = {}
  BY <1>1 DEF QueueIdle
<1>3. /\ rootud' = Only(rootud, Range(rootud) \ need)
      /\ mmudata' = Only(rootud, need) \o mmudata
      /\ fin' = fin \cup (unmarked \ need)
  BY DEF SeparateUdata
<1>4. Range(rootud) \ need = Range(rootud) /\ unmarked \ need = unmarked
  BY <1>2
<1>5. rootud' = rootud /\ mmudata' = <<>> \o <<>>
  BY <1>1, <1>2, <1>3, <1>4, OnlyExtremes
<1> QED
  BY <1>3, <1>4, <1>5

\* Separating the flagged userdata keeps the invariant: now that nothing is gray, what
\* is marked is what is reached.
LEMMA SeparateInd == ASSUME IndInv, HiddenReached, Separate PROVE IndInv'
<1> USE DEF Separate, heap, marks, lists, calls
<1>0. /\ TypeOK /\ QueueIdle /\ MarksOK /\ UdataOK /\ HeapSafe
      /\ TriColor /\ MarkedReachable
      /\ phase = "trace" /\ phase' = "trace2" /\ fin = {} /\ gray = {}
  BY DEF IndInv, MarksOK
<1>1. rootud' = rootud /\ mmudata' = <<>> /\ fin' = Range(rootud) \ black
  BY <1>0, SeparateUdataIdle
<1>2. black' = black /\ gray' = {}
  <2>1. Range(mmudata') = {} /\ DOMAIN mmudata' = {}
    BY <1>1 DEF Range
  <2>2. MarkQueue(mmudata', fin')
    OBVIOUS
  <2> QED
    BY <1>0, <2>1, <2>2 DEF MarkQueue
<1>3. Range(rootud) \subseteq Obj
  BY <1>0 DEF TypeOK, Range
<1>4. TypeOK'
  BY <1>0, <1>1, <1>2, <1>3 DEF TypeOK, Phases
<1>5. QueueIdle' /\ UdataOK'
  BY <1>0, <1>1, <1>2 DEF QueueIdle, UdataOK
<1>6. HeapSafe' /\ MarkedReachable'
  BY <1>0, <1>2 DEF HeapSafe, MarkedReachable, Roots, ClosedSet, Children, TracedSet, Traced, Live
<1>7. \A x \in black : Traced(x) \subseteq black
  <2>1. Range(mmudata) = {}
    BY <1>0 DEF QueueIdle, Range
  <2> QED
    BY <1>0, <2>1 DEF TriColor
<1>8. black \subseteq Obj
  BY <1>0 DEF TypeOK
<1>9. TriColor'
  <2>1. \A x \in Obj : Traced(x)' = Traced(x)
    BY DEF Traced
  <2> QED
    BY <1>2, <1>7, <1>8, <2>1 DEF TriColor
<1>10. MarksOK'
  <2>1. ClosedSet(black)'
    <3>1. black = Reached
      BY <1>0, <1>7, <1>8 DEF Reached, MarkedReachable, TracedSet
    <3>2. ClosedSet(black)
      BY <1>0, <3>1 DEF HiddenReached
    <3> QED
      BY <1>2, <3>2 DEF ClosedSet, Children
  <2> QED
    BY <1>0, <1>1, <1>2, <2>1 DEF MarksOK
<1> QED
  BY <1>4, <1>5, <1>6, <1>9, <1>10 DEF IndInv

\* The sweep keeps the invariant.
LEMMA SweepInd == ASSUME IndInv, Sweep PROVE IndInv'
<1> USE DEF Sweep, heap, marks, lists, calls
<1>0. /\ TypeOK /\ QueueIdle /\ MarksOK /\ UdataOK /\ HeapSafe
      /\ MarkedReachable /\ ClosedSet(black) /\ gray = {} /\ phase = "trace2"
      /\ Range(rootud) \subseteq black \cup fin
      /\ mmudata = <<>> /\ ~closing /\ ~closing'
  BY DEF IndInv, MarksOK, QueueIdle
<1>1. Swept = Live /\ Dead = Live \ (black \cup fin)
  BY <1>0 DEF Swept, Dead, Range
<1>2. phase' = "run" /\ stack' = stack /\ frames' = frames
  BY <1>0 DEF EnterFinalize
<1>3. rootud' = rootud
  <2>1. rootud \in Seq(Obj)
    BY <1>0 DEF TypeOK
  <2>2. Range(rootud) \ Dead = Range(rootud)
    BY <1>0, <1>1
  <2> QED
    BY <2>1, <2>2, OnlyExtremes
<1>4. black \subseteq Live /\ fin \subseteq Live
  <2>1. black \subseteq Live
    <3>1. PICK G \in SUBSET Live : Roots \subseteq G /\ ClosedSet(G)
      BY <1>0 DEF HeapSafe
    <3> QED
      BY <1>0, <3>1, ClosedIsTraced DEF MarkedReachable, Live
  <2>2. Range(rootud) \subseteq Obj
    BY <1>0 DEF TypeOK, Range
  <2> QED
    BY <1>0, <2>1, <2>2 DEF UdataOK, Live
<1>5. black' = {} /\ fin' = {} /\ gray' = {}
  BY <1>0, <1>1, <1>4
<1>6. TypeOK'
  <2>1. /\ kind' \in [Obj -> Kinds \cup {"free"}]
        /\ ref' \in [Obj -> [a : Obj \cup {Null}, b : Obj \cup {Null}]]
        /\ gcm' \in [Obj -> BOOLEAN]
        /\ nfin' \in [Obj -> 0..2]
    BY <1>0 DEF TypeOK, NoRefs
  <2> QED
    BY <1>0, <1>2, <1>3, <1>5, <2>1 DEF TypeOK, Phases
<1>7. QueueIdle'
  BY <1>0, <1>2 DEF QueueIdle
<1>8. MarksOK' /\ TriColor' /\ MarkedReachable'
  BY <1>2, <1>5 DEF MarksOK, TriColor, MarkedReachable
<1>9. UdataOK'
  <2>1. Range(rootud) \cap Dead = {} /\ Range(rootud) \subseteq Obj
    BY <1>0, <1>1 DEF TypeOK, Range
  <2> QED
    BY <1>0, <1>3, <1>5, <2>1 DEF UdataOK
<1>10. HeapSafe'
  <2>1. PICK G \in SUBSET Obj : G = black
    BY <1>0 DEF TypeOK
  <2>2. G \subseteq Live'
    BY <2>1, <1>1, <1>4 DEF Live
  <2>3. Roots' \subseteq G
    BY <2>1, <1>0, <1>2 DEF MarkedReachable, Roots
  <2>4. \A x \in G : Children(x)' = Children(x)
    BY <2>1, <1>0, <1>1, <1>4 DEF Children, Live
  <2>5. ClosedSet(G)'
    BY <2>1, <1>0, <2>4 DEF ClosedSet
  <2> QED
    BY <2>2, <2>3, <2>5 DEF HeapSafe
<1> QED
  BY <1>6, <1>7, <1>8, <1>9, <1>10 DEF IndInv

\* In tea_close, and after it.
LEMMA CloseInd ==
    ASSUME IndInv, Close \/ FinalizeDone \/ FreeAll
    PROVE  IndInv'
<1> USE DEF heap, marks, lists, calls
<1>0. /\ TypeOK /\ QueueIdle /\ MarksOK /\ UdataOK /\ HeapSafe
  BY DEF IndInv
<1>1. CASE Close
  <2>0. /\ phase = "run" /\ phase' = "finalize" /\ ~closing /\ closing'
        /\ stack' = Append(<<>>, Null) /\ frames' = Append(<<>>, Len(<<>>) + 1)
        /\ UNCHANGED <<kind, ref, gcm, black, gray, nfin>>
    BY <1>1 DEF Close, EnterFinalize
  <2>1. rootud' = rootud /\ mmudata' = <<>> /\ fin' = fin \cup (Range(rootud) \ (black \cup fin))
    BY <1>0, <1>1, SeparateUdataIdle DEF Close
  <2>2. stack' = <<Null>> /\ frames' = <<1>> /\ Roots' = {}
    BY <2>0 DEF Roots, Range
  <2>3. TypeOK'
    <3>1. Range(rootud) \subseteq Obj
      BY <1>0 DEF TypeOK, Range
    <3>2. <<Null>> \in Seq(Obj \cup {Null}) /\ <<1>> \in Seq(Nat)
      OBVIOUS
    <3> QED
      BY <1>0, <2>0, <2>1, <2>2, <3>1, <3>2 DEF TypeOK, Phases
  <2>4. QueueIdle' /\ MarksOK' /\ UdataOK' /\ TriColor' /\ MarkedReachable'
    BY <1>0, <2>0, <2>1, <2>2
       DEF QueueIdle, MarksOK, UdataOK, TriColor, MarkedReachable
  <2>5. HeapSafe'
    BY <2>2 DEF HeapSafe, ClosedSet
  <2> QED
    BY <2>3, <2>4, <2>5 DEF IndInv
<1>2. CASE FinalizeDone
  <2>0. /\ phase = "finalize" /\ phase' = "freeall" /\ frames = <<1>> /\ stack = <<Null>>
        /\ UNCHANGED <<kind, ref, gcm, black, fin, gray, rootud, mmudata, closing, nfin>>
    BY <1>0, <1>2 DEF FinalizeDone, QueueIdle
  <2>1. stack' = <<>> /\ frames' = <<>>
    BY <1>2, <2>0 DEF FinalizeDone, Floor, InFinalizer
  <2>2. Roots' = {}
    BY <2>1 DEF Roots, Range
  <2>3. TypeOK'
    <3>1. <<>> \in Seq(Obj \cup {Null}) /\ <<>> \in Seq(Nat)
      OBVIOUS
    <3> QED
      BY <1>0, <2>0, <2>1, <3>1 DEF TypeOK, Phases
  <2>4. QueueIdle' /\ MarksOK' /\ UdataOK' /\ TriColor' /\ MarkedReachable'
    BY <1>0, <2>0, <2>1
       DEF QueueIdle, MarksOK, UdataOK, TriColor, MarkedReachable
  <2>5. HeapSafe'
    BY <2>2 DEF HeapSafe, ClosedSet
  <2> QED
    BY <2>3, <2>4, <2>5 DEF IndInv
<1>3. CASE FreeAll
  <2>0. /\ phase = "freeall" /\ phase' = "closed" /\ mmudata = <<>> /\ frames = <<>>
        /\ black' = {} /\ fin' = {} /\ rootud' = <<>> /\ gray' = gray
        /\ UNCHANGED <<gray, mmudata, stack, frames, closing>>
    BY <1>0, <1>3 DEF FreeAll, QueueIdle
  <2>1. /\ kind' \in [Obj -> Kinds \cup {"free"}]
        /\ ref' = [o \in Obj |-> NoRefs]
        /\ gcm' = [o \in Obj |-> FALSE]
        /\ nfin' \in [Obj -> 0..2]
    BY <1>3 DEF FreeAll
  <2>2. stack = <<>> /\ Roots' = {}
    BY <1>0, <2>0 DEF QueueIdle, Roots, Range
  <2>3. TypeOK'
    <3>1. \A o \in Obj : NoRefs \in [a : Obj \cup {Null}, b : Obj \cup {Null}]
      BY DEF NoRefs
    <3>2. <<>> \in Seq(Obj)
      OBVIOUS
    <3> QED
      BY <1>0, <2>0, <2>1, <3>1, <3>2 DEF TypeOK, Phases
  <2>4. QueueIdle' /\ MarksOK' /\ TriColor' /\ MarkedReachable'
    BY <1>0, <2>0, <2>1, <2>2 DEF QueueIdle, MarksOK, TriColor, MarkedReachable
  <2>5. UdataOK'
    BY <2>0 DEF UdataOK, Range
  <2>6. HeapSafe'
    <3>1. Roots' = {}
      BY <2>2
    <3> QED
      BY ONLY <3>1 DEF HeapSafe, ClosedSet
  <2> QED
    BY <2>2, <2>3, <2>4, <2>5, <2>6 DEF IndInv
<1> QED
  BY <1>1, <1>2, <1>3

\* Stuttering keeps the invariant.
LEMMA StutterInd == ASSUME IndInv, UNCHANGED vars PROVE IndInv'
<1> USE DEF IndInv, vars
<1>1. TypeOK' /\ QueueIdle'
  BY DEF TypeOK, QueueIdle
<1>2. MarksOK' /\ UdataOK'
  BY DEF MarksOK, UdataOK, ClosedSet, Children
<1>3. HeapSafe'
  BY DEF HeapSafe, Roots, ClosedSet, Children, Live
<1>4. TriColor'
  BY DEF TriColor, Traced
<1>5. MarkedReachable'
  BY DEF MarkedReachable, Roots, TracedSet, Traced
<1> QED
  BY <1>1, <1>2, <1>3, <1>4, <1>5

\* Every step keeps the invariant.
LEMMA NextInd ==
    ASSUME GcMethods \subseteq {FALSE}, IndInv, HiddenReached, [Next]_vars
    PROVE  IndInv'
<1>0. QueueIdle
  BY DEF IndInv
<1>1. CASE Program
  BY <1>1, ProgramInd
<1>2. CASE MarkRoots
  BY <1>2, MarkRootsInd
<1>3. CASE Collector
  <2>1. ~FinalizeNext
    BY <1>0 DEF QueueIdle, FinalizeNext
  <2>2. ASSUME NEW o \in Obj, Trace(o) PROVE IndInv'
    BY <2>2, TraceInd
  <2> QED
    BY <1>3, <2>1, <2>2, SeparateInd, SweepInd, CloseInd DEF Collector
<1>4. CASE FinalizerReturn
  BY <1>0, <1>4 DEF QueueIdle, FinalizerReturn, InFinalizer
<1>5. CASE Close
  BY <1>5, CloseInd
<1>6. CASE Closed \/ UNCHANGED vars
  BY <1>6, StutterInd DEF Closed
<1> QED
  BY <1>1, <1>2, <1>3, <1>4, <1>5, <1>6 DEF Next

\* The invariant holds always.
LEMMA SpecInd ==
    ASSUME GcMethods \subseteq {FALSE}
    PROVE  Spec /\ []HiddenReached => []IndInv
<1>1. Init => IndInv
  BY InitInd
<1>2. IndInv /\ HiddenReached /\ [Next]_vars => IndInv'
  BY NextInd
<1> QED
  BY <1>1, <1>2, PTL DEF Spec

-----------------------------------------------------------------------------
(* What follows from it                                                    *)

\* tea_gc_collect frees nothing the program can reach, however the heap is shaped
\* and whenever the allocation that starts a collection happens.  Two kinds of programs
\* are left out: those whose userdata have gc methods, and those that, when a collection
\* starts, need one of the references it overlooks: a user value of a userdata, the module of
\* a function or the setter beside a getter, not reached otherwise.
THEOREM HeapSafety ==
    ASSUME GcMethods \subseteq {FALSE}
    PROVE  Spec /\ []HiddenReached => []HeapSafe
<1>1. IndInv => HeapSafe
  BY DEF IndInv
<1> QED
  BY <1>1, SpecInd, PTL

\* Objects marked and scanned never refer to unmarked ones while marking runs.
THEOREM TriColorInvariant ==
    ASSUME GcMethods \subseteq {FALSE}
    PROVE  Spec /\ []HiddenReached => []TriColor
<1>1. IndInv => TriColor
  BY DEF IndInv
<1> QED
  BY <1>1, SpecInd, PTL

\* gc_markobj and the flags of tea_gc_separateudata are set on live objects only.
THEOREM MarksOnLiveObjects ==
    ASSUME GcMethods \subseteq {FALSE}
    PROVE  Spec /\ []HiddenReached => []CollectorTouchesLive
<1>1. IndInv => CollectorTouchesLive
  <2> SUFFICES ASSUME IndInv PROVE black \cup fin \cup gray \subseteq Live
    BY DEF CollectorTouchesLive
  <2>0. TypeOK /\ MarksOK /\ UdataOK
    BY DEF IndInv
  <2>1. black \subseteq Live
    <3>1. PICK G \in SUBSET Live : Roots \subseteq G /\ ClosedSet(G)
      BY DEF IndInv, HeapSafe
    <3> QED
      BY <2>0, <3>1, ClosedIsTraced DEF IndInv, MarksOK, MarkedReachable, Live
  <2>2. Range(rootud) \subseteq Obj
    BY <2>0 DEF TypeOK, Range
  <2> QED
    BY <2>0, <2>1, <2>2 DEF MarksOK, UdataOK, Live
<1> QED
  BY <1>1, SpecInd, PTL

\* gc_sweep keeps no object but userdata that neither the roots nor the queue
\* reach: garbage is freed by the first collection that starts after it arose.
THEOREM SweepIsPrecise ==
    ASSUME GcMethods \subseteq {FALSE}
    PROVE  Spec /\ []HiddenReached => KeepsOnlyReachable
<1> DEFINE Precise ==
        Sweep => \A G \in SUBSET Obj :
            Roots \cup Range(mmudata) \subseteq G /\ ClosedSet(G) =>
                {o \in Live : kind'[o] # "free" /\ kind[o] # "udata"} \subseteq G
<1>1. ASSUME IndInv, Sweep PROVE Precise
  <2>1. ASSUME NEW G \in SUBSET Obj, Roots \subseteq G, ClosedSet(G),
               NEW o \in Live, kind'[o] # "free", kind[o] # "udata"
        PROVE  o \in G
    <3>1. o \in black \cup fin
      <4>1. Range(mmudata) = {}
        BY <1>1 DEF IndInv, QueueIdle, Range
      <4> QED
        BY <1>1, <2>1, <4>1 DEF Sweep, Dead, Swept, Live
    <3>2. o \notin fin
      BY <1>1, <2>1 DEF IndInv, UdataOK
    <3>3. black \subseteq G
      BY <1>1, <2>1, ClosedIsTraced DEF IndInv, MarkedReachable, Sweep
    <3> QED
      BY <3>1, <3>2, <3>3
  <2> QED
    BY <2>1
<1>2. IndInv /\ [Next]_vars => [Precise]_vars
  BY <1>1
<1> QED
  BY <1>2, SpecInd, PTL DEF KeepsOnlyReachable, Spec

-----------------------------------------------------------------------------
(* Userdata with gc methods: the lists and the flags                       *)

\* Every userdata is in one list, once.
ListsOK ==
    /\ Injective(rootud) /\ Injective(mmudata)
    /\ Range(rootud) \cap Range(mmudata) = {}
    /\ Range(rootud) \cup Range(mmudata) = {o \in Live : kind[o] = "udata"}

\* The reserved slots lie in the stack, one above the other.
FramesOK ==
    /\ \A k \in DOMAIN frames : frames[k] \in DOMAIN stack
    /\ Increasing(frames)
    /\ phase = "finalize" => frames # <<>> /\ Len(stack) = Floor
    /\ phase \in {"freeall", "closed"} => mmudata = <<>>

\* A flagged userdata was finalized or has nothing to call; at the sweep every
\* linked userdata has a mark, and otherwise none is marked.
FlagsOK ==
    /\ \A o \in Obj : gcm[o] => kind[o] = "udata"
    /\ \A o \in Range(rootud) : gcm[o] /\ o \in fin => nfin[o] >= 1
    /\ phase \notin {"trace", "trace2"} => Range(rootud) \cap black = {}
    /\ phase = "trace2" => Range(rootud) \subseteq black \cup fin

QueueInv == TypeOK /\ ListsOK /\ FramesOK /\ FlagsOK

\* The parts of the types, as facts.
LEMMA QueueTypes ==
    ASSUME QueueInv
    PROVE  /\ rootud \in Seq(Obj) /\ mmudata \in Seq(Obj) /\ Range(rootud) \subseteq Obj
           /\ Range(mmudata) \subseteq Obj
           /\ stack \in Seq(Obj \cup {Null}) /\ Len(stack) \in Nat /\ DOMAIN stack = 1..Len(stack)
           /\ Range(stack) \subseteq Obj \cup {Null}
           /\ frames \in Seq(Nat) /\ Len(frames) \in Nat /\ DOMAIN frames = 1..Len(frames)
           /\ Floor \in 0..Len(stack)
           /\ \A o \in Obj : Traced(o) \subseteq Obj /\ Children(o) \subseteq Obj
           /\ Roots \subseteq Obj
<1>1. /\ rootud \in Seq(Obj) /\ mmudata \in Seq(Obj) /\ stack \in Seq(Obj \cup {Null})
      /\ frames \in Seq(Nat) /\ ref \in [Obj -> [a : Obj \cup {Null}, b : Obj \cup {Null}]]
  BY DEF QueueInv, TypeOK
<1>2. /\ Len(stack) \in Nat /\ DOMAIN stack = 1..Len(stack)
      /\ Len(frames) \in Nat /\ DOMAIN frames = 1..Len(frames)
  BY <1>1
<1>3. Range(rootud) \subseteq Obj /\ Range(mmudata) \subseteq Obj /\ Range(stack) \subseteq Obj \cup {Null}
  BY <1>1 DEF Range
<1>4. Floor \in 0..Len(stack)
  <2>1. CASE frames = <<>>
    BY <1>2, <2>1 DEF Floor, InFinalizer
  <2>2. CASE frames # <<>>
    <3>1. Len(frames) \in DOMAIN frames
      BY <1>1, <1>2, <2>2
    <3>2. frames[Len(frames)] \in DOMAIN stack
      BY <3>1 DEF QueueInv, FramesOK
    <3> QED
      BY <1>2, <2>2, <3>2 DEF Floor, InFinalizer
  <2> QED
    BY <2>1, <2>2
<1>5. ASSUME NEW o \in Obj PROVE Traced(o) \subseteq Obj /\ Children(o) \subseteq Obj
  <2>1. ref[o].a \in Obj \cup {Null} /\ ref[o].b \in Obj \cup {Null}
    BY <1>1
  <2> QED
    BY <2>1 DEF Traced, Children
<1> QED
  BY <1>1, <1>2, <1>3, <1>4, <1>5 DEF Roots

\* What tea_gc_separateudata does to the lists: userdata move, and every one that is
\* neither marked nor flagged moves or is flagged.
Separated ==
    /\ rootud' \in Seq(Obj) /\ mmudata' \in Seq(Obj)
    /\ Injective(rootud') /\ Injective(mmudata')
    /\ Range(rootud') \subseteq Range(rootud) /\ Range(mmudata) \subseteq Range(mmudata')
    /\ Range(rootud') \cap Range(mmudata') = {}
    /\ Range(rootud') \cup Range(mmudata') = Range(rootud) \cup Range(mmudata)
    /\ Range(rootud') \subseteq black \cup fin'
    /\ \A o \in Range(rootud) : gcm[o] /\ o \notin black \cup fin => o \in Range(mmudata')
    /\ fin' \subseteq Obj
    /\ fin \subseteq fin'
    /\ \A o \in fin' \ fin : o \in Range(rootud) /\ ~gcm[o]

\* tea_gc_separateudata does that.
LEMMA SeparateLists ==
    ASSUME QueueInv, SeparateUdata
    PROVE  Separated
<1> DEFINE unmarked == Range(rootud) \ (black \cup fin)
           need == {o \in unmarked : gcm[o]}
           moved == Only(rootud, need)
           kept == Only(rootud, Range(rootud) \ need)
<1>1. rootud' = kept /\ mmudata' = moved \o mmudata /\ fin' = fin \cup (unmarked \ need)
  BY DEF SeparateUdata
<1>2. /\ rootud \in Seq(Obj) /\ mmudata \in Seq(Obj) /\ Range(rootud) \subseteq Obj
      /\ Injective(rootud) /\ Injective(mmudata) /\ Range(rootud) \cap Range(mmudata) = {}
      /\ fin \subseteq Obj
  BY QueueTypes DEF QueueInv, ListsOK, TypeOK
<1>3. kept \in Seq(Obj) /\ Injective(kept) /\ Range(kept) = Range(rootud) \ need
  <2>1. kept \in Seq(Obj) /\ Filtered(rootud, Range(rootud) \ need, kept)
    BY <1>2, OnlyOK
  <2> HIDE DEF need, kept
  <2> QED
    BY <1>2, <2>1 DEF Filtered
<1>4. moved \in Seq(Obj) /\ Injective(moved) /\ Range(moved) = need
  <2>1. moved \in Seq(Obj) /\ Filtered(rootud, need, moved) /\ need \subseteq Range(rootud)
    BY <1>2, OnlyOK
  <2> HIDE DEF need, moved
  <2> QED
    BY <1>2, <2>1 DEF Filtered
<1> HIDE DEF kept, moved
<1>5. need \subseteq Range(rootud)
  OBVIOUS
<1>6. /\ moved \o mmudata \in Seq(Obj) /\ Range(moved \o mmudata) = need \cup Range(mmudata)
      /\ Injective(moved \o mmudata)
  <2> HIDE DEF need
  <2>1. Range(moved) \cap Range(mmudata) = {}
    BY <1>2, <1>4, <1>5
  <2> QED
    BY <1>2, <1>4, <2>1, ConcatInjective
<1> QED
  BY <1>1, <1>2, <1>3, <1>4, <1>5, <1>6 DEF Separated

\* Entering tea_gc_finalize_udata, on top of a stack that holds the older slots.
LEMMA EnterOK ==
    ASSUME NEW s \in Seq(Obj \cup {Null}), NEW fr \in Seq(Nat), Increasing(fr),
           \A k \in DOMAIN fr : fr[k] \in 1..Len(s),
           NEW q, EnterFinalize(s, fr, q)
    PROVE  /\ stack' \in Seq(Obj \cup {Null}) /\ frames' \in Seq(Nat) /\ phase' \in Phases
           /\ FramesOK' /\ phase' \in {"run", "finalize"}
           /\ Range(stack') \subseteq Range(s) \cup {Null}
           /\ Range(s) \subseteq Range(stack')
<1>1. CASE q = <<>> /\ ~closing'
  <2>1. stack' = s /\ frames' = fr /\ phase' = "run"
    BY <1>1 DEF EnterFinalize
  <2>2. DOMAIN s = 1..Len(s)
    OBVIOUS
  <2>3. FramesOK'
    BY <2>1, <2>2 DEF FramesOK, Increasing
  <2> QED
    BY <2>1, <2>3 DEF Phases
<1>2. CASE ~(q = <<>> /\ ~closing')
  <2>1. stack' = Append(s, Null) /\ frames' = Append(fr, Len(s) + 1) /\ phase' = "finalize"
    BY <1>2 DEF EnterFinalize
  <2>2. PICK S : S = Obj \cup {Null}
    OBVIOUS
  <2>3. s \in Seq(S) /\ Null \in S
    BY <2>2
  <2>4. stack' \in Seq(S) /\ Range(stack') = Range(s) \cup {Null}
    BY <2>1, <2>3, RangeAppend
  <2>5. /\ Len(s) \in Nat /\ Len(fr) \in Nat /\ DOMAIN fr = 1..Len(fr)
        /\ Len(stack') = Len(s) + 1 /\ DOMAIN stack' = 1..Len(s)+1
        /\ frames' \in Seq(Nat) /\ Len(frames') = Len(fr) + 1 /\ DOMAIN frames' = 1..Len(fr)+1
        /\ frames'[Len(fr)+1] = Len(s) + 1 /\ \A k \in 1..Len(fr) : frames'[k] = fr[k]
    BY <2>1, <2>3
  <2>6. \A k \in DOMAIN frames' : frames'[k] \in DOMAIN stack'
    <3> SUFFICES ASSUME NEW k \in DOMAIN frames' PROVE frames'[k] \in DOMAIN stack'
      OBVIOUS
    <3>1. CASE k = Len(fr) + 1
      <4>1. Len(s) + 1 \in 1..Len(s)+1
        BY <2>5
      <4> QED
        BY <2>5, <3>1, <4>1
    <3>2. CASE k # Len(fr) + 1
      <4>1. k \in 1..Len(fr)
        BY <2>5, <3>2
      <4>2. fr[k] \in 1..Len(s)+1
        BY <2>5, <4>1
      <4> QED
        BY <2>5, <4>1, <4>2
    <3> QED
      BY <3>1, <3>2
  <2>7. Increasing(frames')
    <3> SUFFICES ASSUME NEW i \in DOMAIN frames', NEW j \in DOMAIN frames', i < j
                 PROVE  frames'[i] < frames'[j]
      BY DEF Increasing
    <3>1. i \in 1..Len(fr) /\ frames'[i] = fr[i] /\ fr[i] \in 1..Len(s)
      BY <2>5
    <3>2. CASE j = Len(fr) + 1
      BY <2>5, <3>1, <3>2
    <3>3. CASE j # Len(fr) + 1
      <4>1. j \in 1..Len(fr) /\ frames'[j] = fr[j]
        BY <2>5, <3>3
      <4> QED
        BY <2>5, <3>1, <4>1 DEF Increasing
    <3> QED
      BY <3>2, <3>3
  <2>8. frames' # <<>> /\ Len(stack') = Floor'
    <3>1. Len(frames') # 0
      BY <2>5
    <3>2. frames' # <<>>
      BY <3>1
    <3> QED
      BY <2>5, <3>2 DEF Floor, InFinalizer
  <2>9. FramesOK'
    BY <2>1, <2>6, <2>7, <2>8 DEF FramesOK, Increasing
  <2> QED
    BY <2>1, <2>2, <2>4, <2>5, <2>9 DEF Phases
<1> QED
  BY <1>1, <1>2

\* Steps that move no userdata and flag none.
LEMMA KeepLists ==
    ASSUME QueueInv, UNCHANGED <<kind, gcm, fin, lists, nfin>>,
           phase' \notin {"trace", "trace2"} => phase \notin {"trace", "trace2"} /\ black' = black,
           phase' = "trace2" => phase = "trace2" /\ black \subseteq black'
    PROVE  ListsOK' /\ FlagsOK'
<1> USE DEF lists
<1>1. ListsOK'
  BY DEF QueueInv, ListsOK, Live
<1>2. FlagsOK'
  BY DEF QueueInv, FlagsOK
<1> QED
  BY <1>1, <1>2

\* Steps that leave the frames alone and do not lower the stack.
LEMMA KeepFrames ==
    ASSUME QueueInv, UNCHANGED frames, DOMAIN stack \subseteq DOMAIN stack',
           phase' = "finalize" => phase = "finalize" /\ stack' = stack,
           phase' \notin {"freeall", "closed"}
    PROVE  FramesOK'
<1>1. FramesOK
  BY DEF QueueInv
<1>2. Floor' = Floor
  BY DEF Floor, InFinalizer
<1> QED
  BY <1>1, <1>2 DEF FramesOK, Increasing

\* The last frame's slot is the highest.
LEMMA UnderFloor ==
    ASSUME QueueInv, NEW k \in DOMAIN frames
    PROVE  /\ frames[k] \in DOMAIN stack /\ frames[k] <= Floor /\ frames # <<>>
           /\ k < Len(frames) => frames[k] < Floor
<1>1. /\ frames \in Seq(Nat) /\ Len(frames) \in Nat /\ DOMAIN frames = 1..Len(frames) /\ frames # <<>>
      /\ Increasing(frames) /\ frames[k] \in DOMAIN stack /\ frames[k] \in Nat
  BY QueueTypes DEF QueueInv, FramesOK
<1>2. Floor = frames[Len(frames)] /\ Len(frames) \in DOMAIN frames
  BY <1>1 DEF Floor, InFinalizer
<1>3. k < Len(frames) => frames[k] < Floor
  BY <1>1, <1>2 DEF Increasing
<1>4. k = Len(frames) => frames[k] = Floor
  BY <1>2
<1> QED
  BY <1>1, <1>2, <1>3, <1>4

\* The state at first.
LEMMA QueueInit == Init => QueueInv
<1> SUFFICES ASSUME Init PROVE QueueInv
  OBVIOUS
<1>1. TypeOK
  <2>1. /\ kind \in [Obj -> Kinds \cup {"free"}]
        /\ ref \in [Obj -> [a : Obj \cup {Null}, b : Obj \cup {Null}]]
        /\ gcm \in [Obj -> BOOLEAN]
        /\ nfin \in [Obj -> 0..2]
    BY DEF Init, NoRefs
  <2>2. rootud \in Seq(Obj) /\ mmudata \in Seq(Obj)
    BY DEF Init
  <2>3. stack \in Seq(Obj \cup {Null}) /\ frames \in Seq(Nat)
    BY DEF Init
  <2> QED
    BY <2>1, <2>2, <2>3 DEF Init, TypeOK, Phases
<1>2. DOMAIN rootud = {} /\ DOMAIN mmudata = {} /\ DOMAIN frames = {} /\ Range(rootud) = {} /\ Range(mmudata) = {}
  BY DEF Init, Range
<1>3. ListsOK
  BY <1>2 DEF Init, ListsOK, Injective, Live
<1>4. FramesOK
  BY <1>2 DEF Init, FramesOK, Increasing
<1>5. FlagsOK
  BY <1>2 DEF Init, FlagsOK
<1> QED
  BY <1>1, <1>3, <1>4, <1>5 DEF QueueInv

\* Allocation of an object.
LEMMA QueueNew ==
    ASSUME QueueInv, NEW o \in Obj, NEW k \in Kinds, NEW g \in GcMethods, New(o, k, g)
    PROVE  QueueInv'
<1> USE DEF New, Running
<1>0. TypeOK /\ ListsOK /\ FramesOK /\ FlagsOK /\ phase = "run" /\ phase' = "run" /\ kind[o] = "free"
  BY DEF QueueInv
<1>1. stack' \in Seq(Obj \cup {Null}) /\ DOMAIN stack \subseteq DOMAIN stack'
  <2>1. stack \in Seq(Obj \cup {Null}) /\ stack' = Append(stack, o)
    BY QueueTypes
  <2> QED
    BY <2>1
<1>2. k # "free" /\ k \in AllKinds
  BY ConstantsOK DEF AllKinds
<1>3. /\ kind' \in [Obj -> Kinds \cup {"free"}] /\ kind'[o] = k /\ gcm'[o] = (k = "udata" /\ g)
      /\ nfin'[o] = 0 /\ \A x \in Obj \ {o} : kind'[x] = kind[x] /\ gcm'[x] = gcm[x] /\ nfin'[x] = nfin[x]
  BY <1>0 DEF TypeOK
<1>4. o \notin Range(rootud) \cup Range(mmudata)
  BY <1>0 DEF ListsOK, Live
<1>5. /\ rootud \in Seq(Obj) /\ rootud' = (IF k = "udata" THEN <<o>> \o rootud ELSE rootud)
      /\ mmudata' = mmudata /\ Range(rootud) \subseteq Obj /\ Range(mmudata) \subseteq Obj
  BY QueueTypes
<1>6. /\ rootud' \in Seq(Obj) /\ Injective(rootud')
      /\ Range(rootud') = Range(rootud) \cup (IF k = "udata" THEN {o} ELSE {})
  <2>1. CASE k # "udata"
    BY <1>0, <1>5, <2>1 DEF ListsOK
  <2>2. CASE k = "udata"
    <3>1. PICK one : one = <<o>>
      OBVIOUS
    <3>2. one \in Seq(Obj) /\ Range(one) = {o} /\ Injective(one)
      BY <3>1 DEF Range, Injective
    <3>3. Injective(rootud) /\ Range(one) \cap Range(rootud) = {}
      BY <1>0, <1>4, <3>2 DEF ListsOK
    <3>4. /\ one \o rootud \in Seq(Obj) /\ Range(one \o rootud) = Range(one) \cup Range(rootud)
          /\ Injective(one \o rootud)
      BY <1>5, <3>2, <3>3, ConcatInjective
    <3> QED
      BY <1>5, <2>2, <3>1, <3>2, <3>4
  <2> QED
    BY <2>1, <2>2
<1>7. TypeOK'
  <2>1. /\ ref' \in [Obj -> [a : Obj \cup {Null}, b : Obj \cup {Null}]]
        /\ gcm' \in [Obj -> BOOLEAN] /\ nfin' \in [Obj -> 0..2]
    BY <1>0, ConstantsOK DEF TypeOK, NoRefs
  <2> QED
    BY <1>0, <1>1, <1>3, <1>6, <2>1 DEF TypeOK, Phases
<1>8. ListsOK'
  <2>1. Live' = Live \cup {o}
    BY <1>0, <1>2, <1>3 DEF Live
  <2>2. {x \in Live' : kind'[x] = "udata"} = {x \in Live : kind[x] = "udata"} \cup (IF k = "udata" THEN {o} ELSE {})
    BY <1>0, <1>3, <2>1 DEF Live
  <2> QED
    BY <1>0, <1>4, <1>5, <1>6, <2>2 DEF ListsOK
<1>9. FramesOK'
  BY <1>0, <1>1, KeepFrames
<1>10. FlagsOK'
  <2>1. \A x \in Obj : gcm'[x] => kind'[x] = "udata"
    BY <1>0, <1>3 DEF FlagsOK
  <2>2. \A x \in Range(rootud') : gcm'[x] /\ x \in fin' => nfin'[x] >= 1
    BY <1>0, <1>3, <1>4, <1>5, <1>6 DEF FlagsOK
  <2>3. Range(rootud') \cap black' = {}
    BY <1>0, <1>6 DEF FlagsOK
  <2> QED
    BY <1>0, <2>1, <2>2, <2>3 DEF FlagsOK
<1> QED
  BY <1>7, <1>8, <1>9, <1>10 DEF QueueInv

\* The steps of the program that do not allocate.
LEMMA QueueProgram == ASSUME QueueInv, Program PROVE QueueInv'
<1> USE DEF heap, marks, lists, calls
<1>0. /\ TypeOK /\ FramesOK /\ stack \in Seq(Obj \cup {Null}) /\ DOMAIN stack = 1..Len(stack)
      /\ Len(stack) \in Nat /\ Floor \in 0..Len(stack)
      /\ frames \in Seq(Nat) /\ DOMAIN frames = 1..Len(frames)
  BY QueueTypes DEF QueueInv
<1>1. ASSUME NEW o \in Obj, NEW k \in Kinds, NEW g \in GcMethods, New(o, k, g) PROVE QueueInv'
  BY <1>1, QueueNew
<1>2. ASSUME NEW i \in DOMAIN stack, NEW j \in DOMAIN stack, NEW f \in {"a", "b"}, Store(i, f, j)
      PROVE  QueueInv'
  <2>1. stack[i] \in Obj /\ stack[j] \in Obj \cup {Null}
    BY <1>0, <1>2 DEF Store
  <2>2. TypeOK'
    BY <1>0, <1>2, <2>1 DEF Store, TypeOK
  <2>3. ListsOK' /\ FlagsOK'
    BY <1>2, KeepLists DEF Store, Running
  <2>4. FramesOK'
    BY <1>2, KeepFrames DEF Store, Running
  <2> QED
    BY <2>2, <2>3, <2>4 DEF QueueInv
<1>3. ASSUME NEW i \in DOMAIN stack, NEW f \in {"a", "b"}, Load(i, f) PROVE QueueInv'
  <2>1. ref[stack[i]][f] \in Obj \cup {Null}
    BY <1>0, <1>3 DEF Load, TypeOK
  <2>2. stack' \in Seq(Obj \cup {Null}) /\ DOMAIN stack \subseteq DOMAIN stack'
    <3>1. PICK S, v : S = Obj \cup {Null} /\ v = ref[stack[i]][f]
      OBVIOUS
    <3>2. stack \in Seq(S) /\ v \in S /\ stack' = Append(stack, v)
      BY <1>0, <1>3, <2>1, <3>1 DEF Load
    <3> QED
      BY <3>1, <3>2
  <2>3. TypeOK'
    BY <1>0, <1>3, <2>2 DEF Load, TypeOK
  <2>4. ListsOK' /\ FlagsOK'
    BY <1>3, KeepLists DEF Load, Running
  <2>5. FramesOK'
    BY <1>3, <2>2, KeepFrames DEF Load, Running
  <2> QED
    BY <2>3, <2>4, <2>5 DEF QueueInv
<1>4. ASSUME NEW i \in DOMAIN stack, NEW j \in DOMAIN stack, Copy(i, j) PROVE QueueInv'
  <2>1. stack' \in Seq(Obj \cup {Null}) /\ DOMAIN stack' = DOMAIN stack
    BY <1>0, <1>4 DEF Copy
  <2>2. TypeOK'
    BY <1>0, <1>4, <2>1 DEF Copy, TypeOK
  <2>3. ListsOK' /\ FlagsOK'
    BY <1>4, KeepLists DEF Copy, Running
  <2>4. FramesOK'
    BY <1>4, <2>1, KeepFrames DEF Copy, Running
  <2> QED
    BY <2>2, <2>3, <2>4 DEF QueueInv
<1>5. CASE Pop
  <2>1. Len(stack) - 1 \in 0..Len(stack)
    BY <1>0, <1>5 DEF Pop
  <2>2. stack' \in Seq(Obj \cup {Null}) /\ DOMAIN stack' = 1..Len(stack)-1
    BY <1>0, <1>5, <2>1, PrefixOK DEF Pop
  <2>3. TypeOK'
    BY <1>0, <1>5, <2>2 DEF Pop, TypeOK
  <2>4. ListsOK' /\ FlagsOK'
    BY <1>5, KeepLists DEF Pop, Running
  <2>5. FramesOK'
    <3>1. ASSUME NEW k \in DOMAIN frames PROVE frames[k] \in DOMAIN stack'
      <4>1. frames[k] \in 1..Len(stack) /\ frames[k] <= Floor
        BY <3>1, UnderFloor
      <4> QED
        BY <1>0, <1>5, <2>2, <4>1 DEF Pop
    <3> QED
      BY <1>0, <1>5, <3>1 DEF Pop, Running, FramesOK, Increasing
  <2> QED
    BY <2>3, <2>4, <2>5 DEF QueueInv
<1>6. ASSUME NEW h \in 0..Len(stack), Throw(h) PROVE QueueInv'
  <2>1. phase = "run" /\ closing' = closing /\ UNCHANGED <<kind, ref, gcm, black, fin, gray, rootud, mmudata, nfin>>
    BY <1>6 DEF Throw
  <2>2. CASE closing /\ h = 0
    <3>1. EnterFinalize(<<>>, <<>>, mmudata)
      BY <1>6, <2>2 DEF Throw
    <3>2. <<>> \in Seq(Obj \cup {Null}) /\ <<>> \in Seq(Nat) /\ Increasing(<<>>) /\ DOMAIN <<>> = {}
      BY DEF Increasing
    <3>3. /\ stack' \in Seq(Obj \cup {Null}) /\ frames' \in Seq(Nat) /\ phase' \in Phases
          /\ FramesOK' /\ phase' \in {"run", "finalize"}
      <4>1. \A k \in DOMAIN <<>> : <<>>[k] \in 1..Len(<<>>)
        BY <3>2
      <4> QED
        BY <3>1, <3>2, <4>1, EnterOK
    <3>4. TypeOK'
      BY <1>0, <2>1, <3>3 DEF TypeOK
    <3>5. ListsOK' /\ FlagsOK'
      BY <2>1, <3>3, KeepLists
    <3> QED
      BY <3>3, <3>4, <3>5 DEF QueueInv
  <2>3. CASE ~(closing /\ h = 0)
    <3>1. stack' = SubSeq(stack, 1, h) /\ frames' = Only(frames, 1..h) /\ phase' = phase
      BY <1>6, <2>3 DEF Throw
    <3>2. stack' \in Seq(Obj \cup {Null}) /\ DOMAIN stack' = 1..h
      BY <1>0, <3>1, PrefixOK
    <3>3. frames' \in Seq(Nat) /\ Range(frames') \subseteq 1..h /\ Increasing(frames')
      <4>1. frames' \in Seq(Nat) /\ Filtered(frames, 1..h, frames') /\ (Increasing(frames) => Increasing(frames'))
        BY <1>0, <3>1, OnlyOK
      <4> QED
        BY <1>0, <4>1 DEF Filtered, FramesOK
    <3>4. FramesOK'
      BY <2>1, <3>1, <3>2, <3>3 DEF FramesOK, Range, Increasing
    <3>5. TypeOK'
      BY <1>0, <2>1, <3>1, <3>2, <3>3 DEF TypeOK
    <3>6. ListsOK' /\ FlagsOK'
      BY <2>1, <3>1, KeepLists
    <3> QED
      BY <3>4, <3>5, <3>6 DEF QueueInv
  <2> QED
    BY <2>2, <2>3
<1> QED
  BY <1>1, <1>2, <1>3, <1>4, <1>5, <1>6 DEF Program

\* What gc_mark_mmudata leaves: what a queued userdata refers to is marked, flagged or
\* queued, and what becomes marked is left to trace.
QueueMarked(q, f) ==
    /\ black' \subseteq Obj /\ gray' \subseteq Obj
    /\ black \ Range(q) \subseteq black'
    /\ black' \ gray' \subseteq black
    /\ \A o \in Range(q) : Traced(o) \subseteq black' \cup f \cup Range(q)

\* gc_mark_mmudata does that.
LEMMA MarkQueueOK ==
    ASSUME QueueInv, NEW q \in Seq(Obj), NEW f, MarkQueue(q, f)
    PROVE  QueueMarked(q, f)
<1> DEFINE hits(i) == Traced(q[i]) \ f
           hit == UNION {hits(i) : i \in DOMAIN q}
           again == {o \in hit : \E j \in DOMAIN q : q[j] = o /\ \E i \in j..Len(q) : o \in hits(i)}
<1>1. black' = (black \cup hit) \ (Range(q) \ again) /\ gray' = (hit \ black) \cup again
  BY DEF MarkQueue
<1>2. hit \subseteq Obj /\ black \subseteq Obj
  <2>1. \A i \in DOMAIN q : q[i] \in Obj
    OBVIOUS
  <2>2. \A i \in DOMAIN q : hits(i) \subseteq Obj
    BY <2>1, QueueTypes
  <2> QED
    BY <2>2 DEF QueueInv, TypeOK
<1>3. again \subseteq hit
  OBVIOUS
<1>4. \A o \in Range(q) : Traced(o) \ f \subseteq hit
  BY DEF Range
<1> HIDE DEF hit, again, hits
<1> QED
  BY <1>1, <1>2, <1>3, <1>4 DEF QueueMarked

\* What the separation leaves marked.
LEMMA SeparateMarks == ASSUME QueueInv, Separate PROVE QueueMarked(mmudata', fin')
<1>1. PICK q, f : q = mmudata' /\ f = fin'
  OBVIOUS
<1>2. Separated
  BY SeparateLists DEF Separate
<1>3. q \in Seq(Obj) /\ MarkQueue(q, f)
  BY <1>1, <1>2 DEF Separate, Separated
<1>4. QueueMarked(q, f)
  BY <1>3, MarkQueueOK
<1> QED
  BY <1>1, <1>4

\* Marking.
LEMMA QueueMark ==
    ASSUME QueueInv, MarkRoots \/ \E o \in Obj : Trace(o)
    PROVE  QueueInv'
<1> USE DEF heap, marks, lists, calls
<1>0. TypeOK /\ FramesOK
  BY DEF QueueInv
<1>1. CASE MarkRoots
  <2>1. /\ phase = "run" /\ phase' = "trace" /\ UNCHANGED <<heap, fin, lists, calls, closing, nfin>>
        /\ black' = black \cup Markable(Range(stack)) /\ gray' = Markable(Range(stack))
    BY <1>1 DEF MarkRoots, Running
  <2>2. Markable(Range(stack)) \subseteq Obj
    BY QueueTypes DEF Markable
  <2>3. TypeOK'
    BY <1>0, <2>1, <2>2 DEF TypeOK, Phases
  <2>4. ListsOK' /\ FlagsOK'
    BY <2>1, KeepLists
  <2>5. FramesOK'
    BY <2>1, KeepFrames
  <2> QED
    BY <2>3, <2>4, <2>5 DEF QueueInv
<1>2. ASSUME NEW o \in Obj, Trace(o) PROVE QueueInv'
  <2>1. /\ phase \in {"trace", "trace2"} /\ UNCHANGED <<heap, fin, lists, calls, phase, closing, nfin>>
        /\ black' = black \cup Markable(Traced(o)) /\ gray' = (gray \ {o}) \cup Markable(Traced(o))
    BY <1>2 DEF Trace
  <2>2. Markable(Traced(o)) \subseteq Obj
    BY QueueTypes DEF Markable
  <2>3. TypeOK'
    BY <1>0, <2>1, <2>2 DEF TypeOK, Phases
  <2>4. ListsOK' /\ FlagsOK'
    BY <2>1, KeepLists
  <2>5. FramesOK'
    BY <2>1, KeepFrames
  <2> QED
    BY <2>3, <2>4, <2>5 DEF QueueInv
<1> QED
  BY <1>1, <1>2

\* Separating the unmarked userdata keeps the lists and the flags as they must be.
LEMMA QueueSeparates ==
    ASSUME QueueInv, SeparateUdata, UNCHANGED <<kind, gcm, nfin>>,
           phase' = "trace2" => Range(rootud') \subseteq black' \cup fin',
           phase' \notin {"trace", "trace2"} => phase = "run" /\ black' = black
    PROVE  ListsOK' /\ FlagsOK'
<1>0. ListsOK /\ FlagsOK
  BY DEF QueueInv
<1>1. Separated
  BY SeparateLists
<1>2. ListsOK'
  BY <1>0, <1>1 DEF Separated, ListsOK, Live
<1>3. FlagsOK'
  <2>1. \A o \in Obj : gcm'[o] => kind'[o] = "udata"
    BY <1>0 DEF FlagsOK
  <2>2. ASSUME NEW o \in Range(rootud'), gcm'[o], o \in fin' PROVE nfin'[o] >= 1
    <3>1. o \in Range(rootud) /\ gcm[o]
      BY <1>1, <2>2 DEF Separated
    <3>2. o \in fin
      BY <1>1, <2>2, <3>1 DEF Separated
    <3> QED
      BY <1>0, <3>1, <3>2 DEF FlagsOK
  <2>3. phase' \notin {"trace", "trace2"} => Range(rootud') \cap black' = {}
    BY <1>0, <1>1 DEF Separated, FlagsOK
  <2> QED
    BY <2>1, <2>2, <2>3 DEF FlagsOK
<1> QED
  BY <1>2, <1>3

\* The separation.
LEMMA QueueSeparate == ASSUME QueueInv, Separate PROVE QueueInv'
<1> USE DEF heap, marks, lists, calls
<1>0. TypeOK /\ FramesOK
  BY DEF QueueInv
<1>1. /\ phase = "trace" /\ phase' = "trace2" /\ SeparateUdata /\ MarkQueue(mmudata', fin')
      /\ UNCHANGED <<heap, calls, closing, nfin>>
  BY DEF Separate
<1>2. Separated
  BY <1>1, SeparateLists
<1>3. QueueMarked(mmudata', fin')
  BY SeparateMarks
<1>4. TypeOK'
  BY <1>0, <1>1, <1>2, <1>3 DEF Separated, QueueMarked, TypeOK, Phases
<1>5. Range(rootud') \subseteq black' \cup fin'
  BY <1>2, <1>3 DEF Separated, QueueMarked
<1>6. ListsOK' /\ FlagsOK'
  BY <1>1, <1>5, QueueSeparates
<1>7. FramesOK'
  BY <1>1, KeepFrames
<1> QED
  BY <1>4, <1>6, <1>7 DEF QueueInv

\* No userdata dies in a sweep.
LEMMA SweepSpares ==
    ASSUME QueueInv, Sweep
    PROVE  /\ Range(rootud) \cap Dead = {} /\ Range(mmudata) \cap Dead = {}
           /\ rootud' = rootud /\ \A o \in Dead : kind[o] # "udata"
<1>1. ListsOK /\ FlagsOK /\ phase = "trace2"
  BY DEF QueueInv, Sweep
<1>2. Range(rootud) \cap Dead = {} /\ Range(mmudata) \cap Dead = {}
  BY <1>1 DEF FlagsOK, Dead, Swept
<1>3. \A o \in Dead : kind[o] # "udata"
  BY <1>1, <1>2 DEF ListsOK, Dead, Swept
<1>4. rootud' = rootud
  <2>1. PICK A : A = Range(rootud) \ Dead
    OBVIOUS
  <2>2. rootud \in Seq(Obj) /\ rootud' = Only(rootud, A) /\ Range(rootud) \subseteq A
    BY <1>2, <2>1, QueueTypes DEF Sweep
  <2>3. Filtered(rootud, A, Only(rootud, A))
    BY <2>2, OnlyOK
  <2> QED
    BY <2>2, <2>3 DEF Filtered
<1> QED
  BY <1>2, <1>3, <1>4

\* The sweep.
LEMMA QueueSweep == ASSUME QueueInv, Sweep PROVE QueueInv'
<1>0. TypeOK /\ ListsOK /\ FramesOK /\ FlagsOK /\ phase = "trace2"
  BY DEF QueueInv, Sweep
<1>1. /\ Range(rootud) \cap Dead = {} /\ Range(mmudata) \cap Dead = {}
      /\ rootud' = rootud /\ \A o \in Dead : kind[o] # "udata"
  BY SweepSpares
<1>2. /\ kind' = [o \in Obj |-> IF o \in Dead THEN "free" ELSE kind[o]]
      /\ ref' = [o \in Obj |-> IF o \in Dead THEN NoRefs ELSE ref[o]]
      /\ gcm' = [o \in Obj |-> gcm[o] /\ o \notin Dead]
      /\ nfin' = [o \in Obj |-> IF o \in Dead THEN 0 ELSE nfin[o]]
      /\ black' = black \ Swept /\ fin' = fin \ Swept /\ closing' = closing
      /\ EnterFinalize(stack, frames, mmudata) /\ gray' = gray /\ mmudata' = mmudata
  BY DEF Sweep
<1>3. /\ stack' \in Seq(Obj \cup {Null}) /\ frames' \in Seq(Nat) /\ phase' \in Phases
      /\ FramesOK' /\ phase' \in {"run", "finalize"}
  <2>1. PICK s, fr, q : s = stack /\ fr = frames /\ q = mmudata
    OBVIOUS
  <2>2. /\ s \in Seq(Obj \cup {Null}) /\ fr \in Seq(Nat) /\ Increasing(fr)
        /\ \A k \in DOMAIN fr : fr[k] \in 1..Len(s)
    BY <1>0, <2>1, QueueTypes DEF FramesOK
  <2>3. EnterFinalize(s, fr, q)
    BY <1>2, <2>1
  <2> QED
    BY <2>2, <2>3, EnterOK
<1>4. TypeOK'
  <2>1. /\ kind' \in [Obj -> Kinds \cup {"free"}] /\ gcm' \in [Obj -> BOOLEAN] /\ nfin' \in [Obj -> 0..2]
    BY <1>0, <1>2 DEF TypeOK
  <2>2. ref' \in [Obj -> [a : Obj \cup {Null}, b : Obj \cup {Null}]]
    BY <1>0, <1>2 DEF TypeOK, NoRefs
  <2> QED
    BY <1>0, <1>1, <1>2, <1>3, <2>1, <2>2 DEF TypeOK
<1>5. ListsOK'
  <2>1. {o \in Live' : kind'[o] = "udata"} = {o \in Live : kind[o] = "udata"}
    BY <1>1, <1>2 DEF Live
  <2> QED
    BY <1>0, <1>1, <1>2, <2>1 DEF ListsOK
<1>6. FlagsOK'
  <2>1. \A o \in Obj : gcm'[o] => kind'[o] = "udata"
    BY <1>0, <1>2 DEF FlagsOK
  <2>2. Range(rootud) \subseteq Obj
    BY QueueTypes
  <2>3. \A o \in Range(rootud') : gcm'[o] /\ o \in fin' => nfin'[o] >= 1
    BY <1>0, <1>1, <1>2, <2>2 DEF FlagsOK
  <2>4. Range(rootud') \cap black' = {}
    BY <1>0, <1>1, <1>2 DEF ListsOK, Swept
  <2> QED
    BY <1>3, <2>1, <2>3, <2>4 DEF FlagsOK
<1> QED
  BY <1>3, <1>4, <1>5, <1>6 DEF QueueInv

\* A turn of the loop of tea_gc_finalize_udata.
LEMMA QueueFinalizeNext == ASSUME QueueInv, FinalizeNext PROVE QueueInv'
<1> USE DEF FinalizeNext, Relink, heap
<1>0. /\ TypeOK /\ ListsOK /\ FramesOK /\ FlagsOK /\ phase = "finalize" /\ phase' = "run"
      /\ mmudata \in Seq(Obj) /\ mmudata # <<>> /\ rootud \in Seq(Obj)
      /\ UNCHANGED <<kind, ref, gcm, gray, frames, closing>>
  BY QueueTypes DEF QueueInv
<1>1. PICK ud, q, r : ud = Head(mmudata) /\ q = Tail(mmudata) /\ r = rootud
  OBVIOUS
<1>2. /\ ud \in Obj /\ q \in Seq(Obj) /\ Injective(q) /\ ud \notin Range(q)
      /\ Range(mmudata) = Range(q) \cup {ud} /\ r \in Seq(Obj)
  <2>1. PICK m : m = mmudata
    OBVIOUS
  <2>2. m \in Seq(Obj) /\ m # <<>> /\ Injective(m)
    BY <1>0, <2>1 DEF ListsOK
  <2> QED
    BY <1>0, <1>1, <2>1, <2>2, QueueHead
<1>3. /\ mmudata' = q /\ rootud' = <<ud>> \o r
      /\ stack' = Append([stack EXCEPT ![Floor] = ud], ud)
      /\ black' = black \ {ud} /\ fin' = fin \cup {ud}
      /\ nfin' = [nfin EXCEPT ![ud] = IF @ < 2 THEN @ + 1 ELSE 2]
  BY <1>1
<1>4. rootud' \in Seq(Obj) /\ Injective(rootud') /\ Range(rootud') = Range(rootud) \cup {ud}
  <2>1. PICK one : one = <<ud>>
    OBVIOUS
  <2>2. one \in Seq(Obj) /\ Range(one) = {ud} /\ Injective(one)
    BY <1>2, <2>1 DEF Range, Injective
  <2>3. Injective(r) /\ Range(one) \cap Range(r) = {}
    BY <1>0, <1>1, <1>2, <2>2 DEF ListsOK
  <2>4. one \o r \in Seq(Obj) /\ Range(one \o r) = Range(one) \cup Range(r) /\ Injective(one \o r)
    BY <1>2, <2>2, <2>3, ConcatInjective
  <2> QED
    BY <1>1, <1>3, <2>1, <2>2, <2>4
<1>5. stack' \in Seq(Obj \cup {Null}) /\ DOMAIN stack \subseteq DOMAIN stack'
  <2>1. PICK s, n, S : s = stack /\ n = Floor /\ S = Obj \cup {Null}
    OBVIOUS
  <2>2. PICK t : t = [s EXCEPT ![n] = ud]
    OBVIOUS
  <2>3. s \in Seq(S) /\ ud \in S
    BY <1>2, <2>1, QueueTypes
  <2>4. t \in Seq(S) /\ DOMAIN t = DOMAIN s
    <3>1. PICK m \in Nat : s \in [1..m -> S]
      BY <2>3
    <3>2. t \in [1..m -> S]
      BY <2>2, <2>3, <3>1
    <3>3. t \in Seq(S)
      BY ONLY m \in Nat, <3>2
    <3> QED
      BY <3>1, <3>2, <3>3
  <2>5. Append(t, ud) \in Seq(S) /\ DOMAIN t \subseteq DOMAIN Append(t, ud)
    BY <2>3, <2>4
  <2> QED
    BY <1>3, <2>1, <2>2, <2>4, <2>5
<1>6. nfin' \in [Obj -> 0..2] /\ nfin'[ud] >= 1 /\ \A o \in Obj \ {ud} : nfin'[o] = nfin[o]
  <2>1. PICK n : n = nfin
    OBVIOUS
  <2>2. n \in [Obj -> 0..2] /\ n[ud] \in 0..2
    BY <1>0, <1>2, <2>1 DEF TypeOK
  <2>3. PICK c : c = IF n[ud] < 2 THEN n[ud] + 1 ELSE 2
    OBVIOUS
  <2>4. c \in 0..2 /\ c >= 1
    BY <2>2, <2>3
  <2>5. nfin' = [n EXCEPT ![ud] = c]
    BY <1>3, <2>1, <2>3
  <2>6. nfin' \in [Obj -> 0..2] /\ nfin'[ud] = c /\ \A o \in Obj \ {ud} : nfin'[o] = n[o]
    BY <1>2, <2>2, <2>4, <2>5
  <2> QED
    BY <2>1, <2>4, <2>6
<1>7. TypeOK'
  BY <1>0, <1>2, <1>3, <1>4, <1>5, <1>6 DEF TypeOK, Phases
<1>8. ListsOK'
  <2>1. Range(mmudata') = Range(q) /\ Injective(mmudata')
    BY <1>2, <1>3
  <2>2. {o \in Live' : kind'[o] = "udata"} = {o \in Live : kind[o] = "udata"}
    BY <1>0 DEF Live
  <2> QED
    BY <1>0, <1>2, <1>4, <2>1, <2>2 DEF ListsOK
<1>9. FramesOK'
  BY <1>0, <1>5, KeepFrames
<1>10. FlagsOK'
  <2>1. \A o \in Range(rootud') : gcm'[o] /\ o \in fin' => nfin'[o] >= 1
    <3>1. Range(rootud) \subseteq Obj
      BY QueueTypes
    <3> QED
      BY <1>0, <1>3, <1>4, <1>6, <3>1 DEF FlagsOK
  <2>2. Range(rootud') \cap black' = {}
    BY <1>0, <1>3, <1>4 DEF FlagsOK
  <2> QED
    BY <1>0, <2>1, <2>2 DEF FlagsOK
<1> QED
  BY <1>7, <1>8, <1>9, <1>10 DEF QueueInv

\* A gc method returns.
LEMMA QueueReturn == ASSUME QueueInv, FinalizerReturn PROVE QueueInv'
<1> USE DEF heap, marks, lists
<1>0. /\ TypeOK /\ FramesOK /\ phase = "run" /\ phase' = "finalize" /\ frames # <<>>
      /\ UNCHANGED <<heap, marks, lists, frames, closing, nfin>> /\ stack' = SubSeq(stack, 1, Floor)
      /\ frames \in Seq(Nat)
  BY QueueTypes DEF QueueInv, FinalizerReturn, InFinalizer
<1>1. stack' \in Seq(Obj \cup {Null}) /\ Len(stack') = Floor /\ DOMAIN stack' = 1..Floor
  <2>1. PICK s, n, S : s = stack /\ n = Floor /\ S = Obj \cup {Null}
    OBVIOUS
  <2>2. s \in Seq(S) /\ n \in 0..Len(s)
    BY <2>1, QueueTypes
  <2>3. SubSeq(s, 1, n) \in Seq(S) /\ Len(SubSeq(s, 1, n)) = n /\ DOMAIN SubSeq(s, 1, n) = 1..n
    BY <2>2
  <2> QED
    BY <1>0, <2>1, <2>3
<1>2. TypeOK'
  BY <1>0, <1>1 DEF TypeOK, Phases
<1>3. ListsOK' /\ FlagsOK'
  BY <1>0, KeepLists
<1>4. FramesOK'
  <2>1. ASSUME NEW k \in DOMAIN frames PROVE frames[k] \in DOMAIN stack'
    <3>1. frames[k] <= Floor /\ frames[k] \in 1..Len(stack)
      BY <2>1, UnderFloor, QueueTypes
    <3> QED
      BY <1>1, <3>1, QueueTypes
  <2>2. Floor' = Floor
    BY <1>0 DEF Floor, InFinalizer
  <2> QED
    BY <1>0, <1>1, <2>1, <2>2 DEF FramesOK, Increasing
<1> QED
  BY <1>2, <1>3, <1>4 DEF QueueInv

\* The loop of tea_gc_finalize_udata ends.
LEMMA QueueDone == ASSUME QueueInv, FinalizeDone PROVE QueueInv'
<1> USE DEF heap, marks, lists
<1>0. /\ TypeOK /\ FramesOK /\ phase = "finalize" /\ phase' \in {"freeall", "run"} /\ frames # <<>>
      /\ UNCHANGED <<heap, marks, lists, closing, nfin>> /\ mmudata = <<>>
      /\ stack' = SubSeq(stack, 1, Floor - 1) /\ frames' = SubSeq(frames, 1, Len(frames) - 1)
      /\ frames \in Seq(Nat) /\ Len(frames) \in Nat
  BY QueueTypes DEF QueueInv, FramesOK, FinalizeDone
<1>1. Len(frames) # 0 /\ Len(frames) \in DOMAIN frames
  BY <1>0
<1>2. Floor \in DOMAIN stack /\ Floor \in 1..Len(stack)
  BY <1>0, <1>1, QueueTypes DEF FramesOK, Floor, InFinalizer
<1>3. stack' \in Seq(Obj \cup {Null}) /\ DOMAIN stack' = 1..Floor-1
  <2>1. PICK s, n, S : s = stack /\ n = Floor - 1 /\ S = Obj \cup {Null}
    OBVIOUS
  <2>2. s \in Seq(S) /\ n \in 0..Len(s)
    BY <1>2, <2>1, QueueTypes
  <2>3. SubSeq(s, 1, n) \in Seq(S) /\ DOMAIN SubSeq(s, 1, n) = 1..n
    BY <2>2
  <2> QED
    BY <1>0, <2>1, <2>3
<1>4. /\ frames' \in Seq(Nat) /\ DOMAIN frames' = 1..Len(frames)-1 /\ Increasing(frames')
      /\ \A k \in 1..Len(frames)-1 : frames'[k] = frames[k]
  <2>1. PICK fr, n : fr = frames /\ n = Len(frames) - 1
    OBVIOUS
  <2>2. fr \in Seq(Nat) /\ Increasing(fr) /\ n \in 0..Len(fr)
    BY <1>0, <1>1, <2>1 DEF FramesOK
  <2> QED
    BY <1>0, <2>1, <2>2, FramesPrefix
<1>5. TypeOK'
  BY <1>0, <1>3, <1>4 DEF TypeOK, Phases
<1>6. ListsOK' /\ FlagsOK'
  BY <1>0, KeepLists
<1>7. FramesOK'
  <2>1. ASSUME NEW k \in DOMAIN frames' PROVE frames'[k] \in DOMAIN stack'
    <3>1. k \in DOMAIN frames /\ k < Len(frames) /\ frames'[k] = frames[k]
      BY <1>0, <1>4, <2>1
    <3>2. frames[k] < Floor /\ frames[k] \in 1..Len(stack)
      BY <3>1, UnderFloor, QueueTypes
    <3> QED
      BY <1>2, <1>3, <3>1, <3>2, QueueTypes
  <2> QED
    BY <1>0, <1>4, <2>1 DEF FramesOK, Increasing
<1> QED
  BY <1>5, <1>6, <1>7 DEF QueueInv

\* tea_close queues the rest, and frees everything when the queue is done.
LEMMA QueueClose == ASSUME QueueInv, Close \/ FreeAll PROVE QueueInv'
<1>0. TypeOK /\ ListsOK /\ FramesOK /\ FlagsOK
  BY DEF QueueInv
<1>1. CASE Close
  <2>1. /\ phase = "run" /\ closing' = TRUE /\ SeparateUdata /\ EnterFinalize(<<>>, <<>>, mmudata')
        /\ UNCHANGED <<kind, ref, gcm, black, gray, nfin>>
    BY <1>1 DEF Close, heap
  <2>2. /\ stack' \in Seq(Obj \cup {Null}) /\ frames' \in Seq(Nat) /\ phase' \in Phases
        /\ FramesOK' /\ phase' \in {"run", "finalize"}
    <3>1. PICK s, q : s = <<>> /\ q = mmudata'
      OBVIOUS
    <3>2. /\ s \in Seq(Obj \cup {Null}) /\ s \in Seq(Nat) /\ Increasing(s)
          /\ \A k \in DOMAIN s : s[k] \in 1..Len(s)
      BY <3>1 DEF Increasing
    <3>3. EnterFinalize(s, s, q)
      BY <2>1, <3>1
    <3> QED
      BY <3>2, <3>3, EnterOK
  <2>3. Separated
    BY <2>1, SeparateLists
  <2>4. TypeOK'
    BY <1>0, <2>1, <2>2, <2>3 DEF Separated, TypeOK
  <2>5. ListsOK' /\ FlagsOK'
    BY <2>1, <2>2, QueueSeparates
  <2> QED
    BY <2>2, <2>4, <2>5 DEF QueueInv
<1>2. CASE FreeAll
  <2>1. /\ phase = "freeall" /\ phase' = "closed" /\ mmudata = <<>>
        /\ kind' = [o \in Obj |-> "free"] /\ ref' = [o \in Obj |-> NoRefs]
        /\ gcm' = [o \in Obj |-> FALSE] /\ nfin' = [o \in Obj |-> 0]
        /\ black' = {} /\ fin' = {} /\ rootud' = <<>>
        /\ UNCHANGED <<gray, mmudata, stack, frames, closing>>
    BY <1>0, <1>2 DEF FreeAll, FramesOK, calls
  <2>2. DOMAIN rootud' = {} /\ Range(rootud') = {} /\ Range(mmudata') = {} /\ Injective(rootud')
    BY <2>1 DEF Range, Injective
  <2>3. TypeOK'
    <3>1. ref' \in [Obj -> [a : Obj \cup {Null}, b : Obj \cup {Null}]] /\ rootud' \in Seq(Obj)
      BY <2>1 DEF NoRefs
    <3>2. kind' \in [Obj -> Kinds \cup {"free"}] /\ gcm' \in [Obj -> BOOLEAN] /\ nfin' \in [Obj -> 0..2]
      BY <2>1
    <3> QED
      BY <1>0, <2>1, <3>1, <3>2 DEF TypeOK, Phases
  <2>4. ListsOK'
    <3>1. {o \in Live' : kind'[o] = "udata"} = {}
      BY <2>1 DEF Live
    <3> QED
      BY <1>0, <2>1, <2>2, <3>1 DEF ListsOK
  <2>5. FramesOK'
    BY <1>0, <2>1 DEF FramesOK, Increasing
  <2>6. FlagsOK'
    BY <2>1, <2>2 DEF FlagsOK
  <2> QED
    BY <2>3, <2>4, <2>5, <2>6 DEF QueueInv
<1> QED
  BY <1>1, <1>2

\* Every step keeps the invariant of the queue.
LEMMA QueueNext == ASSUME QueueInv, [Next]_vars PROVE QueueInv'
<1>1. CASE Program
  BY <1>1, QueueProgram
<1>2. CASE MarkRoots
  BY <1>2, QueueMark
<1>3. CASE Collector
  <2>1. ASSUME NEW o \in Obj, Trace(o) PROVE QueueInv'
    BY <2>1, QueueMark
  <2> QED
    BY <1>3, <2>1, QueueSeparate, QueueSweep, QueueFinalizeNext, QueueDone, QueueClose DEF Collector
<1>4. CASE FinalizerReturn
  BY <1>4, QueueReturn
<1>5. CASE Close
  BY <1>5, QueueClose
<1>6. CASE Closed \/ UNCHANGED vars
  <2> USE DEF vars
  <2>1. UNCHANGED vars
    BY <1>6 DEF Closed
  <2>2. TypeOK' /\ ListsOK'
    BY <2>1 DEF QueueInv, TypeOK, ListsOK, Live, Injective
  <2>3. Floor' = Floor
    BY <2>1 DEF Floor, InFinalizer
  <2>4. FramesOK' /\ FlagsOK'
    BY <2>1, <2>3 DEF QueueInv, FramesOK, FlagsOK, Increasing
  <2> QED
    BY <2>2, <2>4 DEF QueueInv
<1> QED
  BY <1>1, <1>2, <1>3, <1>4, <1>5, <1>6 DEF Next

\* The invariant of the queue holds always.
LEMMA QueueAlways == Spec => []QueueInv
<1>1. Init => QueueInv
  BY QueueInit
<1>2. QueueInv /\ [Next]_vars => QueueInv'
  BY QueueNext
<1> QED
  BY <1>1, <1>2, PTL DEF Spec

\* Where getters and setters are not defined together, no entry holds both.
LEMMA OneAccessorNext ==
    ASSUME HiddenSlots = {}, QueueInv, OneAccessor, [Next]_vars
    PROVE  OneAccessor'
<1> USE DEF heap
<1>0. TypeOK
  BY DEF QueueInv
<1>1. CASE UNCHANGED <<kind, ref>>
  BY <1>1 DEF OneAccessor
<1>2. ASSUME NEW o \in Obj, NEW k \in Kinds, NEW g \in GcMethods, New(o, k, g) PROVE OneAccessor'
  BY <1>0, <1>2 DEF New, OneAccessor, NoRefs, TypeOK
<1>3. ASSUME NEW i \in DOMAIN stack, NEW j \in DOMAIN stack, NEW f \in {"a", "b"}, Store(i, f, j)
      PROVE  OneAccessor'
  <2> DEFINE o == stack[i]
             v == stack[j]
  <2>1. o \in Obj
    BY <1>0, <1>3 DEF TypeOK, Store
  <2>2. /\ kind' = kind /\ ref' = [ref EXCEPT ![o][f] = v]
        /\ kind[o] = "class" => (f = "a" /\ ref[o].b = Null) \/ (f = "b" /\ ref[o].a = Null)
    BY <1>3 DEF Store, StoreOK
  <2> HIDE DEF o, v
  <2> QED
    BY <1>0, <2>1, <2>2 DEF OneAccessor, TypeOK
<1>4. CASE Sweep
  BY <1>0, <1>4 DEF Sweep, OneAccessor, NoRefs, TypeOK
<1>5. CASE FreeAll
  BY <1>5 DEF FreeAll, OneAccessor, NoRefs
<1>6. CASE Program
  BY <1>1, <1>2, <1>3, <1>6 DEF Program, Load, Copy, Pop, Throw
<1>7. CASE Collector
  BY <1>1, <1>4, <1>5, <1>7 DEF Collector, Trace, Separate, FinalizeNext, FinalizeDone
<1> QED
  BY <1>1, <1>6, <1>7 DEF Next, MarkRoots, FinalizerReturn, Close, Closed, vars

\* HiddenReached is no condition on programs that use none of the references the
\* collector overlooks: no user values, no functions whose module only they know, no
\* getter and setter of one name.
THEOREM NothingHidden == ASSUME HiddenSlots = {} PROVE Spec => []HiddenReached
<1>1. Init => OneAccessor
  BY DEF Init, OneAccessor
<1>2. QueueInv /\ OneAccessor /\ [Next]_vars => OneAccessor'
  BY OneAccessorNext
<1>3. QueueInv /\ OneAccessor => HiddenReached
  <2> SUFFICES ASSUME QueueInv, OneAccessor, NEW o \in Reached PROVE Children(o) \subseteq Reached
    BY DEF HiddenReached, ClosedSet
  <2>1. o \in Obj
    BY DEF Reached
  <2>2. Traced(o) = Children(o) /\ Children(o) \subseteq Obj
    BY <2>1, TracedIsChildren, QueueTypes
  <2>3. ASSUME NEW x \in Children(o), NEW G \in SUBSET Obj, Roots \subseteq G, TracedSet(G) PROVE x \in G
    BY <2>2, <2>3 DEF Reached, TracedSet
  <2> QED
    BY <2>2, <2>3 DEF Reached
<1> QED
  BY <1>1, <1>2, <1>3, QueueAlways, PTL DEF Spec

\* So for these programs tea_gc_collect frees nothing the program can reach.
THEOREM HeapSafetyNothingHidden ==
    ASSUME HiddenSlots = {}, GcMethods \subseteq {FALSE}
    PROVE  Spec => []HeapSafe
  BY HeapSafety, NothingHidden, PTL

\* The lists, as one.
LEMMA QueueListed == QueueInv => UdataListed
<1> SUFFICES ASSUME QueueInv PROVE UdataListed
  OBVIOUS
<1>1. PICK r, q : r = rootud /\ q = mmudata
  OBVIOUS
<1>2. r \in Seq(Obj) /\ q \in Seq(Obj) /\ Injective(r) /\ Injective(q) /\ Range(r) \cap Range(q) = {}
  BY <1>1, QueueTypes DEF QueueInv, ListsOK
<1>3. Injective(r \o q) /\ Range(r \o q) = Range(r) \cup Range(q)
  BY <1>2, ConcatInjective
<1>4. Range(r) \cup Range(q) = {o \in Live : kind[o] = "udata"}
  BY <1>1 DEF QueueInv, ListsOK
<1> QED
  BY <1>1, <1>3, <1>4 DEF UdataListed, Injective

\* The variables of the collector keep their types: in particular the stack, the
\* lists and the gray stack hold addresses only.
THEOREM TypeCorrect == Spec => []TypeOK
<1>1. QueueInv => TypeOK
  BY DEF QueueInv
<1> QED
  BY <1>1, QueueAlways, PTL

\* Whatever the gc methods do, and whenever they raise, every live userdata is in
\* rootud or in mmudata, and once: none is lost, and none is freed twice.
THEOREM UdataAlwaysListed == Spec => []UdataListed
  BY QueueListed, QueueAlways, PTL

\* No userdata that has a gc method is freed before the method was called, and none
\* while it is queued.
THEOREM FinalizersRunFirst == Spec => FinalizedBeforeFreed
<1> DEFINE Finalized ==
        /\ \A o \in Obj : Finalizable(o) /\ kind'[o] = "free" =>
              o \notin Range(mmudata) /\ (nfin[o] >= 1 \/ phase = "freeall")
        /\ \A o \in Obj : Finalizable(o) /\ ~closing /\ closing' =>
              nfin[o] >= 1 \/ o \in Range(mmudata')
        /\ \A o \in Range(mmudata) \ Range(mmudata') : nfin'[o] >= 1
<1>1. ASSUME QueueInv, [Next]_vars PROVE Finalized \/ UNCHANGED vars
  <2> USE DEF heap, marks, lists, calls
  <2>0. TypeOK /\ ListsOK /\ FramesOK /\ FlagsOK
    BY <1>1 DEF QueueInv
  <2>1. ASSUME \A o \in Obj : kind[o] = "udata" => kind'[o] = kind[o], closing' = closing, mmudata' = mmudata
        PROVE  Finalized
    BY <2>1 DEF Finalizable
  <2>2. CASE Program
    <3>1. ASSUME NEW o \in Obj, NEW k \in Kinds, NEW g \in GcMethods, New(o, k, g) PROVE Finalized
      BY <2>0, <2>1, <3>1 DEF New, TypeOK
    <3>2. ASSUME NEW i \in DOMAIN stack, NEW j \in DOMAIN stack, NEW f \in {"a", "b"},
                 Store(i, f, j) \/ Load(i, f) \/ Copy(i, j)
          PROVE  Finalized
      BY <2>1, <3>2 DEF Store, Load, Copy
    <3>3. CASE Pop
      BY <2>1, <3>3 DEF Pop
    <3>4. ASSUME NEW h \in 0..Len(stack), Throw(h) PROVE Finalized
      BY <2>1, <3>4 DEF Throw
    <3>5. ASSUME NEW i \in DOMAIN stack, NEW f \in {"a", "b"}, Load(i, f) PROVE Finalized
      BY <2>1, <3>5 DEF Load
    <3>6. ASSUME NEW i \in DOMAIN stack, NEW j \in DOMAIN stack, Copy(i, j) PROVE Finalized
      BY <2>1, <3>6 DEF Copy
    <3> QED
      BY <2>2, <3>1, <3>2, <3>3, <3>4, <3>5, <3>6 DEF Program
  <2>3. CASE MarkRoots \/ FinalizerReturn \/ FinalizeDone
    BY <2>1, <2>3 DEF MarkRoots, FinalizerReturn, FinalizeDone
  <2>4. ASSUME NEW o \in Obj, Trace(o) PROVE Finalized
    BY <2>1, <2>4 DEF Trace
  <2>5. CASE Separate
    <3>1. Separated /\ closing' = closing /\ kind' = kind
      BY <1>1, <2>5, SeparateLists DEF Separate
    <3>2. \A o \in Obj : Finalizable(o) => kind'[o] # "free"
      BY <3>1 DEF Finalizable
    <3> QED
      BY <3>1, <3>2 DEF Separated
  <2>6. CASE Sweep
    <3>1. \A o \in Dead : kind[o] # "udata"
      BY <1>1, <2>6, SweepSpares
    <3>2. \A o \in Obj : kind[o] = "udata" => kind'[o] = kind[o]
      BY <2>6, <3>1 DEF Sweep
    <3> QED
      BY <2>1, <2>6, <3>2 DEF Sweep
  <2>7. CASE FinalizeNext
    <3>1. PICK ud : ud = Head(mmudata)
      OBVIOUS
    <3>2. Range(mmudata) = Range(mmudata') \cup {ud} /\ ud \in Obj
      <4>1. mmudata \in Seq(Obj) /\ mmudata # <<>> /\ Injective(mmudata) /\ mmudata' = Tail(mmudata)
        BY <1>1, <2>0, <2>7, QueueTypes DEF FinalizeNext, Relink, ListsOK
      <4> QED
        BY <3>1, <4>1, QueueHead
    <3>3. nfin'[ud] >= 1
      <4>1. nfin \in [Obj -> 0..2] /\ nfin' = [nfin EXCEPT ![ud] = IF @ < 2 THEN @ + 1 ELSE 2]
        BY <2>0, <2>7, <3>1 DEF FinalizeNext, TypeOK
      <4> QED
        BY <3>2, <4>1
    <3>4. kind' = kind /\ closing' = closing
      BY <2>7 DEF FinalizeNext
    <3>5. \A o \in Obj : Finalizable(o) => kind'[o] # "free"
      BY <3>4 DEF Finalizable
    <3> QED
      BY <3>2, <3>3, <3>4, <3>5
  <2>8. CASE Close
    <3>1. Separated /\ kind' = kind /\ phase = "run"
      BY <1>1, <2>8, SeparateLists DEF Close
    <3>2. \A o \in Obj : Finalizable(o) => kind'[o] # "free"
      BY <3>1 DEF Finalizable
    <3>3. ASSUME NEW o \in Obj, Finalizable(o) PROVE nfin[o] >= 1 \/ o \in Range(mmudata')
      <4>1. o \in Range(rootud) \cup Range(mmudata) /\ gcm[o]
        BY <2>0, <3>3 DEF ListsOK, Finalizable, Live
      <4>2. CASE o \in Range(mmudata)
        BY <3>1, <4>2 DEF Separated
      <4>3. CASE o \in Range(rootud) /\ o \in fin
        BY <2>0, <4>1, <4>3 DEF FlagsOK
      <4>4. CASE o \in Range(rootud) /\ o \notin fin
        <5>1. o \notin black
          BY <2>0, <3>1, <4>4 DEF FlagsOK
        <5> QED
          BY <3>1, <4>1, <4>4, <5>1 DEF Separated
      <4> QED
        BY <4>1, <4>2, <4>3, <4>4
    <3>4. Range(mmudata) \subseteq Range(mmudata')
      BY <3>1 DEF Separated
    <3> QED
      BY <3>2, <3>3, <3>4
  <2>9. CASE FreeAll
    <3>1. phase = "freeall" /\ mmudata = <<>> /\ mmudata' = mmudata /\ closing' = closing
      BY <2>0, <2>9 DEF FreeAll, FramesOK
    <3>2. Range(mmudata) = {}
      BY <3>1 DEF Range
    <3> QED
      BY <3>1, <3>2
  <2>10. CASE Closed \/ UNCHANGED vars
    BY <2>10 DEF Closed
  <2>11. CASE Collector
    BY <2>3, <2>4, <2>5, <2>6, <2>7, <2>9, <2>11 DEF Collector
  <2> QED
    BY <1>1, <2>2, <2>3, <2>8, <2>10, <2>11 DEF Next
<1>2. QueueInv /\ [Next]_vars => [Finalized]_vars
  BY <1>1
<1> QED
  BY <1>2, QueueAlways, PTL DEF FinalizedBeforeFreed, Spec

-----------------------------------------------------------------------------
(* The roots, whatever has gc methods and whatever slots are hidden        *)

\* Once gc_mark_roots ran, every root is marked, flagged or queued.
RootsSeen == phase \in {"trace", "trace2"} => Roots \subseteq black \cup fin \cup Range(mmudata)

\* Every step keeps that.
LEMMA RootsNext == ASSUME QueueInv, RootsSeen, [Next]_vars PROVE RootsSeen'
<1> USE DEF heap, marks, lists, calls
<1>1. CASE MarkRoots
  BY <1>1 DEF MarkRoots, RootsSeen, Roots, Markable
<1>2. ASSUME NEW o \in Obj, Trace(o) PROVE RootsSeen'
  BY <1>2 DEF Trace, RootsSeen, Roots
<1>3. CASE Separate
  <2>1. Separated /\ QueueMarked(mmudata', fin')
    BY <1>3, SeparateLists, SeparateMarks DEF Separate
  <2> QED
    BY <1>3, <2>1 DEF Separate, RootsSeen, Roots, Separated, QueueMarked
<1>4. CASE UNCHANGED vars
  BY <1>4 DEF vars, RootsSeen, Roots
<1>5. CASE phase' \notin {"trace", "trace2"}
  BY <1>5 DEF RootsSeen
<1>6. ASSUME Program \/ Sweep \/ FinalizeNext \/ FinalizerReturn \/ FinalizeDone \/ Close \/ FreeAll
      PROVE  phase' \notin {"trace", "trace2"}
  BY <1>6 DEF Program, New, Store, Load, Copy, Pop, Throw, Running, Sweep, EnterFinalize,
              FinalizeNext, FinalizerReturn, FinalizeDone, Close, FreeAll
<1> QED
  BY <1>1, <1>2, <1>3, <1>4, <1>5, <1>6 DEF Next, Collector, Closed

\* A sweep frees nothing the program holds directly.
RootsKept == [][Sweep /\ Roots \subseteq Live => Roots' = Roots /\ Roots \subseteq Live']_vars

\* Whatever gc methods there are and whatever gc_blacken overlooks: an object on the
\* stack, among the globals or in another root survives every collection.  Only what
\* it refers to can be freed under it.
THEOREM RootsSurvive == Spec => RootsKept
<1>1. Init => RootsSeen
  BY DEF Init, RootsSeen
<1>2. QueueInv /\ RootsSeen /\ [Next]_vars => RootsSeen'
  BY RootsNext
<1>3. ASSUME QueueInv, RootsSeen, Sweep, Roots \subseteq Live PROVE Roots' = Roots /\ Roots \subseteq Live'
  <2>1. Range(stack') \subseteq Range(stack) \cup {Null} /\ Range(stack) \subseteq Range(stack')
    <3>1. PICK s, fr, q : s = stack /\ fr = frames /\ q = mmudata
      OBVIOUS
    <3>2. /\ s \in Seq(Obj \cup {Null}) /\ fr \in Seq(Nat) /\ Increasing(fr)
          /\ \A k \in DOMAIN fr : fr[k] \in 1..Len(s)
      BY <1>3, <3>1, QueueTypes DEF QueueInv, FramesOK
    <3>3. EnterFinalize(s, fr, q)
      BY <1>3, <3>1 DEF Sweep
    <3> QED
      BY <3>1, <3>2, <3>3, EnterOK
  <2>2. Roots \cap Dead = {}
    BY <1>3 DEF RootsSeen, Sweep, Dead, Swept
  <2> QED
    BY <1>3, <2>1, <2>2 DEF Roots, Live, Sweep
<1>4. QueueInv /\ RootsSeen /\ [Next]_vars
      => [Sweep /\ Roots \subseteq Live => Roots' = Roots /\ Roots \subseteq Live']_vars
  BY <1>3
<1> QED
  BY <1>1, <1>2, <1>4, QueueAlways, PTL DEF RootsKept, Spec

-----------------------------------------------------------------------------
(* What gc methods refer to                                                *)

\* Every userdata has a gc method, and no reference is used that the collector overlooks:
\* no user values, no functions whose module only they know, no getter and setter of one
\* name.
AllFinalized == HiddenSlots = {} /\ GcMethods \subseteq {TRUE}

\* The program has not been handed freed memory.
NoDangling == Roots \subseteq Live

\* What is in the heap: only finalized objects are flagged, freed ones refer to nothing.
HeapOK ==
    /\ \A o \in Obj : kind[o] = "udata" => gcm[o]
    /\ OneAccessor
    /\ \A o \in Obj \ Live : ref[o] = NoRefs
    /\ \A o \in fin : nfin[o] >= 1

\* What was not finalized refers to live objects only.
FreshWhole == \A o \in Live : nfin[o] = 0 => Children(o) \subseteq Live

Seen == black \cup fin \cup Range(mmudata)

\* What was visited refers to what the sweep will spare: before the separation the queue
\* is left out, after it the queue counts as visited.
VisitedOK ==
    /\ phase \notin {"trace", "trace2"} => black \subseteq Range(mmudata) \cup (Obj \ Live)
    /\ phase = "trace" => \A o \in black \ (gray \cup Range(mmudata)) : Children(o) \subseteq Seen
    /\ phase = "trace2" => \A o \in (black \cup Range(mmudata)) \ gray : Children(o) \subseteq Seen

WholeInv == QueueInv /\ HeapOK /\ FreshWhole /\ VisitedOK

\* The state at first.
LEMMA WholeInit == Init => WholeInv
<1> SUFFICES ASSUME Init PROVE WholeInv
  OBVIOUS
<1>1. QueueInv
  BY QueueInit
<1>2. HeapOK /\ FreshWhole /\ VisitedOK
  BY DEF Init, HeapOK, OneAccessor, FreshWhole, VisitedOK, Live, NoRefs
<1> QED
  BY <1>1, <1>2 DEF WholeInv

\* Steps that change neither the heap nor a mark.
LEMMA WholeKept ==
    ASSUME HeapOK, FreshWhole, VisitedOK, UNCHANGED <<heap, marks, lists, nfin>>,
           phase \in {"run", "finalize"}, phase' \in {"run", "finalize", "freeall"}
    PROVE  HeapOK' /\ FreshWhole' /\ VisitedOK'
<1> USE DEF heap, marks, lists
<1>1. Live' = Live /\ \A o : Children(o)' = Children(o)
  BY DEF Live, Children
<1>2. HeapOK'
  BY <1>1 DEF HeapOK, OneAccessor
<1>3. FreshWhole' /\ VisitedOK'
  BY <1>1 DEF FreshWhole, VisitedOK
<1> QED
  BY <1>2, <1>3

\* The steps of the program: a store puts what the program holds into what it holds.
LEMMA WholeProgram ==
    ASSUME AllFinalized, NoDangling, WholeInv, Program
    PROVE  HeapOK' /\ FreshWhole' /\ VisitedOK'
<1>0. TypeOK /\ HeapOK /\ FreshWhole /\ VisitedOK /\ ListsOK
  BY DEF WholeInv, QueueInv
<1>1. ASSUME NEW o \in Obj, NEW k \in Kinds, NEW g \in GcMethods, New(o, k, g)
      PROVE  HeapOK' /\ FreshWhole' /\ VisitedOK'
  <2>1. /\ phase = "run" /\ phase' = "run" /\ kind[o] = "free"
        /\ black' = black \ {o} /\ fin' = fin \ {o} /\ mmudata' = mmudata
        /\ kind' = [kind EXCEPT ![o] = k] /\ ref' = [ref EXCEPT ![o] = NoRefs]
        /\ gcm' = [gcm EXCEPT ![o] = k = "udata" /\ g] /\ nfin' = [nfin EXCEPT ![o] = 0]
    BY <1>1 DEF New, Running
  <2>2. /\ kind'[o] = k /\ ref'[o] = NoRefs /\ gcm'[o] = (k = "udata" /\ g) /\ nfin'[o] = 0
        /\ \A x \in Obj \ {o} : /\ kind'[x] = kind[x] /\ ref'[x] = ref[x]
                                /\ gcm'[x] = gcm[x] /\ nfin'[x] = nfin[x]
    BY <1>0, <2>1 DEF TypeOK
  <2>3. Live' = Live \cup {o}
    BY <2>1, <2>2, ConstantsOK DEF Live, AllKinds
  <2>4. Children(o)' = {} /\ \A x \in Obj \ {o} : Children(x)' = Children(x)
    BY <2>2 DEF Children, NoRefs
  <2>5. HeapOK'
    <3>1. \A x \in Obj : kind'[x] = "udata" => gcm'[x]
      <4>1. g = TRUE
        BY DEF AllFinalized
      <4> QED
        BY <1>0, <2>2, <4>1 DEF HeapOK
    <3>2. OneAccessor'
      BY <1>0, <2>2 DEF HeapOK, OneAccessor, NoRefs
    <3>3. \A x \in Obj \ Live' : ref'[x] = NoRefs
      BY <1>0, <2>2, <2>3 DEF HeapOK
    <3>4. \A x \in fin' : nfin'[x] >= 1
      BY <1>0, <2>1, <2>2 DEF HeapOK, TypeOK
    <3> QED
      BY <3>1, <3>2, <3>3, <3>4 DEF HeapOK
  <2>6. FreshWhole'
    <3>1. \A x \in Live : x \in Obj
      BY DEF Live
    <3> QED
      BY <1>0, <2>2, <2>3, <2>4, <3>1 DEF FreshWhole
  <2>7. VisitedOK'
    BY <1>0, <2>1, <2>3 DEF VisitedOK
  <2> QED
    BY <2>5, <2>6, <2>7
<1>2. ASSUME NEW i \in DOMAIN stack, NEW j \in DOMAIN stack, NEW f \in {"a", "b"}, Store(i, f, j)
      PROVE  HeapOK' /\ FreshWhole' /\ VisitedOK'
  <2>1. PICK o, v : o = stack[i] /\ v = stack[j]
    OBVIOUS
  <2>2. /\ phase = "run" /\ o # Null /\ StoreOK(o, f) /\ ref' = [ref EXCEPT ![o][f] = v]
        /\ UNCHANGED <<kind, gcm, black, fin, gray, mmudata, nfin, phase>>
    BY <1>2, <2>1 DEF Store, Running, marks, lists
  <2>3. o \in Live /\ v \in Live \cup {Null}
    <3>1. o \in Range(stack) /\ v \in Range(stack)
      BY <2>1 DEF Range
    <3> QED
      BY <2>2, <3>1 DEF NoDangling, Roots
  <2>4. Live' = Live /\ o \in Obj
    BY <2>2, <2>3 DEF Live
  <2>5. /\ \A x \in Obj \ {o} : ref'[x] = ref[x]
        /\ f = "a" => ref'[o].a = v /\ ref'[o].b = ref[o].b
        /\ f = "b" => ref'[o].b = v /\ ref'[o].a = ref[o].a
    BY <1>0, <2>2, <2>4 DEF TypeOK
  <2>6. /\ Children(o)' \subseteq Children(o) \cup ({v} \ {Null})
        /\ \A x \in Obj \ {o} : Children(x)' = Children(x)
    BY <2>5 DEF Children
  <2>7. HeapOK'
    <3>1. kind[o] = "class" => (f = "a" /\ ref[o].b = Null) \/ (f = "b" /\ ref[o].a = Null)
      BY <2>2 DEF StoreOK, AllFinalized
    <3>2. OneAccessor'
      BY <1>0, <2>2, <2>5, <3>1 DEF HeapOK, OneAccessor
    <3>3. \A x \in Obj \ Live' : ref'[x] = NoRefs
      BY <1>0, <2>3, <2>4, <2>5 DEF HeapOK
    <3> QED
      BY <1>0, <2>2, <3>2, <3>3 DEF HeapOK
  <2>8. FreshWhole'
    <3>1. \A x \in Live : x \in Obj
      BY DEF Live
    <3> QED
      BY <1>0, <2>2, <2>3, <2>4, <2>6, <3>1 DEF FreshWhole
  <2>9. VisitedOK'
    BY <1>0, <2>2, <2>4 DEF VisitedOK
  <2> QED
    BY <2>7, <2>8, <2>9
<1>3. ASSUME NEW i \in DOMAIN stack, NEW f \in {"a", "b"}, Load(i, f)
      PROVE  HeapOK' /\ FreshWhole' /\ VisitedOK'
  BY <1>0, <1>3, WholeKept DEF Load, Running
<1>4. ASSUME NEW i \in DOMAIN stack, NEW j \in DOMAIN stack, Copy(i, j)
      PROVE  HeapOK' /\ FreshWhole' /\ VisitedOK'
  BY <1>0, <1>4, WholeKept DEF Copy, Running
<1>5. ASSUME Pop PROVE HeapOK' /\ FreshWhole' /\ VisitedOK'
  BY <1>0, <1>5, WholeKept DEF Pop, Running
<1>6. ASSUME NEW h \in 0..Len(stack), Throw(h) PROVE HeapOK' /\ FreshWhole' /\ VisitedOK'
  <2>1. phase' \in {"run", "finalize"}
    BY <1>6 DEF Throw, EnterFinalize
  <2> QED
    BY <1>0, <1>6, <2>1, WholeKept DEF Throw
<1> QED
  BY <1>1, <1>2, <1>3, <1>4, <1>5, <1>6 DEF Program

\* Marking.
LEMMA WholeMark ==
    ASSUME AllFinalized, WholeInv, MarkRoots \/ \E o \in Obj : Trace(o)
    PROVE  HeapOK' /\ FreshWhole' /\ VisitedOK'
<1> USE DEF heap, lists, calls
<1>0. TypeOK /\ HeapOK /\ FreshWhole /\ VisitedOK
  BY DEF WholeInv, QueueInv
<1>1. UNCHANGED <<kind, ref, gcm, fin, mmudata, nfin>>
  BY DEF MarkRoots, Trace
<1>2. Live' = Live /\ \A x : Children(x)' = Children(x)
  BY <1>1 DEF Live, Children
<1>3. HeapOK' /\ FreshWhole'
  BY <1>0, <1>1, <1>2 DEF HeapOK, FreshWhole, OneAccessor
<1>4. CASE MarkRoots
  <2>1. PICK new : new = Markable(Range(stack))
    OBVIOUS
  <2>2. phase = "run" /\ phase' = "trace" /\ black' = black \cup new /\ gray' = new
    BY <1>4, <2>1 DEF MarkRoots, Running
  <2>3. ASSUME NEW o \in black' \ (gray' \cup Range(mmudata')) PROVE Children(o) = {}
    <3>1. o \in Obj \ Live
      BY <1>0, <1>1, <2>2, <2>3 DEF VisitedOK
    <3> QED
      BY <1>0, <3>1 DEF HeapOK, Children, NoRefs
  <2> QED
    BY <1>2, <1>3, <2>2, <2>3 DEF VisitedOK
<1>5. ASSUME NEW o \in Obj, Trace(o) PROVE VisitedOK'
  <2>1. PICK new : new = Markable(Children(o))
    OBVIOUS
  <2>2. /\ phase \in {"trace", "trace2"} /\ phase' = phase /\ o \in gray
        /\ black' = black \cup new /\ gray' = (gray \ {o}) \cup new
    BY <1>0, <1>5, <2>1, TracedIsChildren DEF AllFinalized, Trace, HeapOK
  <2>3. Children(o) \subseteq Seen' /\ Seen \subseteq Seen'
    BY <1>1, <2>1, <2>2 DEF Markable, Seen, Children
  <2>4. black' \ gray' \subseteq (black \ gray) \cup {o}
    BY <2>2
  <2>5. \A x \in Range(mmudata) \ gray' : x \in (Range(mmudata) \ gray) \cup {o}
    BY <2>2
  <2>6. CASE phase = "trace"
    BY <1>0, <1>1, <1>2, <2>2, <2>3, <2>4, <2>6 DEF VisitedOK
  <2>7. CASE phase = "trace2"
    BY <1>0, <1>1, <1>2, <2>2, <2>3, <2>4, <2>5, <2>7 DEF VisitedOK
  <2> QED
    BY <2>2, <2>6, <2>7
<1> QED
  BY <1>3, <1>4, <1>5

\* The separation: the queued userdata count as visited from now on.
LEMMA WholeSeparate ==
    ASSUME AllFinalized, WholeInv, Separate
    PROVE  HeapOK' /\ FreshWhole' /\ VisitedOK'
<1> USE DEF heap, calls
<1>0. TypeOK /\ HeapOK /\ FreshWhole /\ VisitedOK /\ ListsOK /\ QueueInv
  BY DEF WholeInv, QueueInv
<1>1. /\ phase = "trace" /\ phase' = "trace2" /\ gray = {} /\ SeparateUdata /\ MarkQueue(mmudata', fin')
      /\ UNCHANGED <<kind, ref, gcm, nfin>>
  BY DEF Separate
<1>2. Separated
  BY <1>0, <1>1, SeparateLists
<1>3. QueueMarked(mmudata', fin')
  BY <1>0, SeparateMarks
<1>4. Live' = Live /\ \A x : Children(x)' = Children(x)
  BY <1>1 DEF Live, Children
<1>5. fin' = fin
  <2>1. \A o \in Range(rootud) : o \in Obj /\ gcm[o]
    BY <1>0 DEF ListsOK, Live, HeapOK
  <2> QED
    BY <1>2, <2>1 DEF Separated
<1>6. HeapOK' /\ FreshWhole'
  BY <1>0, <1>1, <1>4, <1>5 DEF HeapOK, FreshWhole, OneAccessor
<1>7. ASSUME NEW o \in (black' \cup Range(mmudata')) \ gray' PROVE Children(o) \subseteq Seen'
  <2>1. CASE o \in Range(mmudata')
    <3>1. o \in Obj
      BY <1>0, <1>2, <2>1, QueueTypes DEF Separated
    <3> QED
      BY <1>0, <1>3, <2>1, <3>1, TracedIsChildren DEF AllFinalized, HeapOK, QueueMarked, Seen
  <2>2. CASE o \notin Range(mmudata')
    <3>1. o \in black \ Range(mmudata)
      BY <1>2, <1>3, <1>7, <2>2 DEF Separated, QueueMarked
    <3>2. Children(o) \subseteq Seen
      BY <1>0, <1>1, <3>1 DEF VisitedOK
    <3>3. Seen \subseteq Seen'
      BY <1>2, <1>3, <1>5 DEF Separated, QueueMarked, Seen
    <3> QED
      BY <3>2, <3>3
  <2> QED
    BY <2>1, <2>2
<1>8. VisitedOK'
  BY <1>1, <1>4, <1>7 DEF VisitedOK
<1> QED
  BY <1>6, <1>8

\* The sweep frees nothing that an object not yet finalized refers to.
LEMMA WholeSweep ==
    ASSUME AllFinalized, WholeInv, Sweep
    PROVE  HeapOK' /\ FreshWhole' /\ VisitedOK'
<1>0. TypeOK /\ HeapOK /\ FreshWhole /\ VisitedOK /\ ListsOK /\ QueueInv
  BY DEF WholeInv, QueueInv
<1>1. /\ phase = "trace2" /\ gray = {} /\ mmudata' = mmudata
      /\ black' = black \ Swept /\ fin' = fin \ Swept /\ phase' \in {"run", "finalize"}
      /\ kind' = [o \in Obj |-> IF o \in Dead THEN "free" ELSE kind[o]]
      /\ ref' = [o \in Obj |-> IF o \in Dead THEN NoRefs ELSE ref[o]]
      /\ gcm' = [o \in Obj |-> gcm[o] /\ o \notin Dead]
      /\ nfin' = [o \in Obj |-> IF o \in Dead THEN 0 ELSE nfin[o]]
  BY DEF Sweep, EnterFinalize
<1>2. /\ \A o \in Dead : kind'[o] = "free" /\ ref'[o] = NoRefs
      /\ \A o \in Obj \ Dead : /\ kind'[o] = kind[o] /\ ref'[o] = ref[o]
                               /\ gcm'[o] = gcm[o] /\ nfin'[o] = nfin[o]
  BY <1>0, <1>1 DEF TypeOK, Dead, Swept, Live
<1>3. Dead \subseteq Swept /\ Swept \subseteq Live /\ Live \subseteq Obj /\ Live' = Live \ Dead
  <2>1. Dead \subseteq Swept /\ Swept \subseteq Live /\ Live \subseteq Obj
    BY DEF Dead, Swept, Live
  <2> QED
    BY <1>2, <2>1 DEF Live
<1>4. HeapOK'
  <2>1. \A o \in Obj : kind'[o] = "udata" => gcm'[o]
    BY <1>0, <1>2 DEF HeapOK
  <2>2. OneAccessor'
    BY <1>0, <1>2 DEF HeapOK, OneAccessor
  <2>3. \A o \in Obj \ Live' : ref'[o] = NoRefs
    BY <1>0, <1>2, <1>3 DEF HeapOK
  <2>4. \A o \in fin' : nfin'[o] >= 1
    BY <1>0, <1>1, <1>2, <1>3 DEF HeapOK, TypeOK
  <2> QED
    BY <2>1, <2>2, <2>3, <2>4 DEF HeapOK
<1>5. FreshWhole'
  <2> SUFFICES ASSUME NEW o \in Live', nfin'[o] = 0 PROVE Children(o)' \subseteq Live'
    BY DEF FreshWhole
  <2>1. o \in Live /\ o \in Obj \ Dead /\ nfin[o] = 0 /\ Children(o)' = Children(o)
    BY <1>2, <1>3 DEF Children
  <2>2. o \notin fin
    BY <1>0, <2>1 DEF HeapOK
  <2>3. o \in black \cup Range(mmudata)
    BY <2>1, <2>2 DEF Dead, Swept
  <2>4. Children(o) \subseteq Seen /\ Children(o) \subseteq Live
    BY <1>0, <1>1, <2>1, <2>3 DEF VisitedOK, FreshWhole
  <2>5. Seen \cap Dead = {}
    BY DEF Seen, Dead, Swept
  <2> QED
    BY <1>3, <2>1, <2>4, <2>5
<1>6. VisitedOK'
  <2>1. black' \subseteq Range(mmudata') \cup (Obj \ Live')
    BY <1>0, <1>1, <1>3 DEF Swept, TypeOK
  <2> QED
    BY <1>1, <2>1 DEF VisitedOK
<1> QED
  BY <1>4, <1>5, <1>6

\* Finalizing and closing.
LEMMA WholeFinalize ==
    ASSUME AllFinalized, WholeInv, FinalizeNext \/ FinalizerReturn \/ FinalizeDone \/ Close \/ FreeAll
    PROVE  HeapOK' /\ FreshWhole' /\ VisitedOK'
<1>0. TypeOK /\ HeapOK /\ FreshWhole /\ VisitedOK /\ ListsOK /\ QueueInv
  BY DEF WholeInv, QueueInv
<1>1. CASE FinalizeNext
  <2>1. PICK ud : ud = Head(mmudata)
    OBVIOUS
  <2>2. /\ phase = "finalize" /\ phase' = "run" /\ UNCHANGED <<kind, ref, gcm>>
        /\ black' = black \ {ud} /\ fin' = fin \cup {ud}
        /\ nfin' = [nfin EXCEPT ![ud] = IF @ < 2 THEN @ + 1 ELSE 2]
    BY <1>1, <2>1 DEF FinalizeNext, heap
  <2>3. Range(mmudata) = Range(mmudata') \cup {ud} /\ ud \in Obj
    <3>1. mmudata \in Seq(Obj) /\ mmudata # <<>> /\ Injective(mmudata) /\ mmudata' = Tail(mmudata)
      BY <1>0, <1>1, QueueTypes DEF FinalizeNext, Relink, ListsOK
    <3> QED
      BY <2>1, <3>1, QueueHead
  <2>4. nfin'[ud] >= 1 /\ \A o \in Obj \ {ud} : nfin'[o] = nfin[o]
    <3>1. nfin \in [Obj -> 0..2]
      BY <1>0 DEF TypeOK
    <3> QED
      BY <2>2, <2>3, <3>1
  <2>5. Live' = Live /\ \A x : Children(x)' = Children(x)
    BY <2>2 DEF Live, Children
  <2>6. HeapOK'
    <3>1. \A o \in fin' : nfin'[o] >= 1
      BY <1>0, <2>2, <2>4 DEF HeapOK, TypeOK
    <3> QED
      BY <1>0, <2>2, <2>5, <3>1 DEF HeapOK, OneAccessor
  <2>7. FreshWhole'
    <3>1. ~(nfin'[ud] = 0)
      BY <2>4
    <3>2. Live \subseteq Obj
      BY DEF Live
    <3> QED
      BY <1>0, <2>4, <2>5, <3>1, <3>2 DEF FreshWhole
  <2>8. VisitedOK'
    BY <1>0, <2>2, <2>3, <2>5 DEF VisitedOK
  <2> QED
    BY <2>6, <2>7, <2>8
<1>2. CASE FinalizerReturn
  BY <1>0, <1>2, WholeKept DEF FinalizerReturn
<1>3. CASE FinalizeDone
  <2>1. phase' \in {"run", "finalize", "freeall"}
    BY <1>3 DEF FinalizeDone
  <2> QED
    BY <1>0, <1>3, <2>1, WholeKept DEF FinalizeDone
<1>4. CASE Close
  <2>1. /\ phase = "run" /\ SeparateUdata /\ phase' \in {"run", "finalize"}
        /\ UNCHANGED <<kind, ref, gcm, black, gray, nfin>>
    BY <1>4 DEF Close, EnterFinalize, heap
  <2>2. Separated
    BY <1>0, <2>1, SeparateLists
  <2>3. Live' = Live /\ \A x : Children(x)' = Children(x)
    BY <2>1 DEF Live, Children
  <2>4. fin' = fin
    <3>1. \A o \in Range(rootud) : o \in Obj /\ gcm[o]
      BY <1>0 DEF ListsOK, Live, HeapOK
    <3> QED
      BY <2>2, <3>1 DEF Separated
  <2>5. HeapOK' /\ FreshWhole'
    BY <1>0, <2>1, <2>3, <2>4 DEF HeapOK, FreshWhole, OneAccessor
  <2>6. VisitedOK'
    BY <1>0, <2>1, <2>2, <2>3 DEF VisitedOK, Separated
  <2> QED
    BY <2>5, <2>6
<1>5. CASE FreeAll
  <2>1. /\ phase' = "closed" /\ kind' = [o \in Obj |-> "free"] /\ ref' = [o \in Obj |-> NoRefs]
        /\ black' = {} /\ fin' = {}
    BY <1>5 DEF FreeAll
  <2>2. Live' = {}
    BY <2>1 DEF Live
  <2>3. HeapOK' /\ FreshWhole' /\ VisitedOK'
    BY <2>1, <2>2 DEF HeapOK, FreshWhole, VisitedOK, OneAccessor
  <2> QED
    BY <2>3
<1> QED
  BY <1>1, <1>2, <1>3, <1>4, <1>5

\* Every step keeps the invariant while the program holds no freed memory.
LEMMA WholeNext ==
    ASSUME AllFinalized, NoDangling, WholeInv, [Next]_vars
    PROVE  WholeInv'
<1>1. QueueInv'
  BY QueueNext DEF WholeInv
<1>2. HeapOK' /\ FreshWhole' /\ VisitedOK'
  <2>1. CASE Program
    BY <2>1, WholeProgram
  <2>2. CASE MarkRoots \/ \E o \in Obj : Trace(o)
    BY <2>2, WholeMark
  <2>3. CASE Separate
    BY <2>3, WholeSeparate
  <2>4. CASE Sweep
    BY <2>4, WholeSweep
  <2>5. CASE FinalizeNext \/ FinalizerReturn \/ FinalizeDone \/ Close \/ FreeAll
    BY <2>5, WholeFinalize
  <2>6. CASE Closed \/ UNCHANGED vars
    <3>1. UNCHANGED <<kind, ref, gcm, black, fin, gray, mmudata, nfin, phase>>
      BY <2>6 DEF Closed, vars
    <3>2. Live' = Live /\ \A o : Children(o)' = Children(o)
      BY <3>1 DEF Live, Children
    <3>3. HeapOK' /\ FreshWhole'
      BY <3>1, <3>2 DEF WholeInv, HeapOK, OneAccessor, FreshWhole
    <3>4. VisitedOK'
      BY <3>1, <3>2 DEF WholeInv, VisitedOK, Seen
    <3> QED
      BY <3>3, <3>4
  <2> QED
    BY <2>1, <2>2, <2>3, <2>4, <2>5, <2>6 DEF Next, Collector
<1> QED
  BY <1>1, <1>2 DEF WholeInv

\* Where every userdata has a gc method, what the gc methods are about to use is live:
\* until the program reads a reference that an object finalized before still holds,
\* the queue and what it refers to survive every collection.
THEOREM QueueAlwaysSound ==
    ASSUME AllFinalized
    PROVE  Spec /\ []NoDangling => []QueueSound
<1>1. Init => WholeInv
  BY WholeInit
<1>2. WholeInv /\ NoDangling /\ [Next]_vars => WholeInv'
  BY WholeNext
<1>3. WholeInv => QueueSound
  <2> SUFFICES ASSUME WholeInv PROVE QueueSound
    OBVIOUS
  <2>1. UdataListed
    BY QueueListed DEF WholeInv
  <2>2. FirstCallSound
    <3>1. Range(mmudata) \subseteq Live
      BY DEF WholeInv, QueueInv, ListsOK
    <3>2. \A o \in Live : nfin[o] = 0 => Children(o) \subseteq Live
      BY DEF WholeInv, FreshWhole
    <3>3. Live \in SUBSET Live
      OBVIOUS
    <3> QED
      BY <3>1, <3>2, <3>3 DEF FirstCallSound
  <2> QED
    BY <2>1, <2>2 DEF QueueSound
<1> QED
  BY <1>1, <1>2, <1>3, PTL DEF Spec

=============================================================================
