------------------------------ MODULE TeaLemmas ------------------------------
(***************************************************************************)
(* Facts about numbers, sequences and finite sets that the proofs of       *)
(* several modules use, and about the arrays with open addressing that     *)
(* maps and tables share.  LeastNatural stands for induction: a property   *)
(* of all numbers is proved from a least number that lacks it.             *)
(* RecursiveSequence gives the values of a recursive function.             *)
(***************************************************************************)
EXTENDS Integers, SequencesExt, FiniteSetTheorems, WellFoundedInduction, TLAPS

\* Every set of natural numbers that is not empty has a least element.
LEMMA LeastNatural ==
    ASSUME NEW T \in SUBSET Nat, T # {}
    PROVE  \E x \in T : \A y \in T : x <= y
<1> DEFINE R == {ss \in Nat \X Nat : ss[1] < ss[2]}
<1>1. IsWellFoundedOn(R, Nat)
  BY NatLessThanWellFounded DEF OpToRel
<1>2. PICK x \in T : \A y \in T : <<y, x>> \notin R
  BY <1>1, WFMin
<1>3. ASSUME NEW y \in T PROVE x <= y
  <2>1. x \in Nat /\ y \in Nat /\ (y < x => <<y, x>> \in R)
    OBVIOUS
  <2> QED
    BY <1>2, <2>1
<1> QED
  BY <1>3

\* A set of numbers up to n that is not empty has a greatest element.
LEMMA GreatestNatural ==
    ASSUME NEW n \in Nat, NEW S \in SUBSET (0..n), S # {}
    PROVE  \E x \in S : \A y \in S : y <= x
<1> DEFINE T == {k \in 0..n : n - k \in S}
<1>1. T \in SUBSET Nat /\ T # {}
  <2>1. PICK y \in S : TRUE
    OBVIOUS
  <2>2. n - y \in T /\ T \in SUBSET Nat
    BY <2>1
  <2> HIDE DEF T
  <2> QED
    BY <2>2
<1>2. PICK k \in T : \A y \in T : k <= y
  BY <1>1, LeastNatural
<1>3. ASSUME NEW y \in S PROVE y <= n - k
  <2>1. n - y \in T
    OBVIOUS
  <2> QED
    BY <1>2, <2>1
<1>4. PICK x \in S : x = n - k
  BY <1>2
<1> QED
  BY <1>3, <1>4

\* A set of positions closed downwards is an interval, and its size is the last one.
LEMMA InitialSegment ==
    ASSUME NEW n \in Nat, NEW S \in SUBSET (1..n),
           \A k \in S : \A j \in 1..k : j \in S
    PROVE  S = 1..Cardinality(S) /\ Cardinality(S) \in 0..n
<1> DEFINE T == (1..(n+1)) \ S
<1>1. T \in SUBSET Nat /\ n+1 \in T
  OBVIOUS
<1>2. PICK m \in T : \A y \in T : m <= y
  BY <1>1, LeastNatural
<1>3. m \in 1..(n+1) /\ m \notin S
  OBVIOUS
<1>4. \A k \in 1..(m-1) : k \in S
  BY <1>2, <1>3
<1>5. ASSUME NEW k \in S PROVE k \in 1..(m-1)
  <2>1. k \in 1..n /\ (m <= k => m \in 1..k)
    BY <1>3
  <2> QED
    BY <1>3, <2>1
<1>6. S = 1..(m-1)
  BY <1>4, <1>5
<1>7. Cardinality(1..(m-1)) = m-1
  BY <1>3, FS_Interval
<1> QED
  BY <1>3, <1>6, <1>7

\* Cutting the front off a sequence.
LEMMA SuffixOK ==
    ASSUME NEW S, NEW s \in Seq(S), NEW m \in 1..(Len(s)+1)
    PROVE  /\ SubSeq(s, m, Len(s)) \in Seq(S)
           /\ Len(SubSeq(s, m, Len(s))) = Len(s) + 1 - m
           /\ \A j \in 1..(Len(s) + 1 - m) : SubSeq(s, m, Len(s))[j] = s[j+m-1]
           /\ \A x : x \in Range(SubSeq(s, m, Len(s))) <=> \E j \in m..Len(s) : x = s[j]
<1> DEFINE t == SubSeq(s, m, Len(s))
<1>1. t \in Seq(S) /\ Len(t) = Len(s) + 1 - m /\ DOMAIN t = 1..Len(t) /\ Len(s) \in Nat
  OBVIOUS
<1>2. \A j \in 1..Len(t) : t[j] = s[j+m-1]
  OBVIOUS
<1>3. \A j \in m..Len(s) : j-m+1 \in 1..Len(t) /\ s[j] = t[j-m+1]
  BY <1>1, <1>2
<1>4. \A j \in 1..Len(t) : j+m-1 \in m..Len(s)
  BY <1>1
<1> HIDE DEF t
<1>5. \A x : x \in Range(t) <=> \E j \in 1..Len(t) : x = t[j]
  BY <1>1 DEF Range
<1>6. \A x : x \in Range(t) <=> \E j \in m..Len(s) : x = s[j]
  <2>1. ASSUME NEW x \in Range(t) PROVE \E j \in m..Len(s) : x = s[j]
    <3>1. PICK j \in 1..Len(t) : x = t[j]
      BY <1>5
    <3> QED
      BY <1>2, <1>4, <3>1
  <2>2. ASSUME NEW j \in m..Len(s) PROVE s[j] \in Range(t)
    BY <1>3, <1>5
  <2> QED
    BY <2>1, <2>2
<1> QED
  BY <1>1, <1>2, <1>6 DEF t

\* Keeping the front of a sequence.
LEMMA PrefixOK ==
    ASSUME NEW S, NEW s \in Seq(S), NEW k \in 0..Len(s)
    PROVE  /\ SubSeq(s, 1, k) \in Seq(S)
           /\ Len(SubSeq(s, 1, k)) = k
           /\ \A j \in 1..k : SubSeq(s, 1, k)[j] = s[j]
           /\ \A x : x \in Range(SubSeq(s, 1, k)) <=> \E j \in 1..k : x = s[j]
<1> DEFINE t == SubSeq(s, 1, k)
<1>1. t \in Seq(S) /\ Len(t) = k /\ DOMAIN t = 1..k
  OBVIOUS
<1>2. \A j \in 1..k : t[j] = s[j]
  OBVIOUS
<1> HIDE DEF t
<1>3. \A x : x \in Range(t) <=> \E j \in 1..k : x = s[j]
  BY <1>1, <1>2 DEF Range
<1> QED
  BY <1>1, <1>2, <1>3 DEF t

\* Inserting into a sequence moves what follows by one place.
LEMMA InsertAtOK ==
    ASSUME NEW S, NEW s \in Seq(S), NEW i \in 1..(Len(s)+1), NEW e \in S
    PROVE  /\ InsertAt(s, i, e) \in Seq(S)
           /\ Len(InsertAt(s, i, e)) = Len(s) + 1
           /\ \A j \in 1..(Len(s)+1) :
                 InsertAt(s, i, e)[j] = IF j < i THEN s[j] ELSE IF j = i THEN e ELSE s[j-1]
           /\ Range(InsertAt(s, i, e)) = Range(s) \cup {e}
<1> DEFINE a == SubSeq(s, 1, i-1)
           b == SubSeq(s, i, Len(s))
           t == InsertAt(s, i, e)
<1>1. a \in Seq(S) /\ Len(a) = i-1 /\ \A j \in 1..(i-1) : a[j] = s[j]
  OBVIOUS
<1>2. b \in Seq(S) /\ Len(b) = Len(s)-i+1 /\ \A j \in 1..(Len(s)-i+1) : b[j] = s[j+i-1]
  OBVIOUS
<1>3. t = (a \o <<e>>) \o b
  BY DEF InsertAt
<1> HIDE DEF a, b, t
<1> DEFINE c == a \o <<e>>
<1>4. c \in Seq(S) /\ Len(c) = i /\ \A j \in 1..i : c[j] = IF j < i THEN s[j] ELSE e
  BY <1>1
<1> HIDE DEF c
<1>5. /\ t \in Seq(S) /\ Len(t) = Len(s) + 1 /\ Len(s) \in Nat
      /\ \A j \in 1..Len(t) : t[j] = IF j <= i THEN c[j] ELSE b[j-i]
  BY <1>2, <1>3, <1>4 DEF c
<1>6. ASSUME NEW j \in 1..Len(t)
      PROVE  t[j] = IF j < i THEN s[j] ELSE IF j = i THEN e ELSE s[j-1]
  <2>1. CASE j <= i
    BY <1>4, <1>5, <2>1
  <2>2. CASE j > i
    <3>1. j-i \in 1..(Len(s)-i+1) /\ (j-i)+i-1 = j-1
      BY <1>5, <2>2
    <3> QED
      BY <1>2, <1>5, <2>2, <3>1
  <2> QED
    BY <1>5, <2>1, <2>2
<1>7. DOMAIN t = 1..Len(t) /\ DOMAIN s = 1..Len(s) /\ Len(t) = Len(s) + 1 /\ Len(s) \in Nat
  BY <1>5
<1>8. Range(t) \subseteq Range(s) \cup {e}
  <2>1. ASSUME NEW j \in 1..Len(t) PROVE t[j] \in Range(s) \cup {e}
    <3>1. \/ j < i /\ j \in DOMAIN s /\ t[j] = s[j]
          \/ j = i /\ t[j] = e
          \/ j > i /\ j-1 \in DOMAIN s /\ t[j] = s[j-1]
      BY <1>5, <1>6, <1>7
    <3> QED
      BY <3>1 DEF Range
  <2>2. \A x \in Range(t) : \E j \in 1..Len(t) : x = t[j]
    BY <1>7 DEF Range
  <2> QED
    BY <2>1, <2>2
<1>9. Range(s) \cup {e} \subseteq Range(t)
  <2>1. t[i] = e /\ i \in DOMAIN t
    BY <1>5, <1>6, <1>7
  <2>2. ASSUME NEW j \in DOMAIN s PROVE s[j] \in Range(t)
    <3>1. CASE j < i
      BY <1>5, <1>6, <1>7, <3>1 DEF Range
    <3>2. CASE j >= i
      <4>1. j+1 \in DOMAIN t /\ t[j+1] = s[j]
        BY <1>5, <1>6, <1>7, <3>2
      <4> QED
        BY <4>1 DEF Range
    <3> QED
      BY <1>7, <3>1, <3>2
  <2> QED
    BY <2>1, <2>2 DEF Range
<1> QED
  BY <1>5, <1>6, <1>8, <1>9 DEF t

\* A recursive function on 0..n exists: G is the step.
Iterates(f, n, a, G) == f[0] = a /\ \A i \in 1..n : f[i] = G[<<i, f[i-1]>>]

\* A recursion over 1..n has a solution in S: the values f[0], .., f[n] exist.
LEMMA RecursiveSequence ==
    ASSUME NEW n \in Nat, NEW S, NEW a \in S, NEW G \in [(1..n) \X S -> S]
    PROVE  \E f \in [0..n -> S] : Iterates(f, n, a, G)
<1> DEFINE P(m) == \E f \in [0..m -> S] : f[0] = a /\ \A i \in 1..m : f[i] = G[<<i, f[i-1]>>]
           T == {m \in 0..n : ~P(m)}
<1>1. P(0)
  <2>1. PICK f \in [0..0 -> S] : f[0] = a
    <3>1. [i \in 0..0 |-> a] \in [0..0 -> S] /\ [i \in 0..0 |-> a][0] = a
      OBVIOUS
    <3> QED
      BY <3>1
  <2>2. \A i \in 1..0 : FALSE
    OBVIOUS
  <2> QED
    BY <2>1, <2>2
<1>2. ASSUME NEW m \in 1..n, P(m-1) PROVE P(m)
  <2>1. PICK f \in [0..m-1 -> S] : f[0] = a /\ \A i \in 1..m-1 : f[i] = G[<<i, f[i-1]>>]
    BY <1>2
  <2>2. G[<<m, f[m-1]>>] \in S
    <3>1. <<m, f[m-1]>> \in (1..n) \X S
      BY <2>1
    <3> QED
      BY <3>1
  <2> DEFINE g == [i \in 0..m |-> IF i < m THEN f[i] ELSE G[<<m, f[m-1]>>]]
  <2>3. g \in [0..m -> S]
    BY <2>2
  <2>4. \A i \in 1..m : g[i-1] = f[i-1] /\ (i < m => g[i] = f[i]) /\ (i = m => g[i] = G[<<m, f[m-1]>>])
    OBVIOUS
  <2>5. g[0] = a
    BY <2>1
  <2> HIDE DEF g
  <2>6. ASSUME NEW i \in 1..m PROVE g[i] = G[<<i, g[i-1]>>]
    <3>1. CASE i = m
      BY <2>4, <3>1
    <3>2. CASE i < m
      BY <2>1, <2>4, <3>2
    <3> QED
      BY <3>1, <3>2
  <2> QED
    BY <2>3, <2>5, <2>6
<1>3. T = {}
  <2>1. ASSUME T # {} PROVE FALSE
    <3>1. T \in SUBSET Nat
      OBVIOUS
    <3>2. PICK m \in T : \A y \in T : m <= y
      BY <2>1, <3>1, LeastNatural
    <3>3. m \in 0..n /\ ~P(m)
      OBVIOUS
    <3> HIDE DEF P
    <3>4. m # 0
      BY <1>1, <3>3
    <3>5. m \in 1..n /\ m-1 \in 0..n /\ ~(m <= m-1)
      BY <3>3, <3>4
    <3>6. P(m-1)
      BY <3>2, <3>5
    <3> QED
      BY <1>2, <3>3, <3>5, <3>6
  <2> QED
    BY <2>1
<1>4. P(n)
  <2> HIDE DEF P
  <2> QED
    BY <1>3
<1> QED
  BY <1>4 DEF Iterates

-----------------------------------------------------------------------------
(* Open addressing.  K are the keys, h their hash values, E the entries.   *)

Probing(K, h) == INSTANCE OpenAddressing WITH Key <- K, Hash <- h

\* The keys of entries.
Keyed(K, E) == K \cap {"empty", "tombstone"} = {} /\ \A e \in E : e.key \in K \cup {"empty", "tombstone"}

\* The remainder is the only number below the divisor that differs by a multiple of it.
LEMMA RemainderIs ==
    ASSUME NEW n \in Nat, n # 0, NEW q \in Nat, NEW i \in 0..n-1
    PROVE  (n * q + i) % n = i
<1>1. ASSUME NEW a \in Nat, NEW b \in Nat, a > b PROVE n * a >= n * b + n
  <2>1. PICK c \in Nat : a = b + 1 + c
    <3>1. a - (b + 1) \in Nat /\ a = b + 1 + (a - (b + 1))
      BY <1>1
    <3> QED
      BY <3>1
  <2>2. n * c \in Nat /\ n * b \in Nat
    OBVIOUS
  <2>3. n * (b + 1 + c) = n * b + n + n * c
    OBVIOUS
  <2> QED
    BY <2>1, <2>2, <2>3
<1>2. PICK y \in Nat : y = n * q + i
  OBVIOUS
<1>3. PICK d \in Nat, r \in 0..n-1 : y = n * d + r /\ r = y % n
  <2>1. PICK d \in Nat : d = y \div n
    OBVIOUS
  <2>2. PICK r \in 0..n-1 : r = y % n
    OBVIOUS
  <2>3. y = n * d + r
    BY <2>1, <2>2
  <2> QED
    BY <2>2, <2>3
<1>4. n * q \in Nat /\ n * d \in Nat /\ (q > d => n * q >= n * d + n) /\ (d > q => n * d >= n * q + n)
  BY <1>1
<1>5. ~(q > d) /\ ~(d > q)
  BY <1>2, <1>3, <1>4
<1>6. q = d
  BY <1>5
<1>7. r = i
  BY <1>2, <1>3, <1>4, <1>6
<1> QED
  BY <1>2, <1>3, <1>7

\* A search visits slots of the array, and comes to each of them.
LEMMA SlotOK ==
    ASSUME NEW K, NEW h \in [K -> Nat], NEW k \in K, NEW n \in Nat, n # 0
    PROVE  /\ \A j \in 0..n-1 : Probing(K, h)!Slot(k, j, n) \in 0..n-1
           /\ \A i \in 0..n-1 : \E j \in 0..n-1 : Probing(K, h)!Slot(k, j, n) = i
<1>1. ASSUME NEW j \in 0..n-1 PROVE Probing(K, h)!Slot(k, j, n) \in 0..n-1
  <2>1. PICK x \in Nat : x = h[k] + j
    OBVIOUS
  <2>2. x % n \in 0..n-1
    BY <2>1
  <2> QED
    BY <2>1, <2>2 DEF Probing!Slot
<1>2. ASSUME NEW i \in 0..n-1 PROVE \E j \in 0..n-1 : Probing(K, h)!Slot(k, j, n) = i
  <2>1. PICK x \in Nat : x = h[k]
    OBVIOUS
  <2>2. PICK r \in 0..n-1, q \in Nat : x = n * q + r
    <3>1. x % n \in 0..n-1 /\ x \div n \in Nat /\ x = n * (x \div n) + (x % n)
      OBVIOUS
    <3> QED
      BY <3>1
  <2>3. CASE i >= r
    <3>1. PICK j \in 0..n-1 : j = i - r
      BY <2>3
    <3>2. x + j = n * q + i
      BY <2>2, <3>1
    <3>3. Probing(K, h)!Slot(k, j, n) = (n * q + i) % n
      BY <2>1, <3>2 DEF Probing!Slot
    <3> QED
      BY <3>3, RemainderIs
  <2>4. CASE i < r
    <3>1. PICK j \in 0..n-1 : j = i - r + n
      BY <2>4
    <3>2. x + j = n * (q + 1) + i
      BY <2>2, <3>1
    <3>3. Probing(K, h)!Slot(k, j, n) = (n * (q + 1) + i) % n
      BY <2>1, <3>2 DEF Probing!Slot
    <3> QED
      BY <3>3, RemainderIs
  <2> QED
    BY <2>2, <2>3, <2>4
<1> QED
  BY <1>1, <1>2

\* An array in which searches work, and one in which there is room.
Sound(K, h, E, n, es) ==
    Keyed(K, E) /\ n \in Nat \ {0} /\ es \in [0..n-1 -> E] /\ Probing(K, h)!Searchable(es, n)
HasRoom(K, h, n, es) == \E i \in 0..n-1 : i \notin Probing(K, h)!Used(es, n)

\* The answer to a search: the entry of the key, or one that is free, where the key would
\* be found.
AnswerFor(K, h, n, es, k, f) ==
    /\ f.at \in 0..n-1
    /\ f.found <=> \E i \in Probing(K, h)!Used(es, n) : es[i].key = k
    /\ f.found => es[f.at].key = k
    /\ ~f.found => es[f.at].key \notin K
    /\ \E d \in 0..n-1 : /\ Probing(K, h)!Slot(k, d, n) = f.at
                         /\ \A j \in 0..d-1 : es[Probing(K, h)!Slot(k, j, n)].key # "empty"

\* What a search finds in an array that is searchable and not full.
LEMMA FindOK ==
    ASSUME NEW K, NEW h \in [K -> Nat], NEW E, NEW k \in K, NEW n, NEW es,
           Sound(K, h, E, n, es), HasRoom(K, h, n, es)
    PROVE  AnswerFor(K, h, n, es, k, Probing(K, h)!Find(es, n, k))
<1> USE DEF Sound
<1> DEFINE S(j) == Probing(K, h)!Slot(k, j, n)
           Present == \E i \in Probing(K, h)!Used(es, n) : es[i].key = k
           stops == {j \in 0..n-1 : es[S(j)].key \in {k, "empty"}}
           tombs == {j \in 0..n-1 : es[S(j)].key = "tombstone"}
           f == Probing(K, h)!Find(es, n, k)
<1>1. /\ \A j \in 0..n-1 : S(j) \in 0..n-1 /\ es[S(j)].key \in K \cup {"empty", "tombstone"}
      /\ \A i \in 0..n-1 : \E j \in 0..n-1 : S(j) = i
      /\ k \notin {"empty", "tombstone"} /\ "empty" \notin K /\ "tombstone" \notin K
  <2>1. \A i \in 0..n-1 : es[i].key \in K \cup {"empty", "tombstone"}
    BY DEF Keyed
  <2>2. \A j \in 0..n-1 : S(j) \in 0..n-1
    BY SlotOK
  <2>3. \A i \in 0..n-1 : \E j \in 0..n-1 : S(j) = i
    BY SlotOK
  <2> QED
    BY <2>1, <2>2, <2>3 DEF Keyed
<1>2. f = IF stops \cup tombs = {} THEN [found |-> FALSE, at |-> -1]
          ELSE IF stops # {} /\ es[S(Probing(K, h)!Min(stops))].key = k
          THEN [found |-> TRUE, at |-> S(Probing(K, h)!Min(stops))]
          ELSE [found |-> FALSE, at |-> S(Probing(K, h)!Min(stops \cup tombs))]
  BY DEF Probing!Find, Probing!Empty, Probing!Tomb
<1>3. ASSUME NEW T \in SUBSET (0..n-1), T # {}
      PROVE  Probing(K, h)!Min(T) \in T /\ \A j \in T : Probing(K, h)!Min(T) <= j
  <2>1. T \in SUBSET Nat
    OBVIOUS
  <2>2. \E x \in T : \A y \in T : x <= y
    BY <1>3, <2>1, LeastNatural
  <2> QED
    BY <2>2 DEF Probing!Min
<1>4. stops \cup tombs # {}
  <2>1. PICK i \in 0..n-1 : es[i].key \notin K
    BY DEF HasRoom, Probing!Used
  <2>2. PICK j \in 0..n-1 : S(j) = i
    BY <1>1
  <2> QED
    BY <1>1, <2>1, <2>2
<1>5. CASE Present
  <2>1. PICK i \in 0..n-1, d \in 0..n-1 :
           /\ es[i].key = k /\ S(d) = i /\ \A j \in 0..d-1 : es[S(j)].key # "empty"
           /\ \A x \in 0..n-1 : es[x].key = k => x = i
    BY <1>5 DEF Probing!Searchable, Probing!Reached, Probing!Once, Probing!Used, Probing!Empty
  <2>2. PICK m \in 0..n-1 : m = Probing(K, h)!Min(stops)
    BY <1>3, <2>1
  <2>3. m \in stops /\ m <= d
    BY <1>3, <2>1, <2>2
  <2>4. es[S(m)].key = k
    <3>1. m < d => m \in 0..d-1
      OBVIOUS
    <3>2. m = d \/ m < d
      BY <2>3
    <3> QED
      BY <2>1, <2>3, <3>1, <3>2
  <2>5. S(m) = i
    BY <1>1, <2>1, <2>4
  <2>6. f.found = TRUE /\ f.at = S(m)
    BY <1>2, <1>4, <2>2, <2>3, <2>4
  <2>7. \A j \in 0..m-1 : es[S(j)].key # "empty"
    BY <2>1, <2>3
  <2> QED
    BY <1>5, <2>1, <2>5, <2>6, <2>7 DEF AnswerFor
<1>6. CASE ~Present
  <2>1. \A i \in 0..n-1 : es[i].key # k
    BY <1>6 DEF Probing!Used
  <2>2. PICK m \in 0..n-1 : m = Probing(K, h)!Min(stops \cup tombs)
    BY <1>3, <1>4
  <2>3. m \in stops \cup tombs /\ \A j \in stops \cup tombs : m <= j
    BY <1>3, <1>4, <2>2
  <2>4. stops # {} => Probing(K, h)!Min(stops) \in stops
    BY <1>3
  <2>5. ~(stops # {} /\ es[S(Probing(K, h)!Min(stops))].key = k)
    BY <1>1, <2>1, <2>4
  <2>6. f.found = FALSE /\ f.at = S(m)
    BY <1>2, <1>4, <2>2, <2>5
  <2>7. es[S(m)].key \in {"empty", "tombstone"} /\ S(m) \in 0..n-1
    BY <1>1, <2>1, <2>3
  <2>8. \A j \in 0..m-1 : es[S(j)].key # "empty"
    <3>1. ASSUME NEW j \in 0..m-1, es[S(j)].key = "empty" PROVE FALSE
      <4>1. j \in 0..n-1 /\ ~(m <= j)
        OBVIOUS
      <4> QED
        BY <2>3, <3>1, <4>1
    <3> QED
      BY <3>1
  <2>9. es[S(m)].key \notin K
    BY <1>1, <2>7
  <2>10. \E d \in 0..n-1 : S(d) = f.at /\ \A j \in 0..d-1 : es[S(j)].key # "empty"
    BY <2>6, <2>8
  <2> QED
    BY <1>6, <2>6, <2>7, <2>9, <2>10 DEF AnswerFor
<1> QED
  BY <1>5, <1>6

\* Array t is es with entry e for k stored at a, the only place of k.
Stored(K, h, E, n, es, k, e, a, t) ==
    /\ Sound(K, h, E, n, t)
    /\ Probing(K, h)!Used(t, n) = Probing(K, h)!Used(es, n) \cup {a}
    /\ t[a] = e
    /\ \A i \in 0..n-1 : i # a => t[i] = es[i]
    /\ \A i \in Probing(K, h)!Used(es, n) : i # a => es[i].key # k

\* Putting an entry where the search for its key leads keeps the array searchable.
LEMMA EntryPut ==
    ASSUME NEW K, NEW h \in [K -> Nat], NEW E, NEW k \in K, NEW n, NEW es,
           Sound(K, h, E, n, es), NEW f, AnswerFor(K, h, n, es, k, f),
           NEW e \in E, e.key = k, NEW t, t = [es EXCEPT ![f.at] = e]
    PROVE  Stored(K, h, E, n, es, k, e, f.at, t)
<1> USE DEF Sound
<1> DEFINE S(x, j) == Probing(K, h)!Slot(x, j, n)
           U == Probing(K, h)!Used(es, n)
<1>1. PICK a : a = f.at
  OBVIOUS
<1>2. /\ a \in 0..n-1
      /\ f.found <=> \E i \in U : es[i].key = k
      /\ f.found => es[a].key = k
      /\ ~f.found => es[a].key \notin K
      /\ \E d \in 0..n-1 : S(k, d) = a /\ \A j \in 0..d-1 : es[S(k, j)].key # "empty"
  BY <1>1 DEF AnswerFor
<1>3. t \in [0..n-1 -> E] /\ t[a] = e /\ \A i \in 0..n-1 : i # a => t[i] = es[i]
  BY <1>1, <1>2
<1>4. k \in K /\ k # "empty" /\ \A x \in K : x # "empty"
  BY DEF Keyed
<1>5. \A i \in U \ {a} : es[i].key # k
  <2>1. ASSUME NEW i \in U, es[i].key = k, i # a PROVE FALSE
    <3>1. a \in U /\ es[a].key = k
      BY <1>2, <1>4, <2>1 DEF Probing!Used
    <3> QED
      BY <2>1, <3>1 DEF Probing!Searchable, Probing!Once
  <2> QED
    BY <2>1
<1>6. Probing(K, h)!Used(t, n) = U \cup {a}
  BY <1>2, <1>3, <1>4 DEF Probing!Used
<1>7. Probing(K, h)!Once(t, n)
  <2>1. \A i \in U \ {a} : t[i] = es[i]
    BY <1>3 DEF Probing!Used
  <2>2. \A i, j \in U : es[i].key = es[j].key => i = j
    BY DEF Probing!Searchable, Probing!Once
  <2>3. ASSUME NEW i \in U \cup {a}, NEW j \in U \cup {a}, t[i].key = t[j].key PROVE i = j
    <3>1. \A x \in U \ {a} : t[x].key = es[x].key /\ t[x].key # k
      BY <1>5, <2>1
    <3>2. t[a].key = k
      BY <1>3
    <3> QED
      BY <2>2, <2>3, <3>1, <3>2
  <2> QED
    BY <1>6, <2>3 DEF Probing!Once
<1>8. \A x \in K : \A j \in 0..n-1 : S(x, j) \in 0..n-1
  BY SlotOK
<1>9. \A i \in 0..n-1 : es[i].key # "empty" => t[i].key # "empty"
  BY <1>3, <1>4
<1>10. ASSUME NEW i \in U \cup {a}
       PROVE  \E d \in 0..n-1 : /\ S(t[i].key, d) = i
                                /\ \A j \in 0..d-1 : t[S(t[i].key, j)].key # "empty"
  <2>1. PICK d \in 0..n-1 : /\ S(t[i].key, d) = i
                            /\ \A j \in 0..d-1 : es[S(t[i].key, j)].key # "empty"
    <3>1. CASE i = a
      BY <1>2, <1>3, <3>1
    <3>2. CASE i # a
      <4>1. t[i] = es[i]
        BY <1>3, <3>2 DEF Probing!Used
      <4> QED
        BY <3>2, <4>1 DEF Probing!Searchable, Probing!Reached, Probing!Empty
    <3> QED
      BY <3>1, <3>2
  <2>2. t[i].key \in K
    BY <1>6 DEF Probing!Used
  <2>3. \A j \in 0..d-1 : S(t[i].key, j) \in 0..n-1
    <3>1. \A j \in 0..d-1 : j \in 0..n-1
      OBVIOUS
    <3> QED
      BY <1>8, <2>2, <3>1
  <2> QED
    BY <1>9, <2>1, <2>3
<1>11. Probing(K, h)!Reached(t, n)
  BY <1>6, <1>10 DEF Probing!Reached, Probing!Empty
<1> QED
  BY <1>1, <1>3, <1>5, <1>6, <1>7, <1>11 DEF Probing!Searchable, Stored

\* Array t is es without the entry at a.
Removed(K, h, E, n, es, a, t) ==
    /\ Sound(K, h, E, n, t)
    /\ Probing(K, h)!Used(t, n) = Probing(K, h)!Used(es, n) \ {a}
    /\ \A i \in 0..n-1 : i # a => t[i] = es[i]

\* So does putting a tombstone anywhere.
LEMMA RemoveOK ==
    ASSUME NEW K, NEW h \in [K -> Nat], NEW E, NEW n, NEW es, Sound(K, h, E, n, es),
           NEW e \in E, e.key = "tombstone", NEW a, a \in 0..n-1,
           NEW t, t = [es EXCEPT ![a] = e]
    PROVE  Removed(K, h, E, n, es, a, t)
<1> USE DEF Sound
<1> DEFINE S(x, j) == Probing(K, h)!Slot(x, j, n)
           U == Probing(K, h)!Used(es, n)
<1>1. t = [es EXCEPT ![a] = e]
  OBVIOUS
<1>2. t \in [0..n-1 -> E] /\ t[a] = e /\ \A i \in 0..n-1 : i # a => t[i] = es[i]
  BY <1>1
<1>3. Probing(K, h)!Used(t, n) = U \ {a}
  BY <1>2 DEF Probing!Used, Keyed
<1>4. Probing(K, h)!Once(t, n)
  <2>1. \A i \in U \ {a} : t[i] = es[i]
    BY <1>2 DEF Probing!Used
  <2>2. \A i, j \in U : es[i].key = es[j].key => i = j
    BY DEF Probing!Searchable, Probing!Once
  <2> QED
    BY <1>3, <2>1, <2>2 DEF Probing!Once
<1>5. \A x \in K : \A j \in 0..n-1 : S(x, j) \in 0..n-1
  BY SlotOK
<1>6. \A i \in 0..n-1 : es[i].key # "empty" => t[i].key # "empty"
  BY <1>2
<1>7. ASSUME NEW i \in U \ {a}
      PROVE  \E d \in 0..n-1 : /\ S(t[i].key, d) = i
                               /\ \A j \in 0..d-1 : t[S(t[i].key, j)].key # "empty"
  <2>1. t[i] = es[i] /\ es[i].key \in K
    BY <1>2 DEF Probing!Used
  <2>2. PICK d \in 0..n-1 : /\ S(es[i].key, d) = i
                            /\ \A j \in 0..d-1 : es[S(es[i].key, j)].key # "empty"
    BY DEF Probing!Searchable, Probing!Reached, Probing!Empty
  <2>3. \A j \in 0..d-1 : S(es[i].key, j) \in 0..n-1
    <3>1. \A j \in 0..d-1 : j \in 0..n-1
      OBVIOUS
    <3> QED
      BY <1>5, <2>1, <3>1
  <2> QED
    BY <1>6, <2>1, <2>2, <2>3
<1>8. Probing(K, h)!Reached(t, n)
  BY <1>3, <1>7 DEF Probing!Reached, Probing!Empty
<1> QED
  BY <1>1, <1>2, <1>3, <1>4, <1>8 DEF Probing!Searchable, Removed

\* A new array is searchable.
LEMMA BlankOK ==
    ASSUME NEW K, NEW h \in [K -> Nat], NEW E, Keyed(K, E), NEW n \in Nat, n # 0,
           NEW e \in E, e.key = "empty"
    PROVE  /\ Sound(K, h, E, n, Probing(K, h)!Blank(n, e))
           /\ Probing(K, h)!Used(Probing(K, h)!Blank(n, e), n) = {}
<1>1. Probing(K, h)!Used(Probing(K, h)!Blank(n, e), n) = {}
  BY DEF Keyed, Probing!Used, Probing!Blank
<1> QED
  BY <1>1 DEF Sound, Probing!Searchable, Probing!Reached, Probing!Once, Probing!Blank

\* There is room in an array that has fewer used entries than slots.
LEMMA UsedOK ==
    ASSUME NEW K, NEW h, NEW es, NEW n \in Nat
    PROVE  /\ Probing(K, h)!Used(es, n) \subseteq 0..n-1
           /\ IsFiniteSet(Probing(K, h)!Used(es, n))
           /\ Cardinality(Probing(K, h)!Used(es, n)) \in Nat
           /\ Cardinality(Probing(K, h)!Used(es, n)) < n => HasRoom(K, h, n, es)
<1> DEFINE U == Probing(K, h)!Used(es, n)
<1>1. U \subseteq 0..n-1
  BY DEF Probing!Used
<1>2. IsFiniteSet(0..n-1) /\ Cardinality(0..n-1) = n
  <2>1. 0 \in Int /\ n-1 \in Int /\ (0 > n-1 => n = 0) /\ (n-1)-0+1 = n
    OBVIOUS
  <2> QED
    BY <2>1, FS_Interval
<1>3. IsFiniteSet(U) /\ Cardinality(U) \in Nat
  BY <1>1, <1>2, FS_Subset, FS_CardinalityType
<1>4. U = 0..n-1 \/ HasRoom(K, h, n, es)
  BY <1>1 DEF HasRoom
<1>5. U = 0..n-1 => ~(Cardinality(U) < n)
  BY <1>2
<1> QED
  BY <1>1, <1>3, <1>4, <1>5

\* The used entries of one array are those of another.
SameEntries(K, h, n, es, m, r) ==
    /\ \A i \in Probing(K, h)!Used(es, n) : \E j \in Probing(K, h)!Used(r, m) : r[j] = es[i]
    /\ \A j \in Probing(K, h)!Used(r, m) : \E i \in Probing(K, h)!Used(es, n) : es[i] = r[j]
    /\ Cardinality(Probing(K, h)!Used(r, m)) = Cardinality(Probing(K, h)!Used(es, n))

\* Array r holds the used entries of es and nothing else.
Rehashed(K, h, E, n, es, m, blank, r) ==
    /\ Sound(K, h, E, m, r)
    /\ SameEntries(K, h, n, es, m, r)
    /\ \A j \in 0..m-1 : j \in Probing(K, h)!Used(r, m) \/ r[j] = blank

\* Moving the entries to another array that has room for them loses none, adds none and
\* leaves no tombstones.
LEMMA RehashOK ==
    ASSUME NEW K, NEW h \in [K -> Nat], NEW E, Keyed(K, E), NEW n \in Nat, NEW es \in [0..n-1 -> E],
           Probing(K, h)!Once(es, n), NEW m \in Nat, Cardinality(Probing(K, h)!Used(es, n)) < m,
           NEW blank \in E, blank.key = "empty"
    PROVE  Rehashed(K, h, E, n, es, m, blank, Probing(K, h)!Rehash(es, n, m, blank))
<1> DEFINE moved[i \in 0..n] ==
               IF i = 0 THEN Probing(K, h)!Blank(m, blank)
               ELSE IF es[i-1].key \notin K THEN moved[i-1]
               ELSE [moved[i-1] EXCEPT ![Probing(K, h)!Find(moved[i-1], m, es[i-1].key).at] = es[i-1]]
           S == [0..m-1 -> E]
           Step(i, r) == IF es[i-1].key \notin K THEN r
                         ELSE [r EXCEPT ![Probing(K, h)!Find(r, m, es[i-1].key).at] = es[i-1]]
           Step0 == Probing(K, h)!Blank(m, blank)
           U == Probing(K, h)!Used(es, n)
           V(r) == Probing(K, h)!Used(r, m)
<1>1. Probing(K, h)!Rehash(es, n, m, blank) = moved[n]
  BY DEF Probing!Rehash
<1>2. Step0 \in S
  BY DEF Probing!Blank
<1>3. ASSUME NEW i \in 1..n, NEW r \in S PROVE Step(i, r) \in S
  <2>1. es[i-1] \in E
    BY <1>3
  <2> QED
    BY <2>1
<1>4. moved = [i \in 0..n |-> IF i = 0 THEN Step0 ELSE Step(i, moved[i-1])]
  <2> SUFFICES \E f : f = [i \in 0..n |-> IF i = 0 THEN Step0 ELSE Step(i, f[i-1])]
    BY DEF moved
  <2> HIDE DEF Step, Step0, S
  <2> DEFINE G == [x \in (1..n) \X S |-> Step(x[1], x[2])]
  <2>1. G \in [(1..n) \X S -> S]
    BY <1>3
  <2>2. \A i \in 1..n : \A r \in S : G[<<i, r>>] = Step(i, r)
    OBVIOUS
  <2> HIDE DEF G
  <2>3. PICK f \in [0..n -> S] : f[0] = Step0 /\ \A i \in 1..n : f[i] = G[<<i, f[i-1]>>]
    <3>1. PICK f \in [0..n -> S] : Iterates(f, n, Step0, G)
      BY <1>2, <2>1, RecursiveSequence
    <3> QED
      BY <3>1 DEF Iterates
  <2>4. \A i \in 1..n : f[i] = Step(i, f[i-1])
    <3>1. \A i \in 1..n : f[i-1] \in S
      OBVIOUS
    <3> QED
      BY <2>2, <2>3, <3>1
  <2>5. f = [i \in 0..n |-> IF i = 0 THEN Step0 ELSE Step(i, f[i-1])]
    BY <2>3, <2>4
  <2> QED
    BY <2>5
<1> HIDE DEF moved
<1>5. moved[0] = Step0 /\ \A i \in 1..n : moved[i] = Step(i, moved[i-1])
  <2> HIDE DEF Step, Step0
  <2>1. ASSUME NEW i \in 1..n PROVE moved[i] = Step(i, moved[i-1])
    BY <1>4
  <2> QED
    BY <1>4, <2>1
<1> HIDE DEF Step, Step0
<1> DEFINE Below(i) == {x \in U : x < i}
           Good(i) ==
               /\ Sound(K, h, E, m, moved[i])
               /\ Cardinality(V(moved[i])) = Cardinality(Below(i))
               /\ \A x \in Below(i) : \E j \in V(moved[i]) : moved[i][j] = es[x]
               /\ \A j \in V(moved[i]) : \E x \in Below(i) : moved[i][j] = es[x]
               /\ \A j \in 0..m-1 : j \in V(moved[i]) \/ moved[i][j] = blank
<1>6. U \subseteq 0..n-1 /\ IsFiniteSet(U) /\ Cardinality(U) \in Nat /\ m # 0
  BY UsedOK
<1>7. Good(0)
  <2>1. Below(0) = {}
    BY <1>6
  <2>2. Sound(K, h, E, m, moved[0]) /\ V(moved[0]) = {} /\ \A j \in 0..m-1 : moved[0][j] = blank
    <3>1. Sound(K, h, E, m, Step0) /\ V(Step0) = {}
      BY <1>6, BlankOK DEF Step0
    <3>2. \A j \in 0..m-1 : Step0[j] = blank
      BY DEF Step0, Probing!Blank
    <3> QED
      BY <1>5, <3>1, <3>2
  <2> QED
    BY <2>1, <2>2
<1>8. ASSUME NEW i \in 1..n, Good(i-1) PROVE Good(i)
  <2>1. PICK r : r = moved[i-1]
    OBVIOUS
  <2>2. moved[i] = Step(i, r)
    BY <1>5, <2>1
  <2>3. PICK B : B = Below(i-1)
    OBVIOUS
  <2>4. /\ Sound(K, h, E, m, r)
        /\ Cardinality(V(r)) = Cardinality(B)
        /\ \A x \in B : \E j \in V(r) : r[j] = es[x]
        /\ \A j \in V(r) : \E x \in B : r[j] = es[x]
        /\ \A j \in 0..m-1 : j \in V(r) \/ r[j] = blank
    BY <1>8, <2>1, <2>3
  <2>5. i-1 \in 0..n-1 /\ i-1 \notin B /\ B \subseteq U
    BY <2>3
  <2>6. CASE es[i-1].key \notin K
    <3>1. i-1 \notin U
      BY <2>6 DEF Probing!Used
    <3>2. Below(i) = B
      BY <1>6, <2>3, <3>1
    <3>3. moved[i] = r
      BY <2>2, <2>6 DEF Step
    <3> QED
      BY <2>4, <3>2, <3>3
  <2>7. CASE es[i-1].key \in K
    <3>1. i-1 \in U
      BY <2>5, <2>7 DEF Probing!Used
    <3>2. Below(i) = B \cup {i-1}
      BY <1>6, <2>3, <3>1
    <3>3. IsFiniteSet(B) /\ Cardinality(B) \in Nat /\ Cardinality(B) <= Cardinality(U)
      BY <1>6, <2>5, FS_Subset, FS_CardinalityType
    <3>4. V(r) \subseteq 0..m-1 /\ IsFiniteSet(V(r))
      BY UsedOK
    <3>5. HasRoom(K, h, m, r)
      <4>1. Cardinality(V(r)) < m
        BY <1>6, <2>4, <3>3
      <4> QED
        BY <4>1, UsedOK
    <3>6. PICK k \in K : k = es[i-1].key
      BY <2>7
    <3>7. PICK f : f = Probing(K, h)!Find(r, m, k)
      OBVIOUS
    <3>8. AnswerFor(K, h, m, r, k, f)
      BY <2>4, <3>5, <3>7, FindOK
    <3>9. \A j \in V(r) : r[j].key # k
      <4>1. \A x \in B : es[x].key = k => x = i-1
        BY <2>5, <3>1, <3>6 DEF Probing!Once
      <4> QED
        BY <2>4, <2>5, <4>1
    <3>10. f.at \in 0..m-1 /\ f.at \notin V(r)
      <4>1. ~f.found
        BY <3>8, <3>9 DEF AnswerFor
      <4> QED
        BY <3>8, <4>1 DEF AnswerFor, Probing!Used
    <3>11. PICK t : t = [r EXCEPT ![f.at] = es[i-1]]
      OBVIOUS
    <3>12. moved[i] = t
      BY <2>2, <2>7, <3>6, <3>7, <3>11 DEF Step
    <3>13. Sound(K, h, E, m, t) /\ V(t) = V(r) \cup {f.at}
      <4>1. PICK e \in E : e = es[i-1] /\ e.key = k
        BY <2>5, <3>6
      <4>2. Stored(K, h, E, m, r, k, e, f.at, t)
        BY <2>4, <3>8, <3>11, <4>1, EntryPut
      <4> QED
        BY <4>2 DEF Stored
    <3>14. Cardinality(V(t)) = Cardinality(Below(i))
      <4>1. Cardinality(V(r) \cup {f.at}) = Cardinality(V(r)) + 1
        BY <3>4, <3>10, FS_AddElement
      <4>2. Cardinality(B \cup {i-1}) = Cardinality(B) + 1
        BY <2>5, <3>3, FS_AddElement
      <4> QED
        BY <2>4, <3>2, <3>13, <4>1, <4>2
    <3>15. t[f.at] = es[i-1] /\ \A j \in 0..m-1 : j # f.at => t[j] = r[j]
      BY <2>4, <3>10, <3>11 DEF Sound
    <3>16. \A x \in Below(i) : \E j \in V(t) : t[j] = es[x]
      <4>1. ASSUME NEW x \in B PROVE \E j \in V(t) : t[j] = es[x]
        <5>1. PICK j \in V(r) : r[j] = es[x]
          BY <2>4
        <5> QED
          BY <3>4, <3>10, <3>13, <3>15, <5>1
      <4> QED
        BY <3>2, <3>13, <3>15, <4>1
    <3>17. \A j \in V(t) : \E x \in Below(i) : t[j] = es[x]
      <4>1. ASSUME NEW j \in V(r) PROVE \E x \in B : t[j] = es[x]
        <5>1. PICK x \in B : r[j] = es[x]
          BY <2>4
        <5> QED
          BY <3>4, <3>10, <3>15, <5>1
      <4> QED
        BY <3>2, <3>13, <3>15, <4>1
    <3>18. \A j \in 0..m-1 : j \in V(t) \/ t[j] = blank
      BY <2>4, <3>13, <3>15
    <3> QED
      BY <3>12, <3>13, <3>14, <3>16, <3>17, <3>18
  <2> QED
    BY <2>6, <2>7
<1> HIDE DEF Good
<1>9. \A i \in 0..n : Good(i)
  <2> DEFINE T == {i \in 0..n : ~Good(i)}
  <2>1. ASSUME T # {} PROVE FALSE
    <3>1. T \in SUBSET Nat
      OBVIOUS
    <3>2. PICK i \in T : \A y \in T : i <= y
      BY <2>1, <3>1, LeastNatural
    <3>3. i \in 0..n /\ ~Good(i)
      OBVIOUS
    <3>4. i \in 1..n /\ i-1 \in 0..n /\ ~(i <= i-1)
      BY <1>7, <3>3
    <3>5. Good(i-1)
      BY <3>2, <3>4
    <3> QED
      BY <1>8, <3>3, <3>4, <3>5
  <2> QED
    BY <2>1
<1>10. Good(n) /\ Below(n) = U
  BY <1>6, <1>9
<1>11. PICK r : r = moved[n]
  OBVIOUS
<1>12. /\ Sound(K, h, E, m, r)
       /\ SameEntries(K, h, n, es, m, r)
       /\ \A j \in 0..m-1 : j \in V(r) \/ r[j] = blank
  BY <1>10, <1>11 DEF Good, SameEntries
<1> QED
  BY <1>1, <1>11, <1>12 DEF Rehashed
=============================================================================
