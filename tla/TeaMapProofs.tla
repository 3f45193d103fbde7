---------------------------- MODULE TeaMapProofs ----------------------------
(***************************************************************************)
(* What TeaMap promises, for any keys, hash values, load limits and        *)
(* histories.                                                              *)
(***************************************************************************)
EXTENDS TeaMap, TeaLemmas

-----------------------------------------------------------------------------
(* The probing of TeaMap is the one the lemmas speak of.                   *)

\* The helpers of TeaMap are those that the lemmas of TeaLemmas are about.
LEMMA SameProbing ==
    /\ \A es, n : Used(es, n) = Probing(Key, Hash)!Used(es, n)
    /\ \A es, n : Searchable(es, n) <=> Probing(Key, Hash)!Searchable(es, n)
    /\ \A es, n : Once(es, n) <=> Probing(Key, Hash)!Once(es, n)
    /\ \A n, e : Blank(n, e) = Probing(Key, Hash)!Blank(n, e)
<1>1. \A es, n : Used(es, n) = Probing(Key, Hash)!Used(es, n)
  BY DEF Used, Probing!Used
<1>2. \A k, j, n : Slot(k, j, n) = Probing(Key, Hash)!Slot(k, j, n)
  BY DEF Slot, Probing!Slot
<1>3. \A es, n : Once(es, n) <=> Probing(Key, Hash)!Once(es, n)
  BY <1>1 DEF Once, Probing!Once
<1>4. \A es, n : Reached(es, n) <=> Probing(Key, Hash)!Reached(es, n)
  BY <1>1, <1>2 DEF Reached, Probing!Reached, Empty, Probing!Empty
<1> QED
  BY <1>1, <1>3, <1>4 DEF Searchable, Probing!Searchable, Blank, Probing!Blank

\* So is the search.
LEMMA SameFind == \A es, n, k : Find(es, n, k) = Probing(Key, Hash)!Find(es, n, k)
  BY DEF Find, Probing!Find, Slot, Probing!Slot, Min, Probing!Min, Empty, Probing!Empty, Tomb, Probing!Tomb

\* So is moving the entries to another array.
LEMMA SameRehash ==
    \A es, n, m, e : Rehash(es, n, m, e) = Probing(Key, Hash)!Rehash(es, n, m, e)
  BY DEF Rehash, Probing!Rehash, Blank, Probing!Blank, Find, Probing!Find, Slot, Probing!Slot,
         Min, Probing!Min, Empty, Probing!Empty, Tomb, Probing!Tomb

-----------------------------------------------------------------------------
(* The inductive invariant                                                 *)

\* The count is that of the used entries, and an array is never full.
CountOK ==
    /\ count = Cardinality(Used(entries, size))
    /\ size # 0 => count < size

MapInv == TypeOK /\ Searchable(entries, size) /\ CountOK

\* Entries have the keys that searches expect.
LEMMA EntriesKeyed ==
    /\ Keyed(Key, Entry)
    /\ EmptyEntry \in Entry /\ EmptyEntry.key = "empty"
    /\ TombEntry \in Entry /\ TombEntry.key = "tombstone"
    /\ \A k \in Key, v \in Value : [key |-> k, val |-> v] \in Entry
    /\ \A e \in Entry : e.key \in Key => e.val \in Value
<1>1. Key \cap {"empty", "tombstone"} = {}
  BY HashOK DEF Empty, Tomb
<1> QED
  BY <1>1 DEF Keyed, Entry, EmptyEntry, TombEntry, Empty, Tomb

\* The invariant in the terms of the lemmas.
LEMMA ArrayOK ==
    ASSUME MapInv
    PROVE  /\ size \in Nat /\ count \in Nat
           /\ size # 0 => Sound(Key, Hash, Entry, size, entries) /\ HasRoom(Key, Hash, size, entries)
           /\ size = 0 => Used(entries, size) = {} /\ count = 0
           /\ IsFiniteSet(Used(entries, size))
<1>1. size \in Nat /\ count \in 0..size /\ entries \in [0..size-1 -> Entry]
  BY DEF MapInv, TypeOK
<1>2. CASE size # 0
  <2>1. Sound(Key, Hash, Entry, size, entries)
    BY <1>1, <1>2, EntriesKeyed, SameProbing DEF Sound, MapInv
  <2>2. Cardinality(Probing(Key, Hash)!Used(entries, size)) < size
    BY <1>2, SameProbing DEF MapInv, CountOK
  <2>3. HasRoom(Key, Hash, size, entries) /\ IsFiniteSet(Probing(Key, Hash)!Used(entries, size))
    BY <1>1, <2>2, UsedOK
  <2> QED
    BY <1>1, <1>2, <2>1, <2>3, SameProbing
<1>3. CASE size = 0
  <2>1. Used(entries, size) = {}
    BY <1>3 DEF Used
  <2> QED
    BY <1>1, <1>3, <2>1, FS_EmptySet
<1> QED
  BY <1>2, <1>3

-----------------------------------------------------------------------------
(* Arrays and the functions they stand for                                 *)

Dict(es, n) ==
    [k \in {es[i].key : i \in Used(es, n)} |-> es[CHOOSE i \in Used(es, n) : es[i].key = k].val]

\* d has the keys and values of the used entries, and is thereby given.
Represents(es, n, d) ==
    /\ d = [k \in DOMAIN d |-> d[k]]
    /\ \A k \in DOMAIN d : \E i \in Used(es, n) : es[i].key = k
    /\ \A i \in Used(es, n) : es[i].key \in DOMAIN d /\ d[es[i].key] = es[i].val

\* An array whose keys are there once represents one dictionary.
LEMMA DictOK ==
    ASSUME NEW es, NEW n, Once(es, n)
    PROVE  Represents(es, n, Dict(es, n)) /\ \A d : Represents(es, n, d) => d = Dict(es, n)
<1> DEFINE D == Dict(es, n)
           U == Used(es, n)
<1>1. /\ D = [k \in DOMAIN D |-> D[k]]
      /\ DOMAIN D = {es[i].key : i \in U}
      /\ \A k \in DOMAIN D : D[k] = es[CHOOSE i \in U : es[i].key = k].val
  BY DEF Dict
<1>2. ASSUME NEW i \in U PROVE es[i].key \in DOMAIN D /\ D[es[i].key] = es[i].val
  <2>1. PICK k : k = es[i].key
    OBVIOUS
  <2>2. k \in DOMAIN D
    BY <1>1, <2>1
  <2>3. D[k] = es[CHOOSE x \in U : es[x].key = k].val
    BY <1>1, <2>2
  <2>4. (CHOOSE x \in U : es[x].key = k) = i
    BY <2>1 DEF Once
  <2> QED
    BY <2>1, <2>2, <2>3, <2>4
<1>3. \A k \in DOMAIN D : \E i \in U : es[i].key = k
  BY <1>1
<1> HIDE DEF D
<1>4. ASSUME NEW d, Represents(es, n, d) PROVE d = D
  <2>1. /\ d = [k \in DOMAIN d |-> d[k]]
        /\ \A k \in DOMAIN d : \E i \in U : es[i].key = k
        /\ \A i \in U : es[i].key \in DOMAIN d /\ d[es[i].key] = es[i].val
    BY <1>4 DEF Represents
  <2>2. DOMAIN d = DOMAIN D
    BY <1>2, <1>3, <2>1
  <2>3. \A k \in DOMAIN d : d[k] = D[k]
    BY <1>2, <2>1
  <2> QED
    BY <1>1, <2>1, <2>2, <2>3
<1>5. Represents(es, n, D)
  BY <1>1, <1>2, <1>3 DEF Represents
<1> QED
  BY <1>4, <1>5 DEF D

\* Arrays with the same used entries stand for the same function.
LEMMA SameDict ==
    ASSUME NEW es, NEW n, NEW r, NEW m, Once(es, n), Once(r, m),
           \A i \in Used(es, n) : \E j \in Used(r, m) : r[j] = es[i],
           \A j \in Used(r, m) : \E i \in Used(es, n) : es[i] = r[j]
    PROVE  Dict(r, m) = Dict(es, n)
<1>1. PICK d : d = Dict(es, n) /\ Represents(es, n, d)
  BY DictOK
<1>2. Represents(r, m, d)
  <2>1. ASSUME NEW k \in DOMAIN d PROVE \E j \in Used(r, m) : r[j].key = k
    <3>1. PICK i \in Used(es, n) : es[i].key = k
      BY <1>1 DEF Represents
    <3>2. PICK j \in Used(r, m) : r[j] = es[i]
      OBVIOUS
    <3> QED
      BY <3>1, <3>2
  <2>2. ASSUME NEW j \in Used(r, m) PROVE r[j].key \in DOMAIN d /\ d[r[j].key] = r[j].val
    <3>1. PICK i \in Used(es, n) : es[i] = r[j]
      OBVIOUS
    <3> QED
      BY <1>1, <3>1 DEF Represents
  <2> QED
    BY <1>1, <2>1, <2>2 DEF Represents
<1> QED
  BY <1>1, <1>2, DictOK

-----------------------------------------------------------------------------
(* Setting                                                                 *)

\* tea_map_set makes room, and more than it needs.
LEMMA GrownSizeOK ==
    ASSUME MapInv
    PROVE  GrownSize \in Nat /\ count + 1 < GrownSize
<1>1. /\ size \in Nat /\ count \in Nat /\ count <= size
      /\ size # 0 => count < size
      /\ MinSize \in Nat /\ MinSize >= 2
  BY MapConstantsOK DEF MapInv, TypeOK, CountOK
<1>2. CASE 4 * (count + 1) > MaxLoad * size
  <2>1. CASE size < MinSize
    <3>1. GrownSize = MinSize
      BY <1>2, <2>1 DEF GrownSize
    <3> QED
      BY <1>1, <2>1, <3>1
  <2>2. CASE ~(size < MinSize)
    <3>1. GrownSize = 2 * size
      BY <1>2, <2>2 DEF GrownSize
    <3> QED
      BY <1>1, <2>2, <3>1
  <2> QED
    BY <2>1, <2>2
<1>3. CASE ~(4 * (count + 1) > MaxLoad * size)
  <2>1. GrownSize = size
    BY <1>3 DEF GrownSize
  <2>2. MaxLoad = 1 \/ MaxLoad = 2 \/ MaxLoad = 3
    BY MapConstantsOK
  <2>3. 4 * (count + 1) <= 3 * size
    <3>1. CASE MaxLoad = 1
      BY <1>1, <1>3, <3>1
    <3>2. CASE MaxLoad = 2
      BY <1>1, <1>3, <3>2
    <3>3. CASE MaxLoad = 3
      BY <1>1, <1>3, <3>3
    <3> QED
      BY <2>2, <3>1, <3>2, <3>3
  <2> QED
    BY <1>1, <2>1, <2>3
<1> QED
  BY <1>2, <1>3

\* An array that holds what entries holds.
Holds(es, n) ==
    /\ Sound(Key, Hash, Entry, n, es)
    /\ HasRoom(Key, Hash, n, es)
    /\ Once(es, n)
    /\ Cardinality(Used(es, n)) = count
    /\ IsFiniteSet(Used(es, n))
    /\ Dict(es, n) = Contents

\* map_resize
LEMMA MovedOK ==
    ASSUME NEW es, NEW n \in Nat, es \in [0..n-1 -> Entry], Once(es, n), NEW m \in Nat,
           Cardinality(Used(es, n)) < m, NEW r, r = Rehash(es, n, m, EmptyEntry)
    PROVE  /\ Sound(Key, Hash, Entry, m, r)
           /\ HasRoom(Key, Hash, m, r)
           /\ Searchable(r, m)
           /\ IsFiniteSet(Used(r, m))
           /\ Cardinality(Used(r, m)) = Cardinality(Used(es, n))
           /\ Dict(r, m) = Dict(es, n)
<1>1. Rehashed(Key, Hash, Entry, n, es, m, EmptyEntry, r)
  <2>1. Probing(Key, Hash)!Once(es, n) /\ Cardinality(Probing(Key, Hash)!Used(es, n)) < m
    BY SameProbing
  <2>2. r = Probing(Key, Hash)!Rehash(es, n, m, EmptyEntry)
    BY SameRehash
  <2> QED
    BY <2>1, <2>2, EntriesKeyed, HashOK, RehashOK
<1>2. Sound(Key, Hash, Entry, m, r) /\ SameEntries(Key, Hash, n, es, m, r)
  BY <1>1 DEF Rehashed
<1>3. /\ \A i \in Used(es, n) : \E j \in Used(r, m) : r[j] = es[i]
      /\ \A j \in Used(r, m) : \E i \in Used(es, n) : es[i] = r[j]
      /\ Cardinality(Used(r, m)) = Cardinality(Used(es, n))
  BY <1>2, SameProbing DEF SameEntries
<1>4. Searchable(r, m) /\ Once(r, m)
  BY <1>2, SameProbing DEF Sound, Searchable
<1>5. IsFiniteSet(Used(r, m)) /\ HasRoom(Key, Hash, m, r)
  <2>1. Cardinality(Probing(Key, Hash)!Used(r, m)) < m
    BY <1>3, SameProbing
  <2>2. HasRoom(Key, Hash, m, r) /\ IsFiniteSet(Probing(Key, Hash)!Used(r, m))
    BY <2>1, UsedOK
  <2> QED
    BY <2>2, SameProbing
<1>6. Dict(r, m) = Dict(es, n)
  BY <1>3, <1>4, SameDict
<1> QED
  BY <1>2, <1>3, <1>4, <1>5, <1>6

\* tea_map_set continues with an array that holds the old entries and has room for one more.
LEMMA GrownOK ==
    ASSUME MapInv, NEW es,
           es = IF GrownSize = size THEN entries ELSE Rehash(entries, size, GrownSize, EmptyEntry)
    PROVE  Holds(es, GrownSize)
<1>1. GrownSize \in Nat /\ count + 1 < GrownSize /\ count \in Nat
  BY GrownSizeOK, ArrayOK
<1>2. Cardinality(Used(entries, size)) = count /\ Once(entries, size) /\ Contents = Dict(entries, size)
  BY DEF MapInv, CountOK, Searchable, Contents, Keys, Dict
<1>3. CASE GrownSize = size
  BY <1>1, <1>2, <1>3, ArrayOK DEF Holds
<1>4. CASE GrownSize # size
  <2>1. size \in Nat /\ entries \in [0..size-1 -> Entry]
    BY DEF MapInv, TypeOK
  <2>2. Cardinality(Used(entries, size)) < GrownSize
    BY <1>1, <1>2
  <2>3. es = Rehash(entries, size, GrownSize, EmptyEntry)
    BY <1>4
  <2>4. PICK m \in Nat : m = GrownSize
    BY <1>1
  <2>5. Holds(es, m)
    BY <1>2, <2>1, <2>2, <2>3, <2>4, MovedOK DEF Holds, Searchable
  <2> QED
    BY <2>4, <2>5
<1> QED
  BY <1>3, <1>4

\* An array with so many used entries that stands for d.
Array(t, n, c, d) ==
    /\ t \in [0..n-1 -> Entry]
    /\ Searchable(t, n)
    /\ Cardinality(Used(t, n)) = c
    /\ Dict(t, n) = d

\* Storing the entry adds one to the used entries, or replaces one.
LEMMA EntryStored ==
    ASSUME MapInv, NEW k \in Key, NEW v \in Value, NEW es, NEW n \in Nat, Holds(es, n),
           NEW f, f = Find(es, n, k), NEW e \in Entry, e.key = k, e.val = v,
           NEW t, t = [es EXCEPT ![f.at] = e]
    PROVE  Array(t, n, IF f.found THEN count ELSE count + 1, Map!Put(Contents, k, v))
<1>1. e \in Entry /\ e.key = k /\ e.val = v
  OBVIOUS
<1>2. AnswerFor(Key, Hash, n, es, k, f)
  <2>1. f = Probing(Key, Hash)!Find(es, n, k)
    BY SameFind
  <2> QED
    BY <2>1, HashOK, FindOK DEF Holds
<1>3. Stored(Key, Hash, Entry, n, es, k, e, f.at, t)
  <2>1. e.key = k /\ t = [es EXCEPT ![f.at] = e]
    BY <1>1
  <2> QED
    BY <1>2, <2>1, HashOK, EntryPut DEF Holds
<1>4. PICK a : a = f.at
  OBVIOUS
<1>5. /\ Sound(Key, Hash, Entry, n, t)
      /\ Used(t, n) = Used(es, n) \cup {a}
      /\ t[a] = e
      /\ \A i \in 0..n-1 : i # a => t[i] = es[i]
      /\ \A i \in Used(es, n) : i # a => es[i].key # k
  BY <1>3, <1>4, SameProbing DEF Stored
<1>6. Searchable(t, n) /\ Once(t, n) /\ t \in [0..n-1 -> Entry]
  BY <1>5, SameProbing DEF Sound, Searchable
<1>7. f.found <=> a \in Used(es, n)
  <2>1. /\ f.found <=> \E i \in Used(es, n) : es[i].key = k
        /\ f.found => es[a].key = k
        /\ ~f.found => es[a].key \notin Key
        /\ a \in 0..n-1
    BY <1>2, <1>4, SameProbing DEF AnswerFor
  <2> QED
    BY <2>1 DEF Used
<1>8. Cardinality(Used(t, n)) = IF f.found THEN count ELSE count + 1
  BY <1>5, <1>7, FS_AddElement DEF Holds
<1>9. PICK D : D = Contents /\ Represents(es, n, D)
  BY DictOK DEF Holds
<1>10. PICK P : P = Map!Put(D, k, v)
  OBVIOUS
<1>11. /\ P = [x \in DOMAIN P |-> P[x]]
       /\ DOMAIN P = DOMAIN D \cup {k}
       /\ P[k] = v
       /\ \A x \in DOMAIN D : x # k => P[x] = D[x]
  BY <1>10 DEF Map!Put
<1>12. Represents(t, n, P)
  <2>1. \A i \in Used(es, n) : i \in 0..n-1
    BY DEF Used
  <2>2. ASSUME NEW x \in DOMAIN P PROVE \E i \in Used(t, n) : t[i].key = x
    <3>1. CASE x = k
      <4>1. a \in Used(t, n) /\ t[a].key = x
        BY <1>1, <1>5, <3>1
      <4> QED
        BY <4>1
    <3>2. CASE x # k
      <4>1. PICK i \in Used(es, n) : es[i].key = x
        BY <1>9, <1>11, <3>2 DEF Represents
      <4>2. CASE i # a
        BY <1>5, <2>1, <4>1, <4>2
      <4>3. CASE i = a
        <5>1. f.found /\ es[a].key = k
          BY <1>2, <1>4, <1>7, <4>3 DEF AnswerFor
        <5> QED
          BY <3>2, <4>1, <4>3, <5>1
      <4> QED
        BY <4>2, <4>3
    <3> QED
      BY <3>1, <3>2
  <2>3. ASSUME NEW i \in Used(t, n) PROVE t[i].key \in DOMAIN P /\ P[t[i].key] = t[i].val
    <3>1. CASE i = a
      <4>1. t[i].key = k /\ t[i].val = v
        BY <1>1, <1>5, <3>1
      <4> QED
        BY <1>11, <4>1
    <3>2. CASE i # a
      <4>1. i \in Used(es, n) /\ t[i] = es[i] /\ es[i].key # k
        BY <1>5, <2>1, <3>2
      <4>2. es[i].key \in DOMAIN D /\ D[es[i].key] = es[i].val
        BY <1>9, <4>1 DEF Represents
      <4> QED
        BY <1>11, <4>1, <4>2
    <3> QED
      BY <3>1, <3>2
  <2> QED
    BY <1>11, <2>2, <2>3 DEF Represents
<1>13. Dict(t, n) = P
  BY <1>6, <1>12, DictOK
<1> QED
  BY <1>6, <1>8, <1>9, <1>10, <1>13 DEF Array

\* What follows an operation is well-typed as far as the loop goes.
LEMMA WatchOK ==
    ASSUME TypeOK, Watch
    PROVE  loop' \in [on : BOOLEAN, idx : Nat, key : Key \cup {Nil}, times : Nat]
  BY DEF TypeOK, Watch, NoLoop

\* The dictionary TeaMap exhibits is that of its array.
LEMMA ContentsIs == Contents = Dict(entries, size)
  BY DEF Contents, Keys, Dict

\* Setting keeps the invariant and is setting in the dictionary (tea_map_set).
LEMMA SetOK ==
    ASSUME MapInv, NEW k \in Key, NEW v \in Value, Set(k, v)
    PROVE  MapInv' /\ Map!Set(k, v)
<1>1. PICK n \in Nat : n = GrownSize /\ count + 1 < n /\ count \in Nat
  BY GrownSizeOK, ArrayOK
<1>2. PICK es : /\ es = IF GrownSize = size THEN entries ELSE Rehash(entries, size, GrownSize, EmptyEntry)
                /\ Holds(es, n)
  BY <1>1, GrownOK
<1>3. PICK f : f = Find(es, n, k)
  OBVIOUS
<1>4. /\ entries' = [es EXCEPT ![f.at] = [key |-> k, val |-> v]]
      /\ size' = n
      /\ count' = IF f.found THEN count ELSE count + 1
      /\ Watch
  BY <1>1, <1>2, <1>3 DEF Set
<1>5. /\ entries' \in [0..n-1 -> Entry]
      /\ Searchable(entries', n)
      /\ Cardinality(Used(entries', n)) = IF f.found THEN count ELSE count + 1
      /\ Dict(entries', n) = Map!Put(Contents, k, v)
  <2>1. PICK e \in Entry : e.key = k /\ e.val = v /\ e = [key |-> k, val |-> v]
    BY EntriesKeyed
  <2>2. PICK t : t = [es EXCEPT ![f.at] = e]
    OBVIOUS
  <2>3. Array(t, n, IF f.found THEN count ELSE count + 1, Map!Put(Contents, k, v))
    BY <1>2, <1>3, <2>1, <2>2, EntryStored
  <2> QED
    BY <1>4, <2>1, <2>2, <2>3 DEF Array
<1>6. TypeOK'
  <2>1. count' \in 0..n
    BY <1>1, <1>4
  <2>2. loop' \in [on : BOOLEAN, idx : Nat, key : Key \cup {Nil}, times : Nat]
    BY <1>4, WatchOK DEF MapInv
  <2> QED
    BY <1>4, <1>5, <2>1, <2>2 DEF TypeOK
<1>7. CountOK'
  BY <1>1, <1>4, <1>5 DEF CountOK
<1>8. Contents' = Dict(entries', n)
  BY <1>4 DEF Contents, Keys, Dict
<1> QED
  BY <1>4, <1>5, <1>6, <1>7, <1>8 DEF MapInv, Map!Set

-----------------------------------------------------------------------------
(* Deleting and clearing                                                   *)

\* The array of a map that was cleared.
LEMMA EmptyArray ==
    /\ Array(Blank(0, EmptyEntry), 0, 0, [k \in {} |-> 0])
    /\ Represents(Blank(0, EmptyEntry), 0, [k \in {} |-> 0])
<1> DEFINE b == Blank(0, EmptyEntry)
           d == [k \in {} |-> 0]
<1>1. 0..0-1 = {}
  OBVIOUS
<1>2. b \in [0..0-1 -> Entry] /\ Used(b, 0) = {}
  BY <1>1 DEF Blank, Used
<1>3. Searchable(b, 0)
  BY <1>2 DEF Searchable, Reached, Once
<1>4. Represents(b, 0, d)
  BY <1>2 DEF Represents
<1>5. Dict(b, 0) = d
  BY <1>3, <1>4, DictOK DEF Searchable
<1> QED
  BY <1>2, <1>3, <1>4, <1>5, FS_EmptySet DEF Array

\* Putting a tombstone takes one from the used entries.
LEMMA EntryRemoved ==
    ASSUME MapInv, NEW k \in Key, count # 0, NEW f, f = Find(entries, size, k), f.found,
           NEW t, t = [entries EXCEPT ![f.at] = TombEntry]
    PROVE  /\ k \in DOMAIN Contents
           /\ Array(t, size, count - 1, [x \in DOMAIN Contents \ {k} |-> Contents[x]])
<1>1. PICK n \in Nat : n = size /\ n # 0
  BY ArrayOK
<1>2. PICK es : es = entries
  OBVIOUS
<1>3. Sound(Key, Hash, Entry, n, es) /\ HasRoom(Key, Hash, n, es) /\ IsFiniteSet(Used(es, n))
  BY <1>1, <1>2, ArrayOK
<1>4. AnswerFor(Key, Hash, n, es, k, f)
  <2>1. f = Probing(Key, Hash)!Find(es, n, k)
    BY <1>1, <1>2, SameFind
  <2> QED
    BY <1>3, <2>1, HashOK, FindOK
<1>5. PICK a : a = f.at
  OBVIOUS
<1>6. a \in Used(es, n) /\ a \in 0..n-1 /\ es[a].key = k
  BY <1>4, <1>5 DEF AnswerFor, Used
<1>7. PICK e \in Entry : e = TombEntry /\ e.key = "tombstone"
  BY EntriesKeyed
<1>8. Sound(Key, Hash, Entry, n, t) /\ Used(t, n) = Used(es, n) \ {a}
  <2>1. t = [es EXCEPT ![a] = e]
    BY <1>2, <1>5, <1>7
  <2>2. e.key = "tombstone" /\ a \in 0..n-1 /\ Sound(Key, Hash, Entry, n, es) /\ Hash \in [Key -> Nat]
    BY <1>3, <1>6, <1>7, HashOK
  <2>3. Removed(Key, Hash, Entry, n, es, a, t)
    BY <2>1, <2>2, RemoveOK
  <2> QED
    BY <2>3, SameProbing DEF Removed
<1>9. \A i \in 0..n-1 : i # a => t[i] = es[i]
  BY <1>2, <1>3, <1>5 DEF Sound
<1>10. Searchable(t, n) /\ Once(t, n) /\ t \in [0..n-1 -> Entry] /\ Once(es, n)
  BY <1>3, <1>8, SameProbing DEF Sound, Searchable
<1>11. Cardinality(Used(t, n)) = count - 1
  <2>1. Cardinality(Used(es, n)) = count
    BY <1>1, <1>2 DEF MapInv, CountOK
  <2> QED
    BY <1>3, <1>6, <1>8, <2>1, FS_RemoveElement
<1>12. PICK D : D = Contents /\ Represents(es, n, D)
  BY <1>1, <1>2, <1>10, ContentsIs, DictOK
<1>13. PICK P : P = [x \in DOMAIN D \ {k} |-> D[x]]
  OBVIOUS
<1>14. Represents(t, n, P)
  <2>1. \A i \in Used(es, n) : i \in 0..n-1
    BY DEF Used
  <2>2. \A i \in Used(es, n) : i # a => es[i].key # k
    BY <1>6, <1>10 DEF Once
  <2>3. ASSUME NEW x \in DOMAIN P PROVE \E i \in Used(t, n) : t[i].key = x
    <3>1. x \in DOMAIN D /\ x # k
      BY <1>13
    <3>2. PICK i \in Used(es, n) : es[i].key = x
      BY <1>12, <3>1 DEF Represents
    <3>3. i # a
      BY <1>6, <3>1, <3>2
    <3> QED
      BY <1>8, <1>9, <2>1, <3>2, <3>3
  <2>4. ASSUME NEW i \in Used(t, n) PROVE t[i].key \in DOMAIN P /\ P[t[i].key] = t[i].val
    <3>1. i \in Used(es, n) /\ i # a /\ t[i] = es[i] /\ es[i].key # k
      <4>1. i \in Used(es, n) /\ i # a
        BY <1>8
      <4> QED
        BY <1>9, <2>1, <2>2, <4>1
    <3>2. es[i].key \in DOMAIN D /\ D[es[i].key] = es[i].val
      BY <1>12, <3>1 DEF Represents
    <3> QED
      BY <1>13, <3>1, <3>2
  <2> QED
    BY <1>13, <2>3, <2>4 DEF Represents
<1>15. Dict(t, n) = P
  BY <1>10, <1>14, DictOK
<1>16. k \in DOMAIN D
  BY <1>6, <1>12 DEF Represents
<1> QED
  BY <1>1, <1>10, <1>11, <1>12, <1>13, <1>15, <1>16 DEF Array

\* tea_map_delete leaves room when it shrinks the array.
LEMMA ShrunkSizeOK ==
    ASSUME MapInv, NEW c \in Nat, c < count
    PROVE  ShrunkSize(c) \in Nat /\ c < ShrunkSize(c)
<1>1. /\ size \in Nat /\ count \in Nat /\ count <= size /\ c < size
      /\ MinSize \in Nat /\ MinSize >= 2
  BY MapConstantsOK DEF MapInv, TypeOK
<1>2. CASE size > MinSize /\ 4 * c < MinLoad * (size \div 2)
  <2>1. PICK s \in Nat : s = size \div 2
    BY <1>1
  <2>2. c < s
    <3>1. MinLoad = 0 \/ MinLoad = 1 \/ MinLoad = 2 \/ MinLoad = 3
      BY MapConstantsOK
    <3>2. 4 * c < MinLoad * s
      BY <1>2, <2>1
    <3>3. CASE MinLoad = 0
      BY <3>2, <3>3
    <3>4. CASE MinLoad = 1
      BY <3>2, <3>4
    <3>5. CASE MinLoad = 2
      BY <3>2, <3>5
    <3>6. CASE MinLoad = 3
      BY <3>2, <3>6
    <3> QED
      BY <3>1, <3>3, <3>4, <3>5, <3>6
  <2>3. ShrunkSize(c) = IF s < MinSize THEN MinSize ELSE s
    BY <1>2, <2>1 DEF ShrunkSize
  <2> QED
    BY <1>1, <2>2, <2>3
<1>3. CASE ~(size > MinSize /\ 4 * c < MinLoad * (size \div 2))
  <2>1. ShrunkSize(c) = size
    BY <1>3 DEF ShrunkSize
  <2> QED
    BY <1>1, <2>1
<1> QED
  BY <1>2, <1>3

\* The invariant holds and the map has contents d after an operation that leaves such an array.
LEMMA ArrayLeft ==
    ASSUME MapInv, NEW n \in Nat, NEW c \in Nat, n # 0 => c < n, NEW d, NEW t, Array(t, n, c, d),
           entries' = t, size' = n, count' = c, Watch, c <= n
    PROVE  MapInv' /\ Contents' = d
<1>1. t \in [0..n-1 -> Entry] /\ Searchable(t, n) /\ Cardinality(Used(t, n)) = c /\ Dict(t, n) = d
  BY DEF Array
<1>2. loop' \in [on : BOOLEAN, idx : Nat, key : Key \cup {Nil}, times : Nat]
  BY WatchOK DEF MapInv
<1>3. TypeOK'
  BY <1>1, <1>2 DEF TypeOK
<1>4. CountOK'
  BY <1>1 DEF CountOK
<1>5. Contents' = Dict(t, n)
  BY DEF Contents, Keys, Dict
<1> QED
  BY <1>1, <1>3, <1>4, <1>5 DEF MapInv

\* Deleting, with or without shrinking, is deleting in the dictionary (tea_map_delete).
LEMMA DeleteOK ==
    ASSUME MapInv, NEW k \in Key, Delete(k)
    PROVE  MapInv' /\ Map!Delete(k)
<1>1. PICK f : f = Find(entries, size, k) /\ f.found
  BY DEF Delete
<1>2. PICK es : es = [entries EXCEPT ![f.at] = TombEntry]
  OBVIOUS
<1>3. /\ count # 0
      /\ count' = count - 1
      /\ \/ count = 1 /\ size' = 0 /\ entries' = Blank(0, EmptyEntry)
         \/ /\ count # 1
            /\ size' = ShrunkSize(count - 1)
            /\ entries' = IF ShrunkSize(count - 1) = size THEN es
                          ELSE Rehash(es, size, ShrunkSize(count - 1), EmptyEntry)
      /\ Watch
  BY <1>1, <1>2 DEF Delete
<1>4. PICK d : d = [x \in DOMAIN Contents \ {k} |-> Contents[x]]
  OBVIOUS
<1>5. PICK c \in Nat, n \in Nat : c = count - 1 /\ n = size /\ c < count /\ c < n
  BY <1>3 DEF MapInv, TypeOK
<1>6. k \in DOMAIN Contents /\ Array(es, n, c, d)
  BY <1>1, <1>2, <1>3, <1>4, <1>5, EntryRemoved
<1>7. MapInv' /\ Contents' = d
  <2>1. CASE count = 1
    <3>1. d = [x \in {} |-> 0]
      <4>1. Used(es, n) = {}
        <5>1. Probing(Key, Hash)!Used(es, n) = Used(es, n)
          BY SameProbing
        <5>2. IsFiniteSet(Used(es, n))
          BY <5>1, UsedOK
        <5>3. Cardinality(Used(es, n)) = 0
          BY <1>5, <1>6, <2>1 DEF Array
        <5> QED
          BY <5>2, <5>3, FS_EmptySet
      <4>2. d = Dict(es, n)
        BY <1>6 DEF Array
      <4>3. DOMAIN d = {}
        BY <4>1, <4>2 DEF Dict
      <4> QED
        BY <1>4, <4>3
    <3>2. PICK t : t = Blank(0, EmptyEntry)
      OBVIOUS
    <3>3. Array(t, 0, 0, d)
      BY <3>1, <3>2, EmptyArray
    <3>4. entries' = t /\ size' = 0 /\ count' = 0 /\ Watch
      BY <1>3, <2>1, <3>2
    <3> QED
      BY <3>3, <3>4, ArrayLeft
  <2>2. CASE count # 1
    <3>1. PICK m \in Nat : m = ShrunkSize(c) /\ c < m
      BY <1>5, ShrunkSizeOK
    <3>2. PICK t : t = IF m = size THEN es ELSE Rehash(es, n, m, EmptyEntry)
      OBVIOUS
    <3>3. Array(t, m, c, d)
      <4>1. CASE m = size
        BY <1>5, <1>6, <3>2, <4>1
      <4>2. CASE m # size
        <5>1. es \in [0..n-1 -> Entry] /\ Once(es, n) /\ Cardinality(Used(es, n)) = c /\ Dict(es, n) = d
          BY <1>6 DEF Array, Searchable
        <5>2. t = Rehash(es, n, m, EmptyEntry) /\ Cardinality(Used(es, n)) < m
          BY <3>1, <3>2, <4>2, <5>1
        <5>3. /\ Sound(Key, Hash, Entry, m, t)
              /\ Searchable(t, m)
              /\ Cardinality(Used(t, m)) = Cardinality(Used(es, n))
              /\ Dict(t, m) = Dict(es, n)
          BY <5>1, <5>2, MovedOK
        <5> QED
          BY <5>1, <5>3 DEF Array, Sound
      <4> QED
        BY <4>1, <4>2
    <3>4. entries' = t /\ size' = m /\ count' = c /\ Watch /\ c <= m
      BY <1>3, <1>5, <2>2, <3>1, <3>2
    <3> QED
      BY <3>1, <3>3, <3>4, ArrayLeft
  <2> QED
    BY <2>1, <2>2
<1> QED
  BY <1>4, <1>6, <1>7 DEF Map!Delete

\* Clearing is clearing (tea_map_clear).
LEMMA ClearOK ==
    ASSUME MapInv, Clear
    PROVE  MapInv' /\ Map!Clear
<1>1. PICK t : t = Blank(0, EmptyEntry)
  OBVIOUS
<1>2. PICK d : d = [k \in {} |-> 0]
  OBVIOUS
<1>3. entries' = t /\ size' = 0 /\ count' = 0 /\ Watch
  BY <1>1 DEF Clear
<1>4. Array(t, 0, 0, d)
  BY <1>1, <1>2, EmptyArray
<1>5. MapInv' /\ Contents' = d
  BY <1>3, <1>4, ArrayLeft
<1> QED
  BY <1>2, <1>5 DEF Map!Clear

-----------------------------------------------------------------------------
(* The specification                                                       *)

\* The empty map has no array.
LEMMA InitOK == Init => MapInv
<1> SUFFICES ASSUME Init PROVE MapInv
  OBVIOUS
<1>1. Array(entries, 0, 0, [k \in {} |-> 0])
  BY EmptyArray DEF Init
<1>2. size = 0 /\ count = 0 /\ entries \in [0..0-1 -> Entry] /\ Searchable(entries, 0)
      /\ Cardinality(Used(entries, 0)) = 0
  BY <1>1 DEF Init, Array
<1>3. loop \in [on : BOOLEAN, idx : Nat, key : Key \cup {Nil}, times : Nat]
  BY DEF Init, NoLoop
<1> QED
  BY <1>2, <1>3 DEF MapInv, TypeOK, CountOK

\* The first used entry from a place on is one, if there is one.
LEMMA FirstUsedOK ==
    ASSUME MapInv, NEW i \in Nat
    PROVE  /\ FirstUsed(i) \in Used(entries, size) \cup {size}
           /\ FirstUsed(i) # size => FirstUsed(i) >= i
           /\ \A j \in Used(entries, size) : j >= i => FirstUsed(i) <= j
           /\ FirstUsed(i) \in Nat
<1> DEFINE T == {j \in Used(entries, size) : j >= i} \cup {size}
<1>1. Used(entries, size) \subseteq 0..size-1 /\ size \in Nat
  BY DEF Used, MapInv, TypeOK
<1>2. T \in SUBSET Nat /\ T # {}
  BY <1>1
<1>3. \E x \in T : \A y \in T : x <= y
  BY <1>2, LeastNatural
<1>4. FirstUsed(i) \in T /\ \A y \in T : FirstUsed(i) <= y
  BY <1>3 DEF FirstUsed, Min
<1> QED
  BY <1>2, <1>4

\* The traversals leave the map alone.
LEMMA StartLoopOK ==
    ASSUME MapInv, NEW k \in Key, StartLoop(k)
    PROVE  MapInv' /\ UNCHANGED array
<1>1. /\ UNCHANGED array
      /\ loop' \in [on : BOOLEAN, idx : Nat, key : Key \cup {Nil}, times : Nat]
  BY DEF StartLoop
<1> QED
  BY <1>1 DEF MapInv, TypeOK, CountOK, array

\* A traversal does not change the map.
LEMMA StepLoopOK ==
    ASSUME MapInv, StepLoop
    PROVE  MapInv' /\ UNCHANGED array
<1>1. UNCHANGED array
  BY DEF StepLoop
<1>2. loop' \in [on : BOOLEAN, idx : Nat, key : Key \cup {Nil}, times : Nat]
  <2>1. loop \in [on : BOOLEAN, idx : Nat, key : Key \cup {Nil}, times : Nat]
    BY DEF MapInv, TypeOK
  <2>2. PICK i \in Nat : i = FirstUsed(loop.idx)
    BY <2>1, FirstUsedOK
  <2>3. loop' = NoLoop \/ Returns(i, i + 1)
    BY <2>2 DEF StepLoop
  <2>4. NoLoop \in [on : BOOLEAN, idx : Nat, key : Key \cup {Nil}, times : Nat]
    BY DEF NoLoop
  <2>5. ASSUME Returns(i, i + 1)
        PROVE  loop' \in [on : BOOLEAN, idx : Nat, key : Key \cup {Nil}, times : Nat]
    <3>1. PICK n \in Nat : n = IF entries[i].key = loop.key THEN loop.times + 1 ELSE loop.times
      BY <2>1
    <3>2. loop' = [loop EXCEPT !.idx = i + 1, !.times = n]
      BY <2>5, <3>1 DEF Returns
    <3>3. PICK j \in Nat : j = i + 1
      OBVIOUS
    <3>4. loop' = [loop EXCEPT !.idx = j, !.times = n]
      BY <3>2, <3>3
    <3> QED
      BY <2>1, <3>4
  <2> QED
    BY <2>3, <2>4, <2>5
<1> QED
  BY <1>1, <1>2 DEF MapInv, TypeOK, CountOK, array

\* Every step keeps the invariant and is a step of the dictionary or none.
LEMMA NextOK ==
    ASSUME MapInv, [Next]_vars
    PROVE  /\ MapInv'
           /\ \/ UNCHANGED array
              \/ \E k \in Key, v \in Value : Map!Set(k, v) /\ Set(k, v)
              \/ \E k \in Key : Map!Delete(k) /\ Delete(k)
              \/ Map!Clear /\ Clear
<1>1. ASSUME NEW k \in Key, NEW v \in Value, Set(k, v) PROVE MapInv' /\ Map!Set(k, v)
  BY <1>1, SetOK
<1>2. ASSUME NEW k \in Key, Delete(k) PROVE MapInv' /\ Map!Delete(k)
  BY <1>2, DeleteOK
<1>3. Clear => MapInv' /\ Map!Clear
  BY ClearOK
<1>4. ASSUME NEW k \in Key, StartLoop(k) PROVE MapInv' /\ UNCHANGED array
  BY <1>4, StartLoopOK
<1>5. StepLoop => MapInv' /\ UNCHANGED array
  BY StepLoopOK
<1>6. ASSUME UNCHANGED vars PROVE MapInv' /\ UNCHANGED array
  BY <1>6 DEF vars, array, MapInv, TypeOK, CountOK
<1> QED
  BY <1>1, <1>2, <1>3, <1>4, <1>5, <1>6 DEF Next

\* The invariant holds always.
LEMMA SpecInv == Spec => []MapInv
<1>1. MapInv /\ [Next]_vars => MapInv'
  BY NextOK
<1> QED
  BY <1>1, InitOK, PTL DEF Spec

\* The map is a dictionary: setting, deleting and clearing, with all the moving they
\* cause, do to the contents what the operations of the dictionary do.
THEOREM MapImplementsDictionary == Spec => MapIsDictionary
<1>1. MapInv /\ [Next]_vars =>
        [\/ UNCHANGED array
         \/ \E k \in Key, v \in Value : Map!Set(k, v) /\ Set(k, v)
         \/ \E k \in Key : Map!Delete(k) /\ Delete(k)
         \/ Map!Clear /\ Clear]_vars
  BY NextOK
<1> QED
  BY <1>1, SpecInv, PTL DEF Spec, MapIsDictionary

-----------------------------------------------------------------------------
(* Searches and tea_next                                                   *)

\* The answer to a search in the map's own array.
LEMMA SearchOK ==
    ASSUME MapInv, size # 0, NEW k \in Key, NEW f, f = Find(entries, size, k)
    PROVE  /\ f.at \in 0..size-1
           /\ f.found <=> \E i \in Used(entries, size) : entries[i].key = k
           /\ f.found => entries[f.at].key = k
           /\ ~f.found => entries[f.at].key \notin Key
<1>1. Sound(Key, Hash, Entry, size, entries) /\ HasRoom(Key, Hash, size, entries)
  BY ArrayOK
<1>2. f = Probing(Key, Hash)!Find(entries, size, k)
  BY SameFind
<1>3. AnswerFor(Key, Hash, size, entries, k, f)
  BY <1>1, <1>2, FindOK, HashOK
<1> QED
  BY <1>3, SameProbing DEF AnswerFor

\* A search finds exactly the keys that are in the map, each in one place, and for the
\* others a free one: map_find_entry loses no key behind a tombstone or a collision and
\* always ends.
THEOREM ProbingAlwaysFinds == Spec => []ProbingFinds
<1>1. ASSUME MapInv PROVE ProbingFinds
  <2>1. TypeOK
    BY <1>1 DEF MapInv
  <2>2. ASSUME NEW k \in Key, size > 0
        PROVE  LET f == Find(entries, size, k)
               IN  /\ f.found <=> k \in Keys
                   /\ ~f.found => f.at \in 0..size-1 /\ entries[f.at].key \notin Key
                   /\ Cardinality({i \in Used(entries, size) : entries[i].key = k}) <= 1
    <3> DEFINE f == Find(entries, size, k)
    <3>1. /\ f.found <=> \E i \in Used(entries, size) : entries[i].key = k
          /\ ~f.found => f.at \in 0..size-1 /\ entries[f.at].key \notin Key
      BY <1>1, <2>2, SearchOK
    <3>2. Cardinality({i \in Used(entries, size) : entries[i].key = k}) <= 1
      <4> DEFINE P == {i \in Used(entries, size) : entries[i].key = k}
      <4>1. CASE P = {}
        BY <4>1, FS_EmptySet
      <4>2. CASE P # {}
        <5>1. PICK a : a \in P
          BY <4>2
        <5>2. P = {a}
          BY <1>1, <5>1 DEF MapInv, Searchable, Once
        <5>3. Cardinality(P) = 1
          BY <5>2, FS_Singleton
        <5> QED
          BY <5>3
      <4> QED
        BY <4>1, <4>2
    <3> QED
      BY <3>1, <3>2 DEF Keys
  <2> QED
    BY <2>1, <2>2 DEF ProbingFinds
<1> QED
  BY <1>1, SpecInv, PTL

\* The place of a key that is in the map.
At(k) == CHOOSE i \in Used(entries, size) : entries[i].key = k

\* The position of a key is that of the entry which holds it (tea_map_next).
LEMMA KeyAt ==
    ASSUME MapInv, NEW i \in Used(entries, size)
    PROVE  /\ entries[i].key \in Key /\ entries[i].key # Nil
           /\ At(entries[i].key) = i
           /\ KeyIndex(entries[i].key) = i + 1
           /\ i \in 0..size-1 /\ size \in Nat
<1>1. PICK k : k = entries[i].key
  OBVIOUS
<1>2. k \in Key /\ i \in 0..size-1 /\ size \in Nat
  BY <1>1 DEF Used, MapInv, TypeOK
<1>3. \A j \in Used(entries, size) : entries[j].key = k => j = i
  BY <1>1 DEF MapInv, Searchable, Once
<1>4. At(k) = i
  BY <1>1, <1>3 DEF At
<1>5. KeyIndex(k) = i + 1
  <2>1. PICK f : f = Find(entries, size, k)
    OBVIOUS
  <2>2. size # 0
    BY <1>2
  <2>3. f.at \in 0..size-1 /\ entries[f.at].key = k
    BY <1>1, <1>2, <2>1, <2>2, SearchOK
  <2>4. f.at = i
    BY <1>2, <1>3, <2>3 DEF Used
  <2> QED
    BY <1>2, <2>1, <2>4, MapConstantsOK DEF KeyIndex
<1> QED
  BY <1>1, <1>2, <1>4, <1>5, MapConstantsOK

\* Each used entry, and the end, comes up behind some key or at the beginning.
LEMMA ComesUp ==
    ASSUME MapInv, NEW p \in Used(entries, size) \cup {size}
    PROVE  \E k \in Keys \cup {Nil} : FirstUsed(KeyIndex(k)) = p
<1> DEFINE U == Used(entries, size)
           B == {j \in U : j < p}
<1>1. U \subseteq 0..size-1 /\ size \in Nat /\ p \in Nat
  BY DEF Used, MapInv, TypeOK
<1>2. ASSUME NEW x \in Nat, \A j \in B : j < x, x <= p
      PROVE  FirstUsed(x) = p
  <2>1. PICK q \in U \cup {size} :
           /\ q = FirstUsed(x) /\ q \in Nat
           /\ q # size => q >= x
           /\ \A j \in U : j >= x => q <= j
    BY FirstUsedOK
  <2>2. CASE p \in U
    <3>1. q <= p
      BY <1>2, <2>1, <2>2
    <3>2. q # size
      BY <1>1, <2>2, <3>1
    <3>3. ~(q < p)
      BY <1>1, <1>2, <2>1, <3>2
    <3> QED
      BY <1>1, <2>1, <3>1, <3>3
  <2>3. CASE p = size
    BY <1>1, <1>2, <2>1, <2>3
  <2> QED
    BY <2>2, <2>3
<1>3. CASE B = {}
  <2>1. KeyIndex(Nil) = 0
    BY DEF KeyIndex
  <2> QED
    BY <1>1, <1>2, <1>3, <2>1
<1>4. CASE B # {}
  <2>1. PICK g \in B : \A j \in B : j <= g
    <3>1. B \in SUBSET (0..p)
      BY <1>1
    <3> HIDE DEF B
    <3> QED
      BY <1>1, <1>4, <3>1, GreatestNatural
  <2>2. KeyIndex(entries[g].key) = g + 1 /\ entries[g].key \in Keys
    BY KeyAt DEF Keys
  <2>3. FirstUsed(g + 1) = p
    <3>1. PICK x \in Nat : x = g + 1
      BY <1>1, <2>1
    <3>2. (\A j \in B : j < x) /\ x <= p
      BY <1>1, <2>1, <3>1
    <3> QED
      BY <1>2, <3>1, <3>2
  <2> QED
    BY <2>2, <2>3
<1> QED
  BY <1>3, <1>4

\* tea_next goes through all the keys, from nil back to nil, and forward in the array:
\* tea_map_next neither skips an entry nor comes to one again.
THEOREM NextAlwaysVisitsAll == Spec => []NextVisitsAll
<1>1. ASSUME MapInv PROVE NextVisitsAll
  <2> DEFINE From == Keys \cup {Nil}
  <2>1. ASSUME NEW k \in From
        PROVE  /\ NextKey(k) \in From
               /\ k \in Keys /\ NextKey(k) # Nil => At(NextKey(k)) > At(k)
    <3>1. KeyIndex(k) \in Nat
      <4>1. CASE k = Nil
        BY <4>1 DEF KeyIndex
      <4>2. CASE k \in Keys
        <5>1. PICK i \in Used(entries, size) : entries[i].key = k
          BY <4>2 DEF Keys
        <5> QED
          BY <1>1, <5>1, KeyAt
      <4> QED
        BY <4>1, <4>2
    <3>2. PICK x \in Nat : x = KeyIndex(k)
      BY <3>1
    <3>3. PICK q \in Used(entries, size) \cup {size} :
             q = FirstUsed(x) /\ (q # size => q >= x)
      BY <1>1, FirstUsedOK
    <3>4. NextKey(k) = IF q = size THEN Nil ELSE entries[q].key
      BY <3>2, <3>3 DEF NextKey
    <3>5. NextKey(k) \in From
      BY <3>3, <3>4 DEF Keys
    <3>6. ASSUME k \in Keys, NextKey(k) # Nil PROVE At(NextKey(k)) > At(k)
      <4>1. PICK i \in Used(entries, size) : entries[i].key = k
        BY <3>6 DEF Keys
      <4>2. At(k) = i /\ x = i + 1 /\ i \in Nat
        BY <1>1, <3>2, <4>1, KeyAt
      <4>3. q # size /\ q \in Used(entries, size) /\ NextKey(k) = entries[q].key
        BY <3>3, <3>4, <3>6
      <4>4. At(NextKey(k)) = q /\ q \in Nat
        BY <1>1, <4>3, KeyAt
      <4> QED
        BY <3>3, <4>2, <4>3, <4>4
    <3> QED
      BY <3>5, <3>6
  <2>2. ASSUME NEW a \in From PROVE \E k \in From : NextKey(k) = a
    <3>1. PICK p \in Used(entries, size) \cup {size} :
             a = IF p = size THEN Nil ELSE entries[p].key
      <4>1. CASE a = Nil
        BY <4>1
      <4>2. CASE a \in Keys
        <5>1. PICK i \in Used(entries, size) : entries[i].key = a
          BY <4>2 DEF Keys
        <5>2. i # size
          BY <1>1, <5>1, KeyAt
        <5> QED
          BY <5>1, <5>2
      <4> QED
        BY <4>1, <4>2
    <3>2. PICK k \in From : FirstUsed(KeyIndex(k)) = p
      BY <1>1, ComesUp
    <3> QED
      BY <3>1, <3>2 DEF NextKey
  <2>3. {NextKey(k) : k \in From} = From
    BY <2>1, <2>2
  <2> QED
    BY <2>1, <2>3 DEF NextVisitsAll, At
<1> QED
  BY <1>1, SpecInv, PTL

-----------------------------------------------------------------------------
(* Loops                                                                   *)

\* The key watched is in the map, and has come up exactly if the loop is past its entry.
LoopOK ==
    loop.on =>
        /\ loop.idx \in 0..size
        /\ \E i \in Used(entries, size) :
              /\ entries[i].key = loop.key
              /\ loop.times = IF i < loop.idx THEN 1 ELSE 0

\* The entry of the key stays where it is while the array does.
LEMMA LoopStays ==
    ASSUME LoopOK, Watch,
           \A i \in Used(entries, size) : size' = size /\ entries[i].key \in Keys' =>
              i \in Used(entries, size)' /\ entries'[i].key = entries[i].key
    PROVE  LoopOK'
<1>1. CASE loop' = loop /\ loop.on /\ size' = size /\ loop.key \in Keys'
  <2>1. PICK i \in Used(entries, size) :
           entries[i].key = loop.key /\ loop.times = IF i < loop.idx THEN 1 ELSE 0
    BY <1>1 DEF LoopOK
  <2>2. i \in Used(entries, size)' /\ entries'[i].key = loop.key
    BY <1>1, <2>1
  <2>3. loop.idx \in 0..size
    BY <1>1 DEF LoopOK
  <2> QED
    BY <1>1, <2>1, <2>2, <2>3 DEF LoopOK
<1>2. CASE loop' = NoLoop
  BY <1>2 DEF LoopOK, NoLoop
<1> QED
  BY <1>1, <1>2 DEF Watch

\* The watched key is returned once although the program sets keys.
LEMMA LoopSet ==
    ASSUME MapInv, LoopOK, NEW k \in Key, NEW v \in Value, Set(k, v)
    PROVE  LoopOK'
<1>1. Watch
  BY DEF Set
<1>2. ASSUME NEW i \in Used(entries, size), size' = size
      PROVE  i \in Used(entries, size)' /\ entries'[i].key = entries[i].key
  <2>1. i \in 0..size-1 /\ size \in Nat /\ entries[i].key \in Key
    BY DEF Used, MapInv, TypeOK
  <2>2. GrownSize = size
    BY <1>2 DEF Set
  <2>3. PICK f : f = Find(entries, size, k)
    OBVIOUS
  <2>4. PICK e : e = [key |-> k, val |-> v] /\ e.key = k
    <3>1. [key |-> k, val |-> v].key = k
      OBVIOUS
    <3> QED
      BY <3>1
  <2>5. entries' = [entries EXCEPT ![f.at] = e]
    BY <2>2, <2>3, <2>4 DEF Set
  <2>6. /\ f.found => entries[f.at].key = k
        /\ ~f.found => entries[f.at].key \notin Key
    BY <2>1, <2>3, SearchOK
  <2>7. \A j \in 0..size-1 : entries'[j] = IF j = f.at THEN e ELSE entries[j]
    <3>1. entries \in [0..size-1 -> Entry]
      BY DEF MapInv, TypeOK
    <3> QED
      BY <2>5, <3>1
  <2>8. entries'[i].key = entries[i].key
    BY <2>1, <2>4, <2>6, <2>7
  <2> QED
    BY <1>2, <2>1, <2>8 DEF Used
<1> QED
  BY <1>1, <1>2, LoopStays

\* The watched key is returned once although the program deletes others.
LEMMA LoopDelete ==
    ASSUME MapInv, LoopOK, NEW k \in Key, Delete(k)
    PROVE  LoopOK'
<1>1. Watch
  BY DEF Delete
<1>2. ASSUME NEW i \in Used(entries, size), size' = size, entries[i].key \in Keys'
      PROVE  i \in Used(entries, size)' /\ entries'[i].key = entries[i].key
  <2>1. i \in 0..size-1 /\ size \in Nat /\ size # 0 /\ entries[i].key \in Key
    BY DEF Used, MapInv, TypeOK
  <2>2. PICK f : f = Find(entries, size, k) /\ f.found
    BY DEF Delete
  <2>3. PICK es : es = [entries EXCEPT ![f.at] = TombEntry]
    OBVIOUS
  <2>4. entries' = es
    <3>1. count # 1
      BY <1>2, <2>1 DEF Delete
    <3>2. /\ size' = ShrunkSize(count - 1)
          /\ entries' = IF ShrunkSize(count - 1) = size THEN es
                        ELSE Rehash(es, size, ShrunkSize(count - 1), EmptyEntry)
      BY <2>2, <2>3, <3>1 DEF Delete
    <3> QED
      BY <1>2, <3>2
  <2>5. \A j \in 0..size-1 : entries'[j] = IF j = f.at THEN TombEntry ELSE entries[j]
    BY <2>3, <2>4 DEF MapInv, TypeOK
  <2>6. PICK j \in Used(entries, size)' : entries'[j].key = entries[i].key
    BY <1>2 DEF Keys
  <2>7. j \in 0..size-1 /\ j # f.at
    BY <1>2, <2>5, <2>6, EntriesKeyed, HashOK DEF Used, Tomb
  <2>8. j \in Used(entries, size) /\ entries[j].key = entries[i].key
    BY <2>1, <2>5, <2>6, <2>7 DEF Used
  <2>9. j = i
    BY <2>8 DEF MapInv, Searchable, Once
  <2> QED
    BY <2>6, <2>9
<1> QED
  BY <1>1, <1>2, LoopStays

\* Clearing the map keeps the invariant of the loop.
LEMMA LoopClear ==
    ASSUME MapInv, LoopOK, Clear
    PROVE  LoopOK'
<1>1. Watch /\ size' = 0
  BY DEF Clear
<1>2. size = 0 => Used(entries, size) = {}
  BY DEF Used
<1> QED
  BY <1>1, <1>2, LoopStays

\* When a loop starts nothing has been returned.
LEMMA LoopStart ==
    ASSUME MapInv, NEW k \in Key, StartLoop(k)
    PROVE  LoopOK'
<1>1. /\ loop'.idx = 0 /\ loop'.key = k /\ loop'.times = 0
      /\ k \in Keys /\ entries' = entries /\ size' = size
  BY DEF StartLoop, array
<1>2. PICK i \in Used(entries, size) : entries[i].key = k
  BY <1>1 DEF Keys
<1>3. ~(i < 0) /\ 0 \in 0..size
  BY DEF Used, MapInv, TypeOK
<1> QED
  BY <1>1, <1>2, <1>3 DEF LoopOK

\* One turn: the entry comes up when the loop gets to it, and the loop does not end before.
LEMMA LoopStep ==
    ASSUME MapInv, LoopOK, StepLoop
    PROVE  LoopOK' /\ IF loop'.on THEN loop'.times <= 1 ELSE loop.times = 1
<1>1. /\ loop.on /\ entries' = entries /\ size' = size
      /\ loop \in [on : BOOLEAN, idx : Nat, key : Key \cup {Nil}, times : Nat]
  BY DEF StepLoop, array, MapInv, TypeOK
<1>2. PICK i \in Used(entries, size) :
         entries[i].key = loop.key /\ loop.times = IF i < loop.idx THEN 1 ELSE 0
  BY <1>1 DEF LoopOK
<1>3. i \in 0..size-1 /\ size \in Nat
  BY DEF Used, MapInv, TypeOK
<1>4. PICK x \in Nat : x = loop.idx
  BY <1>1
<1>5. PICK q \in Nat : /\ q = FirstUsed(x)
                       /\ q \in Used(entries, size) \cup {size}
                       /\ q # size => q >= x
                       /\ \A j \in Used(entries, size) : j >= x => q <= j
  BY FirstUsedOK
<1>6. CASE x >= size \/ count = 0 \/ q = size
  <2>1. loop' = NoLoop
    BY <1>4, <1>5, <1>6 DEF StepLoop
  <2>2. count # 0
    <3>1. count = Cardinality(Used(entries, size)) /\ IsFiniteSet(Used(entries, size))
      BY ArrayOK DEF MapInv, CountOK
    <3> QED
      BY <1>2, <3>1, FS_EmptySet
  <2>3. i < x
    BY <1>3, <1>5, <1>6, <2>2
  <2>4. loop.times = 1
    BY <1>2, <1>4, <2>3
  <2> QED
    BY <2>1, <2>4 DEF NoLoop, LoopOK
<1>7. CASE ~(x >= size \/ count = 0 \/ q = size)
  <2>1. Returns(q, q + 1)
    BY <1>4, <1>5, <1>7 DEF StepLoop
  <2>2. PICK y \in Nat : y = q + 1
    OBVIOUS
  <2>3. PICK n \in Nat : n = IF entries[q].key = loop.key THEN loop.times + 1 ELSE loop.times
    BY <1>1
  <2>4. loop' = [loop EXCEPT !.idx = y, !.times = n]
    BY <2>1, <2>2, <2>3 DEF Returns
  <2>5. loop'.on /\ loop'.idx = y /\ loop'.key = loop.key /\ loop'.times = n
    BY <1>1, <2>4
  <2>6. q \in Used(entries, size) /\ q >= x /\ y \in 0..size
    <3>1. q \in Used(entries, size) /\ q >= x
      BY <1>5, <1>7
    <3>2. q \in 0..size-1
      BY <3>1 DEF Used
    <3> QED
      BY <1>3, <2>2, <3>1, <3>2
  <2>7. entries[q].key = loop.key <=> q = i
    BY <1>2, <2>6 DEF MapInv, Searchable, Once
  <2>8. n = IF i < y THEN 1 ELSE 0
    <3>1. CASE i = q
      <4>1. loop.times = 0
        BY <1>2, <1>3, <1>4, <2>6, <3>1
      <4> QED
        BY <2>2, <2>3, <2>7, <3>1, <4>1
    <3>2. CASE i # q
      <4>1. i < y <=> i < x
        BY <1>3, <1>5, <2>2, <2>6, <3>2
      <4> QED
        BY <1>2, <1>4, <2>3, <2>7, <3>2, <4>1
    <3> QED
      BY <3>1, <3>2
  <2>9. LoopOK'
    BY <1>1, <1>2, <2>5, <2>6, <2>8 DEF LoopOK
  <2> QED
    BY <2>5, <2>8, <2>9
<1> QED
  BY <1>6, <1>7

\* Loops return the keys that stay in the map exactly once, although other keys are set and
\* deleted between two turns, as long as the array is not replaced.
THEOREM LoopsComplete == Spec => LoopComplete
<1>1. Init => LoopOK
  BY DEF Init, NoLoop, LoopOK
<1>2. ASSUME MapInv, LoopOK, [Next]_vars PROVE LoopOK'
  <2>1. ASSUME NEW k \in Key, NEW v \in Value, Set(k, v) PROVE LoopOK'
    BY <1>2, <2>1, LoopSet
  <2>2. ASSUME NEW k \in Key, Delete(k) PROVE LoopOK'
    BY <1>2, <2>2, LoopDelete
  <2>3. Clear => LoopOK'
    BY <1>2, LoopClear
  <2>4. ASSUME NEW k \in Key, StartLoop(k) PROVE LoopOK'
    BY <1>2, <2>4, LoopStart
  <2>5. StepLoop => LoopOK'
    BY <1>2, LoopStep
  <2>6. UNCHANGED vars => LoopOK'
    BY <1>2 DEF vars, LoopOK, Used
  <2> QED
    BY <1>2, <2>1, <2>2, <2>3, <2>4, <2>5, <2>6 DEF Next
<1>3. Spec => []LoopOK
  BY <1>1, <1>2, SpecInv, PTL DEF Spec
<1>4. MapInv /\ LoopOK /\ [Next]_vars =>
        [loop.on /\ StepLoop => IF loop'.on THEN loop'.times <= 1 ELSE loop.times = 1]_vars
  BY LoopStep
<1> QED
  BY <1>3, <1>4, SpecInv, PTL DEF Spec, LoopComplete
=============================================================================
