---------------------------- MODULE TeaTabProofs ----------------------------
(***************************************************************************)
(* What TeaTab and TeaAttr promise, for any names, hash values, load limit *)
(* and histories.                                                          *)
(***************************************************************************)
EXTENDS TeaAttr, TeaLemmas

-----------------------------------------------------------------------------
(* The probing of TeaTab is the one the lemmas speak of.                   *)

\* The two name the same places.
LEMMA SameProbing ==
    /\ \A es, n : Used(es, n) = Probing(Key, Hash)!Used(es, n)
    /\ \A es, n : Searchable(es, n) <=> Probing(Key, Hash)!Searchable(es, n)
    /\ \A es, n : Once(es, n) <=> Probing(Key, Hash)!Once(es, n)
<1>1. \A es, n : Used(es, n) = Probing(Key, Hash)!Used(es, n)
  BY DEF Used, Probing!Used
<1>2. \A k, j, n : Slot(k, j, n) = Probing(Key, Hash)!Slot(k, j, n)
  BY DEF Slot, Probing!Slot
<1>3. \A es, n : Once(es, n) <=> Probing(Key, Hash)!Once(es, n)
  BY <1>1 DEF Once, Probing!Once
<1>4. \A es, n : Reached(es, n) <=> Probing(Key, Hash)!Reached(es, n)
  BY <1>1, <1>2 DEF Reached, Probing!Reached, Empty, Probing!Empty
<1> QED
  BY <1>1, <1>3, <1>4 DEF Searchable, Probing!Searchable

\* Searching
LEMMA SameFind == \A es, n, k : Find(es, n, k) = Probing(Key, Hash)!Find(es, n, k)
  BY DEF Find, Probing!Find, Slot, Probing!Slot, Min, Probing!Min, Empty, Probing!Empty, Tomb, Probing!Tomb

\* and moving are the same.
LEMMA SameRehash ==
    \A es, n, m, e : Rehash(es, n, m, e) = Probing(Key, Hash)!Rehash(es, n, m, e)
  BY DEF Rehash, Probing!Rehash, Blank, Probing!Blank, Find, Probing!Find, Slot, Probing!Slot,
         Min, Probing!Min, Empty, Probing!Empty, Tomb, Probing!Tomb

-----------------------------------------------------------------------------
(* The inductive invariant                                                 *)

Bare == {EmptyEntry, TombEntry}

\* The entries a table counts: tombstones are among them.
Filled(es, n) == {i \in 0..n-1 : es[i].key # Empty}

\* Array es of size n with c entries counted.  The counted entries leave room, so a search
\* comes to an empty entry; an entry without a key has nothing left of an earlier one.
ArrayOK(es, n, c) ==
    /\ n \in Nat
    /\ c = Cardinality(Filled(es, n))
    /\ n # 0 => c < n
    /\ es \in [0..n-1 -> Entry]
    /\ Searchable(es, n)
    /\ \A i \in 0..n-1 : es[i].key \in Key \/ es[i] \in Bare

TabOK(tab) ==
    /\ tab = [entries |-> tab.entries, size |-> tab.size, count |-> tab.count]
    /\ ArrayOK(tab.entries, tab.size, tab.count)

TabsInv ==
    /\ names \in Setups
    /\ tabs = [t \in DOMAIN names |-> tabs[t]]
    /\ \A t \in DOMAIN names : TabOK(tabs[t])

\* What an array stands for: its keys, and the entry of each.
KeysIn(es, n) == {es[i].key : i \in Used(es, n)}
EntryOf(es, n, k) == es[CHOOSE i \in Used(es, n) : es[i].key = k]

TabKeys(tab) == KeysIn(tab.entries, tab.size)
TabEntry(tab, k) == EntryOf(tab.entries, tab.size, k)

\* No entry is an accessor's.
Plain(tab) == \A k \in TabKeys(tab) : TabEntry(tab, k).flags = {}

\* Attributes are not accessors: tea_tab_set leaves the flags as they are, and sets none.
TabInv == TabsInv /\ ("attrs" \in Tables => Plain(tabs["attrs"]))

-----------------------------------------------------------------------------
(* Arrays                                                                  *)

\* Entries have the keys that searches expect.
LEMMA EntriesKeyed ==
    /\ Keyed(Key, Entry)
    /\ EmptyEntry \in Entry /\ EmptyEntry.key = "empty" /\ EmptyEntry.flags = {}
    /\ TombEntry \in Entry /\ TombEntry.key = "tombstone" /\ TombEntry.flags = {}
    /\ \A e \in Bare : e \in Entry /\ e.key \notin Key /\ e.flags = {}
<1>1. Key \cap {"empty", "tombstone"} = {}
  BY HashOK DEF Empty, Tomb
<1>2. Keyed(Key, Entry)
  BY <1>1 DEF Keyed, Entry, Empty, Tomb
<1>3. EmptyEntry \in Entry /\ EmptyEntry.key = "empty" /\ EmptyEntry.flags = {}
  BY DEF Entry, EmptyEntry, Empty
<1>4. TombEntry \in Entry /\ TombEntry.key = "tombstone" /\ TombEntry.flags = {}
  BY DEF Entry, TombEntry, Tomb
<1> QED
  BY <1>1, <1>2, <1>3, <1>4 DEF Bare

\* A used entry is the one of its key.
Indexed(es, n) ==
    /\ \A i \in Used(es, n) : es[i].key \in KeysIn(es, n) /\ EntryOf(es, n, es[i].key) = es[i]
    /\ \A k \in KeysIn(es, n) : \E i \in Used(es, n) : es[i].key = k /\ EntryOf(es, n, k) = es[i]

\* That is so when no key has two entries.
LEMMA EntryOfIs ==
    ASSUME NEW es, NEW n, Once(es, n)
    PROVE  Indexed(es, n)
<1>1. ASSUME NEW i \in Used(es, n) PROVE EntryOf(es, n, es[i].key) = es[i]
  <2>1. PICK k : k = es[i].key
    OBVIOUS
  <2>2. \A j \in Used(es, n) : es[j].key = k => j = i
    BY <2>1 DEF Once
  <2>3. (CHOOSE j \in Used(es, n) : es[j].key = k) = i
    BY <2>1, <2>2
  <2> QED
    BY <2>1, <2>3 DEF EntryOf
<1> QED
  BY <1>1 DEF KeysIn, Indexed

\* Array r of size m has the keys and entries of es of size n.
SameArray(es, n, r, m) ==
    /\ KeysIn(r, m) = KeysIn(es, n)
    /\ \A k \in KeysIn(es, n) : EntryOf(r, m, k) = EntryOf(es, n, k)

\* That is so if they have the same used entries.
LEMMA SameArrayIs ==
    ASSUME NEW es, NEW n, NEW r, NEW m, Once(es, n), Once(r, m),
           \A i \in Used(es, n) : \E j \in Used(r, m) : r[j] = es[i],
           \A j \in Used(r, m) : \E i \in Used(es, n) : es[i] = r[j]
    PROVE  SameArray(es, n, r, m)
<1>1. ASSUME NEW k \in KeysIn(es, n) PROVE k \in KeysIn(r, m) /\ EntryOf(r, m, k) = EntryOf(es, n, k)
  <2>1. PICK i \in Used(es, n) : es[i].key = k /\ EntryOf(es, n, k) = es[i]
    BY EntryOfIs DEF Indexed
  <2>2. PICK j \in Used(r, m) : r[j] = es[i]
    OBVIOUS
  <2>3. r[j].key = k /\ r[j].key \in KeysIn(r, m) /\ EntryOf(r, m, r[j].key) = r[j]
    BY <2>1, <2>2, EntryOfIs DEF Indexed
  <2> QED
    BY <2>1, <2>2, <2>3
<1>2. ASSUME NEW k \in KeysIn(r, m) PROVE k \in KeysIn(es, n)
  <2>1. PICK j \in Used(r, m) : r[j].key = k
    BY DEF KeysIn
  <2>2. PICK i \in Used(es, n) : es[i] = r[j]
    OBVIOUS
  <2> QED
    BY <2>1, <2>2 DEF KeysIn
<1> QED
  BY <1>1, <1>2 DEF SameArray

\* The counted entries: at least the used ones, at most all.
LEMMA FilledOK ==
    ASSUME NEW es, NEW n \in Nat
    PROVE  /\ Filled(es, n) \subseteq 0..n-1 /\ IsFiniteSet(Filled(es, n))
           /\ Cardinality(Filled(es, n)) \in 0..n
           /\ Used(es, n) \subseteq Filled(es, n) /\ IsFiniteSet(Used(es, n))
           /\ Cardinality(Used(es, n)) \in Nat
           /\ Cardinality(Used(es, n)) <= Cardinality(Filled(es, n))
           /\ Cardinality(Filled(es, n)) < n => \E i \in 0..n-1 : es[i].key = Empty
<1>1. Filled(es, n) \subseteq 0..n-1
  BY DEF Filled
<1>2. Used(es, n) \subseteq Filled(es, n)
  BY HashOK DEF Used, Filled
<1>3. IsFiniteSet(0..n-1) /\ Cardinality(0..n-1) = n
  <2>1. 0 \in Int /\ n-1 \in Int /\ (0 > n-1 => n = 0) /\ (n-1)-0+1 = n
    OBVIOUS
  <2> QED
    BY <2>1, FS_Interval
<1>4. IsFiniteSet(Filled(es, n)) /\ Cardinality(Filled(es, n)) \in Nat /\ Cardinality(Filled(es, n)) <= n
  BY <1>1, <1>3, FS_Subset, FS_CardinalityType
<1>5. /\ IsFiniteSet(Used(es, n)) /\ Cardinality(Used(es, n)) \in Nat
      /\ Cardinality(Used(es, n)) <= Cardinality(Filled(es, n))
  BY <1>2, <1>4, FS_Subset, FS_CardinalityType
<1>6. Filled(es, n) = 0..n-1 \/ \E i \in 0..n-1 : es[i].key = Empty
  BY DEF Filled
<1>7. Filled(es, n) = 0..n-1 => ~(Cardinality(Filled(es, n)) < n)
  BY <1>3
<1>8. Cardinality(Filled(es, n)) \in 0..n
  BY <1>4
<1> QED
  BY <1>1, <1>2, <1>4, <1>5, <1>6, <1>7, <1>8

\* An array in the terms of the lemmas.
LEMMA ArraySound ==
    ASSUME NEW es, NEW n, NEW c, ArrayOK(es, n, c), n # 0
    PROVE  /\ Sound(Key, Hash, Entry, n, es) /\ HasRoom(Key, Hash, n, es) /\ n \in Nat
           /\ \E i \in 0..n-1 : es[i].key = Empty
           /\ c \in Nat /\ Once(es, n)
<1>1. n \in Nat /\ n # 0 /\ es \in [0..n-1 -> Entry] /\ Searchable(es, n)
      /\ c = Cardinality(Filled(es, n)) /\ c < n
  BY DEF ArrayOK
<1>2. \E i \in 0..n-1 : es[i].key = Empty
  BY <1>1, FilledOK
<1>3. HasRoom(Key, Hash, n, es)
  BY <1>2, HashOK, SameProbing DEF HasRoom, Used
<1>4. c \in Nat
  BY <1>1, FilledOK
<1> QED
  BY <1>1, <1>2, <1>3, <1>4, EntriesKeyed, SameProbing DEF Sound, Searchable

\* A search comes to the entry of the key, or to one that has no key.
Answers(es, n, k, f) ==
    /\ AnswerFor(Key, Hash, n, es, k, f)
    /\ f.at \in 0..n-1 /\ f.found \in BOOLEAN
    /\ f.found <=> k \in KeysIn(es, n)
    /\ f.found => f.at \in Used(es, n) /\ es[f.at] = EntryOf(es, n, k) /\ es[f.at].key = k
    /\ ~f.found => es[f.at] \in Bare /\ es[f.at].key \notin Key

\* That is what tab_findkey does.
LEMMA SearchOK ==
    ASSUME NEW es, NEW n, NEW c, ArrayOK(es, n, c), n # 0, NEW k \in Key, NEW f, f = Find(es, n, k)
    PROVE  Answers(es, n, k, f)
<1>1. Sound(Key, Hash, Entry, n, es) /\ HasRoom(Key, Hash, n, es) /\ Once(es, n)
  BY ArraySound
<1>2. f = Probing(Key, Hash)!Find(es, n, k)
  BY SameFind
<1>3. AnswerFor(Key, Hash, n, es, k, f)
  BY <1>1, <1>2, FindOK, HashOK
<1>4. /\ f.at \in 0..n-1
      /\ f.found <=> \E i \in Used(es, n) : es[i].key = k
      /\ f.found => es[f.at].key = k
      /\ ~f.found => es[f.at].key \notin Key
  BY <1>3, SameProbing DEF AnswerFor
<1>5. f.found \in BOOLEAN
  BY DEF Find
<1>6. f.found <=> k \in KeysIn(es, n)
  BY <1>4, <1>5 DEF KeysIn
<1>7. f.found => f.at \in Used(es, n)
  BY <1>4 DEF Used
<1>8. f.found => es[f.at] = EntryOf(es, n, k)
  BY <1>1, <1>4, <1>7, EntryOfIs DEF Indexed
<1>9. ~f.found => es[f.at] \in Bare
  BY <1>4 DEF ArrayOK
<1> QED
  BY <1>3, <1>4, <1>5, <1>6, <1>7, <1>8, <1>9 DEF Answers

-----------------------------------------------------------------------------
(* Writing, removing and moving entries                                    *)

\* Array t is es with e as the entry of k.
Written(es, n, k, e, t, m) ==
    /\ KeysIn(t, m) = KeysIn(es, n) \cup {k}
    /\ EntryOf(t, m, k) = e
    /\ \A x \in KeysIn(es, n) \ {k} : EntryOf(t, m, x) = EntryOf(es, n, x)

\* There is room for an entry at a.
Free(es, n, c, a) == es[a].key = Empty => c + 1 < n

\* An entry is written where the search for its key ended; one that was empty counts now.
LEMMA WriteOK ==
    ASSUME NEW es, NEW n, NEW c, ArrayOK(es, n, c), n # 0, NEW k \in Key, NEW f, f = Find(es, n, k),
           Free(es, n, c, f.at),
           NEW e \in Entry, e.key = k, NEW t, t = [es EXCEPT ![f.at] = e],
           NEW d, d = IF es[f.at].key = Empty THEN c + 1 ELSE c
    PROVE  ArrayOK(t, n, d) /\ Written(es, n, k, e, t, n)
<1>1. Answers(es, n, k, f)
  BY SearchOK
<1>2. PICK a : a = f.at
  OBVIOUS
<1>3. AnswerFor(Key, Hash, n, es, k, f) /\ a \in 0..n-1
  BY <1>1, <1>2 DEF Answers
<1>4. Sound(Key, Hash, Entry, n, es) /\ Once(es, n) /\ n \in Nat /\ c \in Nat
  BY ArraySound
<1>5. Stored(Key, Hash, Entry, n, es, k, e, f.at, t)
  <2>1. e.key = k /\ t = [es EXCEPT ![f.at] = e]
    OBVIOUS
  <2> QED
    BY <1>3, <1>4, <2>1, HashOK, EntryPut
<1>6. /\ Sound(Key, Hash, Entry, n, t)
      /\ Used(t, n) = Used(es, n) \cup {a}
      /\ t[a] = e
      /\ \A i \in 0..n-1 : i # a => t[i] = es[i]
      /\ \A i \in Used(es, n) : i # a => es[i].key # k
  BY <1>2, <1>5, SameProbing DEF Stored
<1>7. Searchable(t, n) /\ Indexed(t, n) /\ t \in [0..n-1 -> Entry]
  <2>1. Searchable(t, n) /\ Once(t, n) /\ t \in [0..n-1 -> Entry]
    BY <1>6, SameProbing DEF Sound, Searchable
  <2> QED
    BY <2>1, EntryOfIs
<1>8. k # Empty /\ t[a].key = k
  BY <1>6, HashOK
<1>9. Filled(t, n) = Filled(es, n) \cup {a}
  <2>1. \A i \in 0..n-1 : i \in Filled(t, n) <=> i \in Filled(es, n) \/ i = a
    BY <1>6, <1>8 DEF Filled
  <2> QED
    BY <1>3, <2>1 DEF Filled
<1>10. d = Cardinality(Filled(t, n)) /\ d < n
  <2>1. IsFiniteSet(Filled(es, n)) /\ c = Cardinality(Filled(es, n)) /\ c < n
    BY <1>4, FilledOK DEF ArrayOK
  <2>2. CASE es[a].key = Empty
    <3>1. a \notin Filled(es, n) /\ d = c + 1 /\ c + 1 < n
      BY <1>2, <2>2 DEF Filled, Free
    <3>2. Cardinality(Filled(es, n) \cup {a}) = Cardinality(Filled(es, n)) + 1
      BY <2>1, <3>1, FS_AddElement
    <3> QED
      BY <1>9, <2>1, <3>1, <3>2
  <2>3. CASE es[a].key # Empty
    <3>1. a \in Filled(es, n) /\ d = c
      BY <1>2, <1>3, <2>3 DEF Filled
    <3>2. Filled(t, n) = Filled(es, n)
      BY <1>9, <3>1
    <3> QED
      BY <2>1, <3>1, <3>2
  <2> QED
    BY <2>2, <2>3
<1>11. \A i \in 0..n-1 : t[i].key \in Key \/ t[i] \in Bare
  BY <1>6, <1>8 DEF ArrayOK
<1>12. ArrayOK(t, n, d)
  BY <1>4, <1>7, <1>10, <1>11 DEF ArrayOK
<1>13. Used(es, n) \subseteq 0..n-1 /\ a \in Used(t, n)
  BY <1>6 DEF Used
<1>14. EntryOf(t, n, k) = e /\ k \in KeysIn(t, n)
  <2>1. t[a].key \in KeysIn(t, n) /\ EntryOf(t, n, t[a].key) = t[a]
    BY <1>7, <1>13 DEF Indexed
  <2> QED
    BY <1>6, <1>8, <2>1
<1>15. ASSUME NEW x \in KeysIn(es, n) \ {k} PROVE x \in KeysIn(t, n) /\ EntryOf(t, n, x) = EntryOf(es, n, x)
  <2>1. PICK i \in Used(es, n) : es[i].key = x /\ EntryOf(es, n, x) = es[i]
    BY <1>4, EntryOfIs DEF Indexed
  <2>2. i # a
    <3>1. f.found => es[a].key = k
      BY <1>1, <1>2 DEF Answers
    <3>2. ~f.found => es[a].key \notin Key
      BY <1>1, <1>2 DEF Answers
    <3>3. i = a => es[a].key = x /\ x # k /\ x \in Key
      BY <2>1 DEF Used
    <3> QED
      BY <1>1, <3>1, <3>2, <3>3 DEF Answers
  <2>3. i \in Used(t, n) /\ t[i] = es[i]
    BY <1>6, <1>13, <2>2
  <2>4. t[i].key \in KeysIn(t, n) /\ EntryOf(t, n, t[i].key) = t[i]
    BY <1>7, <2>3 DEF Indexed
  <2> QED
    BY <2>1, <2>3, <2>4
<1>16. ASSUME NEW x \in KeysIn(t, n), x # k PROVE x \in KeysIn(es, n)
  <2>1. PICK i \in Used(t, n) : t[i].key = x
    BY DEF KeysIn
  <2>2. i # a /\ i \in Used(es, n) /\ t[i] = es[i]
    BY <1>6, <1>8, <1>13, <1>16, <2>1
  <2> QED
    BY <2>1, <2>2 DEF KeysIn
<1>17. KeysIn(t, n) = KeysIn(es, n) \cup {k}
  BY <1>14, <1>15, <1>16
<1> QED
  BY <1>12, <1>14, <1>15, <1>17 DEF Written

\* Array t is es without the entry of k.
Without(es, n, k, t, m) ==
    /\ KeysIn(t, m) = KeysIn(es, n) \ {k}
    /\ \A x \in KeysIn(t, m) : EntryOf(t, m, x) = EntryOf(es, n, x)

\* A tombstone takes the place of an entry and counts like it.
LEMMA TombstoneOK ==
    ASSUME NEW es, NEW n, NEW c, ArrayOK(es, n, c), n # 0, NEW k \in Key, NEW f, f = Find(es, n, k),
           k \in KeysIn(es, n), NEW t, t = [es EXCEPT ![f.at] = TombEntry]
    PROVE  ArrayOK(t, n, c) /\ Without(es, n, k, t, n)
<1>1. Answers(es, n, k, f)
  BY SearchOK
<1>2. PICK a : a = f.at /\ a \in Used(es, n) /\ a \in 0..n-1 /\ es[a].key = k
  BY <1>1 DEF Answers
<1>3. Sound(Key, Hash, Entry, n, es) /\ Once(es, n) /\ n \in Nat /\ c \in Nat
  BY ArraySound
<1>4. PICK e \in Entry : e = TombEntry /\ e.key = "tombstone"
  BY EntriesKeyed
<1>5. Removed(Key, Hash, Entry, n, es, a, t)
  <2>1. e.key = "tombstone" /\ t = [es EXCEPT ![a] = e] /\ Hash \in [Key -> Nat]
    BY <1>2, <1>4, HashOK
  <2> QED
    BY <1>2, <1>3, <2>1, RemoveOK
<1>6. /\ Sound(Key, Hash, Entry, n, t)
      /\ Used(t, n) = Used(es, n) \ {a}
      /\ \A i \in 0..n-1 : i # a => t[i] = es[i]
  BY <1>5, SameProbing DEF Removed
<1>7. Searchable(t, n) /\ Indexed(t, n) /\ t \in [0..n-1 -> Entry]
  <2>1. Searchable(t, n) /\ Once(t, n) /\ t \in [0..n-1 -> Entry]
    BY <1>6, SameProbing DEF Sound, Searchable
  <2> QED
    BY <2>1, EntryOfIs
<1>8. t[a] = TombEntry /\ t[a].key # Empty
  <2>1. t[a] = TombEntry
    BY <1>2, <1>3 DEF Sound
  <2> QED
    BY <2>1, EntriesKeyed DEF Empty
<1>9. Filled(t, n) = Filled(es, n)
  <2>1. a \in Filled(es, n)
    BY <1>2, HashOK DEF Filled
  <2>2. \A i \in 0..n-1 : i \in Filled(t, n) <=> i \in Filled(es, n)
    BY <1>6, <1>8, <2>1 DEF Filled
  <2> QED
    BY <2>2 DEF Filled
<1>10. ArrayOK(t, n, c)
  <2>1. \A i \in 0..n-1 : t[i].key \in Key \/ t[i] \in Bare
    BY <1>6, <1>8 DEF ArrayOK, Bare
  <2> QED
    BY <1>3, <1>7, <1>9, <2>1 DEF ArrayOK
<1>11. Used(es, n) \subseteq 0..n-1
  BY DEF Used
<1>12. \A i \in Used(es, n) : es[i].key = k => i = a
  BY <1>2, <1>3 DEF Once
<1>13. ASSUME NEW x \in KeysIn(es, n), x # k PROVE x \in KeysIn(t, n) /\ EntryOf(t, n, x) = EntryOf(es, n, x)
  <2>1. PICK i \in Used(es, n) : es[i].key = x /\ EntryOf(es, n, x) = es[i]
    BY <1>3, EntryOfIs DEF Indexed
  <2>2. i # a
    BY <1>2, <1>13, <2>1
  <2>3. i \in Used(t, n) /\ t[i] = es[i]
    BY <1>6, <1>11, <2>2
  <2>4. t[i].key \in KeysIn(t, n) /\ EntryOf(t, n, t[i].key) = t[i]
    BY <1>7, <2>3 DEF Indexed
  <2> QED
    BY <2>1, <2>3, <2>4
<1>14. ASSUME NEW x \in KeysIn(t, n) PROVE x \in KeysIn(es, n) /\ x # k
  <2>1. PICK i \in Used(t, n) : t[i].key = x
    BY DEF KeysIn
  <2>2. i # a /\ i \in Used(es, n) /\ t[i] = es[i]
    BY <1>6, <1>11, <2>1
  <2> QED
    BY <1>12, <2>1, <2>2 DEF KeysIn
<1> QED
  BY <1>10, <1>13, <1>14 DEF Without

\* tea_tab_set makes room for one entry more.
LEMMA GrownSizeOK ==
    ASSUME NEW tab, TabOK(tab), NEW m, m = GrownSize(tab)
    PROVE  m \in Nat /\ tab.count \in Nat /\ tab.count + 1 < m
<1>1. PICK n \in Nat, c \in Nat : n = tab.size /\ c = tab.count /\ (n # 0 => c < n) /\ c <= n
  <2>1. tab.size \in Nat /\ tab.count = Cardinality(Filled(tab.entries, tab.size))
        /\ (tab.size # 0 => tab.count < tab.size)
    BY DEF TabOK, ArrayOK
  <2>2. tab.count \in 0..tab.size
    BY <2>1, FilledOK
  <2> QED
    BY <2>1, <2>2
<1>2. MinSize \in Nat /\ MinSize >= 2 /\ (MaxLoad = 1 \/ MaxLoad = 2 \/ MaxLoad = 3)
  BY TabConstantsOK
<1>3. m = IF 4 * (c + 1) > MaxLoad * n THEN (IF n < MinSize THEN MinSize ELSE 2 * n) ELSE n
  BY <1>1 DEF GrownSize
<1>4. CASE 4 * (c + 1) > MaxLoad * n
  <2>1. CASE n < MinSize
    <3>1. m = MinSize
      BY <1>3, <1>4, <2>1
    <3> QED
      BY <1>1, <1>2, <2>1, <3>1
  <2>2. CASE ~(n < MinSize)
    <3>1. m = 2 * n
      BY <1>3, <1>4, <2>2
    <3> QED
      BY <1>1, <1>2, <2>2, <3>1
  <2> QED
    BY <2>1, <2>2
<1>5. CASE ~(4 * (c + 1) > MaxLoad * n)
  <2>1. m = n
    BY <1>3, <1>5
  <2>2. 4 * (c + 1) <= 3 * n
    <3>1. CASE MaxLoad = 1
      BY <1>5, <3>1
    <3>2. CASE MaxLoad = 2
      BY <1>5, <3>2
    <3>3. CASE MaxLoad = 3
      BY <1>5, <3>3
    <3> QED
      BY <1>2, <3>1, <3>2, <3>3
  <2> QED
    BY <1>1, <2>1, <2>2
<1> QED
  BY <1>4, <1>5

\* tab_resize: the new array has the old keys and entries and no tombstones.
LEMMA MovedOK ==
    ASSUME NEW es, NEW n, NEW c, ArrayOK(es, n, c), NEW m \in Nat, c < m,
           NEW r, r = Rehash(es, n, m, EmptyEntry)
    PROVE  ArrayOK(r, m, Cardinality(Used(es, n))) /\ SameArray(es, n, r, m)
<1>1. n \in Nat /\ es \in [0..n-1 -> Entry] /\ Searchable(es, n) /\ Once(es, n)
      /\ c = Cardinality(Filled(es, n))
  BY DEF ArrayOK, Searchable
<1>2. PICK u \in Nat : u = Cardinality(Used(es, n)) /\ u < m
  <2>1. Cardinality(Used(es, n)) \in Nat /\ Cardinality(Used(es, n)) <= c /\ c \in 0..n
    BY <1>1, FilledOK
  <2> QED
    BY <2>1
<1>3. Rehashed(Key, Hash, Entry, n, es, m, EmptyEntry, r)
  <2>1. Probing(Key, Hash)!Once(es, n) /\ Cardinality(Probing(Key, Hash)!Used(es, n)) < m
    BY <1>1, <1>2, SameProbing
  <2>2. r = Probing(Key, Hash)!Rehash(es, n, m, EmptyEntry)
    BY SameRehash
  <2> QED
    BY <1>1, <2>1, <2>2, EntriesKeyed, HashOK, RehashOK
<1>4. Sound(Key, Hash, Entry, m, r) /\ SameEntries(Key, Hash, n, es, m, r)
  BY <1>3 DEF Rehashed
<1>5. /\ \A i \in Used(es, n) : \E j \in Used(r, m) : r[j] = es[i]
      /\ \A j \in Used(r, m) : \E i \in Used(es, n) : es[i] = r[j]
      /\ Cardinality(Used(r, m)) = u
      /\ \A j \in 0..m-1 : j \in Used(r, m) \/ r[j] = EmptyEntry
  BY <1>2, <1>3, <1>4, SameProbing DEF SameEntries, Rehashed
<1>6. Searchable(r, m) /\ Once(r, m) /\ r \in [0..m-1 -> Entry]
  BY <1>4, SameProbing DEF Sound, Searchable
<1>7. Filled(r, m) = Used(r, m)
  <2>1. Used(r, m) \subseteq Filled(r, m)
    BY FilledOK
  <2>2. \A j \in Filled(r, m) : j \in Used(r, m)
    BY <1>5, EntriesKeyed DEF Filled, Empty
  <2> QED
    BY <2>1, <2>2
<1>8. \A i \in 0..m-1 : r[i].key \in Key \/ r[i] \in Bare
  BY <1>5 DEF Used, Bare
<1>9. ArrayOK(r, m, u)
  BY <1>2, <1>5, <1>6, <1>7, <1>8 DEF ArrayOK
<1>10. SameArray(es, n, r, m)
  BY <1>1, <1>5, <1>6, SameArrayIs
<1> QED
  BY <1>2, <1>9, <1>10

-----------------------------------------------------------------------------
(* Tables                                                                  *)

\* The search for a key in a table tells whether it has the key.
LEMMA HoldsOK ==
    ASSUME NEW tab, TabOK(tab), NEW k \in Key
    PROVE  /\ Holds(tab, k) <=> k \in TabKeys(tab)
           /\ Holds(tab, k) => tab.entries[Find(tab.entries, tab.size, k).at] = TabEntry(tab, k)
<1>1. ArrayOK(tab.entries, tab.size, tab.count) /\ tab.size \in Nat
  BY DEF TabOK, ArrayOK
<1>2. CASE tab.size = 0
  <2>1. Used(tab.entries, tab.size) = {}
    BY <1>2 DEF Used
  <2> QED
    BY <1>2, <2>1 DEF Holds, TabKeys, KeysIn
<1>3. CASE tab.size # 0
  <2>1. PICK f : f = Find(tab.entries, tab.size, k)
    OBVIOUS
  <2>2. Answers(tab.entries, tab.size, k, f)
    BY <1>1, <1>3, <2>1, SearchOK
  <2>3. tab.size > 0
    BY <1>1, <1>3
  <2> QED
    BY <2>1, <2>2, <2>3 DEF Holds, TabKeys, TabEntry, Answers
<1> QED
  BY <1>2, <1>3

\* Making room keeps the keys and entries, and there is room for one more.
LEMMA GrownOK ==
    ASSUME NEW tab, TabOK(tab), NEW g, g = Grown(tab)
    PROVE  /\ TabOK(g) /\ g.size # 0 /\ g.count + 1 < g.size
           /\ SameArray(tab.entries, tab.size, g.entries, g.size)
<1>1. PICK m \in Nat : m = GrownSize(tab) /\ tab.count \in Nat /\ tab.count + 1 < m
  BY GrownSizeOK
<1>2. CASE m = tab.size
  <2>1. g = tab
    BY <1>1, <1>2 DEF Grown
  <2> QED
    BY <1>1, <1>2, <2>1 DEF SameArray
<1>3. CASE m # tab.size
  <2>1. PICK r : r = Rehash(tab.entries, tab.size, m, EmptyEntry)
    OBVIOUS
  <2>2. PICK u : u = Cardinality(Used(tab.entries, tab.size))
    OBVIOUS
  <2>3. g = [entries |-> r, size |-> m, count |-> u]
    BY <1>1, <1>3, <2>1, <2>2 DEF Grown
  <2>4. g.entries = r /\ g.size = m /\ g.count = u
    BY <2>3
  <2>5. ArrayOK(tab.entries, tab.size, tab.count) /\ tab.count < m
    BY <1>1 DEF TabOK
  <2>6. ArrayOK(r, m, u) /\ SameArray(tab.entries, tab.size, r, m)
    BY <2>1, <2>2, <2>5, MovedOK
  <2>7. u \in Nat /\ u + 1 < m
    <3>1. /\ Cardinality(Used(tab.entries, tab.size)) \in Nat
          /\ Cardinality(Used(tab.entries, tab.size)) <= Cardinality(Filled(tab.entries, tab.size))
      BY <2>5, FilledOK DEF ArrayOK
    <3>2. u \in Nat /\ u <= tab.count
      BY <2>2, <2>5, <3>1 DEF ArrayOK
    <3> QED
      BY <1>1, <3>2
  <2> QED
    BY <2>3, <2>4, <2>6, <2>7 DEF TabOK
<1> QED
  BY <1>2, <1>3

\* What was there under a key: its entry, or one without a key.
Old(tab, k, o) ==
    /\ o \in Entry
    /\ IF k \in TabKeys(tab) THEN o = TabEntry(tab, k) ELSE o \in Bare

\* Table t is tab with e as the entry of k.
TabWritten(tab, k, e, t) == TabOK(t) /\ Written(tab.entries, tab.size, k, e, t.entries, t.size)

\* WithEntry, whatever becomes of the entry: o is made e.
LEMMA WithEntryOK ==
    ASSUME NEW tab, TabOK(tab), NEW k \in Key, NEW g, g = Grown(tab),
           NEW at, at = Find(g.entries, g.size, k).at, NEW o, o = g.entries[at],
           NEW e \in Entry, e.key = k,
           NEW t, t = [entries |-> [g.entries EXCEPT ![at] = e], size |-> g.size,
                       count |-> IF o.key = Empty THEN g.count + 1 ELSE g.count]
    PROVE  TabWritten(tab, k, e, t)
<1>1. TabOK(g) /\ g.size # 0 /\ g.count + 1 < g.size
      /\ SameArray(tab.entries, tab.size, g.entries, g.size)
  BY GrownOK
<1>2. PICK es : es = g.entries
  OBVIOUS
<1>3. PICK n : n = g.size
  OBVIOUS
<1>4. PICK c : c = g.count
  OBVIOUS
<1>5. ArrayOK(es, n, c) /\ n # 0 /\ c + 1 < n /\ SameArray(tab.entries, tab.size, es, n)
  BY <1>1, <1>2, <1>3, <1>4 DEF TabOK
<1>6. PICK f : f = Find(es, n, k)
  OBVIOUS
<1>7. PICK s : s = [es EXCEPT ![f.at] = e]
  OBVIOUS
<1>8. PICK d : d = IF es[f.at].key = Empty THEN c + 1 ELSE c
  OBVIOUS
<1>9. t = [entries |-> s, size |-> n, count |-> d]
  BY <1>2, <1>3, <1>4, <1>6, <1>7, <1>8
<1>10. t.entries = s /\ t.size = n /\ t.count = d
  BY <1>9
<1>11. e.key = k
  OBVIOUS
<1>12. ArrayOK(s, n, d) /\ Written(es, n, k, e, s, n)
  <2>1. Free(es, n, c, f.at)
    BY <1>5 DEF Free
  <2>2. ArrayOK(es, n, c) /\ n # 0
    BY <1>5
  <2> QED
    BY <1>6, <1>7, <1>8, <1>11, <2>1, <2>2, WriteOK
<1>13. TabOK(t)
  BY <1>9, <1>10, <1>12 DEF TabOK
<1>14. Written(tab.entries, tab.size, k, e, s, n)
  BY <1>5, <1>12 DEF Written, SameArray
<1> QED
  BY <1>10, <1>13, <1>14 DEF TabWritten

\* The entry that is changed.
LEMMA OldOK ==
    ASSUME NEW tab, TabOK(tab), NEW k \in Key, NEW g, g = Grown(tab),
           NEW at, at = Find(g.entries, g.size, k).at, NEW o, o = g.entries[at]
    PROVE  Old(tab, k, o)
<1>1. TabOK(g) /\ g.size # 0 /\ SameArray(tab.entries, tab.size, g.entries, g.size)
  BY GrownOK
<1>2. ArrayOK(g.entries, g.size, g.count)
  BY <1>1 DEF TabOK
<1>3. PICK f : f = Find(g.entries, g.size, k)
  OBVIOUS
<1>4. Answers(g.entries, g.size, k, f)
  <2>1. PICK es, n, c : es = g.entries /\ n = g.size /\ c = g.count
    OBVIOUS
  <2>2. ArrayOK(es, n, c) /\ n # 0 /\ f = Find(es, n, k)
    BY <1>1, <1>2, <1>3, <2>1
  <2>3. Answers(es, n, k, f)
    BY <2>2, SearchOK
  <2> QED
    BY <2>1, <2>3
<1>5. at = f.at
  BY <1>3
<1>6. o \in Entry
  BY <1>2, <1>4, <1>5 DEF Answers, ArrayOK
<1>7. KeysIn(g.entries, g.size) = TabKeys(tab)
      /\ \A x \in TabKeys(tab) : EntryOf(g.entries, g.size, x) = TabEntry(tab, x)
  BY <1>1 DEF SameArray, TabKeys, TabEntry
<1> QED
  BY <1>4, <1>5, <1>6, <1>7 DEF Old, Answers

\* tea_tab_set: the value is replaced and nothing else.
PutIn(tab, k, v, t) ==
    \E o, e \in Entry :
        /\ Old(tab, k, o) /\ TabWritten(tab, k, e, t)
        /\ e.key = k /\ e.flags = o.flags /\ e.val = v /\ e.set = o.set

\* tea_tab_set sets the key and keeps an array searchable.
LEMMA PutOK ==
    ASSUME NEW tab, TabOK(tab), NEW k \in Key, NEW v \in Value \cup {Nil}, NEW t, t = Put(tab, k, v)
    PROVE  PutIn(tab, k, v, t)
<1>1. PICK g : g = Grown(tab)
  OBVIOUS
<1>2. PICK at : at = Find(g.entries, g.size, k).at
  OBVIOUS
<1>3. PICK o : o = g.entries[at]
  OBVIOUS
<1>4. Old(tab, k, o) /\ o \in Entry
  BY <1>1, <1>2, <1>3, OldOK DEF Old
<1>5. PICK e \in Entry : e.key = k /\ e.flags = o.flags /\ e.val = v /\ e.set = o.set
                         /\ e = [key |-> k, flags |-> o.flags, val |-> v, set |-> o.set]
  BY <1>4 DEF Entry
<1>6. e = [[o EXCEPT !.val = v] EXCEPT !.key = k]
  BY <1>4, <1>5 DEF Entry
<1>7. t = [g EXCEPT !.entries = [@ EXCEPT ![at] = [[g.entries[at] EXCEPT !.val = v] EXCEPT !.key = k]],
                    !.count = IF g.entries[at].key = Empty THEN g.count + 1 ELSE g.count]
  BY <1>1, <1>2 DEF Put, WithEntry
<1>8. PICK s : s = [g.entries EXCEPT ![at] = e]
  OBVIOUS
<1>9. PICK d : d = IF o.key = Empty THEN g.count + 1 ELSE g.count
  OBVIOUS
<1>10. t = [g EXCEPT !.entries = s, !.count = d]
  BY <1>3, <1>6, <1>7, <1>8, <1>9
<1>11. TabOK(g)
  BY <1>1, GrownOK
<1>12. t = [entries |-> s, size |-> g.size, count |-> d]
  BY <1>10, <1>11 DEF TabOK
<1>13. TabWritten(tab, k, e, t)
  BY <1>1, <1>2, <1>3, <1>5, <1>8, <1>9, <1>12, WithEntryOK
<1> QED
  BY <1>4, <1>5, <1>13 DEF PutIn

\* What defining a method, a getter or a setter makes of entry o.
Changed(f, v, o, e) ==
    /\ f = "plain" => e.flags = {} /\ e.val = v /\ e.set = o.set
    /\ f = "get" => e.flags = o.flags \cup {f} /\ e.val = v /\ e.set = o.set
    /\ f = "set" => e.flags = o.flags \cup {f} /\ e.val = o.val /\ e.set = v

PutMethodIn(tab, k, f, v, t) ==
    \E o, e \in Entry :
        Old(tab, k, o) /\ TabWritten(tab, k, e, t) /\ e.key = k /\ Changed(f, v, o, e)

\* tea_tab_setx
LEMMA PutMethodOK ==
    ASSUME NEW tab, TabOK(tab), NEW k \in Key, NEW f \in Kinds, NEW v \in Value \cup {Nil},
           NEW t, t = PutMethod(tab, k, f, v)
    PROVE  PutMethodIn(tab, k, f, v, t)
<1>1. PICK g : g = Grown(tab)
  OBVIOUS
<1>2. PICK at : at = Find(g.entries, g.size, k).at
  OBVIOUS
<1>3. PICK o : o = g.entries[at]
  OBVIOUS
<1>4. Old(tab, k, o) /\ o \in Entry
  BY <1>1, <1>2, <1>3, OldOK DEF Old
<1>5. PICK c : c = CASE f = "plain" -> [o EXCEPT !.flags = {}, !.val = v]
                     [] f = "get" -> [o EXCEPT !.flags = @ \cup {f}, !.val = v]
                     [] f = "set" -> [o EXCEPT !.flags = @ \cup {f}, !.set = v]
  OBVIOUS
<1>6. c \in Entry /\ Changed(f, v, o, c)
  <2>1. CASE f = "plain"
    <3>1. c = [o EXCEPT !.flags = {}, !.val = v]
      BY <1>5, <2>1
    <3> QED
      BY <1>4, <2>1, <3>1 DEF Entry, Changed
  <2>2. CASE f = "get"
    <3>1. PICK b \in SUBSET {"get", "set"} : b = o.flags \cup {f}
      BY <1>4, <2>2 DEF Entry
    <3>2. c = [o EXCEPT !.flags = b, !.val = v]
      BY <1>5, <2>2, <3>1
    <3> QED
      BY <1>4, <2>2, <3>1, <3>2 DEF Entry, Changed
  <2>3. CASE f = "set"
    <3>1. PICK b \in SUBSET {"get", "set"} : b = o.flags \cup {f}
      BY <1>4, <2>3 DEF Entry
    <3>2. c = [o EXCEPT !.flags = b, !.set = v]
      BY <1>5, <2>3, <3>1
    <3> QED
      BY <1>4, <2>3, <3>1, <3>2 DEF Entry, Changed
  <2> QED
    BY <2>1, <2>2, <2>3 DEF Kinds
<1>7. PICK e : e = [c EXCEPT !.key = k]
  OBVIOUS
<1>8. e \in Entry /\ e.key = k /\ Changed(f, v, o, e)
  BY <1>6, <1>7 DEF Entry, Changed
<1>9. t = [g EXCEPT !.entries = [@ EXCEPT ![at] = e],
                    !.count = IF g.entries[at].key = Empty THEN g.count + 1 ELSE g.count]
  BY <1>1, <1>2, <1>3, <1>5, <1>7 DEF PutMethod, WithEntry
<1>10. PICK s : s = [g.entries EXCEPT ![at] = e]
  OBVIOUS
<1>11. PICK d : d = IF o.key = Empty THEN g.count + 1 ELSE g.count
  OBVIOUS
<1>12. t = [g EXCEPT !.entries = s, !.count = d]
  BY <1>3, <1>9, <1>10, <1>11
<1>13. TabOK(g)
  BY <1>1, GrownOK
<1>14. t = [entries |-> s, size |-> g.size, count |-> d]
  BY <1>12, <1>13 DEF TabOK
<1>15. TabWritten(tab, k, e, t)
  BY <1>1, <1>2, <1>3, <1>8, <1>10, <1>11, <1>14, WithEntryOK
<1> QED
  BY <1>4, <1>8, <1>15 DEF PutMethodIn

\* tea_tab_delete takes the key away and nothing else.
LEMMA RemoveTabOK ==
    ASSUME NEW tab, TabOK(tab), NEW k \in Key, Holds(tab, k), NEW t, t = Deleted(tab, k)
    PROVE  /\ TabOK(t)
           /\ TabKeys(t) = TabKeys(tab) \ {k}
           /\ \A x \in TabKeys(t) : TabEntry(t, x) = TabEntry(tab, x)
<1>1. PICK es, n, c : es = tab.entries /\ n = tab.size /\ c = tab.count
  OBVIOUS
<1>2. ArrayOK(es, n, c) /\ n # 0 /\ k \in KeysIn(es, n)
  BY <1>1, HoldsOK DEF TabOK, Holds, TabKeys
<1>3. PICK f : f = Find(es, n, k)
  OBVIOUS
<1>4. PICK s : s = [es EXCEPT ![f.at] = TombEntry]
  OBVIOUS
<1>5. t = [entries |-> s, size |-> n, count |-> c]
  <2>1. t = [tab EXCEPT !.entries = [tab.entries EXCEPT ![Find(tab.entries, tab.size, k).at] = TombEntry]]
    BY DEF Deleted
  <2>2. [tab.entries EXCEPT ![Find(tab.entries, tab.size, k).at] = TombEntry] = s
    BY <1>1, <1>3, <1>4
  <2>3. t = [tab EXCEPT !.entries = s]
    BY <2>1, <2>2
  <2> QED
    BY <1>1, <2>3 DEF TabOK
<1>6. t.entries = s /\ t.size = n /\ t.count = c
  BY <1>5
<1>7. ArrayOK(s, n, c) /\ Without(es, n, k, s, n)
  <2>1. ArrayOK(es, n, c) /\ n # 0
    BY <1>2
  <2> QED
    BY <1>2, <1>3, <1>4, <2>1, TombstoneOK
<1> QED
  BY <1>1, <1>5, <1>6, <1>7 DEF TabOK, TabKeys, TabEntry, Without

\* The value of an entry may be replaced in its place.
LEMMA ReplaceOK ==
    ASSUME NEW tab, TabOK(tab), NEW k \in Key, Holds(tab, k), NEW v \in Value,
           NEW t, t = [tab EXCEPT !.entries[Find(tab.entries, tab.size, k).at].val = v]
    PROVE  TabOK(t)
<1>1. PICK es, n, c : es = tab.entries /\ n = tab.size /\ c = tab.count
  OBVIOUS
<1>2. ArrayOK(es, n, c) /\ n # 0 /\ k \in KeysIn(es, n)
  BY <1>1, HoldsOK DEF TabOK, Holds, TabKeys
<1>3. PICK f : f = Find(es, n, k)
  OBVIOUS
<1>4. Answers(es, n, k, f) /\ f.found
  <2>1. Answers(es, n, k, f)
    BY <1>2, <1>3, SearchOK
  <2> QED
    BY <1>2, <2>1 DEF Answers
<1>5. es[f.at].key = k /\ es[f.at] \in Entry
  BY <1>2, <1>4 DEF Answers, ArrayOK
<1>6. PICK e : e = [es[f.at] EXCEPT !.val = v]
  OBVIOUS
<1>7. e \in Entry /\ e.key = k
  BY <1>5, <1>6 DEF Entry
<1>8. PICK s : s = [es EXCEPT ![f.at] = e]
  OBVIOUS
<1>9. t = [tab EXCEPT !.entries = [es EXCEPT ![f.at] = [es[f.at] EXCEPT !.val = v]]]
  BY <1>1, <1>3
<1>10. t = [tab EXCEPT !.entries = s]
  BY <1>6, <1>8, <1>9
<1>11. t = [entries |-> s, size |-> n, count |-> c]
  BY <1>1, <1>10 DEF TabOK
<1>12. t.entries = s /\ t.size = n /\ t.count = c
  BY <1>11
<1>13. ArrayOK(s, n, c)
  <2>1. es[f.at].key # Empty
    BY <1>5, HashOK
  <2>2. Free(es, n, c, f.at) /\ c = IF es[f.at].key = Empty THEN c + 1 ELSE c
    BY <2>1 DEF Free
  <2> QED
    BY <1>2, <1>3, <1>7, <1>8, <2>2, WriteOK
<1> QED
  BY <1>11, <1>12, <1>13 DEF TabOK

\* A table at its beginning has no keys.
LEMMA NewTabOK == TabOK(NewTab) /\ TabKeys(NewTab) = {}
<1> DEFINE b == Blank(0, EmptyEntry)
<1>1. NewTab = [entries |-> b, size |-> 0, count |-> 0] /\ NewTab.entries = b /\ NewTab.size = 0 /\ NewTab.count = 0
  BY DEF NewTab
<1>2. 0..0-1 = {}
  OBVIOUS
<1>3. b \in [0..0-1 -> Entry] /\ Used(b, 0) = {} /\ Filled(b, 0) = {}
  BY <1>2 DEF Blank, Used, Filled
<1>4. Searchable(b, 0)
  BY <1>3 DEF Searchable, Reached, Once
<1>5. Cardinality(Filled(b, 0)) = 0
  BY <1>3, FS_EmptySet
<1>6. ArrayOK(b, 0, 0)
  BY <1>2, <1>3, <1>4, <1>5 DEF ArrayOK
<1> QED
  BY <1>1, <1>3, <1>6 DEF TabOK, TabKeys, KeysIn

-----------------------------------------------------------------------------
(* Inheriting                                                              *)

\* The copy has the same names, with the values of their entries and no flags.
Copied(from, t) ==
    /\ TabOK(t)
    /\ TabKeys(t) = TabKeys(from)
    /\ \A k \in TabKeys(from) : TabEntry(t, k).flags = {} /\ TabEntry(t, k).val = TabEntry(from, k).val

\* tea_tab_merge into a new table: every entry comes to the copy, by induction on those done.
LEMMA MergedOK ==
    ASSUME NEW from, TabOK(from), NEW t, t = Merged(from, NewTab)
    PROVE  Copied(from, t)
<1>1. PICK es, n, c : es = from.entries /\ n = from.size /\ c = from.count
  OBVIOUS
<1>2. ArrayOK(es, n, c) /\ n \in Nat /\ es \in [0..n-1 -> Entry] /\ Once(es, n)
  BY <1>1 DEF TabOK, ArrayOK, Searchable
<1> DEFINE merged[i \in 0..n] ==
               IF i = 0 THEN NewTab
               ELSE IF es[i-1].key \notin Key THEN merged[i-1]
               ELSE Put(merged[i-1], es[i-1].key, es[i-1].val)
           Struct == [entries : UNION {[0..m-1 -> Entry] : m \in Nat}, size : Nat, count : Nat]
           S == {tab \in Struct : TabOK(tab)}
           Step(i, r) == IF es[i-1].key \notin Key THEN r ELSE Put(r, es[i-1].key, es[i-1].val)
           U == Used(es, n)
<1>3. t = merged[n]
  BY <1>1 DEF Merged
<1>4. ASSUME NEW tab, TabOK(tab) PROVE tab \in S
  <2>1. PICK a, m, d : a = tab.entries /\ m = tab.size /\ d = tab.count
    OBVIOUS
  <2>2. tab = [entries |-> a, size |-> m, count |-> d] /\ ArrayOK(a, m, d)
    BY <1>4, <2>1 DEF TabOK
  <2>3. m \in Nat /\ a \in [0..m-1 -> Entry] /\ d \in Nat
    BY <2>2, FilledOK DEF ArrayOK
  <2>4. tab \in Struct
    BY <2>2, <2>3
  <2> QED
    BY <1>4, <2>4
<1>5. \A r \in S : TabOK(r)
  OBVIOUS
<1> HIDE DEF S
<1>6. NewTab \in S
  BY <1>4, NewTabOK
<1>7. \A x \in 0..n-1 : es[x].val \in Value \cup {Nil} /\ (x \in U <=> es[x].key \in Key)
  BY <1>2 DEF Entry, Used
<1>8. ASSUME NEW i \in 1..n, NEW r \in S PROVE Step(i, r) \in S
  <2>1. i-1 \in 0..n-1
    BY <1>2
  <2>2. CASE es[i-1].key \notin Key
    BY <2>2
  <2>3. CASE es[i-1].key \in Key
    <3>1. PICK k \in Key, v \in Value \cup {Nil} : k = es[i-1].key /\ v = es[i-1].val
      BY <1>7, <2>1, <2>3
    <3>2. PICK s : s = Put(r, k, v)
      OBVIOUS
    <3>3. PutIn(r, k, v, s)
      <4>1. TabOK(r)
        BY <1>5
      <4> QED
        BY <3>2, <4>1, PutOK
    <3>4. TabOK(s)
      BY <3>3 DEF PutIn, TabWritten
    <3> QED
      BY <1>4, <2>3, <3>1, <3>2, <3>4
  <2> QED
    BY <2>2, <2>3
<1>9. merged = [i \in 0..n |-> IF i = 0 THEN NewTab ELSE Step(i, merged[i-1])]
  <2> SUFFICES \E f : f = [i \in 0..n |-> IF i = 0 THEN NewTab ELSE Step(i, f[i-1])]
    BY DEF merged
  <2> HIDE DEF Step
  <2> DEFINE G == [x \in (1..n) \X S |-> Step(x[1], x[2])]
  <2>1. G \in [(1..n) \X S -> S]
    BY <1>8
  <2>2. \A i \in 1..n : \A r \in S : G[<<i, r>>] = Step(i, r)
    OBVIOUS
  <2> HIDE DEF G
  <2>3. PICK f \in [0..n -> S] : f[0] = NewTab /\ \A i \in 1..n : f[i] = G[<<i, f[i-1]>>]
    <3>1. PICK f \in [0..n -> S] : Iterates(f, n, NewTab, G)
      BY <1>2, <1>6, <2>1, RecursiveSequence
    <3> QED
      BY <3>1 DEF Iterates
  <2>4. \A i \in 1..n : f[i] = Step(i, f[i-1])
    <3>1. \A i \in 1..n : f[i-1] \in S
      BY <1>2
    <3> QED
      BY <2>2, <2>3, <3>1
  <2>5. f = [i \in 0..n |-> IF i = 0 THEN NewTab ELSE Step(i, f[i-1])]
    BY <1>2, <2>3, <2>4
  <2> QED
    BY <2>5
<1> HIDE DEF merged
<1>10. merged[0] = NewTab /\ \A i \in 1..n : merged[i] = Step(i, merged[i-1])
  <2> HIDE DEF Step
  <2>1. ASSUME NEW i \in 1..n PROVE merged[i] = Step(i, merged[i-1])
    BY <1>2, <1>9
  <2> QED
    BY <1>2, <1>9, <2>1
<1> HIDE DEF Step
<1> DEFINE Good(i) ==
               /\ TabOK(merged[i])
               /\ \A x \in U : x < i =>
                     /\ es[x].key \in TabKeys(merged[i])
                     /\ TabEntry(merged[i], es[x].key).flags = {}
                     /\ TabEntry(merged[i], es[x].key).val = es[x].val
               /\ \A k \in TabKeys(merged[i]) : \E x \in U : x < i /\ es[x].key = k
<1>11. U \subseteq 0..n-1
  BY DEF Used
<1>12. Good(0)
  BY <1>10, <1>11, NewTabOK
<1>13. ASSUME NEW i \in 1..n, Good(i-1) PROVE Good(i)
  <2>1. PICK r : r = merged[i-1]
    OBVIOUS
  <2>2. merged[i] = Step(i, r)
    BY <1>10, <2>1
  <2>3. PICK y \in 0..n-1 : y = i-1
    BY <1>2
  <2>4. /\ TabOK(r)
        /\ \A x \in U : x < y =>
              /\ es[x].key \in TabKeys(r)
              /\ TabEntry(r, es[x].key).flags = {}
              /\ TabEntry(r, es[x].key).val = es[x].val
        /\ \A k \in TabKeys(r) : \E x \in U : x < y /\ es[x].key = k
    BY <1>13, <2>1, <2>3
  <2>5. \A x \in U : x < i <=> x < y \/ x = y
    BY <1>11, <2>3
  <2>6. CASE es[y].key \notin Key
    <3>1. y \notin U /\ merged[i] = r
      BY <2>2, <2>3, <2>6 DEF Step, Used
    <3>2. \A x \in U : x < i <=> x < y
      BY <2>5, <3>1
    <3> QED
      BY <2>4, <3>1, <3>2
  <2>7. CASE es[y].key \in Key
    <3>1. PICK k \in Key, v \in Value \cup {Nil} : k = es[y].key /\ v = es[y].val /\ y \in U
      BY <1>7, <2>3, <2>7
    <3>2. PICK s : s = Put(r, k, v)
      OBVIOUS
    <3>3. merged[i] = s
      BY <2>2, <2>3, <2>7, <3>1, <3>2 DEF Step
    <3>4. PutIn(r, k, v, s)
      BY <2>4, <3>2, PutOK
    <3>5. PICK o, e \in Entry :
             /\ Old(r, k, o) /\ TabWritten(r, k, e, s)
             /\ e.key = k /\ e.flags = o.flags /\ e.val = v
      BY <3>4 DEF PutIn
    <3>6. \A x \in U : es[x].key = k => x = y
      BY <1>2, <3>1 DEF Once
    <3>7. k \notin TabKeys(r)
      BY <2>3, <2>4, <3>6
    <3>8. e.flags = {}
      BY <3>5, <3>7, EntriesKeyed DEF Old
    <3>9. /\ TabOK(s)
          /\ TabKeys(s) = TabKeys(r) \cup {k}
          /\ TabEntry(s, k) = e
          /\ \A x \in TabKeys(r) : TabEntry(s, x) = TabEntry(r, x)
      BY <3>5, <3>7 DEF TabWritten, Written, TabKeys, TabEntry
    <3>10. ASSUME NEW x \in U, x < i
           PROVE  /\ es[x].key \in TabKeys(s)
                  /\ TabEntry(s, es[x].key).flags = {}
                  /\ TabEntry(s, es[x].key).val = es[x].val
      <4>1. CASE x = y
        BY <3>1, <3>5, <3>8, <3>9, <4>1
      <4>2. CASE x < y
        <5>1. PICK q : q = es[x].key
          OBVIOUS
        <5>2. q \in TabKeys(r) /\ TabEntry(r, q).flags = {} /\ TabEntry(r, q).val = es[x].val
          BY <2>4, <4>2, <5>1
        <5>3. TabEntry(s, q) = TabEntry(r, q) /\ q \in TabKeys(s)
          BY <3>9, <5>2
        <5> QED
          BY <5>1, <5>2, <5>3
      <4> QED
        BY <2>5, <3>10, <4>1, <4>2
    <3>11. ASSUME NEW q \in TabKeys(s) PROVE \E x \in U : x < i /\ es[x].key = q
      <4>1. CASE q = k
        BY <2>5, <3>1, <4>1
      <4>2. CASE q \in TabKeys(r)
        BY <2>4, <2>5, <4>2
      <4> QED
        BY <3>9, <4>1, <4>2
    <3> QED
      BY <3>3, <3>9, <3>10, <3>11
  <2> QED
    BY <2>6, <2>7
<1> HIDE DEF Good
<1>14. \A i \in 0..n : Good(i)
  <2> DEFINE T == {i \in 0..n : ~Good(i)}
  <2>1. ASSUME T # {} PROVE FALSE
    <3>1. T \in SUBSET Nat
      BY <1>2
    <3>2. PICK i \in T : \A y \in T : i <= y
      BY <2>1, <3>1, LeastNatural
    <3>3. i \in 0..n /\ ~Good(i)
      OBVIOUS
    <3>4. i \in 1..n /\ i-1 \in 0..n /\ ~(i <= i-1)
      BY <1>2, <1>12, <3>3
    <3>5. Good(i-1)
      BY <3>2, <3>4
    <3> QED
      BY <1>13, <3>3, <3>4, <3>5
  <2> QED
    BY <2>1
<1>15. /\ TabOK(t)
       /\ \A x \in U : /\ es[x].key \in TabKeys(t)
                       /\ TabEntry(t, es[x].key).flags = {}
                       /\ TabEntry(t, es[x].key).val = es[x].val
       /\ \A k \in TabKeys(t) : \E x \in U : es[x].key = k
  <2>1. Good(n)
    BY <1>2, <1>14
  <2>2. \A x \in U : x < n
    BY <1>2, <1>11
  <2> QED
    BY <1>3, <2>1, <2>2 DEF Good
<1>16. ASSUME NEW k \in TabKeys(from)
       PROVE  k \in TabKeys(t) /\ TabEntry(t, k).flags = {} /\ TabEntry(t, k).val = TabEntry(from, k).val
  <2>1. Indexed(es, n)
    BY <1>2, EntryOfIs
  <2>2. PICK x \in U : es[x].key = k /\ TabEntry(from, k) = es[x]
    BY <1>1, <2>1 DEF Indexed, TabKeys, TabEntry
  <2> QED
    BY <1>15, <2>2
<1>17. \A k \in TabKeys(t) : k \in TabKeys(from)
  BY <1>1, <1>15 DEF TabKeys, KeysIn
<1> QED
  BY <1>15, <1>16, <1>17 DEF Copied

-----------------------------------------------------------------------------
(* What the tables stand for                                               *)

PutAt(d, k, v) == [x \in DOMAIN d \cup {k} |-> IF x = k THEN v ELSE d[x]]

Meanings(tab) == [k \in TabKeys(tab) |-> Meaning(TabEntry(tab, k))]

\* The names and contents of a table of the program.
LEMMA ContentsIs ==
    ASSUME NEW t
    PROVE  /\ Names(t) = TabKeys(tabs[t]) /\ Contents(t) = Meanings(tabs[t])
           /\ Names(t)' = TabKeys(tabs'[t]) /\ Contents(t)' = Meanings(tabs'[t])
<1>1. Names(t) = TabKeys(tabs[t]) /\ Names(t)' = TabKeys(tabs'[t])
  BY DEF Names, TabKeys, KeysIn
<1>2. Contents(t) = Meanings(tabs[t]) /\ Contents(t)' = Meanings(tabs'[t])
  BY <1>1 DEF Contents, Meanings, TabEntry, EntryOf
<1> QED
  BY <1>1, <1>2

\* Writing an entry puts its meaning into the dictionary.
LEMMA WrittenMeans ==
    ASSUME NEW tab, NEW k, NEW e, NEW t, TabWritten(tab, k, e, t)
    PROVE  Meanings(t) = PutAt(Meanings(tab), k, Meaning(e))
<1>1. /\ TabKeys(t) = TabKeys(tab) \cup {k}
      /\ TabEntry(t, k) = e
      /\ \A x \in TabKeys(tab) \ {k} : TabEntry(t, x) = TabEntry(tab, x)
  BY DEF TabWritten, Written, TabKeys, TabEntry
<1>2. DOMAIN Meanings(tab) = TabKeys(tab) /\ \A x \in TabKeys(tab) : Meanings(tab)[x] = Meaning(TabEntry(tab, x))
  BY DEF Meanings
<1>3. \A x \in TabKeys(t) : Meaning(TabEntry(t, x)) = IF x = k THEN Meaning(e) ELSE Meanings(tab)[x]
  BY <1>1, <1>2
<1> QED
  BY <1>1, <1>2, <1>3 DEF Meanings, PutAt

\* An attribute that is set is plain, and has the value.
LEMMA PutMeans ==
    ASSUME NEW tab, Plain(tab), NEW k, NEW v, NEW t, PutIn(tab, k, v, t)
    PROVE  /\ TabOK(t) /\ Plain(t)
           /\ Meanings(t) = PutAt(Meanings(tab), k, [NoAccessor EXCEPT !.plain = v])
<1>1. PICK o, e \in Entry :
         /\ Old(tab, k, o) /\ TabWritten(tab, k, e, t)
         /\ e.flags = o.flags /\ e.val = v
  BY DEF PutIn
<1>2. e.flags = {}
  BY <1>1, EntriesKeyed DEF Old, Plain
<1>3. Meaning(e) = [NoAccessor EXCEPT !.plain = v]
  BY <1>1, <1>2 DEF Meaning
<1>4. Plain(t)
  BY <1>1, <1>2 DEF Plain, TabWritten, Written, TabKeys, TabEntry
<1>5. TabOK(t)
  BY <1>1 DEF TabWritten
<1> QED
  BY <1>1, <1>3, <1>4, <1>5, WrittenMeans

\* What a definition makes of the meaning of a name.
Redefined(tab, k, f, v) ==
    IF f # "plain" /\ k \in TabKeys(tab)
    THEN [Meanings(tab)[k] EXCEPT ![f] = v, !.plain = Nil]
    ELSE [NoAccessor EXCEPT ![f] = v]

\* Defining a method or an accessor does that.
LEMMA PutMethodMeans ==
    ASSUME NEW tab, NEW k, NEW f \in Kinds, NEW v, NEW t, PutMethodIn(tab, k, f, v, t)
    PROVE  /\ TabOK(t)
           /\ Meanings(t) = PutAt(Meanings(tab), k, Redefined(tab, k, f, v))
<1>1. PICK o, e \in Entry : Old(tab, k, o) /\ TabWritten(tab, k, e, t) /\ Changed(f, v, o, e)
  BY DEF PutMethodIn
<1>2. TabOK(t)
  BY <1>1 DEF TabWritten
<1>3. /\ o.flags \in SUBSET {"get", "set"} /\ e.flags \in SUBSET {"get", "set"}
      /\ k \notin TabKeys(tab) => o.flags = {}
      /\ k \in TabKeys(tab) => Meanings(tab)[k] = Meaning(o)
  <2>1. o.flags \in SUBSET {"get", "set"} /\ e.flags \in SUBSET {"get", "set"}
    BY DEF Entry
  <2>2. k \notin TabKeys(tab) => o.flags = {}
    BY <1>1, EntriesKeyed DEF Old
  <2>3. k \in TabKeys(tab) => Meanings(tab)[k] = Meaning(o)
    BY <1>1 DEF Old, Meanings
  <2> QED
    BY <2>1, <2>2, <2>3
<1>4. PICK g, s : /\ g = IF "get" \in o.flags THEN o.val ELSE Nil
                  /\ s = IF "set" \in o.flags THEN o.set ELSE Nil
  OBVIOUS
<1>5. \E p : Meaning(o) = [plain |-> p, get |-> g, set |-> s]
  <2>1. o.flags = {} => Meaning(o) = [plain |-> o.val, get |-> g, set |-> s]
    BY <1>4 DEF Meaning, NoAccessor
  <2>2. o.flags # {} => Meaning(o) = [plain |-> Nil, get |-> g, set |-> s]
    BY <1>4 DEF Meaning
  <2> QED
    BY <2>1, <2>2
<1>6. k \notin TabKeys(tab) => g = Nil /\ s = Nil
  BY <1>3, <1>4
<1>7. Meaning(e) = IF f # "plain" /\ k \in TabKeys(tab)
                   THEN [Meanings(tab)[k] EXCEPT ![f] = v, !.plain = Nil]
                   ELSE [NoAccessor EXCEPT ![f] = v]
  <2>1. CASE f = "plain"
    <3>1. e.flags = {} /\ e.val = v
      BY <1>1, <2>1 DEF Changed
    <3> QED
      BY <2>1, <3>1 DEF Meaning
  <2>2. CASE f = "get"
    <3>1. e.flags = o.flags \cup {"get"} /\ e.val = v /\ e.set = o.set
      BY <1>1, <2>2 DEF Changed
    <3>2. e.flags # {} /\ "get" \in e.flags /\ ("set" \in e.flags <=> "set" \in o.flags)
      BY <3>1
    <3>3. Meaning(e) = [plain |-> Nil, get |-> v, set |-> s]
      BY <1>4, <3>1, <3>2 DEF Meaning
    <3>4. CASE k \in TabKeys(tab)
      <4>1. PICK p : Meanings(tab)[k] = [plain |-> p, get |-> g, set |-> s]
        BY <1>3, <1>5, <3>4
      <4>2. [Meanings(tab)[k] EXCEPT !["get"] = v, !.plain = Nil]
              = [plain |-> Nil, get |-> v, set |-> s]
        <5>1. PICK m : m = [Meanings(tab)[k] EXCEPT !["get"] = v]
          OBVIOUS
        <5>2. m = [plain |-> p, get |-> v, set |-> s]
          <6>1. [[plain |-> p, get |-> g, set |-> s] EXCEPT !["get"] = v] = [plain |-> p, get |-> v, set |-> s]
            OBVIOUS
          <6> QED
            BY <4>1, <5>1, <6>1, Zenon
        <5>3. [m EXCEPT !.plain = Nil] = [plain |-> Nil, get |-> v, set |-> s]
          BY <5>2
        <5> QED
          BY <5>1, <5>3, Zenon
      <4> QED
        BY <2>2, <3>3, <3>4, <4>2
    <3>5. CASE k \notin TabKeys(tab)
      BY <1>6, <2>2, <3>3, <3>5 DEF NoAccessor
    <3> QED
      BY <3>4, <3>5
  <2>3. CASE f = "set"
    <3>1. e.flags = o.flags \cup {"set"} /\ e.val = o.val /\ e.set = v
      BY <1>1, <2>3 DEF Changed
    <3>2. e.flags # {} /\ "set" \in e.flags /\ ("get" \in e.flags <=> "get" \in o.flags)
      BY <3>1
    <3>3. Meaning(e) = [plain |-> Nil, get |-> g, set |-> v]
      BY <1>4, <3>1, <3>2 DEF Meaning
    <3>4. CASE k \in TabKeys(tab)
      <4>1. PICK p : Meanings(tab)[k] = [plain |-> p, get |-> g, set |-> s]
        BY <1>3, <1>5, <3>4
      <4>2. [Meanings(tab)[k] EXCEPT !["set"] = v, !.plain = Nil]
              = [plain |-> Nil, get |-> g, set |-> v]
        <5>1. PICK m : m = [Meanings(tab)[k] EXCEPT !["set"] = v]
          OBVIOUS
        <5>2. m = [plain |-> p, get |-> g, set |-> v]
          <6>1. [[plain |-> p, get |-> g, set |-> s] EXCEPT !["set"] = v] = [plain |-> p, get |-> g, set |-> v]
            OBVIOUS
          <6> QED
            BY <4>1, <5>1, <6>1, Zenon
        <5>3. [m EXCEPT !.plain = Nil] = [plain |-> Nil, get |-> g, set |-> v]
          BY <5>2
        <5> QED
          BY <5>1, <5>3, Zenon
      <4> QED
        BY <2>3, <3>3, <3>4, <4>2
    <3>5. CASE k \notin TabKeys(tab)
      BY <1>6, <2>3, <3>3, <3>5 DEF NoAccessor
    <3> QED
      BY <3>4, <3>5
  <2> QED
    BY <2>1, <2>2, <2>3 DEF Kinds
<1>8. Meaning(e) = Redefined(tab, k, f, v)
  BY <1>7, Zenon DEF Redefined
<1> QED
  BY <1>1, <1>2, <1>8, WrittenMeans

\* Deleting an attribute takes it from the dictionary.
LEMMA DeletedMeans ==
    ASSUME NEW tab, TabOK(tab), NEW k \in Key, Holds(tab, k), NEW t, t = Deleted(tab, k)
    PROVE  /\ TabOK(t) /\ (Plain(tab) => Plain(t))
           /\ k \in DOMAIN Meanings(tab)
           /\ Meanings(t) = [x \in DOMAIN Meanings(tab) \ {k} |-> Meanings(tab)[x]]
<1>1. /\ TabOK(t)
      /\ TabKeys(t) = TabKeys(tab) \ {k}
      /\ \A x \in TabKeys(t) : TabEntry(t, x) = TabEntry(tab, x)
  BY RemoveTabOK
<1>2. DOMAIN Meanings(tab) = TabKeys(tab) /\ \A x \in TabKeys(tab) : Meanings(tab)[x] = Meaning(TabEntry(tab, x))
  BY DEF Meanings
<1>3. Meanings(t) = [x \in DOMAIN Meanings(tab) \ {k} |-> Meanings(tab)[x]]
  BY <1>1, <1>2 DEF Meanings
<1> QED
  BY <1>1, <1>2, <1>3, HoldsOK DEF Plain

-----------------------------------------------------------------------------
(* The specification                                                       *)

\* Names and values are what TabConstantsOK says.
LEMMA TypesOK ==
    ASSUME TabsInv
    PROVE  /\ Tables = DOMAIN names
           /\ \A t \in Tables : \A k \in names[t] : k \in Key
           /\ \A f \in Kinds \cup {"attr"} : \A v \in Values[f] : v \in Value
<1>1. Tables = DOMAIN names
  <2>1. PICK d : d = DOMAIN names
    OBVIOUS
  <2>2. tabs = [t \in d |-> tabs[t]]
    BY <2>1 DEF TabsInv
  <2> QED
    BY <2>1, <2>2 DEF Tables
<1>2. \A t \in Tables : \A k \in names[t] : k \in Key
  BY <1>1, TabConstantsOK DEF TabsInv
<1>3. \A f \in Kinds \cup {"attr"} : \A v \in Values[f] : v \in Value
  BY TabConstantsOK DEF Value
<1> QED
  BY <1>1, <1>2, <1>3

\* A step that changes table t to x, and only that.
Changes(t, x) ==
    /\ tabs'[t] = x
    /\ Tables' = Tables
    /\ \A u \in Tables : u # t => tabs'[u] = tabs[u]

\* The invariant survives the change of a table.
LEMMA ChangesOK ==
    ASSUME TabInv, NEW t, t \in Tables, NEW x, TabOK(x), t = "attrs" => Plain(x),
           tabs' = [tabs EXCEPT ![t] = x], UNCHANGED names
    PROVE  TabInv' /\ Changes(t, x)
<1>1. Tables = DOMAIN names /\ TabsInv
  BY TypesOK DEF TabInv
<1>2. PICK d : d = DOMAIN names
  OBVIOUS
<1>3. tabs = [u \in d |-> tabs[u]] /\ t \in d
  BY <1>1, <1>2 DEF TabsInv
<1>4. tabs' = [u \in d |-> IF u = t THEN x ELSE tabs[u]]
  BY <1>3
<1>5. /\ tabs'[t] = x
      /\ DOMAIN tabs' = d
      /\ \A u \in d : u # t => tabs'[u] = tabs[u]
  BY <1>3, <1>4
<1>6. tabs' = [u \in d |-> tabs'[u]]
  BY <1>4, <1>5
<1>7. Tables' = d /\ Tables = d
  BY <1>1, <1>2, <1>5 DEF Tables
<1>8. Changes(t, x)
  BY <1>5, <1>7 DEF Changes
<1>9. \A u \in d : TabOK(tabs'[u])
  <2>1. \A u \in d : TabOK(tabs[u])
    BY <1>2 DEF TabInv, TabsInv
  <2> QED
    BY <1>3, <1>5, <2>1
<1>10. TabsInv'
  BY <1>2, <1>6, <1>9 DEF TabInv, TabsInv
<1>11. "attrs" \in Tables' => Plain(tabs'["attrs"])
  BY <1>5, <1>7 DEF TabInv
<1> QED
  BY <1>8, <1>10, <1>11 DEF TabInv

\* tea_meta_setattr stores the attribute.
LEMMA SetAttrOK ==
    ASSUME TabInv, "attrs" \in Tables, NEW k \in Key, NEW v \in Value, SetAttr(k, v)
    PROVE  /\ TabInv' /\ Changes("attrs", tabs'["attrs"])
           /\ PutIn(tabs["attrs"], k, v, tabs'["attrs"])
<1>1. PICK tab : tab = tabs["attrs"] /\ TabOK(tab) /\ Plain(tab)
  BY TypesOK DEF TabInv, TabsInv
<1>2. PICK x : x = Put(tab, k, v)
  OBVIOUS
<1>3. PutIn(tab, k, v, x)
  BY <1>1, <1>2, PutOK
<1>4. TabOK(x) /\ Plain(x)
  BY <1>1, <1>3, PutMeans
<1>5. tabs' = [tabs EXCEPT !["attrs"] = x] /\ UNCHANGED names
  BY <1>1, <1>2 DEF SetAttr
<1>6. TabInv' /\ Changes("attrs", x)
  BY <1>4, <1>5, ChangesOK
<1> QED
  BY <1>1, <1>3, <1>6 DEF Changes

\* tea_meta_delattr deletes it.
LEMMA DelAttrOK ==
    ASSUME TabInv, "attrs" \in Tables, NEW k \in Key, DelAttr(k)
    PROVE  /\ TabInv' /\ Changes("attrs", tabs'["attrs"])
           /\ tabs'["attrs"] = Deleted(tabs["attrs"], k) /\ Holds(tabs["attrs"], k)
<1>1. PICK tab : tab = tabs["attrs"] /\ TabOK(tab) /\ Plain(tab)
  BY TypesOK DEF TabInv, TabsInv
<1>2. PICK x : x = Deleted(tab, k)
  OBVIOUS
<1>3. Holds(tab, k)
  BY <1>1 DEF DelAttr
<1>4. TabOK(x) /\ Plain(x)
  BY <1>1, <1>2, <1>3, DeletedMeans
<1>5. tabs' = [tabs EXCEPT !["attrs"] = x] /\ UNCHANGED names
  BY <1>1, <1>2 DEF DelAttr
<1>6. TabInv' /\ Changes("attrs", x)
  BY <1>4, <1>5, ChangesOK
<1> QED
  BY <1>1, <1>2, <1>3, <1>6 DEF Changes

\* BC_METHOD and set_method define a method.
LEMMA MethodOK ==
    ASSUME TabInv, NEW t, t \in Tables, t # "attrs", NEW k \in Key, NEW f \in Kinds, NEW v \in Value,
           Method(t, k, f, v)
    PROVE  /\ TabInv' /\ Changes(t, tabs'[t])
           /\ PutMethodIn(tabs[t], k, f, v, tabs'[t])
<1>1. PICK tab : tab = tabs[t] /\ TabOK(tab)
  BY TypesOK DEF TabInv, TabsInv
<1>2. PICK x : x = PutMethod(tab, k, f, v)
  OBVIOUS
<1>3. PutMethodIn(tab, k, f, v, x)
  BY <1>1, <1>2, PutMethodOK
<1>4. TabOK(x)
  BY <1>3, PutMethodMeans
<1>5. tabs' = [tabs EXCEPT ![t] = x] /\ UNCHANGED names
  BY <1>1, <1>2 DEF Method
<1>6. TabInv' /\ Changes(t, x)
  BY <1>4, <1>5, ChangesOK
<1> QED
  BY <1>1, <1>3, <1>6 DEF Changes

\* BC_INHERIT copies the superclass.
LEMMA InheritOK ==
    ASSUME TabInv, {"class", "super"} \subseteq Tables, Inherit
    PROVE  /\ TabInv' /\ Changes("class", tabs'["class"])
           /\ Copied(tabs["super"], tabs'["class"])
<1>1. PICK from : from = tabs["super"] /\ TabOK(from)
  BY TypesOK DEF TabInv, TabsInv
<1>2. PICK x : x = Merged(from, NewTab)
  OBVIOUS
<1>3. Copied(from, x)
  BY <1>1, <1>2, MergedOK
<1>4. TabOK(x)
  BY <1>3 DEF Copied
<1>5. tabs' = [tabs EXCEPT !["class"] = x] /\ UNCHANGED names
  BY <1>1, <1>2 DEF Inherit
<1>6. TabInv' /\ Changes("class", x)
  BY <1>4, <1>5, ChangesOK
<1> QED
  BY <1>1, <1>3, <1>6 DEF Changes

\* vm_invoke writes the result of a builtin's getter over the getter.
LEMMA InvokeBuiltinOK ==
    ASSUME TabInv, "builtin" \in Tables, NEW k \in Key, InvokeBuiltin(k)
    PROVE  TabInv' /\ Changes("builtin", tabs'["builtin"])
<1>1. PICK tab : tab = tabs["builtin"] /\ TabOK(tab)
  BY TypesOK DEF TabInv, TabsInv
<1>2. PICK x : x = [tab EXCEPT !.entries[Find(tab.entries, tab.size, k).at].val = Number]
  OBVIOUS
<1>3. Holds(tab, k) /\ Number \in Value
  BY <1>1, AttrConstantsOK DEF InvokeBuiltin, Knows
<1>4. TabOK(x)
  BY <1>1, <1>2, <1>3, ReplaceOK
<1>5. tabs' = [tabs EXCEPT !["builtin"] = x] /\ UNCHANGED names
  BY <1>1, <1>2 DEF InvokeBuiltin
<1>6. TabInv' /\ Changes("builtin", x)
  BY <1>4, <1>5, ChangesOK
<1> QED
  BY <1>6 DEF Changes

\* The ways a step can go.
StepsTo ==
    \/ UNCHANGED vars
    \/ "attrs" \in Tables /\ \E k \in names["attrs"] : DelAttr(k)
    \/ "attrs" \in Tables /\ \E k \in names["attrs"], v \in Values["attr"] :
          IF "class" \in Tables THEN SetInstance(k, v) ELSE SetAttr(k, v)
    \/ \E t \in Tables \ {"attrs"} : \E f \in Kinds : \E k \in names[t], v \in Values[f] : Method(t, k, f, v)
    \/ {"class", "super"} \subseteq Tables /\ Inherit
    \/ "builtin" \in Tables /\ \E k \in names["builtin"] : InvokeBuiltin(k)

\* Every step is one of these.
LEMMA NextIs == [Next]_vars => StepsTo
  BY DEF Next, StepsTo

\* Each keeps the invariant.
LEMMA NextOfStep ==
    ASSUME TabInv, StepsTo
    PROVE  TabInv'
<1>1. TabsInv
  BY DEF TabInv
<1>2. StepsTo
  OBVIOUS
<1>3. ASSUME UNCHANGED vars PROVE TabInv'
  BY <1>3 DEF vars, TabInv, TabsInv, Tables
<1>4. ASSUME "attrs" \in Tables, NEW k \in names["attrs"], DelAttr(k) PROVE TabInv'
  BY <1>1, <1>4, TypesOK, DelAttrOK
<1>5. ASSUME "attrs" \in Tables, NEW k \in names["attrs"], NEW v \in Values["attr"],
             IF "class" \in Tables THEN SetInstance(k, v) ELSE SetAttr(k, v)
      PROVE  TabInv'
  <2>1. SetAttr(k, v)
    BY <1>5 DEF SetInstance
  <2>2. k \in Key /\ v \in Value
    BY <1>1, <1>5, TypesOK
  <2> QED
    BY <1>5, <2>1, <2>2, SetAttrOK
<1>6. ASSUME NEW t \in Tables \ {"attrs"}, NEW f \in Kinds, NEW k \in names[t], NEW v \in Values[f],
             Method(t, k, f, v)
      PROVE  TabInv'
  <2>1. k \in Key /\ v \in Value
    BY <1>1, TypesOK
  <2> QED
    BY <1>6, <2>1, MethodOK
<1>7. ASSUME {"class", "super"} \subseteq Tables, Inherit PROVE TabInv'
  BY <1>7, InheritOK
<1>8. ASSUME "builtin" \in Tables, NEW k \in names["builtin"], InvokeBuiltin(k) PROVE TabInv'
  BY <1>1, <1>8, TypesOK, InvokeBuiltinOK
<1> QED
  BY <1>2, <1>3, <1>4, <1>5, <1>6, <1>7, <1>8 DEF StepsTo

\* The new tables are empty.
LEMMA InitOK == Init => TabInv
<1> SUFFICES ASSUME Init PROVE TabInv
  OBVIOUS
<1>1. names \in Setups
  BY DEF Init
<1>2. PICK d : d = DOMAIN names
  OBVIOUS
<1>3. tabs = [t \in d |-> NewTab]
  BY <1>2 DEF Init
<1>4. \A t \in d : tabs[t] = NewTab
  BY <1>3
<1>5. tabs = [t \in d |-> tabs[t]] /\ DOMAIN tabs = d
  BY <1>3
<1>6. TabOK(NewTab) /\ Plain(NewTab)
  BY NewTabOK DEF Plain
<1>7. TabsInv
  BY <1>1, <1>2, <1>4, <1>5, <1>6 DEF TabsInv
<1>8. "attrs" \in Tables => Plain(tabs["attrs"])
  BY <1>4, <1>5, <1>6 DEF Tables
<1> QED
  BY <1>7, <1>8 DEF TabInv

\* The invariant holds always.
LEMMA SpecInv == Spec => []TabInv
<1>1. TabInv /\ [Next]_vars => TabInv'
  BY NextIs, NextOfStep
<1> QED
  BY <1>1, InitOK, PTL DEF Spec

-----------------------------------------------------------------------------
(* The theorems                                                            *)

\* Every search ends: tab_findkey always comes to an empty entry, because tea_tab_set counts
\* tombstones too, and it finds the names that are there and no other.
THEOREM SearchesEnd == Spec => []SearchEnds
<1>1. ASSUME TabInv PROVE SearchEnds
  <2>1. /\ names \in Setups /\ Tables = DOMAIN names
        /\ \A t \in Tables : TabOK(tabs[t])
    BY <1>1, TypesOK DEF TabInv, TabsInv
  <2>2. ASSUME NEW t \in Tables
        PROVE  /\ tabs[t].size \in Nat
               /\ tabs[t].count \in 0..tabs[t].size
               /\ tabs[t].entries \in [0..tabs[t].size-1 -> Entry]
    <3>1. /\ tabs[t].size \in Nat
          /\ tabs[t].count = Cardinality(Filled(tabs[t].entries, tabs[t].size))
          /\ tabs[t].entries \in [0..tabs[t].size-1 -> Entry]
      BY <2>1 DEF TabOK, ArrayOK
    <3> QED
      BY <3>1, FilledOK
  <2>3. TypeOK
    BY <2>1, <2>2 DEF TypeOK
  <2>4. ASSUME NEW t \in Tables, tabs[t].size > 0
        PROVE  /\ \E i \in 0..tabs[t].size-1 : tabs[t].entries[i].key = Empty
               /\ \A k \in Key : Holds(tabs[t], k) <=> k \in Names(t)
    <3>1. PICK tab : tab = tabs[t] /\ TabOK(tab) /\ tab.size > 0
      BY <2>1, <2>4
    <3>2. PICK es, n, c : es = tab.entries /\ n = tab.size /\ c = tab.count
      OBVIOUS
    <3>3. ArrayOK(es, n, c) /\ n # 0
      BY <3>1, <3>2 DEF TabOK, ArrayOK
    <3>4. \E i \in 0..n-1 : es[i].key = Empty
      BY <3>3, ArraySound
    <3>5. \A k \in Key : Holds(tab, k) <=> k \in TabKeys(tab)
      BY <3>1, HoldsOK
    <3>6. Names(t) = TabKeys(tab)
      BY <3>1, ContentsIs
    <3> QED
      BY <3>1, <3>2, <3>4, <3>5, <3>6
  <2> QED
    BY <2>3, <2>4 DEF SearchEnds
<1> QED
  BY <1>1, SpecInv, PTL

\* What each step does to the attributes of an object without a class.
LEMMA AttrsStep ==
    ASSUME TabInv, StepsTo, Tables = {"attrs"}, ~UNCHANGED tabs
    PROVE  \E k \in Key :
             \/ \E v \in Value : Attrs!Set(k, [NoAccessor EXCEPT !.plain = v]) /\ SetAttr(k, v)
             \/ Attrs!Delete(k) /\ DelAttr(k)
<1>1. TabsInv
  BY DEF TabInv
<1>2. PICK tab : tab = tabs["attrs"] /\ TabOK(tab) /\ Plain(tab) /\ "attrs" \in Tables
  BY <1>1, TypesOK DEF TabInv, TabsInv
<1>3. PICK x : x = tabs'["attrs"]
  OBVIOUS
<1>4. Contents("attrs") = Meanings(tab) /\ Contents("attrs")' = Meanings(x)
  BY <1>2, <1>3, ContentsIs
<1>5. "class" \notin Tables /\ "builtin" \notin Tables /\ Tables \ {"attrs"} = {}
  OBVIOUS
<1>6. CASE \E k \in names["attrs"] : DelAttr(k)
  <2>1. PICK k \in Key : DelAttr(k)
    BY <1>1, <1>2, <1>6, TypesOK
  <2>2. x = Deleted(tab, k) /\ Holds(tab, k)
    BY <1>2, <1>3, <2>1, DelAttrOK
  <2>3. /\ k \in DOMAIN Meanings(tab)
        /\ Meanings(x) = [y \in DOMAIN Meanings(tab) \ {k} |-> Meanings(tab)[y]]
    BY <1>2, <2>2, DeletedMeans
  <2>4. Attrs!Delete(k)
    BY <1>4, <2>3 DEF Attrs!Delete
  <2> QED
    BY <2>1, <2>4
<1>7. CASE \E k \in names["attrs"], v \in Values["attr"] :
              IF "class" \in Tables THEN SetInstance(k, v) ELSE SetAttr(k, v)
  <2>1. PICK k \in Key, v \in Value : SetAttr(k, v)
    BY <1>1, <1>2, <1>5, <1>7, TypesOK
  <2>2. PutIn(tab, k, v, x)
    BY <1>2, <1>3, <2>1, SetAttrOK
  <2>3. Meanings(x) = PutAt(Meanings(tab), k, [NoAccessor EXCEPT !.plain = v])
    BY <1>2, <2>2, PutMeans
  <2>4. Attrs!Set(k, [NoAccessor EXCEPT !.plain = v])
    BY <1>4, <2>3 DEF Attrs!Set, Attrs!Put, PutAt
  <2> QED
    BY <2>1, <2>4
<1> QED
  BY <1>5, <1>6, <1>7 DEF StepsTo, vars

\* What each step does to the methods of a class without a superclass.
LEMMA MethodsStep ==
    ASSUME TabInv, StepsTo, Tables = {"class"}, ~UNCHANGED tabs
    PROVE  \E k \in Key, f \in Kinds, v \in Value :
             Methods!Set(k, Defined(k, f, v)) /\ Method("class", k, f, v)
<1>1. TabsInv
  BY DEF TabInv
<1>2. PICK tab : tab = tabs["class"] /\ TabOK(tab) /\ "class" \in Tables
  BY <1>1, TypesOK DEF TabInv, TabsInv
<1>3. PICK x : x = tabs'["class"]
  OBVIOUS
<1>4. Contents("class") = Meanings(tab) /\ Contents("class")' = Meanings(x) /\ Names("class") = TabKeys(tab)
  BY <1>2, <1>3, ContentsIs
<1>5. "attrs" \notin Tables /\ "builtin" \notin Tables /\ "super" \notin Tables
  OBVIOUS
<1>6. PICK f \in Kinds : \E k \in names["class"], v \in Values[f] : Method("class", k, f, v)
  BY <1>2, <1>5 DEF StepsTo, vars
<1>7. PICK k \in Key, v \in Value : Method("class", k, f, v)
  BY <1>1, <1>2, <1>6, TypesOK
<1>8. PutMethodIn(tab, k, f, v, x)
  BY <1>2, <1>3, <1>7, MethodOK
<1>9. Meanings(x) = PutAt(Meanings(tab), k, Redefined(tab, k, f, v))
  BY <1>8, PutMethodMeans
<1>10. PICK m : m = Defined(k, f, v) /\ Meanings(x) = PutAt(Meanings(tab), k, m)
  <2>1. Defined(k, f, v) = Redefined(tab, k, f, v)
    BY <1>4, Zenon DEF Defined, Redefined
  <2> QED
    BY <1>9, <2>1, Zenon
<1>11. Methods!Set(k, m)
  BY <1>4, <1>10 DEF Methods!Set, Methods!Put, PutAt
<1> QED
  BY <1>7, <1>10, <1>11

\* What inheriting comes to.
LEMMA InheritStep ==
    ASSUME TabInv, StepsTo, "super" \in Tables, Inherit, ~UNCHANGED tabs
    PROVE  /\ Names("class")' = Names("super")
           /\ \A k \in Names("super") : Contents("super")[k].plain # Nil =>
                 Contents("class")'[k] = Contents("super")[k]
<1>1. TabsInv
  BY DEF TabInv
<1>2. "class" \in Tables
  <2>1. PICK d : d = DOMAIN names
    OBVIOUS
  <2>2. tabs = [t \in d |-> tabs[t]] /\ Tables = d
    BY <1>1, <2>1, TypesOK DEF TabsInv
  <2>3. PICK x : tabs' = [tabs EXCEPT !["class"] = x]
    BY DEF Inherit
  <2>4. "class" \notin d => tabs' = tabs
    BY <2>2, <2>3
  <2> QED
    BY <2>2, <2>4
<1>3. PICK from, x : from = tabs["super"] /\ x = tabs'["class"]
  OBVIOUS
<1>4. Copied(from, x)
  BY <1>2, <1>3, InheritOK
<1>5. /\ Names("super") = TabKeys(from) /\ Contents("super") = Meanings(from)
      /\ Names("class")' = TabKeys(x) /\ Contents("class")' = Meanings(x)
  BY <1>3, ContentsIs
<1>6. ASSUME NEW k \in TabKeys(from), Meanings(from)[k].plain # Nil
      PROVE  Meanings(x)[k] = Meanings(from)[k]
  <2>1. PICK e, c : e = TabEntry(from, k) /\ c = TabEntry(x, k)
    OBVIOUS
  <2>2. Meanings(from)[k] = Meaning(e) /\ Meanings(x)[k] = Meaning(c) /\ c.flags = {} /\ c.val = e.val
    BY <1>4, <2>1 DEF Copied, Meanings
  <2>3. e.flags = {}
    BY <1>6, <2>2 DEF Meaning
  <2> QED
    BY <2>2, <2>3 DEF Meaning
<1> QED
  BY <1>4, <1>5, <1>6 DEF Copied

\* A Tab is a dictionary in each of its uses: tombstones, collisions and growing neither
\* lose nor mix up attributes, a getter and a setter share an entry, and a subclass has the
\* names of its superclass and its methods that are not accessors.
THEOREM TabsAreDictionaries == Spec => TabIsDictionary
<1>1. TabInv /\ [Next]_vars =>
        [Tables = {"attrs"} =>
            \E k \in Key :
               \/ \E v \in Value : Attrs!Set(k, [NoAccessor EXCEPT !.plain = v]) /\ SetAttr(k, v)
               \/ Attrs!Delete(k) /\ DelAttr(k)]_tabs
  BY NextIs, AttrsStep
<1>2. TabInv /\ [Next]_vars =>
        [Tables = {"class"} =>
            \E k \in Key, f \in Kinds, v \in Value :
               Methods!Set(k, Defined(k, f, v)) /\ Method("class", k, f, v)]_tabs
  BY NextIs, MethodsStep
<1>3. TabInv /\ [Next]_vars =>
        ["super" \in Tables /\ Inherit =>
            /\ Names("class")' = Names("super")
            /\ \A k \in Names("super") : Contents("super")[k].plain # Nil =>
                  Contents("class")'[k] = Contents("super")[k]]_tabs
  BY NextIs, InheritStep
<1>4. Spec => AttrsAreDictionary
  BY <1>1, SpecInv, PTL DEF Spec, AttrsAreDictionary
<1>5. Spec => MethodsAreDictionary
  BY <1>2, SpecInv, PTL DEF Spec, MethodsAreDictionary
<1>6. Spec => InheritsMethods
  BY <1>3, SpecInv, PTL DEF Spec, InheritsMethods
<1> QED
  BY <1>4, <1>5, <1>6 DEF TabIsDictionary

-----------------------------------------------------------------------------
(* Attributes of instances                                                 *)

\* What the class c answers for a name that the instance does not have.
FromClass(c, k) ==
    LET At(x) == c.entries[Find(c.entries, c.size, x).at]
    IN  IF Holds(c, k)
        THEN Outcome(IF "get" \in At(k).flags THEN "getter" ELSE "method",
                     IF "get" \in At(k).flags THEN At(k).val
                     ELSE IF At(k).flags = {"set"} THEN At(k).set ELSE At(k).val)
        ELSE IF Holds(c, MMGetattr) THEN Outcome("getattr", At(MMGetattr).val)
        ELSE Outcome("error", Nil)

\* What an instance with attributes a of class c answers.
Answer(a, c, k) ==
    IF Holds(a, k) THEN Outcome("value", a.entries[Find(a.entries, a.size, k).at].val) ELSE FromClass(c, k)

\* Reading an attribute, as a function of the tables of the instance and of its class.
LEMMA AnswerIs ==
    ASSUME NEW k
    PROVE  /\ tea_meta_getattr(k) = Answer(tabs["attrs"], tabs["class"], k)
           /\ tea_meta_getattr(k)' = Answer(tabs'["attrs"], tabs'["class"], k)
<1>1. tea_meta_getattr(k) = Answer(tabs["attrs"], tabs["class"], k)
  BY DEF tea_meta_getattr, Answer, FromClass, Knows, EntryAt, Flags, tea_tab_getx
<1>2. tea_meta_getattr(k)' = Answer(tabs'["attrs"], tabs'["class"], k)
  BY DEF tea_meta_getattr, Answer, FromClass, Knows, EntryAt, Flags, tea_tab_getx
<1> QED
  BY <1>1, <1>2

\* Only the table of attributes decides what is answered first.
LEMMA AnswerOf ==
    ASSUME NEW a, TabOK(a), NEW c, NEW k \in Key
    PROVE  Answer(a, c, k) = IF k \in TabKeys(a) THEN Outcome("value", TabEntry(a, k).val) ELSE FromClass(c, k)
  BY HoldsOK DEF Answer

\* What a step that changes no other table does to the answers of an instance.
LEMMA InstanceStep ==
    ASSUME TabInv, StepsTo, Instance, \A t \in Tables \ {"attrs"} : tabs'[t] = tabs[t], ~UNCHANGED tabs
    PROVE  \E k \in names["attrs"] :
              /\ \/ DelAttr(k)
                 \/ \E v \in Values["attr"] :
                       SetInstance(k, v) /\ tea_meta_getattr(k)' = Outcome("value", v)
              /\ \A other \in Key \ {k} : tea_meta_getattr(other)' = tea_meta_getattr(other)
<1>1. TabsInv /\ TabInv' /\ "attrs" \in Tables /\ "class" \in Tables
  <2>1. TabInv'
    BY NextOfStep
  <2> QED
    BY <2>1 DEF TabInv, Instance
<1>2. PICK a, b, c : a = tabs["attrs"] /\ b = tabs'["attrs"] /\ c = tabs["class"] /\ c = tabs'["class"]
  BY <1>1
<1>3. TabOK(a)
  BY <1>1, <1>2, TypesOK DEF TabsInv
<1>4. \A k : tea_meta_getattr(k) = Answer(a, c, k) /\ tea_meta_getattr(k)' = Answer(b, c, k)
  BY <1>2, AnswerIs
<1>5. ASSUME NEW t \in Tables, t # "attrs", Changes(t, tabs'[t]) PROVE FALSE
  <2>1. PICK d : d = DOMAIN tabs
    OBVIOUS
  <2>2. tabs = [u \in d |-> tabs[u]] /\ Tables = d
    BY <1>1, <2>1 DEF TabsInv, Tables
  <2>3. tabs' = [u \in d |-> tabs'[u]]
    BY <1>1, <1>5, <2>2 DEF TabInv, TabsInv, Changes, Tables
  <2>4. \A u \in d : tabs'[u] = tabs[u]
    BY <1>5, <2>2 DEF Changes
  <2> QED
    BY <2>2, <2>3, <2>4
<1>6. CASE \E k \in names["attrs"] : DelAttr(k)
  <2>1. PICK k \in names["attrs"] : DelAttr(k)
    BY <1>6
  <2>2. k \in Key
    BY <1>1, TypesOK
  <2>3. b = Deleted(a, k) /\ Holds(a, k)
    BY <1>1, <1>2, <2>1, <2>2, DelAttrOK
  <2>4. /\ TabOK(b)
        /\ TabKeys(b) = TabKeys(a) \ {k}
        /\ \A x \in TabKeys(b) : TabEntry(b, x) = TabEntry(a, x)
    BY <1>3, <2>2, <2>3, RemoveTabOK
  <2>5. ASSUME NEW other \in Key \ {k} PROVE tea_meta_getattr(other)' = tea_meta_getattr(other)
    BY <1>3, <1>4, <2>4, AnswerOf
  <2> QED
    BY <2>1, <2>5
<1>7. CASE \E k \in names["attrs"], v \in Values["attr"] :
              IF "class" \in Tables THEN SetInstance(k, v) ELSE SetAttr(k, v)
  <2>1. PICK k \in names["attrs"], v \in Values["attr"] : SetInstance(k, v)
    BY <1>1, <1>7
  <2>2. k \in Key /\ v \in Value /\ SetAttr(k, v)
    BY <1>1, <2>1, TypesOK DEF SetInstance
  <2>3. PutIn(a, k, v, b)
    BY <1>1, <1>2, <2>2, SetAttrOK
  <2>4. PICK e \in Entry : TabWritten(a, k, e, b) /\ e.val = v
    BY <2>3 DEF PutIn
  <2>5. /\ TabOK(b)
        /\ TabKeys(b) = TabKeys(a) \cup {k}
        /\ TabEntry(b, k) = e
        /\ \A x \in TabKeys(a) \ {k} : TabEntry(b, x) = TabEntry(a, x)
    BY <2>4 DEF TabWritten, Written, TabKeys, TabEntry
  <2>6. tea_meta_getattr(k)' = Outcome("value", v)
    BY <1>4, <2>2, <2>4, <2>5, AnswerOf
  <2>7. ASSUME NEW other \in Key \ {k} PROVE tea_meta_getattr(other)' = tea_meta_getattr(other)
    BY <1>3, <1>4, <2>5, AnswerOf
  <2> QED
    BY <2>1, <2>6, <2>7
<1>8. ASSUME NEW t \in Tables \ {"attrs"}, NEW f \in Kinds, NEW k \in names[t], NEW v \in Values[f],
             Method(t, k, f, v)
      PROVE  FALSE
  <2>1. k \in Key /\ v \in Value
    BY <1>1, TypesOK
  <2> QED
    BY <1>5, <1>8, <2>1, MethodOK
<1>9. ASSUME {"class", "super"} \subseteq Tables, Inherit PROVE FALSE
  BY <1>5, <1>9, InheritOK
<1>10. ASSUME "builtin" \in Tables, NEW k \in names["builtin"], InvokeBuiltin(k) PROVE FALSE
  BY <1>1, <1>5, <1>10, TypesOK, InvokeBuiltinOK
<1> QED
  BY <1>6, <1>7, <1>8, <1>9, <1>10 DEF StepsTo, vars

\* What is set is what is read: the attribute hides the class, and every other name answers
\* as before.
THEOREM SetIsRead == Spec => ReadsWhatWasSet
<1>1. TabInv /\ [Next]_vars =>
        [Instance /\ (\A t \in Tables \ {"attrs"} : tabs'[t] = tabs[t]) =>
            \E k \in names["attrs"] :
               /\ \/ DelAttr(k)
                  \/ \E v \in Values["attr"] :
                        SetInstance(k, v) /\ tea_meta_getattr(k)' = Outcome("value", v)
               /\ \A other \in Key \ {k} : tea_meta_getattr(other)' = tea_meta_getattr(other)]_tabs
  BY NextIs, InstanceStep
<1> QED
  BY <1>1, SpecInv, PTL DEF Spec, ReadsWhatWasSet

\* Calling an attribute comes to what reading it and calling the result comes to, in every
\* state of the tables: vm_invoke only saves binding the method.
THEOREM InvokeAlwaysGetThenCall == Spec => []InvokeIsGetThenCall
<1>1. ASSUME NEW k PROVE vm_invoke(k) = vm_precall(tea_meta_getattr(k))
  <2>1. CASE Knows("attrs", k)
    BY <2>1 DEF vm_invoke, tea_meta_getattr, vm_precall, Outcome
  <2>2. CASE ~Knows("attrs", k) /\ Knows("class", k) /\ "get" \in Flags("class", k)
    BY <2>2 DEF vm_invoke, tea_meta_getattr, vm_precall, Outcome
  <2>3. CASE ~Knows("attrs", k) /\ Knows("class", k) /\ "get" \notin Flags("class", k)
    BY <2>3 DEF vm_invoke, tea_meta_getattr, vm_precall, Outcome
  <2>4. CASE ~Knows("attrs", k) /\ ~Knows("class", k) /\ Knows("class", MMGetattr)
    BY <2>4 DEF vm_invoke, tea_meta_getattr, vm_precall, Outcome
  <2>5. CASE ~Knows("attrs", k) /\ ~Knows("class", k) /\ ~Knows("class", MMGetattr)
    BY <2>5 DEF vm_invoke, tea_meta_getattr, vm_precall, Outcome
  <2> QED
    BY <2>1, <2>2, <2>3, <2>4, <2>5
<1>2. InvokeIsGetThenCall
  BY <1>1 DEF InvokeIsGetThenCall
<1> QED
  BY <1>2, PTL
=============================================================================
