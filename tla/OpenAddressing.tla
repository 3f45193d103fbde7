--------------------------- MODULE OpenAddressing ---------------------------
(***************************************************************************)
(* The probing scheme tea_map.c and tea_tab.c share: linear probing in an  *)
(* array whose size is a power of two, with tombstones.  An array es of    *)
(* size n is a function on 0..n-1; an entry is a record with a key, which  *)
(* is a real key, Empty or Tomb.                                           *)
(***************************************************************************)
EXTENDS Integers, FiniteSets, FiniteSetsExt

CONSTANTS
    Key,   \* the keys
    Hash   \* Hash[k]: their hash values

Empty == "empty"
Tomb == "tombstone"

ASSUME HashOK == Hash \in [Key -> Nat] /\ Key \cap {Empty, Tomb} = {}

\* The j-th slot the search for k visits.
Slot(k, j, n) == (Hash[k] + j) % n

Used(es, n) == {i \in 0..n-1 : es[i].key \in Key}
Blank(n, entry) == [i \in 0..n-1 |-> entry]

\* Fault: a search ends at a tombstone.
FindToTomb(es, n, k) ==
    LET stops == {j \in 0..n-1 : es[Slot(k, j, n)].key \in {k, Empty, Tomb}}
        at == Slot(k, Min(stops), n)
    IN  [found |-> es[at].key = k, at |-> at]

\* map_find_entry, tab_findkey: the entry of k, or the one a new k would take:
\* the first tombstone passed, else the empty entry that ended the search (-1, a
\* null pointer, if there is neither).
Find(es, n, k) ==
    LET stops == {j \in 0..n-1 : es[Slot(k, j, n)].key \in {k, Empty}}
        tombs == {j \in 0..n-1 : es[Slot(k, j, n)].key = Tomb}
        at == Slot(k, Min(stops), n)
    IN  IF stops \cup tombs = {} THEN [found |-> FALSE, at |-> -1]
        ELSE IF stops # {} /\ es[at].key = k THEN [found |-> TRUE, at |-> at]
        ELSE [found |-> FALSE, at |-> Slot(k, Min(stops \cup tombs), n)]

\* Fault: the entries keep their positions.
RehashInPlace(es, n, m, blank) ==
    [i \in 0..m-1 |-> IF i < n /\ es[i].key \in Key THEN es[i] ELSE blank]

\* map_resize, tab_resize: the used entries move to a new array, in index order.
Rehash(es, n, m, blank) ==
    LET moved[i \in 0..n] ==
            IF i = 0 THEN Blank(m, blank)
            ELSE IF es[i-1].key \notin Key THEN moved[i-1]
            ELSE [moved[i-1] EXCEPT ![Find(moved[i-1], m, es[i-1].key).at] = es[i-1]]
    IN  moved[n]

-----------------------------------------------------------------------------
(* What keeps the searches right                                           *)

\* The search for the key of a used entry comes to it before any empty one.
Reached(es, n) ==
    \A i \in Used(es, n) : \E d \in 0..n-1 :
        /\ Slot(es[i].key, d, n) = i
        /\ \A j \in 0..d-1 : es[Slot(es[i].key, j, n)].key # Empty

\* No key has two entries.
Once(es, n) == \A i, j \in Used(es, n) : es[i].key = es[j].key => i = j

\* Searches find every used entry and no other.
Searchable(es, n) == Reached(es, n) /\ Once(es, n)
=============================================================================
