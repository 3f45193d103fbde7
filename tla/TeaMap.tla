------------------------------- MODULE TeaMap -------------------------------
(***************************************************************************)
(* The hash map of tea_map.c, as a Map object sees it, and the two ways to *)
(* traverse it: by index (for loops and foreach, lib_map.c), the program   *)
(* changing the map between two steps, and by key (tea_next).              *)
(*                                                                         *)
(* Abstractions.  Keys are compared by identity and hash to given numbers; *)
(* nil and NaN are refused before anything happens and are left out.  The  *)
(* load limits are given in quarters: 3 and 1 in the code.                 *)
(***************************************************************************)
EXTENDS OpenAddressing

CONSTANTS
    Value,     \* values
    Nil,       \* no key
    MinSize,   \* TEA_MIN_VECSIZE
    MaxLoad,   \* MAP_MAX_LOAD in quarters
    MinLoad,   \* MAP_MIN_LOAD in quarters
    LoopSize   \* bound: largest array a loop begins in

\* An array grows before it is full: MinSize is 8 in the code, MaxLoad is 3.
ASSUME MapConstantsOK ==
    /\ MinSize \in Nat \ {0, 1}
    /\ MaxLoad \in 1..3
    /\ MinLoad \in 0..MaxLoad
    /\ Nil \notin Key
    /\ LoopSize \in Nat

VARIABLES
    entries,  \* map->entries
    size,     \* map->size
    count,    \* map->count
    loop      \* a traversal by index, and one key watched in it

array == <<entries, size, count>>
vars == <<entries, size, count, loop>>

EmptyEntry == [key |-> Empty, val |-> Nil]
TombEntry == [key |-> Tomb, val |-> Nil]
Entry == [key : Key, val : Value] \cup {EmptyEntry, TombEntry}

\* A loop: the next index, a key that was in the map when it began, how often the
\* loop has returned that key.
NoLoop == [on |-> FALSE, idx |-> 0, key |-> Nil, times |-> 0]

Keys == {entries[i].key : i \in Used(entries, size)}

TypeOK ==
    /\ size \in Nat
    /\ count \in 0..size
    /\ entries \in [0..size-1 -> Entry]
    /\ loop \in [on : BOOLEAN, idx : Nat, key : Key \cup {Nil}, times : Nat]

Init ==
    /\ entries = Blank(0, EmptyEntry)
    /\ size = 0
    /\ count = 0
    /\ loop = NoLoop

\* The map changes under a loop.  Once the array has been replaced or the key is
\* deleted, nothing is promised about the key, and the loop is not followed.
Watch == loop' = IF loop.on /\ size' = size /\ loop.key \in Keys' THEN loop ELSE NoLoop

-----------------------------------------------------------------------------
(* Setting and deleting                                                    *)

\* tea_map_set makes room, even for a key that is present: TEA_MEM_GROW.
GrownSize == IF 4 * (count + 1) > MaxLoad * size
             THEN (IF size < MinSize THEN MinSize ELSE 2 * size) ELSE size

Set(k, v) ==
    LET es == IF GrownSize = size THEN entries ELSE Rehash(entries, size, GrownSize, EmptyEntry)
        f == Find(es, GrownSize, k)
    IN  /\ entries' = [es EXCEPT ![f.at] = [key |-> k, val |-> v]]
        /\ size' = GrownSize
        /\ count' = IF f.found THEN count ELSE count + 1
        /\ Watch

\* tea_map_delete with c entries left.
ShrunkSize(c) ==
    IF size > MinSize /\ 4 * c < MinLoad * (size \div 2)
    THEN (IF size \div 2 < MinSize THEN MinSize ELSE size \div 2) ELSE size

\* A deleted entry becomes a tombstone; an emptied map is cleared.
Delete(k) ==
    LET f == Find(entries, size, k)
        es == [entries EXCEPT ![f.at] = TombEntry]
    IN  /\ count # 0
        /\ f.found
        /\ count' = count - 1
        /\ IF count = 1
           THEN size' = 0 /\ entries' = Blank(0, EmptyEntry)
           ELSE /\ size' = ShrunkSize(count - 1)
                /\ entries' = IF ShrunkSize(count - 1) = size THEN es
                              ELSE Rehash(es, size, ShrunkSize(count - 1), EmptyEntry)
        /\ Watch

\* tea_map_clear
Clear ==
    /\ size' = 0
    /\ entries' = Blank(0, EmptyEntry)
    /\ count' = 0
    /\ Watch

-----------------------------------------------------------------------------
(* Traversals                                                              *)

\* The first used entry from index i on, or size.
FirstUsed(i) == Min({j \in Used(entries, size) : j >= i} \cup {size})

\* map_iter, the beginning of map_foreach
StartLoop(k) ==
    /\ size <= LoopSize
    /\ k \in Keys
    /\ ~loop.on
    /\ loop' = [on |-> TRUE, idx |-> 0, key |-> k, times |-> 0]
    /\ UNCHANGED array

\* The loop returns entry i, and goes on with the one at j.
Returns(i, j) ==
    loop' = [loop EXCEPT !.idx = j, !.times = IF entries[i].key = loop.key THEN @ + 1 ELSE @]

\* Fault: the loop goes on behind the entry after the one it returned.
StepLoopSkips ==
    LET i == FirstUsed(loop.idx)
    IN  /\ loop.on
        /\ IF loop.idx >= size \/ count = 0 \/ i = size THEN loop' = NoLoop ELSE Returns(i, i + 2)
        /\ UNCHANGED array

\* map_iternext, one turn of map_foreach
StepLoop ==
    LET i == FirstUsed(loop.idx)
    IN  /\ loop.on
        /\ IF loop.idx >= size \/ count = 0 \/ i = size THEN loop' = NoLoop ELSE Returns(i, i + 1)
        /\ UNCHANGED array

\* map_keyindex, for a key that is in the map, or none.
KeyIndex(k) == IF k = Nil THEN 0 ELSE Find(entries, size, k).at + 1

\* Fault: the successor of a key is searched two entries further.
NextKeySkips(k) ==
    LET i == FirstUsed(IF k = Nil THEN 0 ELSE KeyIndex(k) + 1)
    IN  IF i = size THEN Nil ELSE entries[i].key

\* tea_map_next: the key tea_next answers for k, Nil at the end.
NextKey(k) ==
    LET i == FirstUsed(KeyIndex(k)) IN IF i = size THEN Nil ELSE entries[i].key

Next ==
    \/ \E k \in Key, v \in Value : Set(k, v)
    \/ \E k \in Key : Delete(k)
    \/ Clear
    \/ \E k \in Key : StartLoop(k)
    \/ StepLoop

Spec == Init /\ [][Next]_vars

-----------------------------------------------------------------------------
(* Properties                                                              *)

\* map_get finds a key exactly if an entry has it, and a search for an absent key
\* ends at an entry that is free: probing and tombstones never hide a key, and
\* never let a second entry for a key or an overwritten one come up ("Map should have
\* tombstones or empty entries").
ProbingFinds ==
    /\ TypeOK
    /\ \A k \in Key :
        size > 0 =>
            LET f == Find(entries, size, k)
            IN  /\ f.found <=> k \in Keys
                /\ ~f.found => f.at \in 0..size-1 /\ entries[f.at].key \notin Key
                /\ Cardinality({i \in Used(entries, size) : entries[i].key = k}) <= 1

\* The map is a dictionary: growing, shrinking, clearing and reusing tombstones
\* lose, duplicate or mix up nothing, and every operation does what the dictionary's
\* operation of the same name does.
Contents == [k \in Keys |-> entries[CHOOSE i \in Used(entries, size) : entries[i].key = k].val]

Map == INSTANCE Dictionary WITH dict <- Contents

MapIsDictionary ==
    [][\/ UNCHANGED array
       \/ \E k \in Key, v \in Value : Map!Set(k, v) /\ Set(k, v)
       \/ \E k \in Key : Map!Delete(k) /\ Delete(k)
       \/ Map!Clear /\ Clear]_vars

\* A loop returns every key that was in the map all the time exactly once, whatever
\* other keys were set and deleted meanwhile, as long as the array stays.
LoopComplete == [][loop.on /\ StepLoop => IF loop'.on THEN loop'.times <= 1 ELSE loop.times = 1]_vars

\* tea_next, begun with nil and continued with each key it answers, goes through
\* all the keys and ends: every key is the successor of one other, and successors
\* are further on in the array, whatever tombstones and collisions there are.
NextVisitsAll ==
    LET From == Keys \cup {Nil}
        At(k) == CHOOSE i \in Used(entries, size) : entries[i].key = k
    IN  /\ {NextKey(k) : k \in From} = From
        /\ \A k \in Keys : NextKey(k) # Nil => At(NextKey(k)) > At(k)
=============================================================================
