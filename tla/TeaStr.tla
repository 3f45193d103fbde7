------------------------------- MODULE TeaStr -------------------------------
(***************************************************************************)
(* String interning (tea_str.c): the chained hash table in which every     *)
(* string is found again by its contents, so that strings are compared by  *)
(* address, while the collector frees strings, shrinks the table and runs  *)
(* gc methods that intern strings, all from inside tea_str_new.            *)
(*                                                                         *)
(* Abstractions.  Contents are model values that hash to given numbers.    *)
(* The order of a chain is left out.  What the program holds of a string   *)
(* stands for all the references to it.                                    *)
(***************************************************************************)
EXTENDS Integers, FiniteSets

CONSTANTS
    Str,          \* addresses of strings
    Content,      \* what strings can contain
    Hash,         \* Hash[c]: hash value of contents c
    Null,         \* free address; no string
    MinSize,      \* TEA_MIN_STRTAB
    GcMethods,    \* do gc methods run and intern strings
    GrowCollects  \* may the allocation of a larger table start a collection

ASSUME StrConstantsOK ==
    /\ IsFiniteSet(Str)
    /\ Hash \in [Content -> Nat]
    /\ Null \notin Content \cup Str
    /\ MinSize \in Nat \ {0}
    /\ {GcMethods, GrowCollects} \subseteq BOOLEAN

VARIABLES
    chars,  \* chars[s]: contents of the string at address s
    chain,  \* T->str.hash: the set of strings in each chain
    size,   \* T->str.size
    num,    \* T->str.num
    held,   \* strings the program refers to
    result  \* what tea_str_new returned last

table == <<chars, chain, size, num>>
strvars == <<chars, chain, size, num, held, result>>

Live == {s \in Str : chars[s] # Null}
Linked(t) == UNION {t.chain[i] : i \in 0..t.size-1}

StrTypeOK ==
    /\ chars \in [Str -> Content \cup {Null}]
    /\ size \in Nat
    /\ chain \in [0..size-1 -> SUBSET Str]
    /\ num \in 0..Cardinality(Str)
    /\ held \subseteq Str
    /\ result \in Str \cup {Null}

StrInit ==
    /\ chars = [s \in Str |-> Null]
    /\ size = MinSize
    /\ chain = [i \in 0..size-1 |-> {}]
    /\ num = 0
    /\ held = {}
    /\ result = Null

-----------------------------------------------------------------------------
(* The table as a record, so that one call can change it several times     *)

Tab == [chars |-> chars, chain |-> chain, size |-> size, num |-> num]
Becomes(t) == chars' = t.chars /\ chain' = t.chain /\ size' = t.size /\ num' = t.num

\* Fault: strings are moved by their position in the old table.
ResizedUnhashed(t, m) ==
    [t EXCEPT !.size = m,
              !.chain = [i \in 0..m-1 |-> IF i < t.size THEN t.chain[i] ELSE {}]]

\* tea_str_resize
Resized(t, m) ==
    [t EXCEPT !.size = m,
              !.chain = [i \in 0..m-1 |-> {s \in Linked(t) : Hash[t.chars[s]] % m = i}]]

\* The search of tea_str_new, in one chain.
Matches(t, c) == {s \in t.chain[Hash[c] % t.size] : t.chars[s] = c}

\* str_alloc, up to the growth of the table.
Added(t, c, s) ==
    [t EXCEPT !.chars[s] = c, !.chain[Hash[c] % t.size] = @ \cup {s}, !.num = @ + 1]

Enlarged(t) == IF t.num > t.size THEN Resized(t, 2 * t.size) ELSE t

\* gc_sweep of every chain, and the table shrinks if it has become too large.
SweptOf(t, keep) ==
    LET dead == Linked(t) \ keep
        u == [t EXCEPT !.chars = [s \in Str |-> IF s \in dead THEN Null ELSE t.chars[s]],
                       !.chain = [i \in 0..t.size-1 |-> t.chain[i] \ dead],
                       !.num = @ - Cardinality(dead)]
    IN  IF u.num < u.size \div 4 /\ u.size > MinSize * 2 THEN Resized(u, u.size \div 2) ELSE u

\* Fault: a string on top of the stack is not a root.
CollectedBelowTop(t) == {SweptOf(t, held \ {result})}

\* tea_gc_collect: what it leaves, gc methods, which may intern contents, included.
Collected(t) ==
    LET u == SweptOf(t, held)
    IN  {u} \cup
        {Enlarged(Added(u, c, s)) : c \in {d \in Content : GcMethods /\ Matches(u, d) = {}},
                                    s \in {s \in Str : u.chars[s] = Null}}

\* str_alloc lets the table grow; the new array is allocated first.
GrownTabs(t) ==
    IF t.num <= t.size THEN {t}
    ELSE {Resized(u, 2 * t.size) : u \in {t} \cup (IF GrowCollects THEN Collected(t) ELSE {})}

-----------------------------------------------------------------------------
\* tea_str_new: the string that exists, or a new one, for whose memory a
\* collection may be needed.
New(c) ==
    /\ IF Matches(Tab, c) # {}
       THEN /\ \E s \in Matches(Tab, c) : result' = s
            /\ UNCHANGED table
       ELSE \E t \in {Tab} \cup Collected(Tab) :
              \E s \in {s \in Str : t.chars[s] = Null} :
                \E g \in GrownTabs(Added(t, c, s)) :
                    Becomes(g) /\ result' = s
    /\ held' = held \cup {result'}

\* The program drops its references to a string.
Drop(s) ==
    /\ held' = held \ {s}
    /\ result' = IF result = s THEN Null ELSE result
    /\ UNCHANGED table

\* A collection started by another allocation.
CollectStrings ==
    /\ \E t \in Collected(Tab) : Becomes(t)
    /\ UNCHANGED <<held, result>>

StrNext ==
    \/ \E c \in Content : New(c)
    \/ \E s \in held : Drop(s)
    \/ CollectStrings

StrSpec == StrInit /\ [][StrNext]_strvars

-----------------------------------------------------------------------------
(* Properties                                                              *)

\* Two live strings never have the same contents: comparing addresses compares
\* strings ("Check if the string has already been interned").
Interned == \A s, t \in Live : chars[s] = chars[t] => s = t

\* Every live string is found where its hash value says, in a table of any size it
\* has had, and the count that decides when the table grows and shrinks is right.
TableConsistent ==
    /\ \A s \in Live, i \in 0..size-1 : s \in chain[i] <=> i = Hash[chars[s]] % size
    /\ Linked(Tab) = Live
    /\ num = Cardinality(Live)

\* What the program holds is live, the string just returned included ("Return newly
\* interned string").
HeldLive == held \subseteq Live

\* The table is right and what is held is in it.
TableSound == StrTypeOK /\ TableConsistent /\ HeldLive
=============================================================================
