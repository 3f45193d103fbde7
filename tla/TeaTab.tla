------------------------------- MODULE TeaTab -------------------------------
(***************************************************************************)
(* The hash table of tea_tab.c, in its two uses: the attributes of an      *)
(* instance (or the exports of a module), and the methods of a class,      *)
(* where an entry may hold a getter and a setter in place of a value.      *)
(* A subclass starts with a copy of its superclass' methods.  What uses    *)
(* these tables is in TeaAttr.                                             *)
(*                                                                         *)
(* Abstractions.  Names are interned, so they are compared by identity; the *)
(* flag of static methods is left out.                                     *)
(***************************************************************************)
EXTENDS OpenAddressing

CONSTANTS
    Values,   \* bound: Values[f], what attributes and methods of kind f can be
    Nil,      \* no value
    MinSize,  \* TEA_MIN_VECSIZE
    MaxLoad,  \* TABLE_MAX_LOAD in quarters
    Setups    \* which tables exist, and the names in them: a set of answers

Kinds == {"plain", "get", "set"}
Value == UNION {Values[f] : f \in DOMAIN Values}

\* An array grows before it is full: MinSize is 8 in the code, MaxLoad is 3.
ASSUME TabConstantsOK ==
    /\ MinSize \in Nat \ {0, 1}
    /\ MaxLoad \in 1..3
    /\ DOMAIN Values = Kinds \cup {"attr"}
    /\ Nil \notin Value
    /\ \A names \in Setups : /\ DOMAIN names \subseteq {"attrs", "class", "super", "builtin"}
                             /\ \A t \in DOMAIN names : names[t] \subseteq Key

VARIABLES
    tabs,   \* tabs[t]: the Tab struct
    names   \* names[t]: bound: the names used in t

vars == <<tabs, names>>
Tables == DOMAIN tabs

\* u.val and u.acc.get share their memory: val is both.
EmptyEntry == [key |-> Empty, flags |-> {}, val |-> Nil, set |-> Nil]
TombEntry == [key |-> Tomb, flags |-> {}, val |-> Nil, set |-> Nil]
NewTab == [entries |-> Blank(0, EmptyEntry), size |-> 0, count |-> 0]

Entry == [key : Key \cup {Empty, Tomb}, flags : SUBSET {"get", "set"},
          val : Value \cup {Nil}, set : Value \cup {Nil}]

TypeOK ==
    /\ names \in Setups
    /\ Tables = DOMAIN names
    /\ \A t \in Tables :
          /\ tabs[t].size \in Nat
          /\ tabs[t].count \in 0..tabs[t].size
          /\ tabs[t].entries \in [0..tabs[t].size-1 -> Entry]

Init == names \in Setups /\ tabs = [t \in DOMAIN names |-> NewTab]

-----------------------------------------------------------------------------
(* Operations on a Tab                                                     *)

GrownSize(tab) ==
    IF 4 * (tab.count + 1) > MaxLoad * tab.size
    THEN (IF tab.size < MinSize THEN MinSize ELSE 2 * tab.size) ELSE tab.size

\* tea_tab_set and tea_tab_setx make room first; tab_resize counts again.
Grown(tab) ==
    LET m == GrownSize(tab) IN
    IF m = tab.size THEN tab
    ELSE [entries |-> Rehash(tab.entries, tab.size, m, EmptyEntry), size |-> m,
          count |-> Cardinality(Used(tab.entries, tab.size))]

\* The entry for k is replaced by what Change makes of it; only an entry that was
\* empty, not a tombstone, adds to the count.
WithEntry(tab, k, Change(_)) ==
    LET g == Grown(tab)
        at == Find(g.entries, g.size, k).at
    IN  [g EXCEPT !.entries[at] = [Change(@) EXCEPT !.key = k],
                  !.count = IF g.entries[at].key = Empty THEN @ + 1 ELSE @]

\* tea_tab_set: the flags are left as they are.
Put(tab, k, v) == WithEntry(tab, k, LAMBDA e : [e EXCEPT !.val = v])

\* Fault: an accessor's flag replaces those of the entry.
PutMethodAlone(tab, k, f, v) ==
    WithEntry(tab, k, LAMBDA e :
        CASE f = "plain" -> [e EXCEPT !.flags = {}, !.val = v]
          [] f = "get" -> [e EXCEPT !.flags = {f}, !.val = v]
          [] f = "set" -> [e EXCEPT !.flags = {f}, !.set = v])

\* tea_tab_setx
PutMethod(tab, k, f, v) ==
    WithEntry(tab, k, LAMBDA e :
        CASE f = "plain" -> [e EXCEPT !.flags = {}, !.val = v]
          [] f = "get" -> [e EXCEPT !.flags = @ \cup {f}, !.val = v]
          [] f = "set" -> [e EXCEPT !.flags = @ \cup {f}, !.set = v])

\* tea_tab_merge: a tea_tab_set for every entry, in index order, copying u.val.
Merged(from, to) ==
    LET merged[i \in 0..from.size] ==
            IF i = 0 THEN to
            ELSE IF from.entries[i-1].key \notin Key THEN merged[i-1]
            ELSE Put(merged[i-1], from.entries[i-1].key, from.entries[i-1].val)
    IN  merged[from.size]

\* Fault: a deleted entry becomes empty.
DeletedToEmpty(tab, k) ==
    [tab EXCEPT !.entries[Find(tab.entries, tab.size, k).at] = EmptyEntry]

\* tea_tab_delete: the count still includes the tombstone.
Deleted(tab, k) ==
    [tab EXCEPT !.entries[Find(tab.entries, tab.size, k).at] = TombEntry]

Holds(tab, k) == tab.size > 0 /\ Find(tab.entries, tab.size, k).found

-----------------------------------------------------------------------------
\* tea_meta_setattr and tea_meta_delattr.
SetAttr(k, v) ==
    /\ tabs' = [tabs EXCEPT !["attrs"] = Put(@, k, v)]
    /\ UNCHANGED names

DelAttr(k) ==
    /\ Holds(tabs["attrs"], k)
    /\ tabs' = [tabs EXCEPT !["attrs"] = Deleted(@, k)]
    /\ UNCHANGED names

\* BC_METHOD, set_method
Method(t, k, f, v) ==
    /\ tabs' = [tabs EXCEPT ![t] = PutMethod(@, k, f, v)]
    /\ UNCHANGED names

\* BC_INHERIT comes before the methods of the class.
Inherit ==
    /\ tabs["class"] = NewTab
    /\ tabs' = [tabs EXCEPT !["class"] = Merged(tabs["super"], @)]
    /\ UNCHANGED names

-----------------------------------------------------------------------------
(* Properties                                                              *)

\* What the entries mean: a value, or a getter and a setter either of which may be
\* missing.
NoAccessor == [plain |-> Nil, get |-> Nil, set |-> Nil]
Meaning(e) ==
    IF e.flags = {} THEN [NoAccessor EXCEPT !.plain = e.val]
    ELSE [plain |-> Nil, get |-> IF "get" \in e.flags THEN e.val ELSE Nil,
          set |-> IF "set" \in e.flags THEN e.set ELSE Nil]

Names(t) == {tabs[t].entries[i].key : i \in Used(tabs[t].entries, tabs[t].size)}
Contents(t) ==
    [k \in Names(t) |->
        Meaning(tabs[t].entries[CHOOSE i \in Used(tabs[t].entries, tabs[t].size) :
                                    tabs[t].entries[i].key = k])]

\* A search ends: tab_findkey has no other way out than the key or an empty entry,
\* so there is always an empty one, and every name that has an entry is found.
SearchEnds ==
    /\ TypeOK
    /\ \A t \in Tables : tabs[t].size > 0 =>
        /\ \E i \in 0..tabs[t].size-1 : tabs[t].entries[i].key = Empty
        /\ \A k \in Key : Holds(tabs[t], k) <=> k \in Names(t)

Attrs == INSTANCE Dictionary WITH dict <- Contents("attrs"), Value <- Nil

\* Attributes are a dictionary: tombstones, their reuse and growing lose nothing.
AttrsAreDictionary ==
    [][Tables = {"attrs"} =>
          \E k \in Key :
             \/ \E v \in Value : Attrs!Set(k, [NoAccessor EXCEPT !.plain = v]) /\ SetAttr(k, v)
             \/ Attrs!Delete(k) /\ DelAttr(k)]_tabs

Methods == INSTANCE Dictionary WITH dict <- Contents("class"), Value <- Nil

\* Methods are a dictionary in which a getter and a setter of one name share an
\* entry: defining one keeps the other, and a plain method replaces both.
Defined(k, f, v) ==
    IF f # "plain" /\ k \in Names("class")
    THEN [Contents("class")[k] EXCEPT ![f] = v, !.plain = Nil]
    ELSE [NoAccessor EXCEPT ![f] = v]

MethodsAreDictionary ==
    [][Tables = {"class"} =>
          \E k \in Key, f \in Kinds, v \in Value :
             Methods!Set(k, Defined(k, f, v)) /\ Method("class", k, f, v)]_tabs

\* A subclass that has defined nothing yet answers every name as its superclass
\* does ("Merge a table into another").
InheritsAll == []["super" \in Tables /\ Inherit => Contents("class")' = Contents("super")]_tabs

\* It has all the names, and the methods that are not accessors.
InheritsMethods ==
    []["super" \in Tables /\ Inherit =>
          /\ Names("class")' = Names("super")
          /\ \A k \in Names("super") : Contents("super")[k].plain # Nil =>
                Contents("class")'[k] = Contents("super")[k]]_tabs

\* A Tab is a dictionary in each use.
TabIsDictionary == AttrsAreDictionary /\ MethodsAreDictionary /\ InheritsMethods
=============================================================================
