--------------------------- MODULE SequenceMethods ---------------------------
(***************************************************************************)
(* What the methods of lists that call nobody promise, in terms of         *)
(* sequences: the receiver afterwards, the value returned and, if that is  *)
(* the list made by the method, what it holds.                             *)
(***************************************************************************)
EXTENDS Integers, SequencesExt

\* An item's first index, from 0; -1 if there is none.
FirstIndex(s, v) == IF Contains(s, v) THEN SelectInSeq(s, LAMBDA x : x = v) - 1 ELSE -1

Promise(self, value, made) == [fails |-> FALSE, self |-> self, value |-> value, made |-> made]
Error(self) == [fails |-> TRUE, self |-> self, value |-> self, made |-> << >>]

\* The positions an index means: from the front, or one less than 0 from the back.
At(s, i, IsIndex(_)) ==
    {p \in DOMAIN s : (IsIndex(i) /\ p = i + 1) \/ (i = -1 /\ p = Len(s))}
TheOne(set) == CHOOSE x \in set : TRUE

\* The items from start on by step, as far as end, or the last where end is no place in
\* the sequence.
Slice(s, start, end, step) ==
    LET e == IF end \in 0..Len(s) THEN end ELSE Len(s)
        Taken == {p \in DOMAIN s : /\ (p - 1 - start) % 2 = 0 \/ step # 2
                                  /\ IF step > 0 THEN start < p /\ p <= e ELSE e < p - 1 /\ p - 1 <= start}
        up == SetToSortSeq(Taken, <)
    IN  [k \in DOMAIN up |-> s[IF step > 0 THEN up[k] ELSE up[Len(up) + 1 - k]]]

\* The receiver me holds s; Holds gives what the lists among the arguments hold.
Promised(fn, me, s, args, Holds(_), IsList(_), IsIndex(_), IsSize(_),
         new, yes, no) ==
    CASE fn = "len" -> Promise(s, Len(s), << >>)
      [] fn = "new" ->
            IF args = << >> \/ IsSize(args[1]) THEN Promise(s, new, << >>) ELSE Error(s)
      [] fn = "clear" -> Promise(<< >>, me, << >>)
      [] fn = "add" -> Promise(s \o args, me, << >>)
      [] fn = "remove" ->
            IF s = << >> THEN Promise(s, me, << >>)
            ELSE IF Contains(s, args[1])
                 THEN Promise(RemoveAt(s, FirstIndex(s, args[1]) + 1), me, << >>)
                 ELSE Error(s)
      [] fn = "delete" ->
            IF s = << >> THEN Promise(s, me, << >>)
            ELSE IF IsIndex(args[1]) THEN Promise(RemoveAt(s, args[1] + 1), me, << >>) ELSE Error(s)
      [] fn = "insert" ->
            IF IsIndex(args[2]) \/ (s = << >> /\ args[2] = 0)
            THEN Promise(InsertAt(s, args[2] + 1, args[1]), me, << >>) ELSE Error(s)
      [] fn = "extend" -> Promise(s \o Holds(args[1]), me, << >>)
      [] fn = "reverse" -> Promise(Reverse(s), me, << >>)
      [] fn = "fill" -> Promise([p \in DOMAIN s |-> args[1]], me, << >>)
      [] fn = "contains" -> Promise(s, IF Contains(s, args[1]) THEN yes ELSE no, << >>)
      [] fn = "count" -> Promise(s, Len(SelectSeq(s, LAMBDA x : x = args[1])), << >>)
      [] fn = "index" -> Promise(s, FirstIndex(s, args[1]), << >>)
      [] fn = "[]" ->
            IF At(s, args[1], IsIndex) = {} THEN Error(s)
            ELSE Promise(s, s[TheOne(At(s, args[1], IsIndex))], << >>)
      [] fn = "[]=" ->
            IF At(s, args[1], IsIndex) = {} THEN Error(s)
            ELSE Promise([s EXCEPT ![TheOne(At(s, args[1], IsIndex))] = args[2]], args[2], << >>)
      [] fn = "slice" -> Promise(s, new, Slice(s, args[1], args[2], args[3]))
      [] fn = "copy" -> Promise(s, new, s)
      [] fn = "+" ->
            IF IsList(args[1]) /\ IsList(args[2])
            THEN Promise(s, new, Holds(args[1]) \o Holds(args[2])) ELSE Error(s)
      [] fn = "flat" -> Promise(s, new, FlattenSeq([p \in DOMAIN s |-> Holds(s[p])]))
=============================================================================
