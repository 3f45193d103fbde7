------------------------------ MODULE MC_TeaLib ------------------------------
(* TeaLib with lists of up to three items of three kinds, and lists of     *)
(* numbers long enough for a sort to partition; and TeaLib compared with   *)
(* the operations on sequences of SequenceMethods.                         *)
EXTENDS TeaLib

Numbers == -1..7
Inner == <<0, 2>>
Items3 == {0, Nil, l2}
Args == {0, 2, -1, Nil, l2, Fn, Str}
Answers == {True, False, Nil}

\* The items of an argument: extend takes none from what is no list, for flat it is
\* an item itself.
Holds(v) == IF IsList(v) THEN past.lists[v] ELSE IF job.fn = "extend" THEN << >> ELSE <<v>>

Ops == INSTANCE SequenceMethods

\* The methods that call nobody do to the list what their names say, return the value
\* they should and leave other lists alone: their loops of API calls on a stack that
\* shifts under them come to the operations on sequences.
MethodsAreSequenceOps ==
    Ended(Simple \cup {"slice", "+"}) =>
        LET p == Ops!Promised(job.fn, l1, Before, past.args, Holds, IsList,
                              LAMBDA i : IsNum(i) /\ i >= 0 /\ i < Len(Before), IsSize,
                              New, True, False)
        IN  /\ api.fails = p.fails
            /\ api.lists[l1] = p.self /\ api.lists[l2] = past.lists[l2]
            /\ ~p.fails => Result = p.value
            /\ Result = New => api.lists[New] = p.made

\* A slice whose end is negative stops as many items before the end of the list, as the
\* branch of tea_list_slice for such an end computes.  It is never taken.
SlicesFromEnd ==
    Ended({"slice"}) /\ past.args[1] = 0 /\ past.args[3] = 1 =>
        LET end == past.args[2]
        IN  end < 0 /\ Before # << >> => Len(api.lists[New]) = Len(Before) + end
=============================================================================
