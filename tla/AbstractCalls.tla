--------------------------- MODULE AbstractCalls ---------------------------
(***************************************************************************)
(* What calls promise to the code that makes them: calls nest, a call that *)
(* returns leaves one value in place of the callee and its arguments, code *)
(* never touches the stack below its own frame, and an error resumes       *)
(* behind the innermost protected call, as if that call had returned.      *)
(***************************************************************************)
EXTENDS Integers, Sequences

VARIABLES
    frames,  \* the calls in progress: the callee's slot, is the call protected
    height,  \* values on the stack
    over     \* an error was not caught: the process has ended

vars == <<frames, height, over>>

Init == frames = <<>> /\ height = 0 /\ over = FALSE

\* The lowest height the running code may bring the stack to.  (The callee's own
\* slot is the code's: a method finds its receiver there.)
Floor == IF frames = <<>> THEN 0 ELSE frames[Len(frames)].slot

Local ==
    /\ height' \in Nat
    /\ height' >= Floor
    /\ UNCHANGED <<frames, over>>

Call ==
    /\ \E slot \in Floor..height, p \in BOOLEAN :
          frames' = Append(frames, [slot |-> slot, protected |-> p])
    /\ height' \in Nat
    /\ height' > frames'[Len(frames')].slot
    /\ UNCHANGED over

Return ==
    /\ frames # <<>>
    /\ frames' = SubSeq(frames, 1, Len(frames) - 1)
    /\ height' = frames[Len(frames)].slot + 1
    /\ UNCHANGED over

Raise ==
    LET protected == {i \in DOMAIN frames : frames[i].protected}
    IN  IF protected = {}
        THEN over' = TRUE /\ UNCHANGED <<frames, height>>
        ELSE /\ \E i \in protected :
                   /\ \A j \in protected : j <= i
                   /\ frames' = SubSeq(frames, 1, i - 1)
                   /\ height' = frames[i].slot + 1
             /\ UNCHANGED over

Next == ~over /\ (Local \/ Call \/ Return \/ Raise)

Spec == Init /\ [][Next]_vars
=============================================================================
