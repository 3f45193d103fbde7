------------------------ MODULE CapturedVariables ------------------------
(***************************************************************************)
(* What closures promise to the program: a captured variable is one        *)
(* variable, whoever uses it.  A cell is a variable together with the names *)
(* that denote it: at most one local, numbered by its slot, and any number *)
(* of closures.  Leaving a scope removes local names, never a value a      *)
(* closure can still see.                                                  *)
(***************************************************************************)
EXTENDS Integers

CONSTANTS
    Closure,  \* closures that can exist at a time
    Value     \* values of variables

VARIABLES
    cells,   \* the variables: their names and their value
    height   \* number of locals

vars == <<cells, height>>

\* Each name denotes one variable, so the cells are disjoint.
CellOf(name) == CHOOSE c \in cells : name \in c.names
Names == UNION {c.names : c \in cells}

\* The cells that remain when some names are dropped.
Without(dropped) ==
    {c \in {[names |-> d.names \ dropped, val |-> d.val] : d \in cells} : c.names # {}}

Init == cells = {} /\ height = 0

Declare(v) ==
    /\ height' = height + 1
    /\ cells' = cells \cup {[names |-> {height + 1}, val |-> v]}

Assign(name, v) ==
    /\ cells' = (cells \ {CellOf(name)}) \cup {[CellOf(name) EXCEPT !.val = v]}
    /\ UNCHANGED height

\* A new closure shares the variable of another name.
Capture(c, name) ==
    /\ c \notin Names
    /\ cells' = (cells \ {CellOf(name)}) \cup {[CellOf(name) EXCEPT !.names = @ \cup {c}]}
    /\ UNCHANGED height

\* The locals above n go out of scope.
EndScopes(n) ==
    /\ cells' = Without(n + 1 .. height)
    /\ height' = n

\* They do, and a result or an error takes the next slot.
Unwind(n, v) ==
    /\ cells' = Without(n + 1 .. height) \cup {[names |-> {n + 1}, val |-> v]}
    /\ height' = n + 1

\* A closure is no longer used.
Forget(c) ==
    /\ c \in Names
    /\ cells' = Without({c})
    /\ UNCHANGED height

Next ==
    \/ \E v \in Value : Declare(v)
    \/ \E name \in Names, v \in Value : Assign(name, v)
    \/ \E c \in Closure, name \in Names : Capture(c, name)
    \/ \E n \in 0..height : EndScopes(n) \/ \E v \in Value : Unwind(n, v)
    \/ \E c \in Closure : Forget(c)

Spec == Init /\ [][Next]_vars
=============================================================================
