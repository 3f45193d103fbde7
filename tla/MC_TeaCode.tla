----------------------------- MODULE MC_TeaCode -----------------------------
(* TeaCode on short programs.  The names of variables are interchangeable.  *)
EXTENDS TeaCode

CONSTANTS x, y

AllExprs == DOMAIN Patterns
CountedExprs == AllExprs \ {"spreadtwice"}
Symmetry == Permutations(Names)

Light == {"name", "break", "continue", "anonymous"}
Common == {"var", "while", "for"}
Rare == {"expr", "assign", "vars", "from", "import", "block", "if", "forever", "do", "forin",
         "switch", "function", "class", "return"}
Weights == [form \in Light \cup Common \cup Rare |->
                CASE form \in Light -> 1 [] form \in Common -> 2 [] form \in Rare -> 3]

\* For configurations that look at one construct.
ClassesOnly == [form \in {"class", "expr"} |-> 1]
ImportsOnly == [form \in {"while", "from", "break"} |-> 1]
EndNames == {Row["END"] - 3}
=============================================================================
