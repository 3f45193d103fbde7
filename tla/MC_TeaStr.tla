----------------------------- MODULE MC_TeaStr -----------------------------
(* TeaStr with a table that starts with one chain.                         *)
EXTENDS TeaStr, TLC

CONSTANTS s1, s2, s3, s4, s5, s6, c1, c2, c3, c4, c5

Str6 == {s1, s2, s3, s4, s5, s6}
Content5 == {c1, c2, c3, c4, c5}

\* c2 and c5 share a chain up to size 4, c1 joins them up to size 2, c3 and c4 share
\* one at size 2.
Hash5 == [c \in Content5 |-> CASE c = c1 -> 0 [] c = c2 -> 2 [] c = c3 -> 1
                                     [] c = c4 -> 3 [] c = c5 -> 6]

Symmetry == Permutations(Str6)
=============================================================================
