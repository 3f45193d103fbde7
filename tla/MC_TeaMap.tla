----------------------------- MODULE MC_TeaMap -----------------------------
(* TeaMap with seven keys whose hash values collide: enough for the array  *)
(* to grow from 2 to 16 entries and to shrink again.                       *)
EXTENDS TeaMap, TLC

CONSTANTS k1, k2, k3, k4, k5, k6, k7

Keys7 == {k1, k2, k3, k4, k5, k6, k7}

\* k1 and k2 collide in every array, k3 follows them, k4 collides in small ones, the
\* rest collide with each other and are interchangeable.
Hash7 == [k \in Keys7 |-> CASE k \in {k1, k2} -> 3 [] k = k3 -> 4 [] k = k4 -> 7 [] OTHER -> 1]
Symmetry == Permutations({k5, k6, k7})
=============================================================================
