---------------------------- MODULE MC_TeaImport ----------------------------
(* TeaImport with files that may import each other in any way.             *)
EXTENDS TeaImport, TLC

CONSTANTS main, f1, f2, math, s1, s2, m

\* "import m" finds the module "math": strncmp compares as many characters as the
\* shorter name has.
Libraries == m :> math @@ math :> math
Symmetry == Permutations({f1, f2}) \cup Permutations({s1, s2})
=============================================================================
