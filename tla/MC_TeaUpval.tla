---------------------------- MODULE MC_TeaUpval ----------------------------
(* TeaUpval with a few closures and upvalues; addresses are interchangeable. *)
EXTENDS TeaUpval, TLC

CONSTANTS u1, u2, u3, c1, c2, c3, v1, v2

Symmetry == Permutations({u1, u2, u3}) \cup Permutations({c1, c2, c3})
=============================================================================
