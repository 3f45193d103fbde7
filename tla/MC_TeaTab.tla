----------------------------- MODULE MC_TeaTab -----------------------------
(* TeaAttr with a few names whose hash values collide.  A value tells what  *)
(* kind of method it is.                                                   *)
EXTENDS TeaAttr

CONSTANTS k1, k2, k3, k4

Keys4 == {k1, k2, k3, k4}
Hash4 == [k \in Keys4 |-> CASE k \in {k1, k2} -> 3 [] k = k3 -> 4 [] k = k4 -> 7]

ValuesByKind == [attr |-> {1, 2}, plain |-> {1}, get |-> {2}, set |-> {3}]

SetupsAttrs == {[attrs |-> Keys4]}
SetupsClass == {[class |-> {k1, k2, k3}]}
SetupsSuper == {[class |-> {k2, k3}, super |-> {k1, k2}]}
SetupsInstance == {[attrs |-> {k1, k2}, class |-> {k1, k3}], [attrs |-> {k1}, class |-> {k1, k2, k3}]}
SetupsBuiltin == {[builtin |-> {k1, k2}]}
SetupsAll == SetupsAttrs \cup SetupsClass \cup SetupsSuper \cup SetupsInstance \cup SetupsBuiltin
=============================================================================
