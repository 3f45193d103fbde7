------------------------------ MODULE MC_TeaGC ------------------------------
(* TeaGC on small heaps.  The addresses are interchangeable.               *)
EXTENDS TeaGC, TLC

CONSTANTS o1, o2, o3, o4

Obj2 == {o1, o2}
Obj3 == {o1, o2, o3}
Obj4 == {o1, o2, o3, o4}
Symmetry3 == Permutations(Obj3)

\* Behaviours are followed up to the first use of freed memory.
BeforeUseAfterFree == CollectorTouchesLive /\ Roots \subseteq Live

=============================================================================
