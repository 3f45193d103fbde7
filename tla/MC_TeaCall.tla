---------------------------- MODULE MC_TeaCall ----------------------------
(* TeaCall with all limits scaled down: 4 frames, 3 C calls, 3 extra slots. *)
EXTENDS TeaCall
=============================================================================
