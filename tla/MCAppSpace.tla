------------------------------ MODULE MCAppSpace ------------------------------
(***************************************************************************)
(* Three operations on one application: a capture, a restore or an adopt   *)
(* of what it published, and one more of either. Operations are            *)
(* interchangeable and every property quantifies over all of them.         *)
(***************************************************************************)
EXTENDS AppSpace, TLC

Interchangeable == Permutations(Ops)

=============================================================================
