------------------------- MODULE MCEffectTransaction -------------------------
(* EffectTransaction with calls TLC may exchange for one another.          *)
EXTENDS EffectTransaction, TLC

Interchangeable == Permutations(Calls)

=============================================================================
