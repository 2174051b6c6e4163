--------------------------- MODULE MCRefProtocol ---------------------------
(* A few generations for TLC: commits "c1".."c3", the first two of which   *)
(* share a payload, and the stores they go to.                              *)
EXTENDS RefProtocol

TreeOf(c) == CASE c = "c1" -> "t1" [] c = "c2" -> "t2" [] OTHER -> "t3"

PayloadsOf(c) == CASE c = "c1" -> {"p1", "s"} [] c = "c2" -> {"s"}
                   [] OTHER -> {"p3"}

S(atomic, cuts, harm, failing, epoch) ==
    [atomic |-> atomic, maxCrashes |-> cuts, maxHarm |-> harm,
     maxFailures |-> failing, maxEpoch |-> epoch]

\* Everything befalls the atomic store; the file store is not cut off.
SoundStores == {S(TRUE, 1, 1, 0, 1), S(TRUE, 0, 0, 2, 0), S(FALSE, 0, 1, 2, 0)}

\* RefsComplete does not hold of this one: a crash leaves an empty file.
CrashingFileStore == {S(FALSE, 1, 0, 0, 0)}

\* FencedCommitsAreCurrent does not hold of this one: the owner changes twice.
HandedOverStore == {S(TRUE, 0, 0, 0, 2)}
=============================================================================
