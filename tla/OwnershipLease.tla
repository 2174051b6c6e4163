--------------------------- MODULE OwnershipLease ---------------------------
(***************************************************************************)
(* What owner coordination promises the rest of the machine: at any time   *)
(* at most one computer instance acts as the owner of a group, it acts     *)
(* under the newest durable epoch, and no newer epoch is written while it  *)
(* still does.                                                             *)
(***************************************************************************)
EXTENDS Naturals

CONSTANTS Tabs, None

VARIABLES
    lease,      \* the instance that acts as owner, with its epoch, or None
    epoch       \* the newest epoch that was claimed durably

vars == <<lease, epoch>>

Init == lease = None /\ epoch = 0

Claim ==
    /\ lease = None
    /\ epoch' = epoch + 1
    /\ UNCHANGED lease

Acquire(t) ==
    /\ lease = None
    /\ lease' = [tab |-> t, epoch |-> epoch]
    /\ UNCHANGED epoch

Lose ==
    /\ lease' = None
    /\ UNCHANGED epoch

Next == Claim \/ (\E t \in Tabs : Acquire(t)) \/ Lose

Spec == Init /\ [][Next]_vars
=============================================================================
