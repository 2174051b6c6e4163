------------------------------ MODULE HotPool ------------------------------
(***************************************************************************)
(* What a fleet promises: at most `limit` machines are resident, a machine *)
(* is lent to one holder at a time and only when it is loaded, and a       *)
(* machine that is lent or pinned is never taken out.                      *)
(***************************************************************************)
EXTENDS Naturals, FiniteSets

CONSTANTS Machines, Pinned, InitialLimit

VARIABLES
    slot,       \* "out", "loading", "in" or "lent", for each machine
    limit

vars == <<slot, limit>>

Resident == {m \in Machines : slot[m] # "out"}

Init == slot = [m \in Machines |-> "out"] /\ limit = InitialLimit

Move(m, from, to) ==
    /\ slot[m] = from
    /\ slot' = [slot EXCEPT ![m] = to]
    /\ UNCHANGED limit

Load(m) == Move(m, "out", "loading") /\ Cardinality(Resident) < limit
LoadFails(m) == Move(m, "loading", "out")
Loaded(m) == Move(m, "loading", "in") \/ Move(m, "loading", "lent")
Lend(m) == Move(m, "in", "lent")
Return(m) == Move(m, "lent", "in")
TakeOut(m) == Move(m, "in", "out") /\ m \notin Pinned

Resize ==
    /\ limit' \in Nat \ {0}
    /\ Cardinality(Resident) <= limit'
    /\ UNCHANGED slot

Next ==
    \/ \E m \in Machines :
          \/ Load(m) \/ LoadFails(m) \/ Loaded(m)
          \/ Lend(m) \/ Return(m) \/ TakeOut(m)
    \/ Resize

Spec == Init /\ [][Next]_vars
=============================================================================
