--------------------------- MODULE MCMachineStore ---------------------------
(* A small database: generation ids are the commits themselves, built up to *)
(* MaxDepth commits deep over every payload choice, owner and epoch.        *)
EXTENDS MachineStore

CONSTANTS Payloads, MaxDepth

Contents(parents) ==
    [parent : parents, payload : {{p} : p \in Payloads},
     fence : [ownerId : Owners, epoch : 1..MaxEpoch]]

Level[n \in Nat] == IF n = 0 THEN {} ELSE Contents(Level[n - 1] \cup {None})

MCGenerations == Level[MaxDepth]
MCDigests == MCGenerations \cup Payloads
MCParent(id) == id.parent
MCFence(id) == id.fence
MCReach(id) == {id} \cup id.payload
OneLegacy == [g \in Groups |-> IF g = "g1" THEN 1 ELSE 0]
=============================================================================
