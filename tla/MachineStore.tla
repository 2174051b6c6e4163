---------------------------- MODULE MachineStore ----------------------------
(***************************************************************************)
(* The durable store behind a web machine: the owner record that fences    *)
(* writers, the HEAD/PREV pointer of every computer (a "group"), the       *)
(* generation records and the content-addressed blobs they reach.          *)
(*                                                                         *)
(*   src/src/machine/persistence/memoryMachineStore.js                     *)
(*   src/src/machine/persistence/indexedDbMachineStore.js                  *)
(*   src/src/machine/persistence/generationRetention.js                    *)
(*                                                                         *)
(* Every operation is one write task of MemoryMachineStore (_write) or one *)
(* readwrite transaction of IndexedDB, so it is one atomic action here.  A *)
(* rejected operation changes nothing and is a stuttering step.            *)
(*                                                                         *)
(* A generation id is the address of its commit object, so it determines   *)
(* the commit's parent, its fence and the set of blobs it reaches: Parent, *)
(* Fence and Reach are constant operators.  The callers are arbitrary: any *)
(* token ever issued may be presented again, however old it is.            *)
(***************************************************************************)
EXTENDS Naturals, FiniteSets

CONSTANTS
    Groups,         \* computers that share one database
    Owners,         \* owner ids (one per tab or process)
    Generations,    \* addresses of generation commits
    Digests,        \* addresses of blobs, commit objects included
    None,           \* "null"
    Parent(_),      \* commit.parents[0], or None
    Fence(_),       \* commit.fence: the token that was presented
    Reach(_),       \* record.blobDigests: every blob the commit reaches
    LegacyEpoch,    \* epoch left in the legacy owner database, per group
    MaxEpoch,       \* bound on the owner epochs that are explored
    MaxDamage       \* bound on the records and blobs harmed at one time

ASSUME NoneAssumption == None \notin Generations /\ None \notin Owners

ASSUME ContentAddress ==
    \A id \in Generations :
        /\ Parent(id) \in Generations \cup {None}
        /\ Fence(id) \in [ownerId : Owners, epoch : Nat]
        /\ Reach(id) \in SUBSET Digests

ASSUME BoundAssumption ==
    /\ LegacyEpoch \in [Groups -> Nat]
    /\ MaxEpoch \in Nat
    /\ MaxDamage \in Nat

VARIABLES
    owners,         \* the owner record of each group; epoch 0 = no record
    issued,         \* every token claimOwner ever returned to a caller
    heads,          \* the HEAD/PREV record of each group
    generations,    \* stored generation records, as <<group, id>>
    blobs,          \* digests stored in the blob store
    damaged,        \* stored digests whose bytes no longer match
    lostBlobs,      \* digests the storage lost by itself
    lostRecords     \* generation records the storage lost by itself

vars == <<owners, issued, heads, generations, blobs,
          damaged, lostBlobs, lostRecords>>
damageVars == <<damaged, lostBlobs, lostRecords>>

Tokens == [groupId : Groups, ownerId : Owners, epoch : Nat]
Keys == Groups \X Generations

-----------------------------------------------------------------------------
(* generationRetention.js: the roots are HEAD and PREV of EVERY group.     *)

Roots(g) == {heads[g].head, heads[g].prev} \ {None}

AllRoots == {key \in Keys : key[2] \in Roots(key[1])}

RootsPresent == AllRoots \subseteq generations

\* Only the target group's generations are collected.
Deleted(g) == {key \in generations : key[1] = g /\ key \notin AllRoots}

Remaining(g) == generations \ Deleted(g)

\* Mutant: the digests that other computers retain are forgotten.
RetainedByGroup(g) ==
    UNION {Reach(key[2]) : key \in {k \in Remaining(g) : k[1] = g}}

RetainedDigests(g) == UNION {Reach(key[2]) : key \in Remaining(g)}

-----------------------------------------------------------------------------
(* _assertOwnerRecord / _requireOwner                                      *)

\* Mutants: the owner id alone is compared; a released owner still counts.
IsOwnerById(t) ==
    owners[t.groupId].active /\ owners[t.groupId].ownerId = t.ownerId

IsOwnerOrWas(t) ==
    /\ owners[t.groupId].ownerId = t.ownerId
    /\ owners[t.groupId].epoch = t.epoch

IsOwner(t) ==
    /\ owners[t.groupId].active
    /\ owners[t.groupId].ownerId = t.ownerId
    /\ owners[t.groupId].epoch = t.epoch

\* Mutant: the epoch of a released owner is used again.
NextEpochReusing(g) ==
    IF owners[g].active \/ owners[g].epoch = 0 THEN owners[g].epoch + 1
                                               ELSE owners[g].epoch

NextEpoch(g) ==
    IF owners[g].epoch >= LegacyEpoch[g] THEN owners[g].epoch + 1
                                         ELSE LegacyEpoch[g] + 1

ClaimOwner(g, o) ==
    /\ NextEpoch(g) <= MaxEpoch
    /\ owners' = [owners EXCEPT ![g] =
                    [ownerId |-> o, epoch |-> NextEpoch(g), active |-> TRUE]]
    /\ issued' = issued \cup
                    {[groupId |-> g, ownerId |-> o, epoch |-> NextEpoch(g)]}
    /\ UNCHANGED <<heads, generations, blobs, damageVars>>

ReleaseOwner(t) ==
    /\ IsOwner(t)
    /\ owners' = [owners EXCEPT ![t.groupId].active = FALSE]
    /\ UNCHANGED <<issued, heads, generations, blobs, damageVars>>

\* Mutant: HEAD is replaced without being compared with the commit's parent.
CommitWithoutCompare(t, id) ==
    LET g == t.groupId IN
    /\ Fence(id) = [ownerId |-> t.ownerId, epoch |-> t.epoch]
    /\ IsOwner(t)
    /\ <<g, id>> \notin generations
    /\ blobs' = blobs \cup Reach(id)
    /\ generations' = generations \cup {<<g, id>>}
    /\ heads' = [heads EXCEPT ![g] = [head |-> id, prev |-> heads[g].head,
                                      ownerEpoch |-> owners[g].epoch]]
    /\ UNCHANGED <<owners, issued, damageVars>>

(* The caller built id over the HEAD it read earlier (Parent(id)) and under *)
(* the token it holds; the store compares both with what is durable now.   *)
CommitGeneration(t, id) ==
    LET g == t.groupId IN
    /\ Fence(id) = [ownerId |-> t.ownerId, epoch |-> t.epoch]
    /\ IsOwner(t)
    /\ heads[g].head = Parent(id)
    /\ <<g, id>> \notin generations
    /\ blobs' = blobs \cup Reach(id)
    /\ lostBlobs' = lostBlobs \ Reach(id)
    /\ generations' = generations \cup {<<g, id>>}
    /\ heads' = [heads EXCEPT ![g] = [head |-> id,
                                      prev |-> heads[g].head,
                                      ownerEpoch |-> owners[g].epoch]]
    /\ UNCHANGED <<owners, issued, damaged, lostRecords>>

(* planGenerationRetention throws when any group's root record is gone, so *)
(* nothing is collected then.                                              *)
PruneRecoveryWindow(t) ==
    LET g == t.groupId IN
    /\ IsOwner(t)
    /\ RootsPresent
    /\ generations' = Remaining(g)
    /\ blobs' = blobs \cap RetainedDigests(g)
    /\ damaged' = damaged \cap RetainedDigests(g)
    /\ UNCHANGED <<owners, issued, heads, lostBlobs, lostRecords>>

-----------------------------------------------------------------------------
(* The storage itself may rot or lose data (RECOVERABLE_CODES of           *)
(* machineCommitCoordinator.js name the three ways it is noticed).         *)

CanHarm == Cardinality(damaged) + Cardinality(lostBlobs)
             + Cardinality(lostRecords) < MaxDamage

DamageBlob(d) ==
    /\ CanHarm
    /\ d \in blobs \ damaged
    /\ damaged' = damaged \cup {d}
    /\ UNCHANGED <<owners, issued, heads, generations, blobs,
                   lostBlobs, lostRecords>>

LoseBlob(d) ==
    /\ CanHarm
    /\ d \in blobs
    /\ blobs' = blobs \ {d}
    /\ damaged' = damaged \ {d}
    /\ lostBlobs' = lostBlobs \cup {d}
    /\ UNCHANGED <<owners, issued, heads, generations, lostRecords>>

LoseGeneration(key) ==
    /\ CanHarm
    /\ key \in generations
    /\ generations' = generations \ {key}
    /\ lostRecords' = lostRecords \cup {key}
    /\ UNCHANGED <<owners, issued, heads, blobs, damaged, lostBlobs>>

-----------------------------------------------------------------------------
Init ==
    /\ owners = [g \in Groups |->
                    [ownerId |-> None, epoch |-> 0, active |-> FALSE]]
    /\ issued = {}
    /\ heads = [g \in Groups |->
                    [head |-> None, prev |-> None, ownerEpoch |-> 0]]
    /\ generations = {}
    /\ blobs = {}
    /\ damaged = {}
    /\ lostBlobs = {}
    /\ lostRecords = {}

Next ==
    \/ \E g \in Groups, o \in Owners : ClaimOwner(g, o)
    \/ \E t \in issued : ReleaseOwner(t)
    \/ \E t \in issued, id \in Generations : CommitGeneration(t, id)
    \/ \E t \in issued : PruneRecoveryWindow(t)
    \/ \E d \in blobs : DamageBlob(d)
    \/ \E d \in blobs : LoseBlob(d)
    \/ \E key \in generations : LoseGeneration(key)

Spec == Init /\ [][Next]_vars
-----------------------------------------------------------------------------
TypeOK ==
    /\ owners \in [Groups -> [ownerId : Owners \cup {None},
                              epoch : Nat, active : BOOLEAN]]
    /\ issued \subseteq Tokens
    /\ heads \in [Groups -> [head : Generations \cup {None},
                             prev : Generations \cup {None},
                             ownerEpoch : Nat]]
    /\ generations \subseteq Keys
    /\ blobs \subseteq Digests
    /\ damaged \subseteq blobs
    /\ lostBlobs \subseteq Digests
    /\ lostRecords \subseteq Keys

(* Collection never removes what a restore may need: for every computer the *)
(* records of HEAD and PREV, and every blob a stored record or one of those *)
(* two reaches, are in the store unless the storage itself lost them.       *)
RecoveryWindowKept ==
    /\ AllRoots \subseteq generations \cup lostRecords
    /\ \A key \in generations \cup AllRoots :
            Reach(key[2]) \subseteq blobs \cup lostBlobs

(* The compare-and-swap on HEAD leaves no fork and no gap: PREV is the      *)
(* commit HEAD was built on, whichever owner built it from whichever read.  *)
LineageUnbroken ==
    \A g \in Groups :
        heads[g].head # None => heads[g].prev = Parent(heads[g].head)

(* Along the lineage the fences never go back: what a superseded owner      *)
(* prepared is never published on top of its successor's work.              *)
FencesAdvance ==
    \A g \in Groups :
        heads[g].prev # None =>
            Fence(heads[g].prev).epoch <= Fence(heads[g].head).epoch

(* An epoch is never handed out twice in a group, so equality of epochs is  *)
(* enough to tell one owner's writes from another's.                        *)
EpochsIssuedOnce ==
    \A t, u \in issued :
        t.groupId = u.groupId /\ t.epoch = u.epoch => t = u

(* HEAD moves only while an owner record is active, under that owner's own  *)
(* epoch, and never to an epoch below the one that published before.        *)
HeadMovesUnderFence ==
    [][\A g \in Groups : heads'[g] # heads[g] =>
            /\ owners[g].active
            /\ Fence(heads'[g].head).epoch = owners[g].epoch
            /\ Fence(heads'[g].head).ownerId = owners[g].ownerId
            /\ heads[g].ownerEpoch <= heads'[g].ownerEpoch]_vars
=============================================================================
