--------------------------- MODULE Standalone_proofs ---------------------------
(***************************************************************************)
(* Four components that share nothing with one another, each proved on its *)
(* own: the machine store, the app space, the package resolver and the     *)
(* control session.  What is said holds for every number of computers,     *)
(* owners, generations, operations, projects, versions, extras, requests   *)
(* and pages, and for every registry that is well formed.                  *)
(***************************************************************************)
EXTENDS MachineStore, AppSpace, PackageResolver, ControlSession,
        FiniteSetTheorems, FunctionTheorems, SequenceTheorems, TLAPS

-----------------------------------------------------------------------------
(***************************************************************************)
(* MachineStore: what the store guarantees any caller that presents a token*)
(* it once issued.                                                         *)
(***************************************************************************)

-----------------------------------------------------------------------------
(* Type correctness of the store's records.                                *)

LEMMA NextEpochType ==
    ASSUME TypeOK, NEW g \in Groups
    PROVE  /\ NextEpoch(g) \in Nat
           /\ NextEpoch(g) > owners[g].epoch
BY BoundAssumption DEF TypeOK, NextEpoch

LEMMA TypeInit == Init => TypeOK
BY DEF Init, TypeOK

LEMMA TypeStep == TypeOK /\ [Next]_vars => TypeOK'
<1> SUFFICES ASSUME TypeOK, [Next]_vars
             PROVE  TypeOK'
  OBVIOUS
<1>1. ASSUME NEW g \in Groups, NEW o \in Owners, ClaimOwner(g, o)
      PROVE  TypeOK'
  <2>1. NextEpoch(g) \in Nat
    BY NextEpochType
  <2>2. [groupId |-> g, ownerId |-> o, epoch |-> NextEpoch(g)] \in Tokens
    BY <2>1 DEF Tokens
  <2>3. QED
    BY <1>1, <2>1, <2>2 DEF TypeOK, ClaimOwner, damageVars
<1>2. ASSUME NEW t \in issued, ReleaseOwner(t)
      PROVE  TypeOK'
  <2>1. t.groupId \in Groups
    BY DEF TypeOK, Tokens
  <2>2. QED
    BY <1>2, <2>1 DEF TypeOK, ReleaseOwner, damageVars
<1>3. ASSUME NEW t \in issued, NEW id \in Generations, CommitGeneration(t, id)
      PROVE  TypeOK'
  <2>1. t.groupId \in Groups
    BY DEF TypeOK, Tokens
  <2>2. <<t.groupId, id>> \in Keys
    BY <2>1 DEF Keys
  <2>3. heads' \in [Groups -> [head : Generations \cup {None},
                               prev : Generations \cup {None},
                               ownerEpoch : Nat]]
    BY <1>3, <2>1 DEF TypeOK, CommitGeneration
  <2>4. blobs' \subseteq Digests /\ damaged' \subseteq blobs'
    BY <1>3, ContentAddress DEF TypeOK, CommitGeneration
  <2>5. QED
    BY <1>3, <2>2, <2>3, <2>4 DEF TypeOK, CommitGeneration
<1>4. ASSUME NEW t \in issued, PruneRecoveryWindow(t)
      PROVE  TypeOK'
  BY <1>4 DEF TypeOK, PruneRecoveryWindow, Remaining
<1>5. ASSUME NEW d \in blobs, DamageBlob(d) \/ LoseBlob(d)
      PROVE  TypeOK'
  BY <1>5 DEF TypeOK, DamageBlob, LoseBlob
<1>6. ASSUME NEW key \in generations, LoseGeneration(key)
      PROVE  TypeOK'
  BY <1>6 DEF TypeOK, LoseGeneration
<1>7. CASE UNCHANGED vars
  BY <1>7 DEF TypeOK, vars
<1>8. QED
  BY <1>1, <1>2, <1>3, <1>4, <1>5, <1>6, <1>7 DEF Next

(* Every reachable state of the store is well typed. *)
THEOREM TypeCorrect == Spec => []TypeOK
BY TypeInit, TypeStep, PTL DEF Spec

-----------------------------------------------------------------------------
(* Collection keeps the recovery window.  The invariant is inductive: a     *)
(* commit adds the blobs of the one root it adds, and a prune keeps, for    *)
(* every computer, the records of the roots and whatever a kept record      *)
(* reaches.                                                                 *)

LEMMA RecoveryWindowInit == Init => RecoveryWindowKept
BY NoneAssumption DEF Init, RecoveryWindowKept, AllRoots, Roots, Keys

LEMMA RecoveryWindowStep ==
    TypeOK /\ RecoveryWindowKept /\ [Next]_vars => RecoveryWindowKept'
<1> SUFFICES ASSUME TypeOK, RecoveryWindowKept, [Next]_vars
             PROVE  RecoveryWindowKept'
  OBVIOUS
<1>1. ASSUME NEW g \in Groups, NEW o \in Owners, ClaimOwner(g, o)
      PROVE  RecoveryWindowKept'
  BY <1>1 DEF ClaimOwner, damageVars, RecoveryWindowKept, AllRoots, Roots
<1>2. ASSUME NEW t \in issued, ReleaseOwner(t)
      PROVE  RecoveryWindowKept'
  BY <1>2 DEF ReleaseOwner, damageVars, RecoveryWindowKept, AllRoots, Roots
<1>3. ASSUME NEW t \in issued, NEW id \in Generations, CommitGeneration(t, id)
      PROVE  RecoveryWindowKept'
  <2> DEFINE g == t.groupId
  <2>1. g \in Groups
    BY DEF TypeOK, Tokens
  <2>2. AllRoots' \subseteq AllRoots \cup {<<g, id>>}
    <3>1. \A h \in Groups : Roots(h)' \subseteq
                              Roots(h) \cup (IF h = g THEN {id} ELSE {})
      BY <1>3, <2>1 DEF CommitGeneration, Roots, TypeOK
    <3>2. QED
      BY <3>1 DEF AllRoots, Keys
  <2>3. generations' = generations \cup {<<g, id>>}
    BY <1>3 DEF CommitGeneration
  <2>4. blobs \cup lostBlobs \subseteq blobs' \cup lostBlobs'
        /\ Reach(id) \subseteq blobs'
    BY <1>3 DEF CommitGeneration
  <2>5. AllRoots' \subseteq generations' \cup lostRecords'
    BY <1>3, <2>2, <2>3 DEF RecoveryWindowKept, CommitGeneration
  <2>6. \A key \in generations' \cup AllRoots' :
            Reach(key[2]) \subseteq blobs' \cup lostBlobs'
    BY <2>2, <2>3, <2>4 DEF RecoveryWindowKept
  <2>7. QED
    BY <2>5, <2>6 DEF RecoveryWindowKept
<1>4. ASSUME NEW t \in issued, PruneRecoveryWindow(t)
      PROVE  RecoveryWindowKept'
  <2> DEFINE g == t.groupId
  <2>1. AllRoots' = AllRoots
    BY <1>4 DEF PruneRecoveryWindow, AllRoots, Roots
  <2>2. AllRoots \subseteq generations'
    BY <1>4 DEF PruneRecoveryWindow, RootsPresent, Remaining, Deleted
  <2>3. \A key \in generations' : Reach(key[2]) \subseteq RetainedDigests(g)
    BY <1>4 DEF PruneRecoveryWindow, RetainedDigests
  <2>4. \A key \in generations' : Reach(key[2]) \subseteq blobs \cup lostBlobs
    BY <1>4 DEF PruneRecoveryWindow, Remaining, RecoveryWindowKept
  <2>5. blobs' = blobs \cap RetainedDigests(g) /\ lostBlobs' = lostBlobs
    BY <1>4 DEF PruneRecoveryWindow
  <2>6. \A key \in generations' : Reach(key[2]) \subseteq blobs' \cup lostBlobs'
    BY <2>3, <2>4, <2>5
  <2>7. QED
    BY <2>1, <2>2, <2>6 DEF RecoveryWindowKept
<1>5. ASSUME NEW d \in blobs, DamageBlob(d) \/ LoseBlob(d)
      PROVE  RecoveryWindowKept'
  BY <1>5 DEF DamageBlob, LoseBlob, RecoveryWindowKept, AllRoots, Roots
<1>6. ASSUME NEW key \in generations, LoseGeneration(key)
      PROVE  RecoveryWindowKept'
  BY <1>6 DEF LoseGeneration, RecoveryWindowKept, AllRoots, Roots
<1>7. CASE UNCHANGED vars
  BY <1>7 DEF vars, RecoveryWindowKept, AllRoots, Roots
<1>8. QED
  BY <1>1, <1>2, <1>3, <1>4, <1>5, <1>6, <1>7 DEF Next

(* No collection, whoever runs it and on whichever computer, removes what a *)
(* restore of any computer may need.                                        *)
THEOREM RecoveryWindowIsKept == Spec => []RecoveryWindowKept
<1>1. Init => RecoveryWindowKept
  BY RecoveryWindowInit
<1>2. TypeOK /\ RecoveryWindowKept /\ [Next]_vars => RecoveryWindowKept'
  BY RecoveryWindowStep
<1>3. QED
  BY <1>1, <1>2, TypeCorrect, PTL DEF Spec

-----------------------------------------------------------------------------
(* Fencing.  The tokens that were issued never outrun the owner record, and *)
(* neither does the fence of a published generation.                        *)

EpochsBounded ==
    /\ \A t \in issued :
          /\ t.epoch <= owners[t.groupId].epoch
          /\ t.epoch = owners[t.groupId].epoch =>
                t.ownerId = owners[t.groupId].ownerId
    /\ \A g \in Groups : heads[g].head # None =>
          /\ heads[g].ownerEpoch = Fence(heads[g].head).epoch
          /\ heads[g].ownerEpoch <= owners[g].epoch
    /\ \A g \in Groups : heads[g].head = None =>
          heads[g].ownerEpoch = 0 /\ heads[g].prev = None

FencingInv == LineageUnbroken /\ FencesAdvance /\ EpochsIssuedOnce /\ EpochsBounded

LEMMA FencingInit == Init => FencingInv
BY DEF Init, FencingInv, LineageUnbroken, FencesAdvance, EpochsIssuedOnce,
       EpochsBounded

LEMMA FencingStep == TypeOK /\ FencingInv /\ [Next]_vars => FencingInv'
<1> SUFFICES ASSUME TypeOK, FencingInv, [Next]_vars
             PROVE  FencingInv'
  OBVIOUS
<1> USE DEF FencingInv
<1>1. ASSUME NEW g \in Groups, NEW o \in Owners, ClaimOwner(g, o)
      PROVE  FencingInv'
  <2> DEFINE token == [groupId |-> g, ownerId |-> o, epoch |-> NextEpoch(g)]
  <2>1. NextEpoch(g) \in Nat /\ NextEpoch(g) > owners[g].epoch
    BY NextEpochType
  <2>2. issued' = issued \cup {token} /\ heads' = heads
    BY <1>1 DEF ClaimOwner
  <2>3. /\ owners'[g] = [ownerId |-> o, epoch |-> NextEpoch(g), active |-> TRUE]
        /\ \A h \in Groups \ {g} : owners'[h] = owners[h]
    BY <1>1 DEF ClaimOwner, TypeOK
  <2>4. LineageUnbroken' /\ FencesAdvance'
    BY <2>2 DEF LineageUnbroken, FencesAdvance
  <2>5. EpochsIssuedOnce'
    <3>1. \A t \in issued : t.groupId = g => t.epoch < NextEpoch(g)
      BY <2>1 DEF EpochsBounded, TypeOK, Tokens
    <3>2. QED
      BY <2>1, <2>2, <3>1 DEF EpochsIssuedOnce, TypeOK, Tokens
  <2>6. EpochsBounded'
    BY <2>1, <2>2, <2>3 DEF EpochsBounded, TypeOK, Tokens
  <2>7. QED
    BY <2>4, <2>5, <2>6
<1>2. ASSUME NEW t \in issued, ReleaseOwner(t)
      PROVE  FencingInv'
  <2>1. issued' = issued /\ heads' = heads
    BY <1>2 DEF ReleaseOwner
  <2>2. \A g \in Groups : /\ owners'[g].epoch = owners[g].epoch
                          /\ owners'[g].ownerId = owners[g].ownerId
    BY <1>2 DEF ReleaseOwner, TypeOK
  <2>3. EpochsBounded'
    BY <2>1, <2>2 DEF EpochsBounded, TypeOK, Tokens
  <2>4. QED
    BY <2>1, <2>3 DEF LineageUnbroken, FencesAdvance, EpochsIssuedOnce
<1>3. ASSUME NEW t \in issued, NEW id \in Generations, CommitGeneration(t, id)
      PROVE  FencingInv'
  <2> DEFINE g == t.groupId
  <2>1. g \in Groups /\ t.epoch \in Nat
    BY DEF TypeOK, Tokens
  <2>2. /\ heads'[g] = [head |-> id, prev |-> heads[g].head,
                        ownerEpoch |-> owners[g].epoch]
        /\ \A h \in Groups \ {g} : heads'[h] = heads[h]
    BY <1>3, <2>1 DEF CommitGeneration, TypeOK
  <2>3. /\ heads[g].head = Parent(id)
        /\ Fence(id).epoch = owners[g].epoch
        /\ id # None
    BY <1>3, <2>1, NoneAssumption DEF CommitGeneration, IsOwner
  <2>4. owners' = owners /\ issued' = issued
    BY <1>3 DEF CommitGeneration
  <2>5. LineageUnbroken'
    BY <2>2, <2>3 DEF LineageUnbroken
  <2>6. FencesAdvance'
    BY <2>1, <2>2, <2>3 DEF FencesAdvance, EpochsBounded
  <2>7. EpochsIssuedOnce'
    BY <2>4 DEF EpochsIssuedOnce
  <2>8. EpochsBounded'
    BY <2>1, <2>2, <2>3, <2>4 DEF EpochsBounded, TypeOK
  <2>9. QED
    BY <2>5, <2>6, <2>7, <2>8
<1>4. ASSUME NEW t \in issued, PruneRecoveryWindow(t)
      PROVE  FencingInv'
  BY <1>4 DEF PruneRecoveryWindow, LineageUnbroken, FencesAdvance,
              EpochsIssuedOnce, EpochsBounded
<1>5. ASSUME NEW d \in blobs, DamageBlob(d) \/ LoseBlob(d)
      PROVE  FencingInv'
  BY <1>5 DEF DamageBlob, LoseBlob, LineageUnbroken, FencesAdvance,
              EpochsIssuedOnce, EpochsBounded
<1>6. ASSUME NEW key \in generations, LoseGeneration(key)
      PROVE  FencingInv'
  BY <1>6 DEF LoseGeneration, LineageUnbroken, FencesAdvance,
              EpochsIssuedOnce, EpochsBounded
<1>7. CASE UNCHANGED vars
  BY <1>7 DEF vars, LineageUnbroken, FencesAdvance, EpochsIssuedOnce,
              EpochsBounded
<1>8. QED
  BY <1>1, <1>2, <1>3, <1>4, <1>5, <1>6, <1>7 DEF Next

LEMMA FencingCorrect == Spec => []FencingInv
<1>1. TypeOK /\ FencingInv /\ [Next]_vars => FencingInv'
  BY FencingStep
<1>2. QED
  BY FencingInit, <1>1, TypeCorrect, PTL DEF Spec

(* PREV is the commit HEAD was built on: no fork, no gap.                   *)
THEOREM LineageIsUnbroken == Spec => []LineageUnbroken
BY FencingCorrect, PTL DEF FencingInv

(* A superseded owner never publishes over its successor's generation.      *)
THEOREM FencesNeverGoBack == Spec => []FencesAdvance
BY FencingCorrect, PTL DEF FencingInv

(* One epoch of a computer belongs to one owner, for ever.                  *)
THEOREM EpochIssuedOnce == Spec => []EpochsIssuedOnce
BY FencingCorrect, PTL DEF FencingInv

(* HEAD moves only under the fence of the active owner.                     *)
THEOREM HeadMovesFenced == Spec => HeadMovesUnderFence
<1> DEFINE Fenced == \A g \in Groups : heads'[g] # heads[g] =>
                       /\ owners[g].active
                       /\ Fence(heads'[g].head).epoch = owners[g].epoch
                       /\ Fence(heads'[g].head).ownerId = owners[g].ownerId
                       /\ heads[g].ownerEpoch <= heads'[g].ownerEpoch
<1>1. TypeOK /\ FencingInv /\ [Next]_vars => [Fenced]_vars
  <2> SUFFICES ASSUME TypeOK, FencingInv, Next
               PROVE  Fenced
    OBVIOUS
  <2>1. ASSUME NEW t \in issued, NEW id \in Generations,
               CommitGeneration(t, id)
        PROVE  Fenced
    <3> DEFINE g == t.groupId
    <3>1. g \in Groups
      BY DEF TypeOK, Tokens
    <3>2. /\ heads'[g] = [head |-> id, prev |-> heads[g].head,
                          ownerEpoch |-> owners[g].epoch]
          /\ \A h \in Groups \ {g} : heads'[h] = heads[h]
      BY <2>1, <3>1 DEF CommitGeneration, TypeOK
    <3>3. /\ owners[g].active
          /\ Fence(id).epoch = owners[g].epoch
          /\ Fence(id).ownerId = owners[g].ownerId
      BY <2>1, <3>1 DEF CommitGeneration, IsOwner, TypeOK
    <3>4. heads[g].ownerEpoch <= owners[g].epoch
      BY <3>1 DEF FencingInv, EpochsBounded, TypeOK
    <3>5. QED
      BY <3>2, <3>3, <3>4
  <2>2. ASSUME heads' = heads
        PROVE  Fenced
    BY <2>2
  <2>3. QED
    BY <2>1, <2>2 DEF Next, ClaimOwner, ReleaseOwner, PruneRecoveryWindow,
                      DamageBlob, LoseBlob, LoseGeneration
<1>2. QED
  BY <1>1, TypeCorrect, FencingCorrect, PTL DEF Spec, HeadMovesUnderFence

-----------------------------------------------------------------------------
(***************************************************************************)
(* AppSpace.  AnyInv holds whether or not operations are pipelined: the types,*)
(* what the fields of an operation say together, who may hold the fence, and*)
(* that HEAD names a published pair.  SerialInv needs one operation at a time:*)
(* what the one that runs may count on at each step, where the checkpoint of a*)
(* pair is, and who moved HEAD.  TLC checked both before they were proved. *)
(***************************************************************************)

Nobody == Ops \cup {Nothing}
Kinds == Captures \cup Restores \cup {Nothing}
Answers == Errors \cup {"ok", "resumeFailed", "rollbackFailed", "died", Nothing}
Pcs == {"idle", "describe", "quiesce", "export", "save", "publish", "activate", "resume",
        "import", "restore", "adopt", "finish", "rollbackImport", "rollbackRestore",
        "rollbackResume", "headBack", "done"}

OpRecords ==
    [kind : Kinds, pc : Pcs, src : Nobody, expected : Nobody, idx : Nat, still : BOOLEAN,
     appOn : Nobody, machineOn : Nobody, resumed : BOOLEAN, moved : BOOLEAN, broken : BOOLEAN,
     err : Errors \cup {Nothing}, told : Answers, by : Nobody]

Checkpoints == [by : Ops, on : Nobody]

AppTypeOK ==
    /\ app \in [on : Nobody, known : SUBSET Ops, frozen : BOOLEAN, fence : Nobody]
    /\ machine \in [on : Nobody]
    /\ saved \in Seq(Checkpoints)
    /\ boot \in Nat /\ writes \in Nat
    /\ marker \in [Ops -> [idx : Nat, boot : Nat, still : BOOLEAN]]
    /\ head \in [pair : Nobody \cup {Corrupt}, by : Nobody]
    /\ op \in [Ops -> OpRecords]

\* Where a restore is between the rollback checkpoint and its end.
Applying == {"import", "restore", "adopt", "finish"}
Undoing == {"rollbackImport", "rollbackRestore", "rollbackResume", "headBack"}
Live(r) == r.pc \notin {"idle", "done"}

\* What the fields of the record r of operation o say together.
RecordOK(o, r) ==
    /\ r.pc = "idle" => r.kind = Nothing /\ ~r.moved
    /\ ~Live(r) => r.by = Nothing
    /\ r.pc # "done" => r.told = Nothing
    /\ Live(r) => r.kind \in Captures \cup Restores
    /\ r.pc \in Applying \cup Undoing => r.kind \in Restores
    /\ r.pc \in {"publish", "activate"} => r.kind \in Captures
    /\ r.pc = "resume" /\ r.kind \in Restores => r.err # Nothing
    /\ r.pc \in Undoing => r.err # Nothing
    /\ r.pc \in {"publish"} \cup Applying \cup Undoing => r.idx > 0
    /\ r.pc = "activate" => o \in Published
    /\ Live(r) /\ r.kind \in Restores => r.src \in Published
    /\ r.expected \in Published \cup {Nothing}
    /\ r.moved => r.pc \in {"finish", "done"} \cup Undoing

RecordsOK == \A o \in Ops : RecordOK(o, op[o])

\* Only an operation that passed quiesce and did not let go holds the fence.
MayHold(r) ==
    /\ r.pc \notin {"idle", "describe", "quiesce"}
    /\ r.told # "ok"
    /\ r.kind \in Captures => r.told # "notSent"

FenceHeld == \A o \in Ops : app.fence = o => MayHold(op[o])

HeadComplete == head.pair \in Published \cup {Nothing, Corrupt}

AnyInv == AppTypeOK /\ RecordsOK /\ FenceHeld /\ HeadComplete

-----------------------------------------------------------------------------
(* Names and records.                                                      *)
LEMMA NothingIsNoOp == Nothing \notin Ops /\ Corrupt \notin Ops /\ Nothing # Corrupt
BY NotAnOp DEF Nothing, Corrupt

LEMMA NoOpFields ==
    /\ NoOp \in OpRecords
    /\ NoOp.kind = Nothing /\ NoOp.pc = "idle" /\ NoOp.src = Nothing /\ NoOp.expected = Nothing
    /\ NoOp.err = Nothing /\ NoOp.told = Nothing /\ NoOp.by = Nothing
    /\ ~NoOp.moved
<1>1. NoOp \in OpRecords
  BY DEF NoOp, OpRecords, Kinds, Nobody, Answers, Pcs, Nothing
<1>2. NoOp.moved = FALSE
  BY DEF NoOp
<1>3. QED
  BY <1>1, <1>2 DEF NoOp

LEMMA DoneFields ==
    ASSUME NEW r \in OpRecords, NEW term \in Answers
    PROVE  /\ Done(r, term) \in OpRecords
           /\ Done(r, term).pc = "done" /\ Done(r, term).kind = r.kind
           /\ Done(r, term).told = term /\ Done(r, term).by = Nothing
           /\ Done(r, term).expected = Nothing
           /\ Done(r, term).moved = r.moved
BY NoOpFields DEF Done, OpRecords, Pcs

(* A finished record satisfies all that is said of records.                *)
LEMMA DoneOK ==
    ASSUME NEW o, NEW r \in OpRecords, NEW term \in Answers
    PROVE  RecordOK(o, Done(r, term))
BY DoneFields DEF RecordOK, Live, Applying, Undoing

LEMMA PublishedStays ==
    ASSUME AppTypeOK, marker' = marker
    PROVE  Published' = Published
BY DEF Published
(* One operation advances: the others keep what is said of them.           *)
LEMMA RecordsStep ==
    ASSUME AppTypeOK, RecordsOK, NEW o \in Ops, NEW r \in OpRecords,
           op' = [op EXCEPT ![o] = r], Published \subseteq Published', RecordOK(o, r)'
    PROVE  RecordsOK' /\ op' \in [Ops -> OpRecords]
<1>1. \A q \in Ops : q # o => op'[q] = op[q]
  BY DEF AppTypeOK
<1>2. op'[o] = r
  BY DEF AppTypeOK
<1>3. op' \in [Ops -> OpRecords]
  BY DEF AppTypeOK
<1>4. ASSUME NEW q \in Ops PROVE RecordOK(q, op[q])'
  <2>1. CASE q = o
    BY <2>1, <1>2
  <2>2. CASE q # o
    <3>1. RecordOK(q, op[q]) /\ op'[q] = op[q]
      BY <1>1, <2>2 DEF RecordsOK
    <3>2. QED
      BY <3>1 DEF RecordOK
  <2>3. QED
    BY <2>1, <2>2
<1>5. QED
  BY <1>3, <1>4 DEF RecordsOK

(* The fence is where it was, released, or taken by the one that advances. *)
LEMMA FenceStep ==
    ASSUME AppTypeOK, FenceHeld, NEW o \in Ops, NEW r \in OpRecords,
           op' = [op EXCEPT ![o] = r], app'.fence \in {app.fence, Nothing, o},
           app'.fence = o => MayHold(r)
    PROVE  FenceHeld'
BY NothingIsNoOp DEF AppTypeOK, FenceHeld, MayHold

-----------------------------------------------------------------------------
AppType == [on : Nobody, known : SUBSET Ops, frozen : BOOLEAN, fence : Nobody]

\* Operation o advances to the record r.
Advances(o, r) == r \in OpRecords /\ op' = [op EXCEPT ![o] = r]
StoreStays == UNCHANGED storeVars
RecordKept(r, s) ==
    /\ r.kind = s.kind /\ r.src = s.src /\ r.expected = s.expected
    /\ r.appOn = s.appOn /\ r.machineOn = s.machineOn
    /\ r.told = s.told /\ r.by = s.by /\ r.moved = s.moved

LEMMA OldRecord ==
    ASSUME AnyInv, NEW o \in Ops
    PROVE  op[o] \in OpRecords /\ RecordOK(o, op[o])
BY DEF AnyInv, AppTypeOK, RecordsOK

(* What each step of an operation does: the record it advances to, and what*)
(* it changes of the page and of the store.                                *)
LEMMA BeginMoves ==
    ASSUME AnyInv, NEW o \in Ops, Begin(o)
    PROVE  /\ op[o].pc = "idle" /\ (Pipelined \/ \A q \in Ops : ~Running(q))
           /\ UNCHANGED <<pageVars, boot, writes, storeVars>>
           /\ \E r : /\ Advances(o, r)
                     /\ r.pc = "describe" /\ r.kind \in Captures \cup Restores
                     /\ r.src \in Published \cup {Nothing} /\ r.expected \in Published \cup {Nothing}
                     /\ r.kind \in Restores => r.src # Nothing
                     /\ r.appOn = app.on /\ r.machineOn = machine.on
                     /\ r.told = Nothing /\ r.by = Nothing /\ ~r.moved
<1>1. PICK kind \in Captures \cup Restores, src \in Published \cup {Nothing},
           expected \in Published \cup {Nothing} :
         /\ kind \in Restores => src # Nothing
         /\ op' = [op EXCEPT ![o] = [NoOp EXCEPT !.kind = kind, !.pc = "describe", !.src = src,
                                 !.expected = expected, !.appOn = app.on,
                                 !.machineOn = machine.on]]
  BY DEF Begin, Goto
<1> DEFINE r == [NoOp EXCEPT !.kind = kind, !.pc = "describe", !.src = src,
                                 !.expected = expected, !.appOn = app.on,
                                 !.machineOn = machine.on]
<1>2. app.on \in Nobody /\ machine.on \in Nobody
  BY DEF AnyInv, AppTypeOK
<1>3. src \in Nobody /\ expected \in Nobody
  BY DEF Published, Nobody
<1>4. r \in OpRecords
  BY <1>2, <1>3, NoOpFields DEF OpRecords, Kinds, Pcs
<1>5. /\ r.pc = "describe" /\ r.kind = kind /\ r.src = src /\ r.expected = expected
      /\ r.appOn = app.on /\ r.machineOn = machine.on
      /\ r.told = Nothing /\ r.by = Nothing /\ ~r.moved
  BY NoOpFields DEF OpRecords
<1>6. /\ op[o].pc = "idle" /\ (Pipelined \/ \A q \in Ops : ~Running(q))
      /\ UNCHANGED <<pageVars, boot, writes, storeVars>>
  BY DEF Begin, At
<1>7. QED
  BY <1>1, <1>4, <1>5, <1>6 DEF Advances

LEMMA DescribeMoves ==
    ASSUME AnyInv, NEW o \in Ops, Describe(o)
    PROVE  /\ op[o].pc = "describe" /\ UNCHANGED <<machine, saved>> /\ Local
           /\ app' \in AppType /\ app'.on = app.on /\ app'.fence = app.fence
           /\ \E r : /\ Advances(o, r)
                     /\ r \in {To(o, "quiesce"), Done(op[o], "notSent")}
<1>1. op[o] \in OpRecords /\ op[o].pc = "describe"
  BY OldRecord DEF Describe, At
<1>2. app \in AppType
  BY DEF AnyInv, AppTypeOK, AppType
<1>3. app' \in AppType /\ app'.on = app.on /\ app'.fence = app.fence /\ UNCHANGED <<machine, saved>>
  BY <1>2 DEF Describe, Command, AppType, pageVars
<1>4. To(o, "quiesce") \in OpRecords
  BY <1>1 DEF To, OpRecords, Pcs
<1>5. Done(op[o], "notSent") \in OpRecords
  BY <1>1, DoneFields DEF Answers, Errors
<1>6. QED
  BY <1>1, <1>3, <1>4, <1>5 DEF Describe, Command, Goto, Errors, Advances

LEMMA QuiesceMoves ==
    ASSUME AnyInv, NEW o \in Ops, Quiesce(o)
    PROVE  /\ op[o].pc = "quiesce" /\ UNCHANGED <<machine, saved, boot, storeVars>>
           /\ writes' \in Nat
           /\ app' \in AppType /\ app'.on = app.on
           /\ \E r : /\ Advances(o, r)
                     /\ \/ /\ r = To(o, "export")
                           /\ app'.fence = o /\ app'.frozen = TRUE
                           /\ o \in app.known /\ app'.known = app.known
                        \/ r = Done(op[o], "unknown") /\ app'.fence = o
                        \/ r = Done(op[o], "notSent") /\ app'.fence = app.fence
<1>1. op[o] \in OpRecords /\ op[o].pc = "quiesce"
  BY OldRecord DEF Quiesce, At
<1>2. app \in AppType /\ writes \in Nat
  BY DEF AnyInv, AppTypeOK, AppType
<1>3. To(o, "export") \in OpRecords
  BY <1>1 DEF To, OpRecords, Pcs
<1>4. Done(op[o], "notSent") \in OpRecords /\ Done(op[o], "unknown") \in OpRecords
  BY <1>1, DoneFields DEF Answers, Errors
<1>5. CASE /\ Command(o, o \in app.known,
                     app' = [app EXCEPT !.frozen = TRUE, !.fence = o] /\ UNCHANGED <<machine, saved>>,
                     To(o, "export"), [e \in Errors |-> Done(op[o], e)])
           /\ Local
  <2>1. UNCHANGED <<machine, saved, boot, storeVars>> /\ writes' = writes
    BY <1>5 DEF Command, pageVars, Local
  <2>2. CASE /\ o \in app.known /\ app' = [app EXCEPT !.frozen = TRUE, !.fence = o]
             /\ op' = [op EXCEPT ![o] = To(o, "export")]
    <3>1. app' \in AppType /\ app'.on = app.on /\ app'.fence = o /\ app'.frozen = TRUE /\ app'.known = app.known
      BY <2>2, <1>2 DEF AppType, Nobody
    <3>2. QED
      BY <1>1, <1>2, <1>3, <2>1, <2>2, <3>1 DEF Advances
  <2>3. CASE /\ app' = [app EXCEPT !.frozen = TRUE, !.fence = o]
             /\ op' = [op EXCEPT ![o] = Done(op[o], "unknown")]
    <3>1. app' \in AppType /\ app'.on = app.on /\ app'.fence = o
      BY <2>3, <1>2 DEF AppType, Nobody
    <3>2. QED
      BY <1>1, <1>2, <1>4, <2>1, <2>3, <3>1 DEF Advances
  <2>4. CASE app' = app /\ op' = [op EXCEPT ![o] = Done(op[o], "notSent")]
    BY <1>1, <1>2, <1>4, <2>1, <2>4 DEF Advances
  <2>5. QED
    BY <1>5, <2>2, <2>3, <2>4 DEF Command, Goto, Errors, pageVars
<1>6. CASE /\ o \in app.known /\ ~app.frozen /\ writes < MaxWrites
           /\ app' = [app EXCEPT !.frozen = TRUE, !.known = {}]
           /\ writes' = writes + 1
           /\ Goto(o, Done(op[o], "notSent"))
           /\ UNCHANGED <<machine, saved, boot, storeVars>>
  <2>1. app' \in AppType /\ app'.on = app.on /\ app'.fence = app.fence
    BY <1>6, <1>2 DEF AppType
  <2>2. writes' \in Nat
    BY <1>6, <1>2
  <2>3. QED
    BY <1>1, <1>4, <1>6, <2>1, <2>2 DEF Advances, Goto
<1>7. QED
  BY <1>5, <1>6 DEF Quiesce

LEMMA ExportMoves ==
    ASSUME AnyInv, NEW o \in Ops, Export(o)
    PROVE  /\ op[o].pc = "export" /\ UNCHANGED pageVars /\ Local
           /\ \E r : /\ Advances(o, r)
                     /\ \/ r = To(o, "save") /\ o \in app.known /\ app.fence = o
                        \/ \E e \in Errors : r = [To(o, "resume") EXCEPT !.err = e]
<1>1. op[o] \in OpRecords /\ op[o].pc = "export"
  BY OldRecord DEF Export, At
<1>2. To(o, "save") \in OpRecords
  BY <1>1 DEF To, OpRecords, Pcs
<1>3. \A e \in Errors : [To(o, "resume") EXCEPT !.err = e] \in OpRecords
  BY <1>1 DEF To, OpRecords, Pcs
<1>4. UNCHANGED pageVars /\ Local
  BY DEF Export, Command, ReadOnly
<1>5. "unknown" \in Errors /\ "notSent" \in Errors
  BY DEF Errors
<1>6. QED
  BY <1>1, <1>2, <1>3, <1>4, <1>5 DEF Export, Command, Goto, Advances

LEMMA SaveMoves ==
    ASSUME AnyInv, NEW o \in Ops, Save(o)
    PROVE  /\ op[o].pc = "save" /\ UNCHANGED <<app, machine>> /\ Local
           /\ \E r : /\ Advances(o, r)
                     /\ \/ /\ saved' = Append(saved, [by |-> o, on |-> machine.on])
                           /\ r.pc = (IF op[o].kind \in Captures THEN "publish" ELSE "import")
                           /\ r.idx = Len(saved) + 1 /\ r.still = (o \in app.known)
                           /\ RecordKept(r, op[o])
                        \/ /\ saved' = saved \/ saved' = Append(saved, [by |-> o, on |-> machine.on])
                           /\ \E e \in Errors :
                                \/ op[o].kind \in Captures /\ r = [To(o, "resume") EXCEPT !.err = e]
                                \/ op[o].kind \notin Captures /\ r = Done(op[o], e)
<1>1. op[o] \in OpRecords /\ op[o].pc = "save"
  BY OldRecord DEF Save, At
<1>2. Len(saved) + 1 \in Nat
  BY LenProperties DEF AnyInv, AppTypeOK
<1>3. \A e \in Errors : [To(o, "resume") EXCEPT !.err = e] \in OpRecords
  BY <1>1 DEF To, OpRecords, Pcs
<1>4. \A e \in Errors : Done(op[o], e) \in OpRecords
  BY <1>1, DoneFields DEF Answers
<1>5. UNCHANGED <<app, machine>> /\ Local
  BY DEF Save, Command, pageVars
<1>6. "unknown" \in Errors /\ "notSent" \in Errors
  BY DEF Errors
<1> DEFINE r1 == [To(o, IF op[o].kind \in Captures THEN "publish" ELSE "import")
                  EXCEPT !.idx = Len(saved) + 1, !.still = o \in app.known]
           r2(e) == IF op[o].kind \in Captures
                          THEN [To(o, "resume") EXCEPT !.err = e] ELSE Done(op[o], e)
           done == saved' = Append(saved, [by |-> o, on |-> machine.on])
<1>7. /\ r1 \in OpRecords /\ RecordKept(r1, op[o])
      /\ r1.pc = (IF op[o].kind \in Captures THEN "publish" ELSE "import")
      /\ r1.idx = Len(saved) + 1 /\ r1.still = (o \in app.known)
  <2>0. PICK pc \in Pcs : pc = (IF op[o].kind \in Captures THEN "publish" ELSE "import")
    BY DEF Pcs
  <2>1. PICK still \in BOOLEAN : still = (o \in app.known)
    <3>1. CASE o \in app.known
      <4>1. TRUE \in BOOLEAN /\ TRUE = (o \in app.known)
        BY <3>1
      <4>2. QED
        BY <4>1, Zenon
    <3>2. CASE o \notin app.known
      <4>1. FALSE \in BOOLEAN /\ FALSE = (o \in app.known)
        BY <3>2
      <4>2. QED
        BY <4>1, Zenon
    <3>3. QED
      BY <3>1, <3>2
  <2>2. r1 = [op[o] EXCEPT !.pc = pc, !.idx = Len(saved) + 1, !.still = still]
    BY <2>0, <2>1 DEF To
  <2> DEFINE len == Len(saved) + 1
             u == [op[o] EXCEPT !.pc = pc, !.idx = len, !.still = still]
  <2>a. len \in Nat
    BY <1>2
  <2> HIDE DEF len
  <2>3. u \in OpRecords
    BY <1>1, <2>0, <2>1, <2>a DEF OpRecords
  <2>4. u.pc = pc /\ u.idx = len /\ u.still = still
    BY <1>1 DEF OpRecords
  <2>5. RecordKept(u, op[o])
    BY <1>1 DEF OpRecords, RecordKept
  <2>6. r1 = u
    BY <2>2 DEF len
  <2> HIDE DEF u
  <2>7. QED
    BY <2>0, <2>1, <2>3, <2>4, <2>5, <2>6 DEF len
<1>8. \A e \in Errors : r2(e) \in OpRecords
  BY <1>3, <1>4
<1>9. \/ done /\ op' = [op EXCEPT ![o] = r1]
      \/ (saved' = saved \/ done) /\ \E e \in Errors : op' = [op EXCEPT ![o] = r2(e)]
  BY <1>6 DEF Save, Command, Goto, pageVars
<1>10. CASE done /\ op' = [op EXCEPT ![o] = r1]
  BY <1>1, <1>5, <1>7, <1>10 DEF Advances
<1>11. CASE (saved' = saved \/ done) /\ \E e \in Errors : op' = [op EXCEPT ![o] = r2(e)]
  <2>1. PICK e \in Errors : op' = [op EXCEPT ![o] = r2(e)]
    BY <1>11
  <2>2. \/ op[o].kind \in Captures /\ r2(e) = [To(o, "resume") EXCEPT !.err = e]
        \/ op[o].kind \notin Captures /\ r2(e) = Done(op[o], e)
    OBVIOUS
  <2>3. Advances(o, r2(e))
    BY <1>8, <2>1 DEF Advances
  <2>4. QED
    BY <1>1, <1>5, <1>11, <2>2, <2>3
<1>12. QED
  BY <1>9, <1>10, <1>11

LEMMA PublishMoves ==
    ASSUME AnyInv, NEW o \in Ops, Publish(o)
    PROVE  /\ op[o].pc = "publish" /\ UNCHANGED <<pageVars, boot, writes, head>>
           /\ \E r : /\ Advances(o, r)
                     /\ \/ /\ marker' = [marker EXCEPT ![o] = [idx |-> op[o].idx, boot |-> boot,
                                                               still |-> op[o].still]]
                           /\ r \in {To(o, "activate"), To(o, "resume")}
                        \/ marker' = marker /\ r = [To(o, "resume") EXCEPT !.err = "notSent"]
<1>1. op[o] \in OpRecords /\ op[o].pc = "publish"
  BY OldRecord DEF Publish, At
<1>2. To(o, "activate") \in OpRecords /\ To(o, "resume") \in OpRecords
  BY <1>1 DEF To, OpRecords, Pcs
<1>3. [To(o, "resume") EXCEPT !.err = "notSent"] \in OpRecords
  BY <1>1 DEF To, OpRecords, Pcs, Errors
<1>4. UNCHANGED <<pageVars, boot, writes, head>>
  BY DEF Publish
<1>5. QED
  BY <1>1, <1>2, <1>3, <1>4 DEF Publish, Goto, Advances

LEMMA ActivateMoves ==
    ASSUME AnyInv, NEW o \in Ops, Activate(o)
    PROVE  /\ op[o].pc = "activate" /\ UNCHANGED <<pageVars, boot, writes, marker>>
           /\ \E r : /\ Advances(o, r)
                     /\ \/ head' = [pair |-> o, by |-> o] /\ r = To(o, "resume")
                        \/ head' = head /\ r = [To(o, "resume") EXCEPT !.err = "notSent"]
<1>1. op[o] \in OpRecords /\ op[o].pc = "activate"
  BY OldRecord DEF Activate, At
<1>2. To(o, "resume") \in OpRecords /\ [To(o, "resume") EXCEPT !.err = "notSent"] \in OpRecords
  BY <1>1 DEF To, OpRecords, Pcs, Errors
<1>3. QED
  BY <1>1, <1>2 DEF Activate, MoveHead, Goto, Advances

LEMMA ThawFields ==
    ASSUME AppTypeOK, NEW o, Thaw(o)
    PROVE  app' \in AppType /\ app'.on = app.on /\ app'.fence = Nothing /\ UNCHANGED <<machine, saved>>
BY DEF AppTypeOK, AppType, Thaw, Nobody

LEMMA ResumeMoves ==
    ASSUME AnyInv, NEW o \in Ops, Resume(o)
    PROVE  /\ op[o].pc = "resume" /\ UNCHANGED <<machine, saved>> /\ Local
           /\ app' \in AppType /\ app'.on = app.on /\ app'.fence \in {app.fence, Nothing}
           /\ \E r : /\ Advances(o, r)
                     /\ \/ /\ app'.fence = Nothing
                           /\ r = Done(op[o], IF op[o].err = Nothing THEN "ok" ELSE op[o].err)
                        \/ r = Done(op[o], "resumeFailed")
<1>1. op[o] \in OpRecords /\ op[o].pc = "resume"
  BY OldRecord DEF Resume, At
<1>2. (IF op[o].err = Nothing THEN "ok" ELSE op[o].err) \in Answers /\ "resumeFailed" \in Answers
  BY <1>1 DEF OpRecords, Answers
<1>3. /\ Done(op[o], IF op[o].err = Nothing THEN "ok" ELSE op[o].err) \in OpRecords
      /\ Done(op[o], "resumeFailed") \in OpRecords
  BY <1>1, <1>2, DoneFields
<1>4. AppTypeOK /\ app \in AppType
  BY DEF AnyInv, AppTypeOK, AppType
<1>5. \/ Thaw(o) /\ op' = [op EXCEPT ![o] = Done(op[o], IF op[o].err = Nothing THEN "ok" ELSE op[o].err)]
      \/ (Thaw(o) \/ UNCHANGED pageVars) /\ op' = [op EXCEPT ![o] = Done(op[o], "resumeFailed")]
  BY DEF Resume, Command, Goto, Errors
<1>6. Local
  BY DEF Resume
<1>7. QED
  BY <1>1, <1>3, <1>4, <1>5, <1>6, ThawFields DEF pageVars, Advances

LEMMA RollBackRecords ==
    ASSUME NEW o \in Ops, op[o] \in OpRecords, NEW e \in Errors
    PROVE  /\ RollBack(o, e) \in OpRecords
           /\ [RollBack(o, e) EXCEPT !.resumed = TRUE] \in OpRecords
           /\ [To(o, "rollbackResume") EXCEPT !.broken = TRUE] \in OpRecords
<1>1. PICK yes \in BOOLEAN : yes = TRUE
  OBVIOUS
<1>2. RollBack(o, e) \in OpRecords
  BY DEF RollBack, To, OpRecords, Pcs
<1>3. [RollBack(o, e) EXCEPT !.resumed = yes] \in OpRecords
  BY <1>2 DEF OpRecords
<1>4. [To(o, "rollbackResume") EXCEPT !.broken = yes] \in OpRecords
  BY DEF To, OpRecords, Pcs
<1>5. QED
  BY <1>1, <1>2, <1>3, <1>4

LEMMA ImportMoves ==
    ASSUME AnyInv, NEW o \in Ops, Import(o)
    PROVE  /\ op[o].pc = "import" /\ UNCHANGED <<machine, saved>> /\ Local
           /\ app' \in AppType /\ app'.fence = app.fence
           /\ \E r : /\ Advances(o, r)
                     /\ \/ app'.on = op[o].src /\ r = To(o, "restore")
                        \/ \E e \in Errors : r = RollBack(o, e)
<1>1. op[o] \in OpRecords /\ op[o].pc = "import"
  BY OldRecord DEF Import, At
<1>2. app \in AppType /\ op[o].src \in Nobody
  BY <1>1 DEF AnyInv, AppTypeOK, AppType, OpRecords
<1>3. To(o, "restore") \in OpRecords /\ \A e \in Errors : RollBack(o, e) \in OpRecords
  BY <1>1, RollBackRecords DEF To, OpRecords, Pcs
<1>4. UNCHANGED <<machine, saved>> /\ Local
  BY DEF Import, Command, pageVars
<1> DEFINE new == [app EXCEPT !.on = op[o].src, !.known = {}]
<1>5. new \in AppType /\ new.on = op[o].src /\ new.fence = app.fence
  BY <1>2 DEF AppType
<1>6. \/ app' = new /\ op' = [op EXCEPT ![o] = To(o, "restore")]
      \/ (app' = new \/ app' = app) /\ \E e \in Errors : op' = [op EXCEPT ![o] = RollBack(o, e)]
  BY DEF Import, Command, Goto, Errors, pageVars
<1> HIDE DEF new
<1>7. QED
  BY <1>1, <1>2, <1>3, <1>4, <1>5, <1>6 DEF Advances

LEMMA RestoreMachineMoves ==
    ASSUME AnyInv, NEW o \in Ops, RestoreMachine(o)
    PROVE  /\ op[o].pc = "restore" /\ UNCHANGED <<app, saved>> /\ Local
           /\ machine' \in [on : Nobody]
           /\ \E r : /\ Advances(o, r)
                     /\ \/ /\ machine'.on = saved[marker[op[o].src].idx].by
                           /\ r \in {To(o, "adopt"), To(o, "finish")}
                           /\ r.pc = "adopt" => op[o].kind = "adopt"
                        \/ \E e \in Errors : r = RollBack(o, e)
<1>1. op[o] \in OpRecords /\ op[o].pc = "restore" /\ op[o].src \in Published
  BY OldRecord DEF RestoreMachine, At, RecordOK, Applying, Live
<1> DEFINE idx == marker[op[o].src].idx
           new == [on |-> saved[idx].by]
           next == To(o, IF op[o].kind = "adopt" THEN "adopt" ELSE "finish")
<1>2. op[o].src \in Ops /\ idx \in Nat /\ idx > 0 /\ machine \in [on : Nobody] /\ saved \in Seq(Checkpoints)
  BY <1>1 DEF AnyInv, AppTypeOK, Published
<1>3. /\ To(o, "adopt") \in OpRecords /\ To(o, "finish") \in OpRecords
      /\ To(o, "finish").pc = "finish" /\ To(o, "adopt").pc = "adopt"
      /\ \A e \in Errors : RollBack(o, e) \in OpRecords
  <2>1. To(o, "adopt") \in OpRecords /\ To(o, "finish") \in OpRecords
    BY <1>1 DEF To, OpRecords, Pcs
  <2>2. To(o, "finish").pc = "finish" /\ To(o, "adopt").pc = "adopt"
    BY <1>1 DEF To, OpRecords
  <2>3. QED
    BY <1>1, <2>1, <2>2, RollBackRecords
<1>4. UNCHANGED <<app, saved>> /\ Local
  BY DEF RestoreMachine, Command, pageVars
<1>5. idx <= Len(saved) => new \in [on : Nobody]
  <2>1. idx <= Len(saved) => idx \in 1 .. Len(saved)
    BY <1>2, LenProperties
  <2>2. idx <= Len(saved) => saved[idx] \in Checkpoints
    BY <1>2, <2>1, ElementOfSeq
  <2>3. QED
    BY <2>2 DEF Checkpoints, Nobody
<1>6. /\ next \in {To(o, "adopt"), To(o, "finish")}
      /\ next.pc = "adopt" => op[o].kind = "adopt"
  BY <1>3
<1>7. \/ idx <= Len(saved) /\ machine' = new /\ op' = [op EXCEPT ![o] = next]
      \/ ((idx <= Len(saved) /\ machine' = new) \/ machine' = machine)
           /\ \E e \in Errors : op' = [op EXCEPT ![o] = RollBack(o, e)]
  BY DEF RestoreMachine, Command, Goto, Errors, pageVars
<1>8. new.on = saved[idx].by
  OBVIOUS
<1> HIDE DEF new, next
<1>9. QED
  BY <1>1, <1>2, <1>3, <1>4, <1>5, <1>6, <1>7, <1>8 DEF Advances

LEMMA AdoptMoves ==
    ASSUME AnyInv, NEW o \in Ops, Adopt(o)
    PROVE  /\ op[o].pc = "adopt" /\ UNCHANGED <<pageVars, boot, writes, marker>>
           /\ \E r : /\ Advances(o, r)
                     /\ \/ /\ head' = [pair |-> op[o].src, by |-> o]
                           /\ r.pc = "finish" /\ r.moved /\ r.by = head.by
                           /\ r.kind = op[o].kind /\ r.src = op[o].src /\ r.expected = op[o].expected
                           /\ r.appOn = op[o].appOn /\ r.machineOn = op[o].machineOn
                           /\ r.told = op[o].told /\ r.idx = op[o].idx
                        \/ head' = head /\ r = RollBack(o, "notSent")
<1>1. op[o] \in OpRecords /\ op[o].pc = "adopt"
  BY OldRecord DEF Adopt, At
<1>2. RollBack(o, "notSent") \in OpRecords
  BY <1>1, RollBackRecords DEF Errors
<1>3. PICK yes \in BOOLEAN : yes = TRUE
  OBVIOUS
<1> DEFINE r == [To(o, "finish") EXCEPT !.moved = yes, !.by = head.by]
<1>4. head.by \in Nobody
  BY DEF AnyInv, AppTypeOK
<1>5. /\ r \in OpRecords
      /\ r.pc = "finish" /\ r.moved = yes /\ r.by = head.by
      /\ r.kind = op[o].kind /\ r.src = op[o].src /\ r.expected = op[o].expected
      /\ r.appOn = op[o].appOn /\ r.machineOn = op[o].machineOn
      /\ r.told = op[o].told /\ r.idx = op[o].idx
  BY <1>1, <1>4 DEF To, OpRecords, Pcs
<1>6. \/ head' = [pair |-> op[o].src, by |-> o] /\ op' = [op EXCEPT ![o] = r]
      \/ head' = head /\ op' = [op EXCEPT ![o] = RollBack(o, "notSent")]
  BY <1>3 DEF Adopt, MoveHead, Goto
<1>7. UNCHANGED <<pageVars, boot, writes, marker>>
  BY DEF Adopt
<1> HIDE DEF r
<1>8. QED
  BY <1>1, <1>2, <1>3, <1>5, <1>6, <1>7 DEF Advances

LEMMA FinishMoves ==
    ASSUME AnyInv, NEW o \in Ops, LiftFence(o)
    PROVE  /\ op[o].pc = "finish" /\ UNCHANGED <<machine, saved>> /\ Local
           /\ app' \in AppType /\ app'.on = app.on /\ app'.fence \in {app.fence, Nothing}
           /\ \E r : /\ Advances(o, r)
                     /\ \/ app'.fence = Nothing /\ r = Done(op[o], "ok")
                        \/ \E e \in Errors : r = [RollBack(o, e) EXCEPT !.resumed = TRUE]
<1>1. op[o] \in OpRecords /\ op[o].pc = "finish"
  BY OldRecord DEF LiftFence, At
<1>2. Done(op[o], "ok") \in OpRecords
  BY <1>1, DoneFields DEF Answers
<1>3. \A e \in Errors : [RollBack(o, e) EXCEPT !.resumed = TRUE] \in OpRecords
  BY <1>1, RollBackRecords
<1>4. AppTypeOK /\ app \in AppType
  BY DEF AnyInv, AppTypeOK, AppType
<1>5. \/ Thaw(o) /\ op' = [op EXCEPT ![o] = Done(op[o], "ok")]
      \/ (Thaw(o) \/ UNCHANGED pageVars)
            /\ \E e \in Errors : op' = [op EXCEPT ![o] = [RollBack(o, e) EXCEPT !.resumed = TRUE]]
  BY DEF LiftFence, Command, Goto, Errors
<1>6. Local
  BY DEF LiftFence
<1>7. QED
  BY <1>1, <1>2, <1>3, <1>4, <1>5, <1>6, ThawFields DEF pageVars, Advances

LEMMA RollbackImportMoves ==
    ASSUME AnyInv, NEW o \in Ops, RollbackImport(o)
    PROVE  /\ op[o].pc = "rollbackImport" /\ UNCHANGED <<machine, saved>> /\ Local
           /\ app' \in AppType /\ app'.fence = app.fence
           /\ \E r : /\ Advances(o, r)
                     /\ \/ app'.on = op[o].appOn /\ r = To(o, "rollbackRestore")
                        \/ r = [To(o, "rollbackResume") EXCEPT !.broken = TRUE]
<1>1. op[o] \in OpRecords /\ op[o].pc = "rollbackImport"
  BY OldRecord DEF RollbackImport, At
<1>2. app \in AppType /\ op[o].appOn \in Nobody
  BY <1>1 DEF AnyInv, AppTypeOK, AppType, OpRecords
<1>3. To(o, "rollbackRestore") \in OpRecords
  BY <1>1 DEF To, OpRecords, Pcs
<1>4. [To(o, "rollbackResume") EXCEPT !.broken = TRUE] \in OpRecords
  BY <1>1, RollBackRecords DEF Errors
<1>5. UNCHANGED <<machine, saved>> /\ Local
  BY DEF RollbackImport, Command, pageVars
<1> DEFINE new == [app EXCEPT !.on = op[o].appOn, !.known = {}]
<1>6. new \in AppType /\ new.on = op[o].appOn /\ new.fence = app.fence
  BY <1>2 DEF AppType
<1>7. \/ app' = new /\ op' = [op EXCEPT ![o] = To(o, "rollbackRestore")]
      \/ (app' = new \/ app' = app)
            /\ op' = [op EXCEPT ![o] = [To(o, "rollbackResume") EXCEPT !.broken = TRUE]]
  BY DEF RollbackImport, Command, Goto, Errors, pageVars
<1> HIDE DEF new
<1>8. QED
  BY <1>1, <1>2, <1>3, <1>4, <1>5, <1>6, <1>7 DEF Advances

LEMMA RollbackRestoreMoves ==
    ASSUME AnyInv, NEW o \in Ops, RollbackRestore(o)
    PROVE  /\ op[o].pc = "rollbackRestore" /\ UNCHANGED <<app, saved>> /\ Local
           /\ machine' \in [on : Nobody]
           /\ \E r : /\ Advances(o, r)
                     /\ \/ machine'.on = saved[op[o].idx].on /\ r = To(o, "rollbackResume")
                        \/ r = [To(o, "rollbackResume") EXCEPT !.broken = TRUE]
<1>1. op[o] \in OpRecords /\ op[o].pc = "rollbackRestore" /\ op[o].idx > 0
  BY OldRecord DEF RollbackRestore, At, RecordOK, Undoing
<1> DEFINE idx == op[o].idx
           new == [on |-> saved[idx].on]
<1>2. idx \in Nat /\ machine \in [on : Nobody] /\ saved \in Seq(Checkpoints)
  BY <1>1 DEF AnyInv, AppTypeOK, OpRecords
<1>3. To(o, "rollbackResume") \in OpRecords
  BY <1>1 DEF To, OpRecords, Pcs
<1>4. [To(o, "rollbackResume") EXCEPT !.broken = TRUE] \in OpRecords
  BY <1>1, RollBackRecords DEF Errors
<1>5. UNCHANGED <<app, saved>> /\ Local
  BY DEF RollbackRestore, Command, pageVars
<1>6. idx <= Len(saved) => new \in [on : Nobody]
  <2>1. idx <= Len(saved) => idx \in 1 .. Len(saved)
    BY <1>1, <1>2, LenProperties
  <2>2. idx <= Len(saved) => saved[idx] \in Checkpoints
    BY <1>2, <2>1, ElementOfSeq
  <2>3. QED
    BY <2>2 DEF Checkpoints, Nobody
<1>7. \/ /\ idx <= Len(saved) /\ machine' = new
         /\ op' = [op EXCEPT ![o] = To(o, "rollbackResume")]
      \/ /\ (idx <= Len(saved) /\ machine' = new) \/ machine' = machine
         /\ op' = [op EXCEPT ![o] = [To(o, "rollbackResume") EXCEPT !.broken = TRUE]]
  BY DEF RollbackRestore, Command, Goto, Errors, pageVars
<1>8. new.on = saved[idx].on
  OBVIOUS
<1> HIDE DEF new
<1>9. QED
  BY <1>1, <1>2, <1>3, <1>4, <1>5, <1>6, <1>7, <1>8 DEF Advances

LEMMA RollbackResumeMoves ==
    ASSUME AnyInv, NEW o \in Ops, RollbackResume(o)
    PROVE  /\ op[o].pc = "rollbackResume" /\ UNCHANGED <<machine, saved>> /\ Local
           /\ app' \in AppType /\ app'.on = app.on /\ app'.fence \in {app.fence, Nothing}
           /\ \E r : /\ Advances(o, r)
                     /\ \/ r = Done(op[o], "rollbackFailed")
                        \/ ~op[o].broken /\ op[o].moved /\ r = To(o, "headBack")
                        \/ ~op[o].broken /\ ~op[o].moved /\ r = Done(op[o], op[o].err)
<1>1. op[o] \in OpRecords /\ op[o].pc = "rollbackResume"
  BY OldRecord DEF RollbackResume, At
<1>2. To(o, "headBack") \in OpRecords
  BY <1>1 DEF To, OpRecords, Pcs
<1>3. op[o].err \in Answers /\ "rollbackFailed" \in Answers
  BY <1>1 DEF OpRecords, Answers
<1>4. Done(op[o], "rollbackFailed") \in OpRecords /\ Done(op[o], op[o].err) \in OpRecords
  BY <1>1, <1>3, DoneFields
<1>5. AppTypeOK /\ app \in AppType
  BY DEF AnyInv, AppTypeOK, AppType
<1>6. /\ Thaw(o) \/ UNCHANGED pageVars
      /\ op' = [op EXCEPT ![o] = RolledBack(o)] \/ op' = [op EXCEPT ![o] = Done(op[o], "rollbackFailed")]
  BY DEF RollbackResume, Command, Goto, Errors, ReadOnly
<1>7. \/ RolledBack(o) = Done(op[o], "rollbackFailed")
      \/ ~op[o].broken /\ op[o].moved /\ RolledBack(o) = To(o, "headBack")
      \/ ~op[o].broken /\ ~op[o].moved /\ RolledBack(o) = Done(op[o], op[o].err)
  BY DEF RolledBack
<1>8. RolledBack(o) \in OpRecords
  BY <1>2, <1>4, <1>7
<1>9. /\ UNCHANGED <<machine, saved>> /\ Local
      /\ app' \in AppType /\ app'.on = app.on /\ app'.fence \in {app.fence, Nothing}
  BY <1>5, <1>6, ThawFields DEF pageVars, RollbackResume
<1>10. QED
  BY <1>1, <1>4, <1>6, <1>7, <1>8, <1>9 DEF Advances

LEMMA HeadBackMoves ==
    ASSUME AnyInv, NEW o \in Ops, HeadBack(o)
    PROVE  /\ op[o].pc = "headBack" /\ UNCHANGED <<pageVars, boot, writes, marker>>
           /\ \E r : /\ Advances(o, r)
                     /\ \/ /\ head' \in [pair : Nobody \cup {Corrupt}, by : Nobody]
                           /\ head'.pair \in {op[o].expected, Corrupt} \ {Nothing}
                           /\ head'.by = op[o].by
                           /\ r = Done(op[o], op[o].err)
                        \/ head' = head /\ r = Done(op[o], "rollbackFailed")
<1>1. op[o] \in OpRecords /\ op[o].pc = "headBack"
  BY OldRecord DEF HeadBack, At
<1>2. op[o].err \in Answers /\ "rollbackFailed" \in Answers
  BY <1>1 DEF OpRecords, Answers
<1>3. Done(op[o], "rollbackFailed") \in OpRecords /\ Done(op[o], op[o].err) \in OpRecords
  BY <1>1, <1>2, DoneFields
<1> DEFINE pair == IF op[o].expected = Nothing THEN Corrupt ELSE op[o].expected
           new == [pair |-> pair, by |-> op[o].by]
<1>4. pair \in {op[o].expected, Corrupt} \ {Nothing}
  BY NothingIsNoOp
<1>5. pair \in Nobody \cup {Corrupt} /\ op[o].by \in Nobody
  BY <1>1, <1>4 DEF OpRecords
<1> HIDE DEF pair
<1>6. new \in [pair : Nobody \cup {Corrupt}, by : Nobody] /\ new.pair = pair /\ new.by = op[o].by
  BY <1>5
<1>7. \/ head' = new /\ op' = [op EXCEPT ![o] = Done(op[o], op[o].err)]
      \/ head' = head /\ op' = [op EXCEPT ![o] = Done(op[o], "rollbackFailed")]
  BY DEF HeadBack, MoveHead, Goto, pair
<1>8. UNCHANGED <<pageVars, boot, writes, marker>>
  BY DEF HeadBack
<1> HIDE DEF new
<1>9. QED
  BY <1>1, <1>3, <1>4, <1>6, <1>7, <1>8 DEF Advances

-----------------------------------------------------------------------------
(* The steps keep AnyInv. First, what all that leave the store alone share:  *)
(* o advances to r, and what is left to show depends on the action.         *)
LEMMA AnyStep ==
    ASSUME AnyInv, NEW o \in Ops, NEW r, Advances(o, r),
           app' \in AppType, machine' \in [on : Nobody], saved' \in Seq(Checkpoints),
           boot' = boot, writes' \in Nat, StoreStays, RecordOK(o, r),
           app'.fence \in {app.fence, Nothing, o}, app'.fence = o => MayHold(r)
    PROVE  AnyInv'
<1>1. AppTypeOK /\ RecordsOK /\ FenceHeld /\ HeadComplete
  BY DEF AnyInv
<1>2. marker' = marker /\ head' = head /\ Published' = Published
  BY <1>1, PublishedStays DEF StoreStays, storeVars
<1>3. RecordOK(o, r)'
  BY <1>2 DEF RecordOK
<1>4. r \in OpRecords /\ op' = [op EXCEPT ![o] = r]
  BY DEF Advances
<1>5. RecordsOK' /\ op' \in [Ops -> OpRecords]
  BY <1>1, <1>2, <1>3, <1>4, RecordsStep
<1>6. FenceHeld'
  BY <1>1, <1>4, FenceStep
<1>7. HeadComplete'
  BY <1>1, <1>2 DEF HeadComplete
<1>8. AppTypeOK'
  BY <1>1, <1>2, <1>5 DEF AppTypeOK, AppType
<1>9. QED
  BY <1>5, <1>6, <1>7, <1>8 DEF AnyInv

LEMMA TypeParts ==
    ASSUME AnyInv
    PROVE  /\ app \in AppType /\ machine \in [on : Nobody] /\ saved \in Seq(Checkpoints)
           /\ boot \in Nat /\ writes \in Nat
           /\ marker \in [Ops -> [idx : Nat, boot : Nat, still : BOOLEAN]]
           /\ head \in [pair : Nobody \cup {Corrupt}, by : Nobody]
           /\ op \in [Ops -> OpRecords] /\ RecordsOK /\ FenceHeld /\ HeadComplete
BY DEF AnyInv, AppTypeOK, AppType

LEMMA LocalFrame ==
    ASSUME AnyInv, Local
    PROVE  boot' = boot /\ writes' \in Nat /\ StoreStays /\ marker' = marker /\ head' = head
BY TypeParts DEF Local, StoreStays, storeVars

LEMMA BeginKeepsAny ==
    ASSUME AnyInv, NEW o \in Ops, Begin(o) PROVE AnyInv'
<1>1. PICK r : /\ Advances(o, r)
               /\ r.pc = "describe" /\ r.kind \in Captures \cup Restores
               /\ r.src \in Published \cup {Nothing} /\ r.expected \in Published \cup {Nothing}
               /\ r.kind \in Restores => r.src # Nothing
               /\ r.told = Nothing /\ r.by = Nothing /\ ~r.moved
  BY BeginMoves
<1>2. UNCHANGED <<pageVars, boot, writes, storeVars>> /\ op[o].pc = "idle"
  BY BeginMoves
<1>3. RecordOK(o, r)
  BY <1>1 DEF RecordOK, Live, Applying, Undoing
<1>4. app'.fence # o
  BY <1>2, TypeParts DEF pageVars, FenceHeld, MayHold
<1>5. QED
  BY <1>1, <1>2, <1>3, <1>4, TypeParts, AnyStep DEF pageVars, StoreStays

LEMMA DescribeKeepsAny ==
    ASSUME AnyInv, NEW o \in Ops, Describe(o) PROVE AnyInv'
<1>1. /\ op[o].pc = "describe" /\ UNCHANGED <<machine, saved>> /\ Local
      /\ app' \in AppType /\ app'.fence = app.fence
  BY DescribeMoves
<1>2. PICK r : Advances(o, r) /\ r \in {To(o, "quiesce"), Done(op[o], "notSent")}
  BY DescribeMoves
<1>3. op[o] \in OpRecords /\ RecordOK(o, op[o])
  BY OldRecord
<1>4. RecordOK(o, r)
  <2>1. CASE r = Done(op[o], "notSent")
    BY <2>1, <1>3, DoneOK DEF Answers, Errors
  <2>2. CASE r = To(o, "quiesce")
    BY <2>2, <1>1, <1>3 DEF To, OpRecords, RecordOK, Live, Applying, Undoing
  <2>3. QED
    BY <1>2, <2>1, <2>2
<1>5. app'.fence # o
  BY <1>1, TypeParts DEF FenceHeld, MayHold
<1>6. QED
  BY <1>1, <1>2, <1>4, <1>5, LocalFrame, TypeParts, AnyStep

LEMMA QuiesceKeepsAny ==
    ASSUME AnyInv, NEW o \in Ops, Quiesce(o) PROVE AnyInv'
<1>1. /\ op[o].pc = "quiesce" /\ UNCHANGED <<machine, saved, boot, storeVars>>
      /\ writes' \in Nat /\ app' \in AppType
  BY QuiesceMoves
<1>2. PICK r : /\ Advances(o, r)
               /\ \/ r = To(o, "export") /\ app'.fence = o
                  \/ r = Done(op[o], "unknown") /\ app'.fence = o
                  \/ r = Done(op[o], "notSent") /\ app'.fence = app.fence
  BY QuiesceMoves
<1>3. op[o] \in OpRecords /\ RecordOK(o, op[o]) /\ app.fence # o
  BY <1>1, OldRecord, TypeParts DEF FenceHeld, MayHold
<1>4. RecordOK(o, r) /\ (app'.fence = o => MayHold(r)) /\ app'.fence \in {app.fence, o}
  <2>1. CASE r = Done(op[o], "notSent") /\ app'.fence = app.fence
    BY <2>1, <1>3, DoneOK DEF Answers, Errors
  <2>2. CASE r = To(o, "export") /\ app'.fence = o
    BY <2>2, <1>1, <1>3 DEF To, OpRecords, RecordOK, Live, Applying, Undoing, MayHold, Nothing
  <2>3. CASE r = Done(op[o], "unknown") /\ app'.fence = o
    <3>1. "unknown" \in Answers
      BY DEF Answers, Errors
    <3>2. RecordOK(o, r) /\ r.pc = "done" /\ r.told = "unknown"
      BY <2>3, <1>3, <3>1, DoneOK, DoneFields
    <3>3. QED
      BY <2>3, <3>2 DEF MayHold
  <2>4. QED
    BY <1>2, <2>1, <2>2, <2>3
<1>5. QED
  BY <1>1, <1>2, <1>4, TypeParts, AnyStep DEF StoreStays

LEMMA ExportKeepsAny ==
    ASSUME AnyInv, NEW o \in Ops, Export(o) PROVE AnyInv'
<1>1. op[o].pc = "export" /\ UNCHANGED pageVars /\ Local
  BY ExportMoves
<1>2. PICK r : /\ Advances(o, r)
               /\ r = To(o, "save") \/ \E e \in Errors : r = [To(o, "resume") EXCEPT !.err = e]
  BY ExportMoves
<1>3. op[o] \in OpRecords /\ RecordOK(o, op[o])
  BY OldRecord
<1>4. RecordOK(o, r) /\ MayHold(r)
  <2>1. CASE r = To(o, "save")
    BY <2>1, <1>1, <1>3 DEF To, OpRecords, RecordOK, Live, Applying, Undoing, MayHold, Nothing
  <2>2. ASSUME NEW e \in Errors, r = [To(o, "resume") EXCEPT !.err = e]
        PROVE  RecordOK(o, r) /\ MayHold(r)
    BY <2>2, <1>1, <1>3 DEF To, OpRecords, RecordOK, Live, Applying, Undoing, MayHold, Nothing, Errors
  <2>3. QED
    BY <1>2, <2>1, <2>2
<1>5. QED
  BY <1>1, <1>2, <1>4, LocalFrame, TypeParts, AnyStep DEF pageVars

LEMMA SaveKeepsAny ==
    ASSUME AnyInv, NEW o \in Ops, Save(o) PROVE AnyInv'
<1>1. op[o].pc = "save" /\ UNCHANGED <<app, machine>> /\ Local
  BY SaveMoves
<1>2. PICK r : /\ Advances(o, r)
               /\ saved' = saved \/ saved' = Append(saved, [by |-> o, on |-> machine.on])
               /\ \/ /\ r.pc = (IF op[o].kind \in Captures THEN "publish" ELSE "import")
                     /\ r.idx = Len(saved) + 1
                     /\ RecordKept(r, op[o])
                  \/ \E e \in Errors :
                        \/ op[o].kind \in Captures /\ r = [To(o, "resume") EXCEPT !.err = e]
                        \/ op[o].kind \notin Captures /\ r = Done(op[o], e)
  BY SaveMoves
<1>3. op[o] \in OpRecords /\ RecordOK(o, op[o])
  BY OldRecord
<1>4. saved' \in Seq(Checkpoints) /\ Len(saved) \in Nat
  <2>1. [by |-> o, on |-> machine.on] \in Checkpoints
    BY TypeParts DEF Checkpoints
  <2>2. saved \in Seq(Checkpoints)
    BY TypeParts
  <2>3. Append(saved, [by |-> o, on |-> machine.on]) \in Seq(Checkpoints)
    BY <2>1, <2>2, AppendProperties
  <2>4. QED
    BY <1>2, <2>2, <2>3, LenProperties
<1>5. RecordOK(o, r) /\ MayHold(r)
  <2>1. CASE /\ r.pc = (IF op[o].kind \in Captures THEN "publish" ELSE "import")
             /\ r.idx = Len(saved) + 1 /\ RecordKept(r, op[o])
    <3>1. op[o].kind \in Captures \cup Restores /\ op[o].told = Nothing /\ ~op[o].moved
      BY <1>1, <1>3 DEF RecordOK, Live, Undoing
    <3>2. CASE op[o].kind \in Captures
      BY <2>1, <3>1, <3>2, <1>1, <1>3, <1>4 DEF RecordOK, RecordKept, Live, Applying, Undoing,
            MayHold, Nothing, Captures, Restores
    <3>3. CASE op[o].kind \notin Captures
      BY <2>1, <3>1, <3>3, <1>1, <1>3, <1>4 DEF RecordOK, RecordKept, Live, Applying, Undoing,
            MayHold, Nothing, Captures, Restores
    <3>4. QED
      BY <3>2, <3>3
  <2>2. ASSUME NEW e \in Errors, op[o].kind \in Captures, r = [To(o, "resume") EXCEPT !.err = e]
        PROVE  RecordOK(o, r) /\ MayHold(r)
    BY <2>2, <1>1, <1>3 DEF To, OpRecords, RecordOK, Live, Applying, Undoing, MayHold, Nothing, Errors
  <2>3. ASSUME NEW e \in Errors, op[o].kind \notin Captures, r = Done(op[o], e)
        PROVE  RecordOK(o, r) /\ MayHold(r)
    <3>1. e \in Answers /\ e # "ok"
      BY DEF Answers, Errors
    <3>2. RecordOK(o, r) /\ r.pc = "done" /\ r.told = e /\ r.kind = op[o].kind
      BY <2>3, <1>3, <3>1, DoneOK, DoneFields
    <3>3. QED
      BY <2>3, <3>1, <3>2 DEF MayHold
  <2>4. QED
    BY <1>2, <2>1, <2>2, <2>3
<1>6. QED
  BY <1>1, <1>2, <1>4, <1>5, LocalFrame, TypeParts, AnyStep

(* The same for a step of o that writes to the store.                       *)
LEMMA AnyStoreStep ==
    ASSUME AnyInv, NEW o \in Ops, NEW r, Advances(o, r),
           UNCHANGED <<pageVars, boot, writes>>,
           marker' \in [Ops -> [idx : Nat, boot : Nat, still : BOOLEAN]],
           head' \in [pair : Nobody \cup {Corrupt}, by : Nobody],
           Published \subseteq Published', RecordOK(o, r)', HeadComplete', MayHold(r)
    PROVE  AnyInv'
<1>1. AppTypeOK /\ RecordsOK /\ FenceHeld
  BY DEF AnyInv
<1>2. r \in OpRecords /\ op' = [op EXCEPT ![o] = r]
  BY DEF Advances
<1>3. RecordsOK' /\ op' \in [Ops -> OpRecords]
  BY <1>1, <1>2, RecordsStep
<1>4. FenceHeld'
  BY <1>1, <1>2, FenceStep DEF pageVars
<1>5. AppTypeOK'
  BY <1>1, <1>3 DEF AppTypeOK, pageVars
<1>6. QED
  BY <1>3, <1>4, <1>5 DEF AnyInv

LEMMA PublishKeepsAny ==
    ASSUME AnyInv, NEW o \in Ops, Publish(o) PROVE AnyInv'
<1>1. op[o].pc = "publish" /\ UNCHANGED <<pageVars, boot, writes, head>>
  BY PublishMoves
<1>2. PICK r : /\ Advances(o, r)
               /\ \/ /\ marker' = [marker EXCEPT ![o] = [idx |-> op[o].idx, boot |-> boot,
                                                         still |-> op[o].still]]
                     /\ r \in {To(o, "activate"), To(o, "resume")}
                  \/ marker' = marker /\ r = [To(o, "resume") EXCEPT !.err = "notSent"]
  BY PublishMoves
<1>3. op[o] \in OpRecords /\ RecordOK(o, op[o]) /\ op[o].idx \in Nat /\ op[o].idx > 0 /\ op[o].still \in BOOLEAN
  BY <1>1, OldRecord DEF RecordOK, OpRecords
<1>4. /\ marker' \in [Ops -> [idx : Nat, boot : Nat, still : BOOLEAN]]
      /\ Published \subseteq Published'
      /\ r # [To(o, "resume") EXCEPT !.err = "notSent"] => o \in Published'
  <2> DEFINE new == [idx |-> op[o].idx, boot |-> boot, still |-> op[o].still]
  <2>1. new \in [idx : Nat, boot : Nat, still : BOOLEAN] /\ new.idx > 0
    BY <1>3, TypeParts
  <2> HIDE DEF new
  <2>2. CASE marker' = [marker EXCEPT ![o] = new]
    <3>1. marker \in [Ops -> [idx : Nat, boot : Nat, still : BOOLEAN]]
      BY TypeParts
    <3>2. marker' \in [Ops -> [idx : Nat, boot : Nat, still : BOOLEAN]]
      BY <2>1, <2>2, <3>1
    <3>3. marker'[o] = new /\ \A q \in Ops \ {o} : marker'[q] = marker[q]
      BY <2>2, <3>1
    <3>4. QED
      BY <2>1, <3>2, <3>3 DEF Published
  <2>3. CASE marker' = marker /\ r = [To(o, "resume") EXCEPT !.err = "notSent"]
    BY <2>3, TypeParts DEF Published
  <2>4. QED
    BY <1>2, <2>2, <2>3 DEF new
<1>5. Published \subseteq Published'
  BY <1>4
<1>6. r # [To(o, "resume") EXCEPT !.err = "notSent"] => o \in Published'
  BY <1>4
<1>7. RecordOK(o, r)' /\ MayHold(r)
  <2>1. CASE r = To(o, "activate")
    <3>1. r.pc = "activate" /\ RecordKept(r, op[o]) /\ r # [To(o, "resume") EXCEPT !.err = "notSent"]
      BY <2>1, <1>3 DEF To, OpRecords, RecordKept
    <3>2. QED
      BY <3>1, <1>1, <1>3, <1>5, <1>6 DEF RecordKept, RecordOK, Live, Applying, Undoing, MayHold, Nothing
  <2>2. CASE r = To(o, "resume")
    <3>1. r.pc = "resume" /\ RecordKept(r, op[o])
      BY <2>2, <1>3 DEF To, OpRecords, RecordKept
    <3>2. QED
      BY <3>1, <1>1, <1>3, <1>5 DEF RecordKept, RecordOK, Live, Applying, Undoing, MayHold, Nothing, Captures, Restores
  <2>3. CASE r = [To(o, "resume") EXCEPT !.err = "notSent"]
    <3>1. r.pc = "resume" /\ RecordKept(r, op[o]) /\ r.err = "notSent"
      BY <2>3, <1>3 DEF To, OpRecords, RecordKept
    <3>2. QED
      BY <3>1, <1>1, <1>3, <1>5 DEF RecordKept, RecordOK, Live, Applying, Undoing, MayHold, Nothing
  <2>4. QED
    BY <1>2, <2>1, <2>2, <2>3
<1>8. HeadComplete'
  BY <1>1, <1>5, TypeParts DEF HeadComplete
<1>9. QED
  BY <1>1, <1>2, <1>4, <1>5, <1>7, <1>8, TypeParts, AnyStoreStep

LEMMA ActivateKeepsAny ==
    ASSUME AnyInv, NEW o \in Ops, Activate(o) PROVE AnyInv'
<1>1. op[o].pc = "activate" /\ UNCHANGED <<pageVars, boot, writes, marker>>
  BY ActivateMoves
<1>2. PICK r : /\ Advances(o, r)
               /\ \/ head' = [pair |-> o, by |-> o] /\ r = To(o, "resume")
                  \/ head' = head /\ r = [To(o, "resume") EXCEPT !.err = "notSent"]
  BY ActivateMoves
<1>3. op[o] \in OpRecords /\ RecordOK(o, op[o])
  BY OldRecord
<1>4. Published' = Published /\ o \in Published
  BY <1>1, <1>3 DEF Published, RecordOK
<1>5. r.pc = "resume" /\ RecordKept(r, op[o])
  BY <1>2, <1>3 DEF To, OpRecords, RecordKept
<1>6. RecordOK(o, r)' /\ MayHold(r)
  BY <1>1, <1>3, <1>4, <1>5 DEF RecordKept, RecordOK, Live, Applying, Undoing, MayHold, Nothing, Captures, Restores
<1>7. HeadComplete' /\ head' \in [pair : Nobody \cup {Corrupt}, by : Nobody]
  BY <1>2, <1>4, TypeParts DEF HeadComplete, Nobody
<1>8. QED
  BY <1>1, <1>2, <1>4, <1>6, <1>7, TypeParts, AnyStoreStep

LEMMA ResumeKeepsAny ==
    ASSUME AnyInv, NEW o \in Ops, Resume(o) PROVE AnyInv'
<1>1. /\ op[o].pc = "resume" /\ UNCHANGED <<machine, saved>> /\ Local
      /\ app' \in AppType /\ app'.fence \in {app.fence, Nothing}
  BY ResumeMoves
<1>2. PICK r : /\ Advances(o, r)
               /\ \/ /\ app'.fence = Nothing
                     /\ r = Done(op[o], IF op[o].err = Nothing THEN "ok" ELSE op[o].err)
                  \/ r = Done(op[o], "resumeFailed")
  BY ResumeMoves
<1>3. op[o] \in OpRecords
  BY OldRecord
<1>4. (IF op[o].err = Nothing THEN "ok" ELSE op[o].err) \in Answers /\ "resumeFailed" \in Answers
  BY <1>3 DEF OpRecords, Answers
<1>5. RecordOK(o, r)
  BY <1>2, <1>3, <1>4, DoneOK
<1>6. app'.fence = o => MayHold(r)
  <2>1. CASE app'.fence = Nothing
    BY <2>1, NothingIsNoOp
  <2>2. CASE r = Done(op[o], "resumeFailed")
    <3>1. r.pc = "done" /\ r.told = "resumeFailed"
      BY <2>2, <1>3, <1>4, DoneFields
    <3>2. QED
      BY <3>1 DEF MayHold
  <2>3. QED
    BY <1>2, <2>1, <2>2
<1>7. QED
  BY <1>1, <1>2, <1>5, <1>6, LocalFrame, TypeParts, AnyStep

LEMMA RollBackOK ==
    ASSUME AnyInv, NEW o \in Ops, op[o].pc \in Applying, NEW e \in Errors, NEW r,
           r = RollBack(o, e) \/ r = [RollBack(o, e) EXCEPT !.resumed = TRUE]
    PROVE  RecordOK(o, r) /\ MayHold(r)
<1>1. op[o] \in OpRecords /\ RecordOK(o, op[o])
  BY OldRecord
<1>2. r.pc = "rollbackImport" /\ RecordKept(r, op[o]) /\ r.err = e /\ r.idx = op[o].idx
  BY <1>1 DEF RollBack, To, OpRecords, RecordKept
<1>3. e # Nothing
  BY DEF Errors, Nothing
<1>4. Live(op[o]) /\ op[o].kind \in Restores /\ op[o].idx > 0 /\ op[o].told = Nothing
  BY <1>1 DEF RecordOK, Live, Applying
<1>5. QED
  BY <1>1, <1>2, <1>3, <1>4 DEF RecordKept, RecordOK, Live, Undoing, Applying, MayHold, Nothing, Captures, Restores

LEMMA ImportKeepsAny ==
    ASSUME AnyInv, NEW o \in Ops, Import(o) PROVE AnyInv'
<1>1. /\ op[o].pc = "import" /\ UNCHANGED <<machine, saved>> /\ Local
      /\ app' \in AppType /\ app'.fence = app.fence
  BY ImportMoves
<1>2. PICK r : Advances(o, r) /\ (r = To(o, "restore") \/ \E e \in Errors : r = RollBack(o, e))
  BY ImportMoves
<1>3. RecordOK(o, r) /\ MayHold(r)
  <2>1. CASE r = To(o, "restore")
    <3>1. op[o] \in OpRecords /\ RecordOK(o, op[o])
      BY OldRecord
    <3>2. r.pc = "restore" /\ RecordKept(r, op[o]) /\ r.idx = op[o].idx
      BY <2>1, <3>1 DEF To, OpRecords, RecordKept
    <3>3. QED
      BY <1>1, <3>1, <3>2 DEF RecordKept, RecordOK, Live, Undoing, Applying, MayHold, Nothing
  <2>2. QED
    BY <1>1, <1>2, <2>1, RollBackOK DEF Applying
<1>4. QED
  BY <1>1, <1>2, <1>3, LocalFrame, TypeParts, AnyStep

LEMMA RestoreMachineKeepsAny ==
    ASSUME AnyInv, NEW o \in Ops, RestoreMachine(o) PROVE AnyInv'
<1>1. /\ op[o].pc = "restore" /\ UNCHANGED <<app, saved>> /\ Local
      /\ machine' \in [on : Nobody]
  BY RestoreMachineMoves
<1>2. PICK r : /\ Advances(o, r)
               /\ r \in {To(o, "adopt"), To(o, "finish")} \/ \E e \in Errors : r = RollBack(o, e)
  BY RestoreMachineMoves
<1>3. RecordOK(o, r) /\ MayHold(r)
  <2>1. CASE r \in {To(o, "adopt"), To(o, "finish")}
    <3>1. op[o] \in OpRecords /\ RecordOK(o, op[o])
      BY OldRecord
    <3>2. r.pc \in {"adopt", "finish"} /\ RecordKept(r, op[o]) /\ r.idx = op[o].idx
      BY <2>1, <3>1 DEF To, OpRecords, RecordKept
    <3>3. QED
      BY <1>1, <3>1, <3>2 DEF RecordKept, RecordOK, Live, Undoing, Applying, MayHold, Nothing
  <2>2. QED
    BY <1>1, <1>2, <2>1, RollBackOK DEF Applying
<1>4. QED
  BY <1>1, <1>2, <1>3, LocalFrame, TypeParts, AnyStep

LEMMA AdoptKeepsAny ==
    ASSUME AnyInv, NEW o \in Ops, Adopt(o) PROVE AnyInv'
<1>1. op[o].pc = "adopt" /\ UNCHANGED <<pageVars, boot, writes, marker>>
  BY AdoptMoves
<1>2. PICK r : /\ Advances(o, r)
               /\ \/ /\ head' = [pair |-> op[o].src, by |-> o]
                     /\ r.pc = "finish" /\ r.moved
                     /\ r.kind = op[o].kind /\ r.src = op[o].src /\ r.expected = op[o].expected
                     /\ r.told = op[o].told /\ r.idx = op[o].idx
                  \/ head' = head /\ r = RollBack(o, "notSent")
  BY AdoptMoves
<1>3. op[o] \in OpRecords /\ RecordOK(o, op[o])
  BY OldRecord
<1>4. Published' = Published /\ op[o].src \in Published /\ op[o].src \in Ops
  BY <1>1, <1>3 DEF Published, RecordOK, Live, Applying
<1>5. RecordOK(o, r)' /\ MayHold(r)
  <2>1. RecordOK(o, r)' = RecordOK(o, r)
    BY <1>4 DEF RecordOK
  <2>2. CASE r = RollBack(o, "notSent")
    BY <1>1, <2>1, <2>2, RollBackOK DEF Errors, Applying
  <2>3. CASE head' = [pair |-> op[o].src, by |-> o]
    BY <1>1, <1>2, <1>3, <2>1, <2>3, RollBackOK
       DEF RecordOK, Live, Undoing, Applying, MayHold, Nothing, Errors
  <2>4. QED
    BY <1>2, <2>2, <2>3
<1>6. HeadComplete' /\ head' \in [pair : Nobody \cup {Corrupt}, by : Nobody]
  BY <1>2, <1>4, TypeParts DEF HeadComplete, Nobody
<1>7. QED
  BY <1>1, <1>2, <1>4, <1>5, <1>6, TypeParts, AnyStoreStep

LEMMA FinishKeepsAny ==
    ASSUME AnyInv, NEW o \in Ops, LiftFence(o) PROVE AnyInv'
<1>1. /\ op[o].pc = "finish" /\ UNCHANGED <<machine, saved>> /\ Local
      /\ app' \in AppType /\ app'.fence \in {app.fence, Nothing}
  BY FinishMoves
<1>2. PICK r : /\ Advances(o, r)
               /\ \/ app'.fence = Nothing /\ r = Done(op[o], "ok")
                  \/ \E e \in Errors : r = [RollBack(o, e) EXCEPT !.resumed = TRUE]
  BY FinishMoves
<1>3. op[o] \in OpRecords /\ "ok" \in Answers
  BY OldRecord DEF Answers
<1>4. RecordOK(o, r) /\ (app'.fence = o => MayHold(r))
  <2>1. CASE app'.fence = Nothing /\ r = Done(op[o], "ok")
    BY <2>1, <1>3, DoneOK, NothingIsNoOp
  <2>2. CASE \E e \in Errors : r = [RollBack(o, e) EXCEPT !.resumed = TRUE]
    BY <1>1, <2>2, RollBackOK DEF Applying
  <2>3. QED
    BY <1>2, <2>1, <2>2
<1>5. QED
  BY <1>1, <1>2, <1>4, LocalFrame, TypeParts, AnyStep

(* What is common to the steps that undo a restore.                        *)
LEMMA UndoOK ==
    ASSUME AnyInv, NEW o \in Ops, op[o].pc \in Undoing, NEW r, RecordKept(r, op[o]),
           r.pc \in Undoing, r.err = op[o].err, r.idx = op[o].idx
    PROVE  RecordOK(o, r) /\ MayHold(r)
<1>1. op[o] \in OpRecords /\ RecordOK(o, op[o])
  BY OldRecord
<1>2. Live(op[o]) /\ op[o].kind \in Restores /\ op[o].idx > 0 /\ op[o].told = Nothing /\ op[o].err # Nothing
  BY <1>1 DEF RecordOK, Live, Undoing
<1>3. QED
  BY <1>1, <1>2 DEF RecordKept, RecordOK, Live, Undoing, Applying, MayHold, Nothing, Captures, Restores

\* A restore that ends while undoing itself may leave the fence behind.
LEMMA UndoDoneOK ==
    ASSUME AnyInv, NEW o \in Ops, op[o].pc \in Undoing, NEW term,
           term \in {op[o].err, "rollbackFailed"}
    PROVE  RecordOK(o, Done(op[o], term)) /\ MayHold(Done(op[o], term))
<1>1. op[o] \in OpRecords /\ RecordOK(o, op[o])
  BY OldRecord
<1>2. term \in Answers /\ term # "ok"
  BY <1>1 DEF OpRecords, Answers, Errors, Nothing
<1>3. op[o].kind \in Restores
  BY <1>1 DEF RecordOK
<1>4. RecordOK(o, Done(op[o], term))
  BY <1>1, <1>2, DoneOK
<1>5. /\ Done(op[o], term).pc = "done" /\ Done(op[o], term).kind = op[o].kind
      /\ Done(op[o], term).told = term
  BY <1>1, <1>2, DoneFields
<1>6. QED
  BY <1>2, <1>3, <1>4, <1>5 DEF MayHold, Captures, Restores

LEMMA ToFields ==
    ASSUME NEW o \in Ops, op[o] \in OpRecords, NEW pc
    PROVE  /\ To(o, pc).pc = pc /\ RecordKept(To(o, pc), op[o])
           /\ To(o, pc).err = op[o].err /\ To(o, pc).idx = op[o].idx
           /\ To(o, pc).broken = op[o].broken /\ To(o, pc).still = op[o].still
BY DEF To, OpRecords, RecordKept

LEMMA RollbackImportKeepsAny ==
    ASSUME AnyInv, NEW o \in Ops, RollbackImport(o) PROVE AnyInv'
<1>1. /\ op[o].pc = "rollbackImport" /\ UNCHANGED <<machine, saved>> /\ Local
      /\ app' \in AppType /\ app'.fence = app.fence
  BY RollbackImportMoves
<1>2. PICK r : /\ Advances(o, r)
               /\ \/ r = To(o, "rollbackRestore")
                  \/ r = [To(o, "rollbackResume") EXCEPT !.broken = TRUE]
  BY RollbackImportMoves
<1>3. r.pc \in Undoing /\ RecordKept(r, op[o]) /\ r.err = op[o].err /\ r.idx = op[o].idx
  <2>1. op[o] \in OpRecords
    BY OldRecord
  <2>2. QED
    BY <1>2, <2>1 DEF To, OpRecords, RecordKept, Undoing
<1>4. RecordOK(o, r) /\ MayHold(r)
  BY <1>1, <1>3, UndoOK DEF Undoing
<1>5. QED
  BY <1>1, <1>2, <1>4, LocalFrame, TypeParts, AnyStep

LEMMA RollbackRestoreKeepsAny ==
    ASSUME AnyInv, NEW o \in Ops, RollbackRestore(o) PROVE AnyInv'
<1>1. /\ op[o].pc = "rollbackRestore" /\ UNCHANGED <<app, saved>> /\ Local
      /\ machine' \in [on : Nobody]
  BY RollbackRestoreMoves
<1>2. PICK r : /\ Advances(o, r)
               /\ \/ r = To(o, "rollbackResume")
                  \/ r = [To(o, "rollbackResume") EXCEPT !.broken = TRUE]
  BY RollbackRestoreMoves
<1>3. r.pc \in Undoing /\ RecordKept(r, op[o]) /\ r.err = op[o].err /\ r.idx = op[o].idx
  <2>1. op[o] \in OpRecords
    BY OldRecord
  <2>2. QED
    BY <1>2, <2>1 DEF To, OpRecords, RecordKept, Undoing
<1>4. RecordOK(o, r) /\ MayHold(r)
  BY <1>1, <1>3, UndoOK DEF Undoing
<1>5. QED
  BY <1>1, <1>2, <1>4, LocalFrame, TypeParts, AnyStep

LEMMA RollbackResumeKeepsAny ==
    ASSUME AnyInv, NEW o \in Ops, RollbackResume(o) PROVE AnyInv'
<1>1. /\ op[o].pc = "rollbackResume" /\ UNCHANGED <<machine, saved>> /\ Local
      /\ app' \in AppType /\ app'.fence \in {app.fence, Nothing}
  BY RollbackResumeMoves
<1>2. PICK r : /\ Advances(o, r)
               /\ \/ r = Done(op[o], "rollbackFailed")
                  \/ r = To(o, "headBack")
                  \/ r = Done(op[o], op[o].err)
  BY RollbackResumeMoves
<1>3. RecordOK(o, r) /\ MayHold(r)
  <2>1. CASE r = To(o, "headBack")
    <3>1. r.pc \in Undoing /\ RecordKept(r, op[o]) /\ r.err = op[o].err /\ r.idx = op[o].idx
      BY <2>1, OldRecord, ToFields DEF Undoing
    <3>2. QED
      BY <1>1, <3>1, UndoOK DEF Undoing
  <2>2. QED
    BY <1>1, <1>2, <2>1, UndoDoneOK DEF Undoing
<1>4. QED
  BY <1>1, <1>2, <1>3, LocalFrame, TypeParts, AnyStep

LEMMA HeadBackKeepsAny ==
    ASSUME AnyInv, NEW o \in Ops, HeadBack(o) PROVE AnyInv'
<1>1. op[o].pc = "headBack" /\ UNCHANGED <<pageVars, boot, writes, marker>>
  BY HeadBackMoves
<1>2. PICK r : /\ Advances(o, r)
               /\ \/ /\ head' \in [pair : Nobody \cup {Corrupt}, by : Nobody]
                     /\ head'.pair \in {op[o].expected, Corrupt} \ {Nothing}
                     /\ r = Done(op[o], op[o].err)
                  \/ head' = head /\ r = Done(op[o], "rollbackFailed")
  BY HeadBackMoves
<1>3. Published' = Published /\ op[o].expected \in Published \cup {Nothing}
  BY <1>1, OldRecord DEF Published, RecordOK
<1>4. RecordOK(o, r)' /\ MayHold(r)
  <2>1. RecordOK(o, r) /\ MayHold(r)
    BY <1>1, <1>2, UndoDoneOK DEF Undoing
  <2>2. QED
    BY <1>3, <2>1 DEF RecordOK
<1>5. HeadComplete' /\ head' \in [pair : Nobody \cup {Corrupt}, by : Nobody]
  BY <1>2, <1>3, TypeParts DEF HeadComplete
<1>6. QED
  BY <1>1, <1>2, <1>3, <1>4, <1>5, TypeParts, AnyStoreStep

LEMMA StepKeepsAny ==
    ASSUME AnyInv, NEW o \in Ops, Step(o) PROVE AnyInv'
BY BeginKeepsAny, DescribeKeepsAny, QuiesceKeepsAny, ExportKeepsAny, SaveKeepsAny, PublishKeepsAny,
   ActivateKeepsAny, ResumeKeepsAny, ImportKeepsAny, RestoreMachineKeepsAny, AdoptKeepsAny,
   FinishKeepsAny, RollbackImportKeepsAny, RollbackRestoreKeepsAny, RollbackResumeKeepsAny,
   HeadBackKeepsAny DEF Step

(* A restart ends what ran, and nothing else is held.                      *)
LEMMA RestartKeepsAny ==
    ASSUME AnyInv, Restart PROVE AnyInv'
<1>1. \A o \in Ops : op'[o] = IF Running(o) THEN Done(op[o], "died") ELSE op[o]
  BY DEF Restart
<1>2. "died" \in Answers
  BY DEF Answers
<1>3. Published' = Published
  BY TypeParts, PublishedStays DEF Restart, AnyInv, storeVars
<1>4. \A o \in Ops : op'[o] \in OpRecords /\ RecordOK(o, op'[o])
  BY <1>1, <1>2, OldRecord, DoneFields, DoneOK
<1>5. op' \in [Ops -> OpRecords]
  BY <1>4 DEF Restart
<1>6. RecordsOK'
  BY <1>3, <1>4 DEF RecordsOK, RecordOK
<1>7. app' \in AppType /\ app'.fence = Nothing
  BY DEF Restart, FreshApp, AppType, Nobody
<1>8. machine' \in [on : Nobody] /\ saved' \in Seq(Checkpoints) /\ boot' \in Nat
  BY TypeParts, EmptySeq DEF Restart, Nobody
<1>9. UNCHANGED <<writes, storeVars>>
  BY DEF Restart
<1>10. FenceHeld'
  BY <1>7, NothingIsNoOp DEF FenceHeld
<1>11. QED
  BY <1>3, <1>5, <1>6, <1>7, <1>8, <1>9, <1>10, TypeParts DEF AnyInv, AppTypeOK, HeadComplete, storeVars, AppType

(* The application, another process and a reset keep AnyInv as well.       *)
LEMMA AroundKeepsAny ==
    ASSUME AnyInv, AppWrites \/ HeadMovedElsewhere \/ ResetMachine \/ UNCHANGED appVars PROVE AnyInv'
<1>1. CASE AppWrites
  <2>1. /\ app' = [app EXCEPT !.known = {}] /\ writes' = writes + 1
        /\ UNCHANGED <<machine, saved, boot, storeVars, op>>
    BY <1>1 DEF AppWrites
  <2>2. app' \in AppType /\ app'.fence = app.fence /\ writes' \in Nat
    <3>1. app \in AppType /\ writes \in Nat
      BY TypeParts
    <3>2. app' \in AppType /\ app'.fence = app.fence
      BY <2>1, <3>1 DEF AppType
    <3>3. QED
      BY <2>1, <3>1, <3>2
  <2>3. Published' = Published
    BY <2>1 DEF Published, storeVars
  <2>4. QED
    BY <2>1, <2>2, <2>3, TypeParts
       DEF AnyInv, AppTypeOK, AppType, RecordsOK, RecordOK, FenceHeld, HeadComplete, storeVars
<1>2. CASE HeadMovedElsewhere
  <2>1. UNCHANGED <<pageVars, boot, writes, marker, op>>
    BY <1>2 DEF HeadMovedElsewhere
  <2>2. PICK p \in Published : head' = [pair |-> p, by |-> Nothing]
    BY <1>2 DEF HeadMovedElsewhere
  <2>3. Published' = Published /\ p \in Ops
    BY <2>1 DEF Published
  <2>4. head' \in [pair : Nobody \cup {Corrupt}, by : Nobody] /\ head'.pair = p
    BY <2>2, <2>3 DEF Nobody
  <2>5. QED
    BY <2>1, <2>3, <2>4, TypeParts
       DEF AnyInv, AppTypeOK, AppType, RecordsOK, RecordOK, FenceHeld, HeadComplete, pageVars
<1>3. CASE ResetMachine
  <2>1. /\ boot' = boot + 1 /\ saved' = <<>> /\ machine' = [on |-> Nothing]
        /\ UNCHANGED <<app, writes, storeVars, op>>
    BY <1>3 DEF ResetMachine
  <2>2. machine' \in [on : Nobody] /\ saved' \in Seq(Checkpoints) /\ boot' \in Nat
    BY <2>1, TypeParts, EmptySeq DEF Nobody
  <2>3. Published' = Published
    BY <2>1 DEF Published, storeVars
  <2>4. QED
    BY <2>1, <2>2, <2>3, TypeParts
       DEF AnyInv, AppTypeOK, AppType, RecordsOK, RecordOK, FenceHeld, HeadComplete, storeVars
<1>4. CASE UNCHANGED appVars
  BY <1>4 DEF appVars, AnyInv, AppTypeOK, RecordsOK, RecordOK, FenceHeld, HeadComplete, Published
<1>5. QED
  BY <1>1, <1>2, <1>3, <1>4

LEMMA AnyInit == AppInit => AnyInv
<1> SUFFICES ASSUME AppInit PROVE AnyInv
  OBVIOUS
<1>1. Published = {}
  BY DEF AppInit, Published
<1>2. \A o \in Ops : op[o] = NoOp
  BY DEF AppInit
<1>3. op \in [Ops -> OpRecords]
  BY NoOpFields DEF AppInit
<1>4. RecordsOK
  BY <1>2, NoOpFields DEF RecordsOK, RecordOK, Live, Applying, Undoing
<1>5. FenceHeld /\ HeadComplete
  BY NothingIsNoOp DEF AppInit, FreshApp, FenceHeld, HeadComplete
<1>6. app \in AppType /\ machine \in [on : Nobody]
  BY DEF AppInit, FreshApp, AppType, Nobody
<1>7. marker \in [Ops -> [idx : Nat, boot : Nat, still : BOOLEAN]]
  <2>1. PICK no \in BOOLEAN : no = FALSE
    OBVIOUS
  <2>2. marker = [o \in Ops |-> [idx |-> 0, boot |-> 0, still |-> no]]
    BY <2>1 DEF AppInit
  <2>3. QED
    BY <2>2
<1>8. head \in [pair : Nobody \cup {Corrupt}, by : Nobody] /\ boot \in Nat /\ writes \in Nat
  BY DEF AppInit, Nobody
<1>9. saved \in Seq(Checkpoints)
  BY EmptySeq DEF AppInit
<1>10. QED
  BY <1>3, <1>4, <1>5, <1>6, <1>7, <1>8, <1>9 DEF AnyInv, AppTypeOK, AppType

(* Every reachable state is well typed; the records, the fence and HEAD are*)
(* as AnyInv says, with pipelined operations too.                          *)
THEOREM AppTypeCorrect == AppSpec => []AnyInv
<1>1. AnyInv /\ [AppNext]_appVars => AnyInv'
  BY StepKeepsAny, RestartKeepsAny, AroundKeepsAny DEF AppNext
<1>2. QED
  BY AnyInit, <1>1, PTL DEF AppSpec

(* The fence of an operation is gone once it succeeded, and once a capture *)
(* reported that nothing was sent: appSpaceCoordinator.js, the finally of  *)
(* _capture and finish, with pipelined operations too.                     *)
THEOREM FenceIsReleased == AppSpec => []FenceReleased
<1>1. AnyInv => FenceReleased
  BY DEF AnyInv, FenceHeld, MayHold, FenceReleased
<1>2. QED
  BY AppTypeCorrect, <1>1, PTL

-----------------------------------------------------------------------------
(* One operation at a time: what makes the pairs and HEAD right.           *)

Alone == \A o, q \in Ops : Running(o) /\ Running(q) => o = q

AtStart(r) == app.on = r.appOn /\ machine.on = r.machineOn

\* What the running operation o, whose record is r, may count on.
RunOK(o, r) ==
    /\ r.pc \in {"export", "save"} => app.fence = o /\ app.frozen
    /\ r.pc = "save" => o \in app.known
    /\ r.pc = "publish" => r.still
    /\ r.pc \in {"publish"} \cup Applying \cup Undoing =>
          /\ r.idx \in 1 .. Len(saved)
          /\ saved[r.idx].by = o /\ saved[r.idx].on = r.machineOn
    /\ r.pc \in {"describe", "quiesce", "export", "save", "publish", "activate", "resume", "import", "headBack"}
          => AtStart(r)
    /\ r.pc \in {"restore", "adopt", "finish"} => app.on = r.src
    /\ r.pc = "restore" => machine.on = r.machineOn
    /\ r.pc \in {"adopt", "finish"} => machine.on = saved[marker[r.src].idx].by
    /\ r.pc = "rollbackRestore" => app.on = r.appOn
    /\ r.pc = "rollbackResume" /\ ~r.broken => AtStart(r)

RunsOK == \A o \in Ops : RunOK(o, op[o])

\* In the page that saved it, the checkpoint of a pair is still where the pair says.
SavedOK ==
    \A p \in Published :
        /\ marker[p].boot <= boot
        /\ marker[p].boot = boot =>
              marker[p].idx \in 1 .. Len(saved) /\ saved[marker[p].idx].by = p

\* o may have moved HEAD; o failed after it had.
Acted(r) == r.moved \/ (r.kind \in Captures /\ r.pc \in {"resume", "done"})
GaveUp(r) == r.kind = "adopt" /\ r.moved /\ r.told \in {"notSent", "unknown"}

HeadTraced ==
    /\ \A o \in Ops : head.by = o => Acted(op[o]) /\ ~GaveUp(op[o])
    /\ \A o, q \in Ops : op[q].by = o => o # q /\ Acted(op[o]) /\ ~GaveUp(op[o])

SerialInv == Alone /\ RunsOK /\ SavedOK /\ HeadTraced /\ PairsAreOneMoment

LEMMA SerialParts ==
    ASSUME SerialInv, NEW o \in Ops
    PROVE  Alone /\ RunOK(o, op[o]) /\ SavedOK /\ HeadTraced /\ PairsAreOneMoment
BY DEF SerialInv, RunsOK

\* Generic: o, the only one that runs, advances to r.
LEMMA SerialStep ==
    ASSUME AnyInv, SerialInv, NEW o \in Ops, NEW r, Advances(o, r),
           Running(o) \/ \A q \in Ops : ~Running(q),
           RunOK(o, r)', SavedOK', PairsAreOneMoment',
           Acted(op[o]) => Acted(r),
           head'.by = o => Acted(r) /\ ~GaveUp(r),
           head'.by # o => head'.by \in {head.by, Nothing, op[o].by},
           r.by # o, r.by \in {Nothing, op[o].by, head.by}
    PROVE  SerialInv'
<1>1. r \in OpRecords /\ op'[o] = r /\ \A q \in Ops : q # o => op'[q] = op[q]
  BY TypeParts DEF Advances
<1>2. \A q \in Ops : q # o => ~Running(q)
  BY SerialParts DEF Alone
<1>3. Alone'
  BY <1>1, <1>2 DEF Alone, Running
<1>4. ASSUME NEW q \in Ops PROVE RunOK(q, op[q])'
  <2>1. CASE q = o
    BY <2>1, <1>1
  <2>2. CASE q # o
    <3>1. op'[q].pc \in {"idle", "done"}
      BY <1>1, <1>2, <2>2 DEF Running
    <3>2. QED
      BY <3>1 DEF RunOK, Applying, Undoing
  <2>3. QED
    BY <2>1, <2>2
<1>5. HeadTraced
  BY DEF SerialInv
<1>6. \A q \in Ops : q # o => op[q].by = Nothing
  BY <1>2, OldRecord DEF RecordOK, Running, Live
<1>7. \A p \in Ops : head'.by = p => Acted(op'[p]) /\ ~GaveUp(op'[p])
  <2> SUFFICES ASSUME NEW p \in Ops, head'.by = p PROVE Acted(op'[p]) /\ ~GaveUp(op'[p])
    OBVIOUS
  <2>1. CASE p = o
    BY <2>1, <1>1
  <2>2. CASE p # o
    <3>1. head.by = p \/ op[o].by = p
      BY <2>2, NothingIsNoOp
    <3>2. Acted(op[p]) /\ ~GaveUp(op[p])
      BY <1>5, <3>1 DEF HeadTraced
    <3>3. QED
      BY <1>1, <2>2, <3>2
  <2>3. QED
    BY <2>1, <2>2
<1>8. \A p, q \in Ops : op'[q].by = p => p # q /\ Acted(op'[p]) /\ ~GaveUp(op'[p])
  <2> SUFFICES ASSUME NEW p \in Ops, NEW q \in Ops, op'[q].by = p
               PROVE  p # q /\ Acted(op'[p]) /\ ~GaveUp(op'[p])
    OBVIOUS
  <2>1. q = o
    BY <1>1, <1>6, NothingIsNoOp
  <2>2. r.by = p /\ p # o
    BY <1>1, <2>1
  <2>3. op[o].by = p \/ head.by = p
    BY <2>2, NothingIsNoOp
  <2>4. Acted(op[p]) /\ ~GaveUp(op[p])
    BY <1>5, <2>3 DEF HeadTraced
  <2>5. QED
    BY <1>1, <2>1, <2>2, <2>4
<1>9. HeadTraced'
  BY <1>7, <1>8 DEF HeadTraced
<1>10. RunsOK'
  BY <1>4 DEF RunsOK
<1>11. QED
  BY <1>3, <1>9, <1>10 DEF SerialInv

(* Checkpoints are appended; none moves.                                   *)
LEMMA SavedStays ==
    ASSUME AnyInv, SerialInv, UNCHANGED <<marker, boot>>,
           saved' = saved \/ \E c \in Checkpoints : saved' = Append(saved, c)
    PROVE  SavedOK' /\ PairsAreOneMoment'
<1>1. Published' = Published
  BY DEF Published
<1>2. PairsAreOneMoment'
  BY <1>1 DEF SerialInv, PairsAreOneMoment
<1>3. \A i \in 1 .. Len(saved) : i \in 1 .. Len(saved') /\ saved'[i] = saved[i]
  <2>1. ASSUME NEW c \in Checkpoints, saved' = Append(saved, c)
        PROVE  \A i \in 1 .. Len(saved) : i \in 1 .. Len(saved') /\ saved'[i] = saved[i]
    <3>1. saved \in Seq(Checkpoints)
      BY TypeParts
    <3>2. Len(saved') = Len(saved) + 1 /\ \A i \in 1 .. Len(saved) : saved'[i] = saved[i]
      BY <2>1, <3>1, AppendProperties
    <3>3. Len(saved) \in Nat
      BY <3>1, LenProperties
    <3>4. QED
      BY <3>2, <3>3
  <2>2. QED
    BY <2>1
<1>4. SavedOK
  BY DEF SerialInv
<1>5. SavedOK'
  BY <1>1, <1>3, <1>4 DEF SavedOK
<1>6. QED
  BY <1>2, <1>5

\* An advance that does not touch HEAD.
LEMMA SerialLocal ==
    ASSUME AnyInv, SerialInv, NEW o \in Ops, NEW r, Advances(o, r), Running(o),
           head' = head, RunOK(o, r)', SavedOK', PairsAreOneMoment',
           r.kind = op[o].kind, r.moved = op[o].moved, r.by \in {Nothing, op[o].by},
           Acted(op[o]) => r.moved \/ r.pc \in {"resume", "done"},
           GaveUp(r) => head.by # o
    PROVE  SerialInv'
<1>1. HeadTraced /\ op[o].by # o
  BY DEF SerialInv, HeadTraced
<1>2. Acted(op[o]) => Acted(r)
  BY DEF Acted
<1>3. head'.by = o => Acted(r) /\ ~GaveUp(r)
  BY <1>1, <1>2 DEF HeadTraced
<1>4. r.by # o
  BY <1>1, NothingIsNoOp
<1>5. head'.by # o => head'.by \in {head.by, Nothing, op[o].by}
  OBVIOUS
<1>6. QED
  BY <1>2, <1>3, <1>4, <1>5, SerialStep

LEMMA NotActedYet ==
    ASSUME AnyInv, NEW o \in Ops, op[o].pc \notin {"resume", "done", "finish"} \cup Undoing
    PROVE  ~Acted(op[o]) /\ ~op[o].moved
BY OldRecord DEF Acted, RecordOK, Undoing

LEMMA EndedIsFree ==
    ASSUME NEW o, NEW r, r.pc = "done"
    PROVE  RunOK(o, r)'
BY DEF RunOK, Applying, Undoing

(* The steps of the operation that runs keep SerialInv.                    *)
LEMMA BeginKeepsSerial ==
    ASSUME AnyInv, SerialInv, ~Pipelined, NEW o \in Ops, Begin(o) PROVE SerialInv'
<1>1. /\ op[o].pc = "idle" /\ \A q \in Ops : ~Running(q)
      /\ UNCHANGED <<pageVars, boot, writes, storeVars>>
  BY BeginMoves
<1>2. PICK r : /\ Advances(o, r) /\ r.pc = "describe"
               /\ r.appOn = app.on /\ r.machineOn = machine.on
               /\ r.told = Nothing /\ r.by = Nothing /\ ~r.moved
  BY BeginMoves
<1>3. RunOK(o, r)'
  BY <1>1, <1>2 DEF RunOK, Applying, Undoing, AtStart, pageVars
<1>4. SavedOK' /\ PairsAreOneMoment'
  BY <1>1, SavedStays DEF pageVars, storeVars
<1>5. ~Acted(op[o])
  BY <1>1, NotActedYet DEF Undoing
<1>6. head'.by # o
  BY <1>1, <1>5 DEF SerialInv, HeadTraced, storeVars
<1>7. QED
  BY <1>1, <1>2, <1>3, <1>4, <1>5, <1>6, NothingIsNoOp, SerialStep DEF storeVars

LEMMA DescribeKeepsSerial ==
    ASSUME AnyInv, SerialInv, NEW o \in Ops, Describe(o) PROVE SerialInv'
<1>1. /\ op[o].pc = "describe" /\ UNCHANGED <<machine, saved>> /\ Local /\ app'.on = app.on
  BY DescribeMoves
<1>2. PICK r : Advances(o, r) /\ r \in {To(o, "quiesce"), Done(op[o], "notSent")}
  BY DescribeMoves
<1>3. op[o] \in OpRecords /\ ~Acted(op[o]) /\ ~op[o].moved /\ Running(o) /\ RunOK(o, op[o])
  BY <1>1, OldRecord, NotActedYet, SerialParts DEF Undoing, Running
<1>4. /\ RunOK(o, r)' /\ r.kind = op[o].kind /\ r.moved = op[o].moved /\ r.by \in {Nothing, op[o].by}
  <2>1. CASE r = Done(op[o], "notSent")
    <3>1. "notSent" \in Answers
      BY DEF Answers, Errors
    <3>2. QED
      BY <2>1, <1>3, <3>1, DoneFields, EndedIsFree
  <2>2. CASE r = To(o, "quiesce")
    <3>1. r.pc = "quiesce" /\ RecordKept(r, op[o])
      BY <2>2, <1>3, ToFields
    <3>2. QED
      BY <3>1, <1>1, <1>3 DEF RunOK, RecordKept, Applying, Undoing, AtStart
  <2>3. QED
    BY <1>2, <2>1, <2>2
<1>5. SavedOK' /\ PairsAreOneMoment' /\ head' = head
  BY <1>1, LocalFrame, SavedStays DEF Local
<1>6. ~GaveUp(r)
  BY <1>3, <1>4 DEF GaveUp
<1>7. QED
  BY <1>2, <1>3, <1>4, <1>5, <1>6, SerialLocal

LEMMA QuiesceKeepsSerial ==
    ASSUME AnyInv, SerialInv, NEW o \in Ops, Quiesce(o) PROVE SerialInv'
<1>1. /\ op[o].pc = "quiesce" /\ UNCHANGED <<machine, saved, boot, storeVars>> /\ app'.on = app.on
  BY QuiesceMoves
<1>2. PICK r : /\ Advances(o, r)
               /\ \/ r = To(o, "export") /\ app'.fence = o /\ app'.frozen = TRUE
                  \/ r = Done(op[o], "unknown")
                  \/ r = Done(op[o], "notSent")
  BY QuiesceMoves
<1>3. op[o] \in OpRecords /\ ~Acted(op[o]) /\ ~op[o].moved /\ Running(o) /\ RunOK(o, op[o])
  BY <1>1, OldRecord, NotActedYet, SerialParts DEF Undoing, Running
<1>4. /\ RunOK(o, r)' /\ r.kind = op[o].kind /\ r.moved = op[o].moved /\ r.by \in {Nothing, op[o].by}
  <2>1. CASE r \in {Done(op[o], "notSent"), Done(op[o], "unknown")}
    <3>1. "notSent" \in Answers /\ "unknown" \in Answers
      BY DEF Answers, Errors
    <3>2. QED
      BY <2>1, <1>3, <3>1, DoneFields, EndedIsFree
  <2>2. CASE r = To(o, "export") /\ app'.fence = o /\ app'.frozen = TRUE
    <3>1. r.pc = "export" /\ RecordKept(r, op[o])
      BY <2>2, <1>3, ToFields
    <3>2. QED
      BY <2>2, <3>1, <1>1, <1>3 DEF RunOK, RecordKept, Applying, Undoing, AtStart
  <2>3. QED
    BY <1>2, <2>1, <2>2
<1>5. SavedOK' /\ PairsAreOneMoment' /\ head' = head
  BY <1>1, SavedStays DEF storeVars
<1>6. ~GaveUp(r)
  BY <1>3, <1>4 DEF GaveUp
<1>7. QED
  BY <1>2, <1>3, <1>4, <1>5, <1>6, SerialLocal

LEMMA ExportKeepsSerial ==
    ASSUME AnyInv, SerialInv, NEW o \in Ops, Export(o) PROVE SerialInv'
<1>1. op[o].pc = "export" /\ UNCHANGED pageVars /\ Local
  BY ExportMoves
<1>2. PICK r : /\ Advances(o, r)
               /\ \/ r = To(o, "save") /\ o \in app.known
                  \/ \E e \in Errors : r = [To(o, "resume") EXCEPT !.err = e]
  BY ExportMoves
<1>3. op[o] \in OpRecords /\ ~Acted(op[o]) /\ ~op[o].moved /\ Running(o) /\ RunOK(o, op[o])
  BY <1>1, OldRecord, NotActedYet, SerialParts DEF Undoing, Running
<1>4. RecordKept(r, op[o]) /\ (r.pc = "resume" \/ (r.pc = "save" /\ o \in app.known))
  <2>1. CASE r = To(o, "save") /\ o \in app.known
    BY <2>1, <1>3, ToFields
  <2>2. ASSUME NEW e \in Errors, r = [To(o, "resume") EXCEPT !.err = e]
        PROVE  RecordKept(r, op[o]) /\ r.pc = "resume"
    BY <2>2, <1>3 DEF To, OpRecords, RecordKept
  <2>3. QED
    BY <1>2, <2>1, <2>2
<1>5. RunOK(o, r)'
  BY <1>1, <1>3, <1>4 DEF RunOK, RecordKept, Applying, Undoing, AtStart, pageVars
<1>6. SavedOK' /\ PairsAreOneMoment' /\ head' = head
  BY <1>1, LocalFrame, SavedStays DEF Local, pageVars
<1>7. ~GaveUp(r)
  BY <1>3, <1>4 DEF GaveUp, RecordKept
<1>8. QED
  BY <1>2, <1>3, <1>4, <1>5, <1>6, <1>7, SerialLocal DEF RecordKept

LEMMA SaveKeepsSerial ==
    ASSUME AnyInv, SerialInv, NEW o \in Ops, Save(o) PROVE SerialInv'
<1> DEFINE new == [by |-> o, on |-> machine.on]
<1>1. op[o].pc = "save" /\ UNCHANGED <<app, machine>> /\ Local
  BY SaveMoves
<1>2. PICK r : /\ Advances(o, r)
               /\ \/ /\ saved' = Append(saved, new)
                     /\ r.pc = (IF op[o].kind \in Captures THEN "publish" ELSE "import")
                     /\ r.idx = Len(saved) + 1 /\ r.still = (o \in app.known)
                     /\ RecordKept(r, op[o])
                  \/ /\ saved' = saved \/ saved' = Append(saved, new)
                     /\ \E e \in Errors :
                          \/ op[o].kind \in Captures /\ r = [To(o, "resume") EXCEPT !.err = e]
                          \/ op[o].kind \notin Captures /\ r = Done(op[o], e)
  BY SaveMoves
<1>3. op[o] \in OpRecords /\ ~Acted(op[o]) /\ ~op[o].moved /\ Running(o) /\ RunOK(o, op[o])
  BY <1>1, OldRecord, NotActedYet, SerialParts DEF Undoing, Running
<1>4. new \in Checkpoints /\ new.by = o /\ new.on = machine.on
  BY TypeParts DEF Checkpoints
<1> HIDE DEF new
<1>5. /\ RunOK(o, r)' /\ r.kind = op[o].kind /\ r.moved = op[o].moved /\ r.by \in {Nothing, op[o].by}
  <2>1. CASE /\ saved' = Append(saved, new)
             /\ r.pc = (IF op[o].kind \in Captures THEN "publish" ELSE "import")
             /\ r.idx = Len(saved) + 1 /\ r.still = (o \in app.known)
             /\ RecordKept(r, op[o])
    <3>1. r.idx \in 1 .. Len(saved') /\ saved'[r.idx] = new
      <4>1. saved \in Seq(Checkpoints)
        BY TypeParts
      <4>2. Len(saved') = Len(saved) + 1 /\ saved'[Len(saved) + 1] = new /\ Len(saved) \in Nat
        BY <1>4, <2>1, <4>1, AppendProperties, LenProperties
      <4>3. QED
        BY <2>1, <4>2
    <3>2. r.still /\ machine.on = op[o].machineOn /\ app.on = op[o].appOn
      BY <1>1, <1>3, <2>1 DEF RunOK, AtStart
    <3>3. r.pc \in {"publish", "import"}
      BY <2>1
    <3>4. RunOK(o, r)'
      BY <1>1, <1>4, <2>1, <3>1, <3>2, <3>3 DEF RunOK, RecordKept, Undoing, AtStart
    <3>5. QED
      BY <2>1, <3>4 DEF RecordKept
  <2>2. ASSUME NEW e \in Errors, r = [To(o, "resume") EXCEPT !.err = e]
        PROVE  /\ RunOK(o, r)' /\ r.kind = op[o].kind /\ r.moved = op[o].moved /\ r.by \in {Nothing, op[o].by}
    <3>1. RecordKept(r, op[o]) /\ r.pc = "resume"
      BY <2>2, <1>3 DEF To, OpRecords, RecordKept
    <3>2. QED
      BY <1>1, <1>3, <3>1 DEF RunOK, RecordKept, Applying, Undoing, AtStart
  <2>3. ASSUME NEW e \in Errors, r = Done(op[o], e)
        PROVE  /\ RunOK(o, r)' /\ r.kind = op[o].kind /\ r.moved = op[o].moved /\ r.by \in {Nothing, op[o].by}
    <3>1. e \in Answers
      BY DEF Answers
    <3>2. QED
      BY <2>3, <3>1, <1>3, DoneFields, EndedIsFree
  <2>4. QED
    BY <1>2, <2>1, <2>2, <2>3
<1>6. SavedOK' /\ PairsAreOneMoment' /\ head' = head
  BY <1>1, <1>2, <1>4, LocalFrame, SavedStays DEF Local
<1>7. ~GaveUp(r)
  BY <1>3, <1>5 DEF GaveUp
<1>8. QED
  BY <1>2, <1>3, <1>5, <1>6, <1>7, SerialLocal

LEMMA PublishKeepsSerial ==
    ASSUME AnyInv, SerialInv, NEW o \in Ops, Publish(o) PROVE SerialInv'
<1>1. op[o].pc = "publish" /\ UNCHANGED <<pageVars, boot, writes, head>>
  BY PublishMoves
<1>2. PICK r : /\ Advances(o, r)
               /\ \/ /\ marker' = [marker EXCEPT ![o] = [idx |-> op[o].idx, boot |-> boot,
                                                         still |-> op[o].still]]
                     /\ r \in {To(o, "activate"), To(o, "resume")}
                  \/ marker' = marker /\ r = [To(o, "resume") EXCEPT !.err = "notSent"]
  BY PublishMoves
<1>3. op[o] \in OpRecords /\ ~Acted(op[o]) /\ ~op[o].moved /\ Running(o) /\ RunOK(o, op[o])
  BY <1>1, OldRecord, NotActedYet, SerialParts DEF Undoing, Running
<1>4. RecordKept(r, op[o]) /\ r.pc \in {"activate", "resume"}
  BY <1>2, <1>3 DEF To, OpRecords, RecordKept
<1>5. RunOK(o, r)'
  BY <1>1, <1>3, <1>4 DEF RunOK, RecordKept, Applying, Undoing, AtStart, pageVars
<1>6. SavedOK' /\ PairsAreOneMoment'
  <2>1. CASE marker' = marker
    BY <1>1, <2>1, SavedStays DEF pageVars
  <2>2. CASE marker' = [marker EXCEPT ![o] = [idx |-> op[o].idx, boot |-> boot, still |-> op[o].still]]
    <3>1. marker'[o].idx = op[o].idx /\ marker'[o].boot = boot
      BY <2>2, TypeParts
    <3>2. marker'[o].still = op[o].still
      BY <2>2, TypeParts
    <3>3. \A p \in Ops : p # o => marker'[p] = marker[p]
      BY <2>2, TypeParts
    <3>4. op[o].still /\ op[o].idx \in 1 .. Len(saved) /\ saved[op[o].idx].by = o /\ boot \in Nat
      BY <1>1, <1>3, TypeParts DEF RunOK
    <3>5. \A p \in Published' : p = o \/ (p \in Published /\ marker'[p] = marker[p])
      BY <3>3 DEF Published
    <3>6. SavedOK /\ PairsAreOneMoment
      BY DEF SerialInv
    <3>7. SavedOK'
      BY <1>1, <3>1, <3>4, <3>5, <3>6 DEF SavedOK, pageVars
    <3>8. PairsAreOneMoment'
      BY <3>2, <3>4, <3>5, <3>6 DEF PairsAreOneMoment
    <3>9. QED
      BY <3>7, <3>8
  <2>3. QED
    BY <1>2, <2>1, <2>2
<1>7. ~GaveUp(r)
  BY <1>3, <1>4 DEF GaveUp, RecordKept
<1>8. QED
  BY <1>1, <1>2, <1>3, <1>4, <1>5, <1>6, <1>7, SerialLocal DEF RecordKept

LEMMA ActivateKeepsSerial ==
    ASSUME AnyInv, SerialInv, NEW o \in Ops, Activate(o) PROVE SerialInv'
<1>1. op[o].pc = "activate" /\ UNCHANGED <<pageVars, boot, writes, marker>>
  BY ActivateMoves
<1>2. PICK r : /\ Advances(o, r)
               /\ \/ head' = [pair |-> o, by |-> o] /\ r = To(o, "resume")
                  \/ head' = head /\ r = [To(o, "resume") EXCEPT !.err = "notSent"]
  BY ActivateMoves
<1>3. op[o] \in OpRecords /\ ~Acted(op[o]) /\ ~op[o].moved /\ Running(o) /\ RunOK(o, op[o])
      /\ RecordOK(o, op[o]) /\ op[o].by # o /\ head.by # o
  BY <1>1, OldRecord, NotActedYet, SerialParts DEF Undoing, Running, HeadTraced
<1>4. RecordKept(r, op[o]) /\ r.pc = "resume"
  BY <1>2, <1>3 DEF To, OpRecords, RecordKept
<1>5. RunOK(o, r)'
  BY <1>1, <1>3, <1>4 DEF RunOK, RecordKept, Applying, Undoing, AtStart, pageVars
<1>6. SavedOK' /\ PairsAreOneMoment'
  BY <1>1, SavedStays DEF pageVars
<1>7. ~GaveUp(r) /\ Acted(r) /\ r.by = op[o].by
  BY <1>1, <1>3, <1>4 DEF GaveUp, Acted, RecordKept, RecordOK
<1>8. head'.by = o \/ head' = head
  BY <1>2
<1>9. QED
  BY <1>2, <1>3, <1>5, <1>6, <1>7, <1>8, SerialStep

LEMMA ResumeKeepsSerial ==
    ASSUME AnyInv, SerialInv, NEW o \in Ops, Resume(o) PROVE SerialInv'
<1>1. op[o].pc = "resume" /\ UNCHANGED <<machine, saved>> /\ Local
  BY ResumeMoves
<1>2. PICK r : /\ Advances(o, r)
               /\ \/ r = Done(op[o], IF op[o].err = Nothing THEN "ok" ELSE op[o].err)
                  \/ r = Done(op[o], "resumeFailed")
  BY ResumeMoves
<1>3. op[o] \in OpRecords /\ ~op[o].moved /\ Running(o)
  BY <1>1, OldRecord DEF Running, RecordOK, Undoing
<1>4. (IF op[o].err = Nothing THEN "ok" ELSE op[o].err) \in Answers /\ "resumeFailed" \in Answers
  BY <1>3 DEF OpRecords, Answers
<1>5. r.pc = "done" /\ r.kind = op[o].kind /\ r.moved = op[o].moved /\ r.by = Nothing
  BY <1>2, <1>3, <1>4, DoneFields
<1>6. SavedOK' /\ PairsAreOneMoment' /\ head' = head
  BY <1>1, LocalFrame, SavedStays DEF Local
<1>7. ~GaveUp(r) /\ RunOK(o, r)'
  BY <1>3, <1>5, EndedIsFree DEF GaveUp
<1>8. QED
  BY <1>2, <1>3, <1>5, <1>6, <1>7, SerialLocal

\* A restore that turns back keeps the checkpoint it turns back to.
LEMMA TurnsBack ==
    ASSUME AnyInv, SerialInv, NEW o \in Ops, op[o].pc \in Applying, NEW e \in Errors, NEW r,
           r = RollBack(o, e) \/ r = [RollBack(o, e) EXCEPT !.resumed = TRUE], saved' = saved
    PROVE  RecordKept(r, op[o]) /\ r.pc = "rollbackImport" /\ RunOK(o, r)'
<1>1. op[o] \in OpRecords /\ RunOK(o, op[o])
  BY OldRecord, SerialParts
<1>2. RecordKept(r, op[o]) /\ r.pc = "rollbackImport" /\ r.idx = op[o].idx
  BY <1>1 DEF RollBack, To, OpRecords, RecordKept
<1>3. QED
  BY <1>1, <1>2 DEF RunOK, RecordKept, Applying, Undoing

LEMMA ImportKeepsSerial ==
    ASSUME AnyInv, SerialInv, NEW o \in Ops, Import(o) PROVE SerialInv'
<1>1. op[o].pc = "import" /\ UNCHANGED <<machine, saved>> /\ Local
  BY ImportMoves
<1>2. PICK r : /\ Advances(o, r)
               /\ \/ app'.on = op[o].src /\ r = To(o, "restore")
                  \/ \E e \in Errors : r = RollBack(o, e)
  BY ImportMoves
<1>3. op[o] \in OpRecords /\ ~Acted(op[o]) /\ ~op[o].moved /\ Running(o) /\ RunOK(o, op[o])
  BY <1>1, OldRecord, NotActedYet, SerialParts DEF Undoing, Running
<1>4. RecordKept(r, op[o]) /\ RunOK(o, r)'
  <2>1. CASE app'.on = op[o].src /\ r = To(o, "restore")
    <3>1. RecordKept(r, op[o]) /\ r.pc = "restore" /\ r.idx = op[o].idx
      BY <2>1, <1>3, ToFields
    <3>2. RunOK(o, r)'
      BY <1>1, <1>3, <2>1, <3>1 DEF RunOK, RecordKept, Applying, Undoing, AtStart
    <3>3. QED
      BY <3>1, <3>2
  <2>2. QED
    BY <1>1, <1>2, <2>1, TurnsBack DEF Applying
<1>5. SavedOK' /\ PairsAreOneMoment' /\ head' = head
  BY <1>1, LocalFrame, SavedStays DEF Local
<1>6. ~GaveUp(r)
  BY <1>3, <1>4 DEF GaveUp, RecordKept
<1>7. QED
  BY <1>2, <1>3, <1>4, <1>5, <1>6, SerialLocal DEF RecordKept

LEMMA RestoreMachineKeepsSerial ==
    ASSUME AnyInv, SerialInv, NEW o \in Ops, RestoreMachine(o) PROVE SerialInv'
<1>1. op[o].pc = "restore" /\ UNCHANGED <<app, saved>> /\ Local
  BY RestoreMachineMoves
<1>2. PICK r : /\ Advances(o, r)
               /\ \/ /\ machine'.on = saved[marker[op[o].src].idx].by
                     /\ r \in {To(o, "adopt"), To(o, "finish")}
                  \/ \E e \in Errors : r = RollBack(o, e)
  BY RestoreMachineMoves
<1>3. op[o] \in OpRecords /\ ~Acted(op[o]) /\ ~op[o].moved /\ Running(o) /\ RunOK(o, op[o])
  BY <1>1, OldRecord, NotActedYet, SerialParts DEF Undoing, Running
<1>4. marker' = marker /\ head' = head
  BY <1>1, LocalFrame
<1>5. RecordKept(r, op[o]) /\ RunOK(o, r)'
  <2>1. CASE machine'.on = saved[marker[op[o].src].idx].by /\ r \in {To(o, "adopt"), To(o, "finish")}
    <3>1. RecordKept(r, op[o]) /\ r.pc \in {"adopt", "finish"} /\ r.idx = op[o].idx
      BY <2>1, <1>3, ToFields
    <3>2. RunOK(o, r)'
      BY <1>1, <1>3, <1>4, <2>1, <3>1 DEF RunOK, RecordKept, Applying, Undoing, AtStart
    <3>3. QED
      BY <3>1, <3>2
  <2>2. QED
    BY <1>1, <1>2, <2>1, TurnsBack DEF Applying
<1>6. SavedOK' /\ PairsAreOneMoment'
  BY <1>1, <1>4, SavedStays DEF Local
<1>7. ~GaveUp(r)
  BY <1>3, <1>5 DEF GaveUp, RecordKept
<1>8. QED
  BY <1>2, <1>3, <1>4, <1>5, <1>6, <1>7, SerialLocal DEF RecordKept

LEMMA AdoptKeepsSerial ==
    ASSUME AnyInv, SerialInv, NEW o \in Ops, Adopt(o) PROVE SerialInv'
<1>1. op[o].pc = "adopt" /\ UNCHANGED <<pageVars, boot, writes, marker>>
  BY AdoptMoves
<1>2. PICK r : /\ Advances(o, r)
               /\ \/ /\ head' = [pair |-> op[o].src, by |-> o]
                     /\ r.pc = "finish" /\ r.moved /\ r.by = head.by
                     /\ r.src = op[o].src /\ r.machineOn = op[o].machineOn
                     /\ r.told = op[o].told /\ r.idx = op[o].idx
                  \/ head' = head /\ r = RollBack(o, "notSent")
  BY AdoptMoves
<1>3. op[o] \in OpRecords /\ ~Acted(op[o]) /\ ~op[o].moved /\ Running(o) /\ RunOK(o, op[o])
      /\ RecordOK(o, op[o]) /\ op[o].by # o /\ head.by # o
  BY <1>1, OldRecord, NotActedYet, SerialParts DEF Undoing, Running, HeadTraced
<1>4. SavedOK' /\ PairsAreOneMoment'
  BY <1>1, SavedStays DEF pageVars
<1>5. CASE /\ head' = [pair |-> op[o].src, by |-> o]
           /\ r.pc = "finish" /\ r.moved /\ r.by = head.by
           /\ r.src = op[o].src /\ r.machineOn = op[o].machineOn
           /\ r.told = op[o].told /\ r.idx = op[o].idx
  <2>1. RunOK(o, r)'
    BY <1>1, <1>3, <1>5 DEF RunOK, Applying, Undoing, AtStart, pageVars
  <2>2. Acted(r) /\ head'.by = o
    BY <1>5 DEF Acted
  <2>3. ~GaveUp(r)
    BY <1>1, <1>3, <1>5 DEF GaveUp, RecordOK, Nothing
  <2>4. QED
    BY <1>2, <1>3, <1>4, <1>5, <2>1, <2>2, <2>3, SerialStep
<1>6. CASE head' = head /\ r = RollBack(o, "notSent")
  <2>1. RecordKept(r, op[o]) /\ RunOK(o, r)'
    BY <1>1, <1>6, TurnsBack DEF Applying, Errors, pageVars
  <2>2. ~GaveUp(r)
    BY <1>3, <2>1 DEF GaveUp, RecordKept
  <2>3. QED
    BY <1>2, <1>3, <1>4, <1>6, <2>1, <2>2, SerialLocal DEF RecordKept
<1>7. QED
  BY <1>2, <1>5, <1>6

LEMMA FinishKeepsSerial ==
    ASSUME AnyInv, SerialInv, NEW o \in Ops, LiftFence(o) PROVE SerialInv'
<1>1. op[o].pc = "finish" /\ UNCHANGED <<machine, saved>> /\ Local
  BY FinishMoves
<1>2. PICK r : /\ Advances(o, r)
               /\ \/ r = Done(op[o], "ok")
                  \/ \E e \in Errors : r = [RollBack(o, e) EXCEPT !.resumed = TRUE]
  BY FinishMoves
<1>3. op[o] \in OpRecords /\ Running(o) /\ RecordOK(o, op[o])
  BY <1>1, OldRecord DEF Running
<1>4. /\ RunOK(o, r)' /\ r.kind = op[o].kind /\ r.moved = op[o].moved /\ r.by \in {Nothing, op[o].by}
      /\ ~GaveUp(r)
  <2>1. CASE r = Done(op[o], "ok")
    <3>1. "ok" \in Answers
      BY DEF Answers
    <3>2. r.told = "ok" /\ r.pc = "done" /\ r.kind = op[o].kind /\ r.moved = op[o].moved /\ r.by = Nothing
      BY <2>1, <1>3, <3>1, DoneFields
    <3>3. QED
      BY <3>2, EndedIsFree DEF GaveUp
  <2>2. CASE \E e \in Errors : r = [RollBack(o, e) EXCEPT !.resumed = TRUE]
    <3>1. RecordKept(r, op[o]) /\ RunOK(o, r)'
      BY <1>1, <2>2, TurnsBack DEF Applying
    <3>2. QED
      BY <1>1, <1>3, <3>1 DEF RecordKept, GaveUp, RecordOK, Nothing
  <2>3. QED
    BY <1>2, <2>1, <2>2
<1>5. SavedOK' /\ PairsAreOneMoment' /\ head' = head
  BY <1>1, LocalFrame, SavedStays DEF Local
<1>6. Acted(op[o]) => r.moved
  BY <1>1, <1>3, <1>4 DEF Acted, RecordOK, Applying
<1>7. QED
  BY <1>2, <1>3, <1>4, <1>5, <1>6, SerialLocal

\* While it undoes itself, a restore only counts as one that acted if HEAD moved.
LEMMA UndoingActs ==
    ASSUME AnyInv, NEW o \in Ops, op[o].pc \in Undoing
    PROVE  op[o] \in OpRecords /\ Running(o) /\ (Acted(op[o]) => op[o].moved) /\ op[o].told = Nothing
<1>1. op[o] \in OpRecords /\ RecordOK(o, op[o])
  BY OldRecord
<1>2. QED
  BY <1>1 DEF Acted, RecordOK, Undoing, Running

LEMMA RollbackImportKeepsSerial ==
    ASSUME AnyInv, SerialInv, NEW o \in Ops, RollbackImport(o) PROVE SerialInv'
<1>1. op[o].pc = "rollbackImport" /\ UNCHANGED <<machine, saved>> /\ Local
  BY RollbackImportMoves
<1>2. PICK r : /\ Advances(o, r)
               /\ \/ app'.on = op[o].appOn /\ r = To(o, "rollbackRestore")
                  \/ r = [To(o, "rollbackResume") EXCEPT !.broken = TRUE]
  BY RollbackImportMoves
<1>3. op[o] \in OpRecords /\ Running(o) /\ (Acted(op[o]) => op[o].moved) /\ op[o].told = Nothing /\ RunOK(o, op[o])
  BY <1>1, UndoingActs, SerialParts DEF Undoing
<1>4. RecordKept(r, op[o]) /\ RunOK(o, r)'
  <2>1. RecordKept(r, op[o]) /\ r.idx = op[o].idx /\ r.appOn = op[o].appOn
        /\ (\/ r.pc = "rollbackRestore" /\ app'.on = op[o].appOn
            \/ r.pc = "rollbackResume" /\ r.broken)
    BY <1>2, <1>3 DEF To, OpRecords, RecordKept
  <2>2. QED
    BY <1>1, <1>3, <2>1 DEF RunOK, RecordKept, Applying, Undoing, AtStart
<1>5. SavedOK' /\ PairsAreOneMoment' /\ head' = head
  BY <1>1, LocalFrame, SavedStays DEF Local
<1>6. ~GaveUp(r)
  BY <1>3, <1>4 DEF GaveUp, RecordKept, Nothing
<1>7. QED
  BY <1>2, <1>3, <1>4, <1>5, <1>6, SerialLocal DEF RecordKept

LEMMA RollbackRestoreKeepsSerial ==
    ASSUME AnyInv, SerialInv, NEW o \in Ops, RollbackRestore(o) PROVE SerialInv'
<1>1. op[o].pc = "rollbackRestore" /\ UNCHANGED <<app, saved>> /\ Local
  BY RollbackRestoreMoves
<1>2. PICK r : /\ Advances(o, r)
               /\ \/ machine'.on = saved[op[o].idx].on /\ r = To(o, "rollbackResume")
                  \/ r = [To(o, "rollbackResume") EXCEPT !.broken = TRUE]
  BY RollbackRestoreMoves
<1>3. op[o] \in OpRecords /\ Running(o) /\ (Acted(op[o]) => op[o].moved) /\ op[o].told = Nothing /\ RunOK(o, op[o])
  BY <1>1, UndoingActs, SerialParts DEF Undoing
<1>4. RecordKept(r, op[o]) /\ RunOK(o, r)'
  <2>1. RecordKept(r, op[o]) /\ r.idx = op[o].idx /\ r.pc = "rollbackResume"
        /\ (r.broken \/ machine'.on = saved[op[o].idx].on)
    BY <1>2, <1>3 DEF To, OpRecords, RecordKept
  <2>2. QED
    BY <1>1, <1>3, <2>1 DEF RunOK, RecordKept, Applying, Undoing, AtStart
<1>5. SavedOK' /\ PairsAreOneMoment' /\ head' = head
  BY <1>1, LocalFrame, SavedStays DEF Local
<1>6. ~GaveUp(r)
  BY <1>3, <1>4 DEF GaveUp, RecordKept, Nothing
<1>7. QED
  BY <1>2, <1>3, <1>4, <1>5, <1>6, SerialLocal DEF RecordKept

LEMMA RollbackResumeKeepsSerial ==
    ASSUME AnyInv, SerialInv, NEW o \in Ops, RollbackResume(o) PROVE SerialInv'
<1>1. op[o].pc = "rollbackResume" /\ UNCHANGED <<machine, saved>> /\ Local /\ app'.on = app.on
  BY RollbackResumeMoves
<1>2. PICK r : /\ Advances(o, r)
               /\ \/ r = Done(op[o], "rollbackFailed")
                  \/ ~op[o].broken /\ r = To(o, "headBack")
                  \/ ~op[o].moved /\ r = Done(op[o], op[o].err)
  BY RollbackResumeMoves
<1>3. op[o] \in OpRecords /\ Running(o) /\ (Acted(op[o]) => op[o].moved) /\ op[o].told = Nothing /\ RunOK(o, op[o])
  BY <1>1, UndoingActs, SerialParts DEF Undoing
<1>4. "rollbackFailed" \in Answers /\ op[o].err \in Answers
  BY <1>3 DEF Answers, OpRecords
<1>5. /\ RunOK(o, r)' /\ r.kind = op[o].kind /\ r.moved = op[o].moved /\ r.by \in {Nothing, op[o].by}
      /\ ~GaveUp(r)
  <2>1. CASE r = Done(op[o], "rollbackFailed")
    <3>1. /\ r.pc = "done" /\ r.told = "rollbackFailed"
          /\ r.kind = op[o].kind /\ r.moved = op[o].moved /\ r.by = Nothing
      BY <2>1, <1>3, <1>4, DoneFields
    <3>2. QED
      BY <3>1, EndedIsFree DEF GaveUp
  <2>2. CASE ~op[o].moved /\ r = Done(op[o], op[o].err)
    <3>1. /\ r.pc = "done"
          /\ r.kind = op[o].kind /\ r.moved = op[o].moved /\ r.by = Nothing
      BY <2>2, <1>3, <1>4, DoneFields
    <3>2. QED
      BY <2>2, <3>1, EndedIsFree DEF GaveUp
  <2>3. CASE ~op[o].broken /\ r = To(o, "headBack")
    <3>1. r.pc = "headBack" /\ RecordKept(r, op[o]) /\ r.idx = op[o].idx
      BY <2>3, <1>3, ToFields
    <3>2. RunOK(o, r)'
      BY <1>1, <1>3, <2>3, <3>1 DEF RunOK, RecordKept, Applying, Undoing, AtStart
    <3>3. QED
      BY <1>3, <3>1, <3>2 DEF RecordKept, GaveUp, Nothing
  <2>4. QED
    BY <1>2, <2>1, <2>2, <2>3
<1>6. SavedOK' /\ PairsAreOneMoment' /\ head' = head
  BY <1>1, LocalFrame, SavedStays DEF Local
<1>7. QED
  BY <1>2, <1>3, <1>5, <1>6, SerialLocal

LEMMA HeadBackKeepsSerial ==
    ASSUME AnyInv, SerialInv, NEW o \in Ops, HeadBack(o) PROVE SerialInv'
<1>1. op[o].pc = "headBack" /\ UNCHANGED <<pageVars, boot, writes, marker>>
  BY HeadBackMoves
<1>2. PICK r : /\ Advances(o, r)
               /\ \/ head'.by = op[o].by /\ r = Done(op[o], op[o].err)
                  \/ head' = head /\ r = Done(op[o], "rollbackFailed")
  BY HeadBackMoves
<1>3. op[o] \in OpRecords /\ Running(o) /\ (Acted(op[o]) => op[o].moved) /\ op[o].by # o
      /\ (head.by = o => op[o].moved)
  BY <1>1, UndoingActs, SerialParts DEF Undoing, HeadTraced
<1>4. "rollbackFailed" \in Answers /\ op[o].err \in Answers
  BY <1>3 DEF Answers, OpRecords
<1>5. SavedOK' /\ PairsAreOneMoment'
  BY <1>1, SavedStays DEF pageVars
<1>6. /\ r.pc = "done" /\ r.moved = op[o].moved /\ r.by = Nothing
      /\ r.told \in {op[o].err, "rollbackFailed"}
      /\ head'.by = op[o].by \/ (head' = head /\ r.told = "rollbackFailed")
  BY <1>2, <1>3, <1>4, DoneFields
<1>7. RunOK(o, r)'
  BY <1>6, EndedIsFree
<1>8. head'.by = o => Acted(r) /\ ~GaveUp(r)
  BY <1>3, <1>6 DEF Acted, GaveUp
<1>9. Acted(op[o]) => Acted(r)
  BY <1>3, <1>6 DEF Acted
<1>10. /\ head'.by # o => head'.by \in {head.by, Nothing, op[o].by}
       /\ r.by # o /\ r.by \in {Nothing, op[o].by, head.by}
  BY <1>6, NothingIsNoOp
<1>11. QED
  BY <1>2, <1>3, <1>5, <1>7, <1>8, <1>9, <1>10, SerialStep

(* All steps of operations together.                                       *)
LEMMA StepKeepsSerial ==
    ASSUME AnyInv, SerialInv, ~Pipelined, NEW o \in Ops, Step(o) PROVE SerialInv'
BY BeginKeepsSerial, DescribeKeepsSerial, QuiesceKeepsSerial, ExportKeepsSerial, SaveKeepsSerial,
   PublishKeepsSerial, ActivateKeepsSerial, ResumeKeepsSerial, ImportKeepsSerial,
   RestoreMachineKeepsSerial, AdoptKeepsSerial, FinishKeepsSerial, RollbackImportKeepsSerial,
   RollbackRestoreKeepsSerial, RollbackResumeKeepsSerial, HeadBackKeepsSerial DEF Step

(* A new page numbers its checkpoints in a generation no marker names yet. *)
LEMMA RestartKeepsSerial ==
    ASSUME AnyInv, SerialInv, Restart PROVE SerialInv'
<1>1. \A o \in Ops : op'[o] = IF Running(o) THEN Done(op[o], "died") ELSE op[o]
  BY DEF Restart
<1>2. "died" \in Answers
  BY DEF Answers
<1>3. \A o \in Ops : op'[o].pc \in {"idle", "done"}
  BY <1>1, <1>2, OldRecord, DoneFields DEF Running
<1>4. Alone' /\ RunsOK'
  BY <1>3 DEF Alone, RunsOK, RunOK, Running, Applying, Undoing
<1>5. marker' = marker /\ head' = head /\ boot' = boot + 1 /\ Published' = Published
  BY DEF Restart, storeVars, Published
<1>6. SavedOK'
  <2>1. \A p \in Published : marker[p].boot <= boot /\ marker[p].boot \in Nat /\ boot \in Nat
    BY TypeParts DEF SerialInv, SavedOK, Published
  <2>2. \A p \in Published : marker[p].boot <= boot + 1 /\ marker[p].boot # boot + 1
    BY <2>1
  <2>3. QED
    BY <1>5, <2>2 DEF SavedOK
<1>7. PairsAreOneMoment'
  BY <1>5 DEF SerialInv, PairsAreOneMoment
<1>8. \A o \in Ops : Acted(op[o]) /\ ~GaveUp(op[o]) => Acted(op'[o]) /\ ~GaveUp(op'[o])
  <2> SUFFICES ASSUME NEW o \in Ops, Acted(op[o]), ~GaveUp(op[o])
               PROVE  Acted(op'[o]) /\ ~GaveUp(op'[o])
    OBVIOUS
  <2>1. CASE Running(o)
    <3>1. op'[o].pc = "done" /\ op'[o].told = "died" /\ op'[o].kind = op[o].kind /\ op'[o].moved = op[o].moved
      BY <1>1, <1>2, <2>1, OldRecord, DoneFields
    <3>2. QED
      BY <3>1 DEF Acted, GaveUp
  <2>2. CASE ~Running(o)
    BY <1>1, <2>2
  <2>3. QED
    BY <2>1, <2>2
<1>9. \A o \in Ops : op'[o].by = Nothing
  <2>1. \A o \in Ops : Running(o) => op'[o].by = Nothing
    BY <1>1, <1>2, OldRecord, DoneFields
  <2>2. \A o \in Ops : ~Running(o) => op'[o].by = Nothing
    BY <1>1, OldRecord DEF RecordOK, Running, Live
  <2>3. QED
    BY <2>1, <2>2
<1>10. HeadTraced'
  BY <1>5, <1>8, <1>9, NothingIsNoOp DEF SerialInv, HeadTraced
<1>11. QED
  BY <1>4, <1>6, <1>7, <1>10 DEF SerialInv

(* Around the operation: the fence keeps the application still.            *)
LEMMA AroundKeepsSerial ==
    ASSUME AnyInv, SerialInv, ~Pipelined,
           AppWrites \/ HeadMovedElsewhere \/ ResetMachine \/ UNCHANGED appVars
    PROVE  SerialInv'
<1>1. Alone /\ RunsOK /\ SavedOK /\ HeadTraced /\ PairsAreOneMoment
  BY DEF SerialInv
<1>2. CASE AppWrites
  <2>1. /\ ~app.frozen \/ app.fence = Nothing
        /\ app' = [app EXCEPT !.known = {}]
        /\ UNCHANGED <<machine, saved, boot, storeVars, op>>
    BY <1>2 DEF AppWrites
  <2>2. app'.on = app.on
    BY <2>1, TypeParts DEF AppType
  <2>3. \A o \in Ops : op[o].pc \notin {"export", "save"}
    BY <1>1, <2>1, NothingIsNoOp DEF RunsOK, RunOK
  <2>4. RunsOK'
    <3> SUFFICES ASSUME NEW o \in Ops PROVE RunOK(o, op[o])'
      BY DEF RunsOK
    <3>1. RunOK(o, op[o]) /\ op[o].pc \notin {"export", "save"}
      BY <1>1, <2>3 DEF RunsOK
    <3>2. marker' = marker
      BY <2>1 DEF storeVars
    <3>3. QED
      BY <2>1, <2>2, <3>1, <3>2 DEF RunOK, AtStart
  <2>5. QED
    BY <1>1, <2>1, <2>4
       DEF SerialInv, Alone, Running, SavedOK, HeadTraced, PairsAreOneMoment, Published, storeVars
<1>3. CASE HeadMovedElsewhere
  <2>1. UNCHANGED <<pageVars, boot, writes, marker, op>> /\ head'.by = Nothing
    BY <1>3 DEF HeadMovedElsewhere
  <2>2. HeadTraced'
    BY <1>1, <2>1, NothingIsNoOp DEF HeadTraced
  <2>3. QED
    BY <1>1, <2>1, <2>2
       DEF SerialInv, Alone, Running, RunsOK, RunOK, AtStart, SavedOK, PairsAreOneMoment, Published, pageVars
<1>4. CASE ResetMachine
  <2>1. /\ \A q \in Ops : ~Running(q)
        /\ boot' = boot + 1 /\ UNCHANGED <<app, writes, storeVars, op>>
    BY <1>4 DEF ResetMachine
  <2>2. RunsOK'
    BY <2>1 DEF RunsOK, RunOK, Running, Applying, Undoing
  <2>3. \A p \in Published : marker[p].boot <= boot /\ marker[p].boot \in Nat /\ boot \in Nat
    BY <1>1, TypeParts DEF SavedOK, Published
  <2>4. \A p \in Published : marker[p].boot <= boot + 1 /\ marker[p].boot # boot + 1
    BY <2>3
  <2>5. SavedOK'
    BY <2>1, <2>4 DEF SavedOK, Published, storeVars
  <2>6. QED
    BY <1>1, <2>1, <2>2, <2>5
       DEF SerialInv, Alone, Running, HeadTraced, PairsAreOneMoment, Published, storeVars
<1>5. CASE UNCHANGED appVars
  BY <1>1, <1>5
     DEF appVars, SerialInv, Alone, Running, RunsOK, RunOK, AtStart, SavedOK, HeadTraced, PairsAreOneMoment,
         Published
<1>6. QED
  BY <1>2, <1>3, <1>4, <1>5

LEMMA SerialInit == AppInit => SerialInv
<1> SUFFICES ASSUME AppInit PROVE SerialInv
  OBVIOUS
<1>1. Published = {}
  BY DEF AppInit, Published
<1>2. \A o \in Ops : op[o].pc = "idle" /\ op[o].by = Nothing
  BY NoOpFields DEF AppInit
<1>3. Alone /\ RunsOK
  BY <1>2 DEF Alone, Running, RunsOK, RunOK, Applying, Undoing
<1>4. SavedOK /\ PairsAreOneMoment
  BY <1>1 DEF SavedOK, PairsAreOneMoment
<1>5. HeadTraced
  BY <1>2, NothingIsNoOp DEF AppInit, HeadTraced
<1>6. QED
  BY <1>3, <1>4, <1>5 DEF SerialInv

(* One operation at a time, SerialInv holds for ever.                      *)
THEOREM SerialCorrect ==
    ASSUME ~Pipelined
    PROVE  AppSpec => [](AnyInv /\ SerialInv)
<1>1. AppInit => AnyInv /\ SerialInv
  BY AnyInit, SerialInit
<1>2. AnyInv /\ SerialInv /\ [AppNext]_appVars => (AnyInv /\ SerialInv)'
  <2> SUFFICES ASSUME AnyInv, SerialInv, [AppNext]_appVars PROVE AnyInv' /\ SerialInv'
    OBVIOUS
  <2>1. AnyInv'
    BY StepKeepsAny, RestartKeepsAny, AroundKeepsAny DEF AppNext
  <2>2. SerialInv'
    BY StepKeepsSerial, RestartKeepsSerial, AroundKeepsSerial DEF AppNext
  <2>3. QED
    BY <2>1, <2>2
<1>3. QED
  BY <1>1, <1>2, PTL DEF AppSpec

(* A pair that was published is one moment of both sides (quiesce, export and*)
(* save of _captureApp), whatever writes around the capture.               *)
THEOREM PairsAreWhole ==
    ASSUME ~Pipelined
    PROVE  AppSpec => []PairsAreOneMoment
<1>1. SerialInv => PairsAreOneMoment
  BY DEF SerialInv
<1>2. QED
  BY SerialCorrect, <1>1, PTL

(* An adopt that failed left HEAD where others put it, and HEAD names a pair*)
(* that was published (the undo of adopt, moveActive).                     *)
THEOREM FailedAdoptIsUndone ==
    ASSUME ~Pipelined
    PROVE  AppSpec => []FailedAdoptKeepsHead
<1>1. AnyInv /\ SerialInv => FailedAdoptKeepsHead
  BY DEF AnyInv, HeadComplete, SerialInv, HeadTraced, GaveUp, FailedAdoptKeepsHead
<1>2. QED
  BY SerialCorrect, <1>1, PTL

-----------------------------------------------------------------------------
\* Both sides end where the answer of the restore o says.
TogetherAt(o) ==
    /\ op'[o].told = "ok" => app'.on = op[o].src /\ machine'.on = op[o].src
    /\ op'[o].told = "notSent" => app'.on = op[o].appOn /\ machine'.on = op[o].machineOn

(* How each operation ends, and where it leaves the two sides.             *)
LEMMA EndsAsItBegan ==
    ASSUME AnyInv, SerialInv, NEW o \in Ops, NEW term \in Answers, term # "ok",
           op' = [op EXCEPT ![o] = Done(op[o], term)], AtStart(op[o]),
           app'.on = app.on, machine' = machine
    PROVE  TogetherAt(o)
<1>1. op'[o] = Done(op[o], term) /\ op[o] \in OpRecords
  BY TypeParts, OldRecord
<1>2. op'[o].told # "ok"
  BY <1>1, DoneFields
<1>3. QED
  BY <1>2 DEF TogetherAt, AtStart

LEMMA DescribeEnds ==
    ASSUME AnyInv, SerialInv, NEW o \in Ops, op'[o].pc = "done", Describe(o) \/ Quiesce(o)
    PROVE  TogetherAt(o)
<1>1. /\ op[o].pc \in {"describe", "quiesce"} /\ machine' = machine /\ app'.on = app.on
      /\ \E r : /\ Advances(o, r)
                /\ \/ r \in {To(o, "quiesce"), To(o, "export")}
                   \/ \E e \in Errors : r = Done(op[o], e)
  <2>1. CASE Describe(o)
    BY <2>1, DescribeMoves DEF Errors
  <2>2. CASE Quiesce(o)
    BY <2>2, QuiesceMoves DEF Errors
  <2>3. QED
    BY <2>1, <2>2
<1>2. PICK r : /\ Advances(o, r)
               /\ \/ r \in {To(o, "quiesce"), To(o, "export")}
                  \/ \E e \in Errors : r = Done(op[o], e)
  BY <1>1
<1>3. op'[o] = r /\ op[o] \in OpRecords /\ AtStart(op[o])
  BY <1>1, <1>2, TypeParts, OldRecord, SerialParts DEF Advances, RunOK
<1>4. r \notin {To(o, "quiesce"), To(o, "export")}
  BY <1>3, ToFields
<1>5. PICK e \in Errors : r = Done(op[o], e)
  BY <1>2, <1>4
<1>6. e \in Answers /\ e # "ok"
  BY DEF Errors, Answers
<1>7. QED
  BY <1>1, <1>2, <1>3, <1>5, <1>6, EndsAsItBegan DEF Advances

LEMMA SaveEnds ==
    ASSUME AnyInv, SerialInv, NEW o \in Ops, op'[o].pc = "done", Save(o)
    PROVE  TogetherAt(o)
<1>1. op[o].pc = "save" /\ UNCHANGED <<app, machine>>
  BY SaveMoves
<1>2. PICK r : /\ Advances(o, r)
               /\ \/ r.pc = (IF op[o].kind \in Captures THEN "publish" ELSE "import")
                  \/ \E e \in Errors : r = [To(o, "resume") EXCEPT !.err = e]
                  \/ \E e \in Errors : r = Done(op[o], e)
  BY SaveMoves
<1>3. op'[o] = r /\ op[o] \in OpRecords /\ AtStart(op[o])
  BY <1>1, <1>2, TypeParts, OldRecord, SerialParts DEF Advances, RunOK
<1>4. \A e \in Errors : [To(o, "resume") EXCEPT !.err = e].pc = "resume"
  BY <1>3 DEF To, OpRecords
<1>5. PICK e \in Errors : r = Done(op[o], e)
  BY <1>2, <1>3, <1>4
<1>6. e \in Answers /\ e # "ok"
  BY DEF Errors, Answers
<1>7. QED
  BY <1>1, <1>2, <1>3, <1>5, <1>6, EndsAsItBegan DEF Advances

LEMMA ResumeEnds ==
    ASSUME AnyInv, SerialInv, NEW o \in Ops, op[o].kind \in Restores, Resume(o)
    PROVE  TogetherAt(o)
<1>1. op[o].pc = "resume" /\ UNCHANGED <<machine, saved>> /\ app'.on = app.on
  BY ResumeMoves
<1>2. op[o] \in OpRecords /\ AtStart(op[o]) /\ op[o].err # Nothing
  BY <1>1, OldRecord, SerialParts DEF RunOK, RecordOK
<1>3. PICK term \in {op[o].err, "resumeFailed"} : op' = [op EXCEPT ![o] = Done(op[o], term)]
  BY <1>2, ResumeMoves DEF Advances
<1>4. term \in Answers /\ term # "ok"
  BY <1>2, <1>3 DEF OpRecords, Answers, Errors
<1>5. QED
  BY <1>1, <1>2, <1>3, <1>4, EndsAsItBegan

LEMMA FinishEnds ==
    ASSUME AnyInv, SerialInv, NEW o \in Ops, op'[o].pc = "done", SameBoot(o), LiftFence(o)
    PROVE  TogetherAt(o)
<1>1. op[o].pc = "finish" /\ UNCHANGED <<machine, saved>> /\ app'.on = app.on
  BY FinishMoves
<1>2. PICK r : /\ Advances(o, r)
               /\ \/ r = Done(op[o], "ok")
                  \/ \E e \in Errors : r = [RollBack(o, e) EXCEPT !.resumed = TRUE]
  BY FinishMoves
<1>3. op'[o] = r /\ op[o] \in OpRecords /\ RecordOK(o, op[o]) /\ RunOK(o, op[o])
  BY <1>2, TypeParts, OldRecord, SerialParts DEF Advances
<1>4. \A e \in Errors : [RollBack(o, e) EXCEPT !.resumed = TRUE].pc = "rollbackImport"
  BY <1>3 DEF RollBack, To, OpRecords
<1>5. r = Done(op[o], "ok") /\ "ok" \in Answers
  BY <1>2, <1>3, <1>4 DEF Answers
<1>6. op'[o].told = "ok"
  BY <1>3, <1>5, DoneFields
<1>7. op[o].src \in Published
  BY <1>1, <1>3 DEF RecordOK, Applying, Live
<1>8. saved[marker[op[o].src].idx].by = op[o].src
  BY <1>7 DEF SerialInv, SavedOK, SameBoot
<1>9. app.on = op[o].src /\ machine.on = op[o].src
  BY <1>1, <1>3, <1>8 DEF RunOK
<1>10. QED
  BY <1>1, <1>6, <1>9 DEF TogetherAt

LEMMA RollBackEnds ==
    ASSUME AnyInv, SerialInv, NEW o \in Ops, op'[o].pc = "done", RollbackResume(o) \/ HeadBack(o)
    PROVE  TogetherAt(o)
<1>1. /\ op[o].pc \in {"rollbackResume", "headBack"} /\ machine' = machine /\ app'.on = app.on
      /\ \E r : /\ Advances(o, r)
                /\ \/ r = To(o, "headBack")
                   \/ r = Done(op[o], "rollbackFailed")
                   \/ r = Done(op[o], op[o].err) /\ (op[o].pc = "headBack" \/ ~op[o].broken)
  <2>1. CASE RollbackResume(o)
    BY <2>1, RollbackResumeMoves
  <2>2. CASE HeadBack(o)
    BY <2>2, HeadBackMoves DEF pageVars
  <2>3. QED
    BY <2>1, <2>2
<1>2. PICK r : /\ Advances(o, r)
               /\ \/ r = To(o, "headBack")
                  \/ r = Done(op[o], "rollbackFailed")
                  \/ r = Done(op[o], op[o].err) /\ (op[o].pc = "headBack" \/ ~op[o].broken)
  BY <1>1
<1>3. op'[o] = r /\ op[o] \in OpRecords /\ RunOK(o, op[o]) /\ RecordOK(o, op[o])
  BY <1>2, TypeParts, OldRecord, SerialParts DEF Advances
<1>4. r # To(o, "headBack")
  BY <1>3, ToFields
<1>5. CASE r = Done(op[o], "rollbackFailed")
  <2>1. "rollbackFailed" \in Answers
    BY DEF Answers
  <2>2. op'[o].told = "rollbackFailed"
    BY <1>3, <1>5, <2>1, DoneFields
  <2>3. QED
    BY <2>2 DEF TogetherAt
<1>6. CASE r = Done(op[o], op[o].err) /\ (op[o].pc = "headBack" \/ ~op[o].broken)
  <2>1. AtStart(op[o])
    BY <1>1, <1>3, <1>6 DEF RunOK
  <2>2. op[o].err \in Answers /\ op[o].err # "ok"
    BY <1>3 DEF OpRecords, Answers, Errors, Nothing
  <2>3. QED
    BY <1>1, <1>2, <1>6, <2>1, <2>2, EndsAsItBegan DEF Advances
<1>7. QED
  BY <1>2, <1>4, <1>5, <1>6

\* The other steps of an operation do not end it.
LEMMA GoesOn ==
    ASSUME AnyInv, NEW o \in Ops,
           \/ Begin(o) \/ Export(o) \/ Publish(o) \/ Activate(o) \/ Import(o) \/ RestoreMachine(o)
           \/ Adopt(o) \/ RollbackImport(o) \/ RollbackRestore(o)
    PROVE  op'[o].pc # "done"
<1>1. op[o] \in OpRecords /\ op \in [Ops -> OpRecords]
  BY OldRecord, TypeParts
<1>2. \A pc : To(o, pc).pc = pc
  BY <1>1, ToFields
<1>3. \A e : [To(o, "resume") EXCEPT !.err = e].pc = "resume"
  BY <1>1 DEF To, OpRecords
<1>4. [To(o, "rollbackResume") EXCEPT !.broken = TRUE].pc = "rollbackResume"
  BY <1>1 DEF To, OpRecords
<1>5. \A e : RollBack(o, e).pc = "rollbackImport"
  BY <1>1 DEF RollBack, To, OpRecords
<1>6. CASE Begin(o)
  BY <1>1, <1>6, BeginMoves DEF Advances
<1>7. CASE Export(o)
  <2>1. PICK r : Advances(o, r) /\ (r = To(o, "save") \/ \E e \in Errors : r = [To(o, "resume") EXCEPT !.err = e])
    BY <1>7, ExportMoves
  <2>2. r.pc \in {"save", "resume"}
    BY <1>2, <1>3, <2>1
  <2>3. QED
    BY <1>1, <2>1, <2>2 DEF Advances
<1>8. CASE Publish(o) \/ Activate(o)
  <2>1. \E r : /\ Advances(o, r)
               /\ r \in {To(o, "activate"), To(o, "resume"), [To(o, "resume") EXCEPT !.err = "notSent"]}
    BY <1>8, PublishMoves, ActivateMoves
  <2>2. PICK r : /\ Advances(o, r)
                 /\ r \in {To(o, "activate"), To(o, "resume"), [To(o, "resume") EXCEPT !.err = "notSent"]}
    BY <2>1
  <2>3. r.pc \in {"activate", "resume"}
    BY <1>2, <1>3, <2>2
  <2>4. QED
    BY <1>1, <2>2, <2>3 DEF Advances
<1>9. CASE Import(o) \/ RestoreMachine(o)
  BY <1>1, <1>2, <1>5, <1>9, ImportMoves, RestoreMachineMoves DEF Advances
<1>10. CASE Adopt(o)
  BY <1>1, <1>5, <1>10, AdoptMoves DEF Advances
<1>11. CASE RollbackImport(o) \/ RollbackRestore(o)
  <2>1. \E r : /\ Advances(o, r)
               /\ r \in {To(o, "rollbackRestore"), To(o, "rollbackResume"),
                         [To(o, "rollbackResume") EXCEPT !.broken = TRUE]}
    BY <1>11, RollbackImportMoves, RollbackRestoreMoves
  <2>2. PICK r : /\ Advances(o, r)
                 /\ r \in {To(o, "rollbackRestore"), To(o, "rollbackResume"),
                           [To(o, "rollbackResume") EXCEPT !.broken = TRUE]}
    BY <2>1
  <2>3. r.pc \in {"rollbackRestore", "rollbackResume"}
    BY <1>2, <1>4, <2>2
  <2>4. QED
    BY <1>1, <2>2, <2>3 DEF Advances
<1>12. QED
  BY <1>6, <1>7, <1>8, <1>9, <1>10, <1>11

LEMMA StepEnds ==
    ASSUME AnyInv, SerialInv, NEW o \in Ops, Step(o), op'[o].pc = "done", op[o].kind \in Restores, SameBoot(o)
    PROVE  TogetherAt(o)
<1>1. \/ Describe(o) \/ Quiesce(o) \/ Save(o) \/ Resume(o) \/ LiftFence(o) \/ RollbackResume(o) \/ HeadBack(o)
  BY GoesOn DEF Step
<1>2. QED
  BY <1>1, DescribeEnds, SaveEnds, ResumeEnds, FinishEnds, RollBackEnds

(* A step of one operation does not touch the others.                      *)
LEMMA StepFramesOps ==
    ASSUME AnyInv, NEW o \in Ops, Step(o), NEW q \in Ops, q # o
    PROVE  op'[q] = op[q]
<1>1. op \in [Ops -> OpRecords]
  BY TypeParts
<1>2. CASE Begin(o) \/ Describe(o) \/ Quiesce(o) \/ Export(o)
  BY <1>1, <1>2, BeginMoves, DescribeMoves, QuiesceMoves, ExportMoves DEF Advances
<1>3. CASE Save(o) \/ Publish(o) \/ Activate(o) \/ Resume(o)
  BY <1>1, <1>3, SaveMoves, PublishMoves, ActivateMoves, ResumeMoves DEF Advances
<1>4. CASE Import(o) \/ RestoreMachine(o) \/ Adopt(o) \/ LiftFence(o)
  BY <1>1, <1>4, ImportMoves, RestoreMachineMoves, AdoptMoves, FinishMoves DEF Advances
<1>5. CASE RollbackImport(o) \/ RollbackRestore(o) \/ RollbackResume(o) \/ HeadBack(o)
  BY <1>1, <1>5, RollbackImportMoves, RollbackRestoreMoves, RollbackResumeMoves, HeadBackMoves DEF Advances
<1>6. QED
  BY <1>2, <1>3, <1>4, <1>5 DEF Step

(* A restore or adopt told "ok" leaves both sides on the pair, told "notSent"*)
(* both where they were: _restorePair with its rollback.                   *)
THEOREM BothSidesEndTogether ==
    ASSUME ~Pipelined
    PROVE  AppSpec => BothSidesTogether
<1>1. ASSUME AnyInv, SerialInv, [AppNext]_appVars, NEW o \in Ops,
             Ends(o), op[o].kind \in Restores, SameBoot(o)
      PROVE  TogetherAt(o)
  <2>1. op'[o].pc = "done" /\ op[o].pc # "done" /\ Running(o)
    BY <1>1 DEF Ends, Running
  <2>2. CASE \E q \in Ops : Step(q)
    <3>1. PICK q \in Ops : Step(q)
      BY <2>2
    <3>2. q = o
      BY <1>1, <2>1, <3>1, StepFramesOps
    <3>3. QED
      BY <1>1, <2>1, <3>1, <3>2, StepEnds
  <2>3. CASE Restart
    <3>1. op'[o] = Done(op[o], "died") /\ op[o] \in OpRecords /\ "died" \in Answers
      BY <1>1, <2>1, <2>3, OldRecord DEF Restart, Answers
    <3>2. op'[o].told = "died"
      BY <3>1, DoneFields
    <3>3. QED
      BY <3>2 DEF TogetherAt
  <2>4. CASE AppWrites \/ HeadMovedElsewhere \/ ResetMachine \/ UNCHANGED appVars
    BY <2>1, <2>4 DEF AppWrites, HeadMovedElsewhere, ResetMachine, appVars
  <2>5. QED
    BY <1>1, <2>2, <2>3, <2>4 DEF AppNext
<1>2. AnyInv /\ SerialInv /\ [AppNext]_appVars =>
        [\A o \in Ops : Ends(o) /\ op[o].kind \in Restores /\ SameBoot(o) =>
           /\ op'[o].told = "ok" => app'.on = op[o].src /\ machine'.on = op[o].src
           /\ op'[o].told = "notSent" => app'.on = op[o].appOn /\ machine'.on = op[o].machineOn]_appVars
  BY <1>1 DEF TogetherAt
<1>3. QED
  BY SerialCorrect, <1>2, PTL DEF AppSpec, BothSidesTogether

-----------------------------------------------------------------------------
(***************************************************************************)
(* PackageResolver.  SearchInv says of the search, and of the search every *)
(* choice point would go back to, that what it selected so far meets its   *)
(* demands but for what is pending (Met), and that every right selection that*)
(* agrees with it has all of it and meets what is pending (Needed).        *)
(***************************************************************************)

Selections == UNION {[S -> Versions] : S \in SUBSET Names}
Expansions == UNION {[S -> SUBSET Extras] : S \in SUBSET Names}
Searches == [pending : Seq(Requirements), selected : Selections, expanded : Expansions]

Agrees(s, sel) == \A n \in DOMAIN s.selected \cap DOMAIN sel : sel[n] = s.selected[n]

\* Every right selection that agrees with s on what s has selected holds all that s
\* has, and meets what is still pending.
Needed(s) ==
    \A sel \in Selections : \A exp \in [DOMAIN sel -> SUBSET Extras] :
        Offered(sel) /\ Closed(sel, exp) /\ Agrees(s, sel) =>
            /\ DOMAIN s.selected \subseteq DOMAIN sel
            /\ \A n \in DOMAIN s.selected : s.expanded[n] \subseteq exp[n]
            /\ \A req \in ToSet(s.pending) : Holds(req, {}) => Satisfied(req, sel, exp)

\* What the selection of s demands is met, or still pending.
Met(s) ==
    /\ Offered(s.selected)
    /\ \A req \in Demanded(s.selected, s.expanded) :
          Satisfied(req, s.selected, s.expanded) \/ req \in ToSet(s.pending)

SearchOK(s) == s \in Searches /\ DOMAIN s.expanded = DOMAIN s.selected /\ Needed(s) /\ Met(s)

ChoiceOK(c) ==
    /\ SearchOK(c.from) /\ c.from.pending # <<>> /\ c.asked = Head(c.from.pending)
    /\ Holds(c.asked, {}) /\ c.asked.name \notin DOMAIN c.from.selected
    /\ OwnersOf(c.asked.name) # {} /\ c.left \subseteq Candidates(c.asked)

ChoicePoints == [asked : Requirements, left : SUBSET Versions, from : Searches]

SearchInv ==
    /\ registry \in Registries
    /\ trail \in Seq(ChoicePoints)
    /\ SearchOK(search)
    /\ \A k \in DOMAIN trail : ChoiceOK(trail[k])

\* Where a right selection can still be found.
Within(sel) ==
    \/ outcome \in {"searching", "locked", "noProject"} /\ Agrees(search, sel)
    \/ \E k \in DOMAIN trail : Agrees(trail[k].from, sel) /\ sel[trail[k].asked.name] \in trail[k].left

NothingMissed ==
    registry.policy = "forbid" =>
        \A sel \in Selections : \A exp \in [DOMAIN sel -> SUBSET Extras] :
            Offered(sel) /\ Closed(sel, exp) => Within(sel)

-----------------------------------------------------------------------------
(* Sequences as the sets of what they list *)

LEMMA ToSetConcat ==
    ASSUME NEW S, NEW s \in Seq(S), NEW t \in Seq(S)
    PROVE  s \o t \in Seq(S) /\ ToSet(s \o t) = ToSet(s) \cup ToSet(t)
<1>1. s \o t \in Seq(S) /\ Len(s \o t) = Len(s) + Len(t)
      /\ \A i \in 1 .. Len(s) + Len(t) :
            (s \o t)[i] = IF i <= Len(s) THEN s[i] ELSE t[i - Len(s)]
  BY ConcatProperties
<1>2. Len(s) \in Nat /\ Len(t) \in Nat /\ DOMAIN s = 1 .. Len(s) /\ DOMAIN t = 1 .. Len(t)
      /\ DOMAIN (s \o t) = 1 .. Len(s \o t)
  BY <1>1, LenProperties
<1>3. ASSUME NEW i \in DOMAIN (s \o t) PROVE (s \o t)[i] \in ToSet(s) \cup ToSet(t)
  <2>1. CASE i <= Len(s)
    <3>1. i \in DOMAIN s /\ (s \o t)[i] = s[i]
      BY <1>1, <1>2, <2>1
    <3>2. QED
      BY <3>1 DEF ToSet
  <2>2. CASE ~(i <= Len(s))
    <3>1. i - Len(s) \in DOMAIN t /\ (s \o t)[i] = t[i - Len(s)]
      BY <1>1, <1>2, <2>2
    <3>2. QED
      BY <3>1 DEF ToSet
  <2>3. QED
    BY <2>1, <2>2
<1>4. ASSUME NEW i \in DOMAIN s PROVE s[i] \in ToSet(s \o t)
  <2>1. i \in DOMAIN (s \o t) /\ (s \o t)[i] = s[i]
    BY <1>1, <1>2
  <2>2. QED
    BY <2>1 DEF ToSet
<1>5. ASSUME NEW i \in DOMAIN t PROVE t[i] \in ToSet(s \o t)
  <2>1. Len(s) + i \in DOMAIN (s \o t) /\ ~(Len(s) + i <= Len(s)) /\ (Len(s) + i) - Len(s) = i
    BY <1>1, <1>2
  <2>2. (s \o t)[Len(s) + i] = t[i]
    BY <1>1, <1>2, <2>1
  <2>3. QED
    BY <2>1, <2>2 DEF ToSet
<1>6. QED
  BY <1>1, <1>3, <1>4, <1>5 DEF ToSet

LEMMA ToSetTail ==
    ASSUME NEW S, NEW s \in Seq(S), s # <<>>
    PROVE  /\ Head(s) \in S /\ Tail(s) \in Seq(S)
           /\ ToSet(s) = {Head(s)} \cup ToSet(Tail(s))
<1>1. /\ Head(s) \in S /\ Tail(s) \in Seq(S) /\ Len(Tail(s)) = Len(s) - 1
      /\ \A i \in 1 .. Len(Tail(s)) : Tail(s)[i] = s[i + 1]
      /\ Head(s) = s[1] /\ Len(s) \in Nat /\ Len(s) > 0
  BY HeadTailProperties, LenProperties, EmptySeq
<1>2. DOMAIN s = 1 .. Len(s) /\ DOMAIN Tail(s) = 1 .. Len(Tail(s))
  BY <1>1, LenProperties
<1>3. ASSUME NEW i \in DOMAIN s PROVE s[i] \in {Head(s)} \cup ToSet(Tail(s))
  <2>1. CASE i = 1
    BY <1>1, <2>1
  <2>2. CASE i # 1
    <3>1. i - 1 \in DOMAIN Tail(s) /\ (i - 1) + 1 = i
      BY <1>1, <1>2, <2>2
    <3>2. Tail(s)[i - 1] = s[i]
      BY <1>1, <1>2, <3>1
    <3>3. QED
      BY <3>1, <3>2 DEF ToSet
  <2>3. QED
    BY <2>1, <2>2
<1>4. 1 \in DOMAIN s
  BY <1>1, <1>2
<1>5. ASSUME NEW i \in DOMAIN Tail(s) PROVE Tail(s)[i] \in ToSet(s)
  <2>1. i + 1 \in DOMAIN s /\ Tail(s)[i] = s[i + 1]
    BY <1>1, <1>2
  <2>2. QED
    BY <2>1 DEF ToSet
<1>6. QED
  BY <1>1, <1>3, <1>4, <1>5 DEF ToSet

-----------------------------------------------------------------------------
(* What the index offers *)

LEMMA UsableTyped ==
    ASSUME registry \in Registries, NEW n, NEW v \in Usable(n)
    PROVE  v \in Versions /\ registry.depends[<<n, v>>] \in Seq(Requirements)
<1>1. v \in Versions /\ \E i \in DOMAIN registry.indexes :
                             n \in DOMAIN registry.indexes[i] /\ v \in registry.indexes[i][n]
  BY DEF Usable, OwnersOf
<1>2. QED
  BY <1>1, RegistryAssumption

\* What the list of dependencies holds: every dependency that holds, made to hold
\* always, and others that never do.
LEMMA DependenciesListed ==
    ASSUME registry \in Registries, NEW n, NEW v \in Usable(n), NEW extras
    PROVE  /\ Dependencies(n, v, extras) \in Seq(Requirements)
           /\ ToSet(Dependencies(n, v, extras)) \subseteq Requirements
           /\ \A req : (req \in ToSet(Dependencies(n, v, extras)) /\ Holds(req, {})) <=>
                 \E k \in 1 .. Len(registry.depends[<<n, v>>]) :
                     /\ Holds(registry.depends[<<n, v>>][k], extras)
                     /\ req = [registry.depends[<<n, v>>][k] EXCEPT !.when = "always"]
<1> DEFINE d == registry.depends[<<n, v>>]
           list == Dependencies(n, v, extras)
<1>1. d \in Seq(Requirements)
  BY UsableTyped
<1>2. Len(d) \in Nat /\ \A k \in 1 .. Len(d) : d[k] \in Requirements
  BY <1>1, LenProperties, ElementOfSeq
<1>3. list = [k \in 1 .. Len(d) |->
                [d[k] EXCEPT !.when = IF Holds(d[k], extras) THEN "always" ELSE "never"]]
  BY DEF Dependencies
<1> HIDE DEF d, list
<1>4. \A k \in 1 .. Len(d) :
        /\ Holds(d[k], extras) => list[k] = [d[k] EXCEPT !.when = "always"]
        /\ ~Holds(d[k], extras) => list[k] = [d[k] EXCEPT !.when = "never"]
  BY <1>3
<1>5. \A k \in 1 .. Len(d) :
        /\ [d[k] EXCEPT !.when = "always"] \in Requirements
        /\ [d[k] EXCEPT !.when = "never"] \in Requirements
        /\ [d[k] EXCEPT !.when = "always"].when = "always"
        /\ [d[k] EXCEPT !.when = "never"].when = "never"
  BY <1>2 DEF Requirements
<1>6. \A k \in 1 .. Len(d) : list[k] \in Requirements /\ (Holds(list[k], {}) <=> Holds(d[k], extras))
  <2> SUFFICES ASSUME NEW k \in 1 .. Len(d)
               PROVE  list[k] \in Requirements /\ (Holds(list[k], {}) <=> Holds(d[k], extras))
    OBVIOUS
  <2>1. CASE Holds(d[k], extras)
    <3>1. list[k] \in Requirements /\ list[k].when = "always"
      BY <2>1, <1>4, <1>5
    <3>2. QED
      BY <2>1, <3>1 DEF Holds
  <2>2. CASE ~Holds(d[k], extras)
    <3>1. list[k] \in Requirements /\ list[k].when = "never"
      BY <2>2, <1>4, <1>5
    <3>2. ~Holds(list[k], {})
      BY <3>1 DEF Holds
    <3>3. QED
      BY <2>2, <3>1, <3>2
  <2>3. QED
    BY <2>1, <2>2
<1>7. list \in [1 .. Len(d) -> Requirements]
  BY <1>3, <1>6
<1>8. list \in Seq(Requirements) /\ DOMAIN list = 1 .. Len(d)
  BY <1>2, <1>7, IsASeq
<1>9. ToSet(list) \subseteq Requirements
  BY <1>6, <1>8 DEF ToSet
<1>10. \A req : (req \in ToSet(list) /\ Holds(req, {})) <=>
          \E k \in 1 .. Len(d) : Holds(d[k], extras) /\ req = [d[k] EXCEPT !.when = "always"]
  <2>1. ASSUME NEW req, req \in ToSet(list), Holds(req, {})
        PROVE  \E k \in 1 .. Len(d) : Holds(d[k], extras) /\ req = [d[k] EXCEPT !.when = "always"]
    <3>1. PICK k \in 1 .. Len(d) : req = list[k]
      BY <2>1, <1>8 DEF ToSet
    <3>2. Holds(d[k], extras)
      BY <2>1, <3>1, <1>6
    <3>3. QED
      BY <3>1, <3>2, <1>4
  <2>2. ASSUME NEW req, NEW k \in 1 .. Len(d), Holds(d[k], extras),
               req = [d[k] EXCEPT !.when = "always"]
        PROVE  req \in ToSet(list) /\ Holds(req, {})
    <3>1. req = list[k]
      BY <2>2, <1>4
    <3>2. QED
      BY <2>2, <3>1, <1>6, <1>8 DEF ToSet
  <2>3. QED
    BY <2>1, <2>2
<1>11. QED
  BY <1>8, <1>9, <1>10 DEF d, list

\* More extras bring at least as much.
LEMMA MoreExtrasBringMore ==
    ASSUME registry \in Registries, NEW n, NEW v \in Usable(n), NEW some, NEW more, some \subseteq more,
           NEW req, req \in ToSet(Dependencies(n, v, some)), Holds(req, {})
    PROVE  req \in ToSet(Dependencies(n, v, more))
<1>1. PICK k \in 1 .. Len(registry.depends[<<n, v>>]) :
         /\ Holds(registry.depends[<<n, v>>][k], some)
         /\ req = [registry.depends[<<n, v>>][k] EXCEPT !.when = "always"]
  BY DependenciesListed
<1>2. Holds(registry.depends[<<n, v>>][k], more)
  BY <1>1 DEF Holds
<1>3. QED
  BY <1>1, <1>2, DependenciesListed

\* What extras bring together, one of them brings.
LEMMA ExtrasBringTheirOwn ==
    ASSUME registry \in Registries, NEW n, NEW v \in Usable(n), NEW old, NEW new,
           NEW req, req \in ToSet(Dependencies(n, v, old \cup new)), Holds(req, {})
    PROVE  \/ req \in ToSet(Dependencies(n, v, old))
           \/ new # {} /\ req \in ToSet(Dependencies(n, v, new))
<1>1. PICK k \in 1 .. Len(registry.depends[<<n, v>>]) :
         /\ Holds(registry.depends[<<n, v>>][k], old \cup new)
         /\ req = [registry.depends[<<n, v>>][k] EXCEPT !.when = "always"]
  BY DependenciesListed
<1>2. Holds(registry.depends[<<n, v>>][k], old) \/ (new # {} /\ Holds(registry.depends[<<n, v>>][k], new))
  BY <1>1 DEF Holds
<1>3. QED
  BY <1>1, <1>2, DependenciesListed

-----------------------------------------------------------------------------
(* Each way the search goes on keeps SearchOK *)

LEMMA SearchFields ==
    ASSUME NEW s \in Searches
    PROVE  /\ s.pending \in Seq(Requirements) /\ s.selected \in Selections /\ s.expanded \in Expansions
           /\ DOMAIN s.selected \subseteq Names /\ s.selected \in [DOMAIN s.selected -> Versions]
           /\ s.expanded \in [DOMAIN s.expanded -> SUBSET Extras]
BY DEF Searches, Selections, Expansions

LEMMA DemandedBy ==
    ASSUME NEW sel, NEW exp, NEW req
    PROVE  req \in Demanded(sel, exp) <=>
             /\ Holds(req, {})
             /\ \/ req \in ToSet(registry.roots)
                \/ \E n \in DOMAIN sel : req \in ToSet(Dependencies(n, sel[n], exp[n]))
BY DEF Demanded

LEMMA SearchParts ==
    ASSUME NEW s, SearchOK(s)
    PROVE  /\ s \in Searches /\ DOMAIN s.expanded = DOMAIN s.selected /\ Needed(s) /\ Met(s)
           /\ Offered(s.selected)
BY DEF SearchOK, Met

LEMMA SkipKeeps ==
    ASSUME NEW s, SearchOK(s), s.pending # <<>>, ~Holds(Head(s.pending), {}), NEW t,
           t = [s EXCEPT !.pending = Tail(s.pending)]
    PROVE  SearchOK(t)
<1>1. s \in Searches /\ DOMAIN s.expanded = DOMAIN s.selected /\ Needed(s) /\ Met(s)
  BY SearchParts
<1>2. Tail(s.pending) \in Seq(Requirements) /\ ToSet(s.pending) = {Head(s.pending)} \cup ToSet(Tail(s.pending))
  BY <1>1, SearchFields, ToSetTail
<1>3. t \in Searches /\ t.pending = Tail(s.pending) /\ t.selected = s.selected /\ t.expanded = s.expanded
  BY <1>1, <1>2 DEF Searches
<1>4. Needed(t)
  BY <1>1, <1>2, <1>3 DEF Needed, Agrees
<1>5. Met(t)
  <2>1. \A req \in Demanded(s.selected, s.expanded) : Holds(req, {})
    BY DemandedBy
  <2>2. QED
    BY <1>1, <1>2, <1>3, <2>1 DEF Met
<1>6. QED
  BY <1>1, <1>3, <1>4, <1>5 DEF SearchOK

LEMMA ReuseKeeps ==
    ASSUME registry \in Registries, NEW s, SearchOK(s), s.pending # <<>>,
           NEW a, a = Head(s.pending), Holds(a, {}), NEW n, n = a.name, n \in DOMAIN s.selected,
           s.selected[n] \in a.allows, NEW new, new = a.extras \ s.expanded[n], NEW brought,
           brought = (IF new = {} THEN <<>> ELSE Dependencies(n, s.selected[n], new)),
           NEW t, t = [s EXCEPT !.pending = brought \o Tail(s.pending), !.expanded[n] = @ \cup new]
    PROVE  SearchOK(t)
<1>1. s \in Searches /\ DOMAIN s.expanded = DOMAIN s.selected /\ Needed(s) /\ Met(s) /\ Offered(s.selected)
  BY SearchParts
<1>2. /\ s.pending \in Seq(Requirements) /\ s.selected \in Selections /\ DOMAIN s.selected \subseteq Names
      /\ s.expanded \in [DOMAIN s.selected -> SUBSET Extras]
  BY <1>1, SearchFields
<1>3. /\ a \in Requirements /\ Tail(s.pending) \in Seq(Requirements)
      /\ ToSet(s.pending) = {a} \cup ToSet(Tail(s.pending))
  BY <1>2, ToSetTail
<1> DEFINE v == s.selected[n]
<1>4. v \in Usable(n)
  BY <1>1 DEF Offered
<1>5. brought \in Seq(Requirements) /\ ToSet(brought) = IF new = {} THEN {} ELSE ToSet(Dependencies(n, v, new))
  <2>1. <<>> \in Seq(Requirements) /\ ToSet(<<>>) = {}
    BY EmptySeq DEF ToSet
  <2>2. QED
    BY <1>4, <2>1, DependenciesListed
<1>6. /\ brought \o Tail(s.pending) \in Seq(Requirements)
      /\ ToSet(brought \o Tail(s.pending)) = ToSet(brought) \cup ToSet(Tail(s.pending))
  <2>1. \A x, y \in Seq(Requirements) : x \o y \in Seq(Requirements) /\ ToSet(x \o y) = ToSet(x) \cup ToSet(y)
    BY ToSetConcat
  <2>2. brought \in Seq(Requirements) /\ Tail(s.pending) \in Seq(Requirements)
    BY <1>3, <1>5
  <2>3. QED
    BY <2>1, <2>2
<1> DEFINE expanded == [s.expanded EXCEPT ![n] = @ \cup new]
<1>7. t = [s EXCEPT !.pending = brought \o Tail(s.pending), !.expanded = expanded]
  BY <1>1 DEF Searches
<1>8. new \subseteq Extras
  BY <1>3 DEF Requirements
<1>9. /\ expanded \in [DOMAIN s.selected -> SUBSET Extras]
      /\ expanded[n] = s.expanded[n] \cup new
      /\ \A m \in DOMAIN s.selected : m # n => expanded[m] = s.expanded[m]
      /\ \A m \in DOMAIN s.selected : s.expanded[m] \subseteq expanded[m]
      /\ a.extras \subseteq expanded[n]
  BY <1>2, <1>8
<1>10. expanded \in Expansions
  <2>1. DOMAIN s.selected \in SUBSET Names /\ expanded \in [DOMAIN s.selected -> SUBSET Extras]
    BY <1>2, <1>9
  <2> HIDE DEF expanded
  <2>2. QED
    BY <2>1 DEF Expansions
<1> HIDE DEF expanded
<1>11. /\ t \in Searches /\ t.pending = brought \o Tail(s.pending)
       /\ t.selected = s.selected /\ t.expanded = expanded
  BY <1>1, <1>6, <1>7, <1>10 DEF Searches
<1>12. Needed(t)
  <2> SUFFICES ASSUME NEW sel \in Selections, NEW exp \in [DOMAIN sel -> SUBSET Extras],
                      Offered(sel), Closed(sel, exp), Agrees(t, sel)
               PROVE  /\ DOMAIN t.selected \subseteq DOMAIN sel
                      /\ \A m \in DOMAIN t.selected : t.expanded[m] \subseteq exp[m]
                      /\ \A req \in ToSet(t.pending) : Holds(req, {}) => Satisfied(req, sel, exp)
    BY DEF Needed
  <2>1. Agrees(s, sel)
    BY <1>11 DEF Agrees
  <2>2. /\ DOMAIN s.selected \subseteq DOMAIN sel
        /\ \A m \in DOMAIN s.selected : s.expanded[m] \subseteq exp[m]
        /\ \A req \in ToSet(s.pending) : Holds(req, {}) => Satisfied(req, sel, exp)
    BY <1>1, <2>1 DEF Needed
  <2>3. Satisfied(a, sel, exp)
    BY <1>3, <2>2
  <2>4. n \in DOMAIN sel /\ sel[n] = v /\ a.extras \subseteq exp[n] /\ new \subseteq exp[n]
    BY <2>1, <2>2, <2>3 DEF Satisfied, Agrees
  <2>5. \A m \in DOMAIN t.selected : t.expanded[m] \subseteq exp[m]
    <3>1. \A m \in DOMAIN s.selected : s.expanded[m] \subseteq exp[m]
      BY <2>2
    <3>2. expanded[n] \subseteq exp[n]
      BY <1>9, <2>4, <3>1
    <3>3. \A m \in DOMAIN s.selected : expanded[m] \subseteq exp[m]
      BY <1>9, <3>1, <3>2
    <3>4. QED
      BY <1>11, <3>3
  <2>6. ASSUME NEW req \in ToSet(brought), Holds(req, {}) PROVE Satisfied(req, sel, exp)
    <3>1. req \in ToSet(Dependencies(n, v, new))
      BY <1>5, <2>6
    <3>2. req \in ToSet(Dependencies(n, v, exp[n]))
      <4>1. new \subseteq exp[n] /\ v \in Usable(n) /\ Holds(req, {})
        BY <1>4, <2>4, <2>6
      <4> HIDE DEF v
      <4>2. \A some, more, r : some \subseteq more /\ r \in ToSet(Dependencies(n, v, some)) /\ Holds(r, {})
                                => r \in ToSet(Dependencies(n, v, more))
        BY ONLY registry \in Registries, <4>1, MoreExtrasBringMore
      <4>3. QED
        BY <3>1, <4>1, <4>2
    <3>3. req \in Demanded(sel, exp)
      BY <2>4, <2>6, <3>2, DemandedBy
    <3>4. QED
      BY <3>3 DEF Closed
  <2>7. QED
    BY <1>3, <1>6, <1>11, <2>2, <2>5, <2>6
<1>13. Met(t)
  <2> SUFFICES ASSUME NEW req \in Demanded(s.selected, expanded)
               PROVE  Satisfied(req, s.selected, expanded) \/ req \in ToSet(t.pending)
    BY <1>1, <1>11 DEF Met
  <2>1. CASE req \in Demanded(s.selected, s.expanded)
    <3>1. Satisfied(req, s.selected, s.expanded) \/ req = a \/ req \in ToSet(Tail(s.pending))
      BY <1>1, <1>3, <2>1 DEF Met
    <3>2. Satisfied(a, s.selected, expanded)
      BY <1>9 DEF Satisfied
    <3>3. Satisfied(req, s.selected, s.expanded) => Satisfied(req, s.selected, expanded)
      BY <1>9 DEF Satisfied
    <3>4. QED
      BY <1>6, <1>11, <3>1, <3>2, <3>3
  <2>2. CASE req \notin Demanded(s.selected, s.expanded)
    <3>1. Holds(req, {}) /\ \E m \in DOMAIN s.selected :
             req \in ToSet(Dependencies(m, s.selected[m], expanded[m]))
      BY <2>2, DemandedBy
    <3>2. PICK m \in DOMAIN s.selected : req \in ToSet(Dependencies(m, s.selected[m], expanded[m]))
      BY <3>1
    <3>3. req \notin ToSet(Dependencies(m, s.selected[m], s.expanded[m]))
      BY <2>2, <3>1, DemandedBy
    <3>4. m = n
      BY <1>9, <3>2, <3>3
    <3>5. req \in ToSet(Dependencies(n, v, s.expanded[n] \cup new))
      BY <1>9, <3>2, <3>4
    <3>6. new # {} /\ req \in ToSet(Dependencies(n, v, new))
      <4>1. v \in Usable(n) /\ Holds(req, {}) /\ req \notin ToSet(Dependencies(n, v, s.expanded[n]))
        BY <1>4, <3>1, <3>3, <3>4
      <4> HIDE DEF v
      <4>2. \A old, more, r : r \in ToSet(Dependencies(n, v, old \cup more)) /\ Holds(r, {})
                => \/ r \in ToSet(Dependencies(n, v, old))
                   \/ more # {} /\ r \in ToSet(Dependencies(n, v, more))
        BY ONLY registry \in Registries, <4>1, ExtrasBringTheirOwn
      <4>3. QED
        BY <3>5, <4>1, <4>2
    <3>7. QED
      BY <1>5, <1>6, <1>11, <3>6
  <2>3. QED
    BY <2>1, <2>2
<1>14. QED
  BY <1>2, <1>9, <1>11, <1>12, <1>13 DEF SearchOK

LEMMA TryKeeps ==
    ASSUME registry \in Registries, NEW s, SearchOK(s), s.pending # <<>>,
           NEW a, a = Head(s.pending), Holds(a, {}), NEW n, n = a.name, n \notin DOMAIN s.selected,
           OwnersOf(n) # {}, NEW v \in Candidates(a), NEW t,
           t = [pending |-> Dependencies(n, v, a.extras) \o Tail(s.pending),
                selected |-> With(s.selected, n, v), expanded |-> With(s.expanded, n, a.extras)]
    PROVE  SearchOK(t)
<1>1. s \in Searches /\ DOMAIN s.expanded = DOMAIN s.selected /\ Needed(s) /\ Met(s) /\ Offered(s.selected)
  BY SearchParts
<1>2. /\ s.pending \in Seq(Requirements) /\ DOMAIN s.selected \subseteq Names
      /\ s.selected \in [DOMAIN s.selected -> Versions]
      /\ s.expanded \in [DOMAIN s.selected -> SUBSET Extras]
  BY <1>1, SearchFields
<1>3. /\ a \in Requirements /\ Tail(s.pending) \in Seq(Requirements)
      /\ ToSet(s.pending) = {a} \cup ToSet(Tail(s.pending))
  BY <1>2, ToSetTail
<1>4. v \in Usable(n) /\ v \in a.allows /\ n \in Names /\ a.extras \subseteq Extras /\ v \in Versions
  BY <1>3 DEF Candidates, Requirements, Usable
<1> DEFINE brought == Dependencies(n, v, a.extras)
<1>5. brought \in Seq(Requirements)
  BY <1>4, DependenciesListed
<1>6. /\ brought \o Tail(s.pending) \in Seq(Requirements)
      /\ ToSet(brought \o Tail(s.pending)) = ToSet(brought) \cup ToSet(Tail(s.pending))
  <2>1. \A x, y \in Seq(Requirements) : x \o y \in Seq(Requirements) /\ ToSet(x \o y) = ToSet(x) \cup ToSet(y)
    BY ToSetConcat
  <2>2. brought \in Seq(Requirements) /\ Tail(s.pending) \in Seq(Requirements)
    BY <1>3, <1>5
  <2> HIDE DEF brought
  <2>3. QED
    BY <2>1, <2>2
<1> DEFINE dom == DOMAIN s.selected \cup {n}
           selected == With(s.selected, n, v)
           expanded == With(s.expanded, n, a.extras)
<1>7. /\ selected \in [dom -> Versions] /\ selected[n] = v
      /\ \A m \in DOMAIN s.selected : selected[m] = s.selected[m]
  BY <1>2, <1>4 DEF With
<1>8. /\ expanded \in [dom -> SUBSET Extras] /\ expanded[n] = a.extras
      /\ \A m \in DOMAIN s.selected : expanded[m] = s.expanded[m]
  BY <1>1, <1>2, <1>4 DEF With
<1>9. dom \in SUBSET Names /\ n \in dom
  BY <1>2, <1>4
<1>10. selected \in Selections /\ expanded \in Expansions
  BY <1>7, <1>8, <1>9 DEF Selections, Expansions
<1>11. DOMAIN selected = dom /\ DOMAIN expanded = dom
  BY <1>7, <1>8
<1>12. \A m \in dom : m = n \/ m \in DOMAIN s.selected
  OBVIOUS
<1>13. t.pending = brought \o Tail(s.pending) /\ t.selected = selected /\ t.expanded = expanded
  OBVIOUS
<1>14. t \in Searches
  BY <1>6, <1>10 DEF Searches
<1> HIDE DEF selected, expanded, dom
<1>15. Needed(t)
  <2> SUFFICES ASSUME NEW sel \in Selections, NEW exp \in [DOMAIN sel -> SUBSET Extras],
                      Offered(sel), Closed(sel, exp), Agrees(t, sel)
               PROVE  /\ DOMAIN t.selected \subseteq DOMAIN sel
                      /\ \A m \in DOMAIN t.selected : t.expanded[m] \subseteq exp[m]
                      /\ \A req \in ToSet(t.pending) : Holds(req, {}) => Satisfied(req, sel, exp)
    BY DEF Needed
  <2>1. Agrees(s, sel)
    BY <1>7, <1>11, <1>13 DEF Agrees, dom
  <2>2. /\ DOMAIN s.selected \subseteq DOMAIN sel
        /\ \A m \in DOMAIN s.selected : s.expanded[m] \subseteq exp[m]
        /\ \A req \in ToSet(s.pending) : Holds(req, {}) => Satisfied(req, sel, exp)
    BY <1>1, <2>1 DEF Needed
  <2>3. Satisfied(a, sel, exp)
    BY <1>3, <2>2
  <2>4. n \in DOMAIN sel /\ a.extras \subseteq exp[n]
    BY <2>3 DEF Satisfied
  <2>5. sel[n] = v
    BY <1>7, <1>9, <1>11, <1>13, <2>4 DEF Agrees
  <2>6. DOMAIN t.selected \subseteq DOMAIN sel
    BY <1>11, <1>12, <1>13, <2>2, <2>4
  <2>7. \A m \in DOMAIN t.selected : t.expanded[m] \subseteq exp[m]
    <3>1. \A m \in DOMAIN s.selected : expanded[m] \subseteq exp[m]
      BY <1>8, <2>2
    <3>2. expanded[n] \subseteq exp[n]
      BY <1>8, <2>4
    <3>3. QED
      BY <1>11, <1>12, <1>13, <3>1, <3>2
  <2>8. ASSUME NEW req \in ToSet(brought), Holds(req, {}) PROVE Satisfied(req, sel, exp)
    <3>1. req \in ToSet(Dependencies(n, v, exp[n]))
      BY <1>4, <2>4, <2>8, MoreExtrasBringMore
    <3>2. req \in Demanded(sel, exp)
      BY <2>4, <2>5, <2>8, <3>1, DemandedBy
    <3>3. QED
      BY <3>2 DEF Closed
  <2>9. QED
    BY <1>3, <1>6, <1>13, <2>2, <2>6, <2>7, <2>8
<1>16. Met(t)
  <2>1. Offered(selected)
    BY <1>1, <1>4, <1>7, <1>11, <1>12 DEF Offered
  <2> SUFFICES ASSUME NEW req \in Demanded(selected, expanded)
               PROVE  Satisfied(req, selected, expanded) \/ req \in ToSet(t.pending)
    BY <1>13, <2>1 DEF Met
  <2>2. Holds(req, {})
    BY DemandedBy
  <2>3. CASE req \in Demanded(s.selected, s.expanded)
    <3>1. Satisfied(req, s.selected, s.expanded) \/ req = a \/ req \in ToSet(Tail(s.pending))
      BY <1>1, <1>3, <2>3 DEF Met
    <3>2. Satisfied(a, selected, expanded)
      BY <1>4, <1>7, <1>8, <1>9, <1>11 DEF Satisfied
    <3>3. Satisfied(req, s.selected, s.expanded) => Satisfied(req, selected, expanded)
      BY <1>7, <1>8, <1>11 DEF Satisfied, dom
    <3>4. QED
      BY <1>6, <1>13, <3>1, <3>2, <3>3
  <2>4. CASE req \notin Demanded(s.selected, s.expanded)
    <3>1. PICK m \in DOMAIN selected : req \in ToSet(Dependencies(m, selected[m], expanded[m]))
      BY <2>2, <2>4, DemandedBy
    <3>2. m = n
      <4> SUFFICES ASSUME m # n PROVE FALSE
        OBVIOUS
      <4>1. m \in DOMAIN s.selected
        BY <1>11, <1>12
      <4>2. req \in ToSet(Dependencies(m, s.selected[m], s.expanded[m]))
        BY <1>7, <1>8, <3>1, <4>1
      <4>3. QED
        BY <2>2, <2>4, <4>1, <4>2, DemandedBy
    <3>3. req \in ToSet(brought)
      BY <1>7, <1>8, <3>1, <3>2
    <3>4. QED
      BY <1>6, <1>13, <3>3
  <2>5. QED
    BY <2>3, <2>4
<1>17. QED
  BY <1>11, <1>13, <1>14, <1>15, <1>16 DEF SearchOK

-----------------------------------------------------------------------------
(* The invariant of the search *)

\* The registry does not change while it is searched.
LEMMA SearchFrame ==
    ASSUME registry' = registry, NEW s, SearchOK(s)
    PROVE  SearchOK(s)'
<1>1. \A n, v, extras : Dependencies(n, v, extras)' = Dependencies(n, v, extras)
  BY DEF Dependencies, Holds
<1>2. \A sel, exp : Demanded(sel, exp)' = Demanded(sel, exp)
  BY <1>1 DEF Demanded, Holds
<1>3. \A sel, exp : Closed(sel, exp)' <=> Closed(sel, exp)
  BY <1>2 DEF Closed, Satisfied
<1>4. \A sel : Offered(sel)' <=> Offered(sel)
  BY DEF Offered, Usable, OwnersOf
<1>5. Needed(s)'
  BY <1>3, <1>4 DEF SearchOK, Needed, Agrees, Satisfied, Holds, Selections
<1>6. Met(s)'
  BY <1>2, <1>4 DEF SearchOK, Met, Satisfied
<1>7. QED
  BY <1>5, <1>6 DEF SearchOK, Searches, Selections, Expansions

LEMMA ChoiceFrame ==
    ASSUME registry' = registry, NEW c, ChoiceOK(c)
    PROVE  ChoiceOK(c)'
<1>1. SearchOK(c.from)'
  BY SearchFrame DEF ChoiceOK
<1>2. QED
  BY <1>1 DEF ChoiceOK, Candidates, Usable, OwnersOf, Holds, Pinned

LEMMA InvParts ==
    ASSUME SearchInv
    PROVE  /\ registry \in Registries /\ trail \in Seq(ChoicePoints) /\ SearchOK(search)
           /\ search \in Searches
           /\ Len(trail) \in Nat /\ DOMAIN trail = 1 .. Len(trail)
           /\ \A k \in DOMAIN trail : ChoiceOK(trail[k]) /\ trail[k] \in ChoicePoints
BY LenProperties, ElementOfSeq DEF SearchInv, SearchOK

\* A step that goes on to the search t and leaves the choice points alone.
LEMMA GoesOnKeeps ==
    ASSUME SearchInv, NEW t, SearchOK(t), search' = t, UNCHANGED <<registry, trail>>
    PROVE  SearchInv'
<1>1. SearchOK(t)'
  BY SearchFrame
<1>2. SearchOK(search)'
  BY <1>1
<1>3. \A k \in DOMAIN trail : ChoiceOK(trail[k])'
  <2> SUFFICES ASSUME NEW k \in DOMAIN trail PROVE ChoiceOK(trail[k])'
    OBVIOUS
  <2>1. ChoiceOK(trail[k])
    BY InvParts
  <2>2. PICK c : c = trail[k]
    OBVIOUS
  <2>3. ChoiceOK(c)'
    BY <2>1, <2>2, ChoiceFrame
  <2>4. QED
    BY <2>2, <2>3
<1>4. QED
  BY <1>2, <1>3, InvParts DEF SearchInv

LEMMA SkipByMarkerKeeps ==
    ASSUME SearchInv, SkipByMarker PROVE SearchInv'
<1> DEFINE t == [search EXCEPT !.pending = Tail(search.pending)]
<1>1. SearchOK(t)
  BY InvParts, SkipKeeps DEF SkipByMarker, Searching, Asked
<1>2. search' = t /\ UNCHANGED <<registry, trail>>
  BY DEF SkipByMarker, Continues, Rest
<1> HIDE DEF t
<1>3. QED
  BY <1>1, <1>2, GoesOnKeeps

LEMMA ReuseStepKeeps ==
    ASSUME SearchInv, Reuse PROVE SearchInv'
<1> DEFINE n == Asked.name
           new == Asked.extras \ search.expanded[n]
           brought == IF new = {} THEN <<>> ELSE Dependencies(n, search.selected[n], new)
           t == [search EXCEPT !.pending = brought \o Tail(search.pending), !.expanded[n] = @ \cup new]
<1>1. /\ search.pending # <<>> /\ Asked = Head(search.pending) /\ Holds(Asked, {})
      /\ n \in DOMAIN search.selected /\ search.selected[n] \in Asked.allows
      /\ search' = t /\ UNCHANGED <<registry, trail>>
  BY DEF Reuse, Searching, Asked, Rest, IsSelected, Continues
<1>2. SearchOK(search) /\ registry \in Registries
  BY InvParts
<1>3. SearchOK(t)
  BY <1>1, <1>2, ReuseKeeps
<1> HIDE DEF t
<1>4. QED
  BY <1>1, <1>3, GoesOnKeeps

LEMMA QuietKeeps ==
    ASSUME SearchInv, UNCHANGED <<registry, search, trail>> PROVE SearchInv'
<1>1. PICK t : t = search
  OBVIOUS
<1>2. QED
  BY <1>1, InvParts, GoesOnKeeps

\* One choice point more: the search as it stands, with every candidate left.
LEMMA ChooseMoves ==
    ASSUME SearchInv, Choose
    PROVE  /\ search.pending # <<>> /\ Holds(Asked, {}) /\ UNCHANGED <<registry, search>>
           /\ trail' \in Seq(ChoicePoints) /\ DOMAIN trail' = 1 .. Len(trail) + 1
           /\ \A k \in 1 .. Len(trail) : trail'[k] = trail[k]
           /\ trail'[Len(trail) + 1].asked = Asked /\ trail'[Len(trail) + 1].from = search
           /\ trail'[Len(trail) + 1].left = Candidates(Asked)
           /\ ChoiceOK(trail'[Len(trail) + 1])
<1> DEFINE c == [asked |-> Asked, left |-> Candidates(Asked), from |-> search]
<1>1. /\ search.pending # <<>> /\ Asked = Head(search.pending) /\ Holds(Asked, {})
      /\ Asked.name \notin DOMAIN search.selected /\ OwnersOf(Asked.name) # {}
      /\ trail' = Append(trail, c) /\ UNCHANGED <<registry, search>>
  BY DEF Choose, Searching, Asked, IsSelected
<1>2. Asked \in Requirements
  BY <1>1, InvParts, SearchFields, ToSetTail
<1>3. Candidates(Asked) \subseteq Versions
  BY DEF Candidates, Usable
<1>4. c \in ChoicePoints
  BY <1>2, <1>3, InvParts DEF ChoicePoints
<1>5. ChoiceOK(c)
  BY <1>1, InvParts DEF ChoiceOK
<1>6. c.asked = Asked /\ c.left = Candidates(Asked) /\ c.from = search
  OBVIOUS
<1> HIDE DEF c
<1>7. /\ trail' \in Seq(ChoicePoints) /\ Len(trail') = Len(trail) + 1
      /\ \A k \in 1 .. Len(trail) : trail'[k] = trail[k]
      /\ trail'[Len(trail) + 1] = c
  BY <1>1, <1>4, InvParts, AppendProperties
<1>8. DOMAIN trail' = 1 .. Len(trail) + 1
  BY <1>7, LenProperties
<1>9. QED
  BY <1>1, <1>5, <1>6, <1>7, <1>8

LEMMA ChooseKeeps ==
    ASSUME SearchInv, Choose PROVE SearchInv'
<1>1. /\ UNCHANGED <<registry, search>> /\ trail' \in Seq(ChoicePoints)
  BY ChooseMoves
<1>2. \A k \in DOMAIN trail' : ChoiceOK(trail'[k])
  <2> SUFFICES ASSUME NEW k \in DOMAIN trail' PROVE ChoiceOK(trail'[k])
    OBVIOUS
  <2>1. CASE k = Len(trail) + 1
    BY <2>1, ChooseMoves
  <2>2. CASE k # Len(trail) + 1
    <3>1. k \in 1 .. Len(trail)
      BY <2>2, InvParts, ChooseMoves
    <3>2. QED
      BY <3>1, InvParts, ChooseMoves
  <2>3. QED
    BY <2>1, <2>2
<1>3. SearchOK(search)'
  <2>1. PICK s : s = search
    OBVIOUS
  <2>2. SearchOK(s)'
    BY <1>1, <2>1, InvParts, SearchFrame
  <2>3. QED
    BY <1>1, <2>1, <2>2
<1>4. (\A k \in DOMAIN trail : ChoiceOK(trail[k]))'
  <2>1. ASSUME NEW k \in DOMAIN trail' PROVE ChoiceOK(trail[k])'
    <3>1. PICK d : d = trail'[k]
      OBVIOUS
    <3>2. ChoiceOK(d)'
      BY <1>1, <1>2, <3>1, ChoiceFrame
    <3>3. QED
      BY <3>1, <3>2
  <2>2. QED
    BY <2>1
<1>5. QED
  BY <1>1, <1>3, <1>4, InvParts DEF SearchInv

\* The last choice point, one candidate fewer.
LEMMA TryCandidateMoves ==
    ASSUME SearchInv, TryCandidate
    PROVE  LET top == trail[Len(trail)] IN
           /\ Len(trail) \in DOMAIN trail /\ outcome = "backtracking" /\ outcome' = "searching"
           /\ registry' = registry
           /\ \E v \in top.left :
                /\ trail' = [trail EXCEPT ![Len(trail)].left = @ \ {v}]
                /\ search' = [pending |-> Dependencies(top.asked.name, v, top.asked.extras) \o Tail(top.from.pending),
                              selected |-> With(top.from.selected, top.asked.name, v),
                              expanded |-> With(top.from.expanded, top.asked.name, top.asked.extras)]
<1>1. Len(trail) \in DOMAIN trail
  <2>1. trail # <<>>
    BY DEF TryCandidate
  <2>2. Len(trail) # 0
    BY <2>1, InvParts, EmptySeq
  <2>3. QED
    BY <2>2, InvParts
<1>2. QED
  BY <1>1 DEF TryCandidate, Continues

LEMMA TryCandidateKeeps ==
    ASSUME SearchInv, TryCandidate PROVE SearchInv'
<1> DEFINE last == Len(trail)
           top == trail[last]
           n == top.asked.name
           next(v) == [pending |-> Dependencies(n, v, top.asked.extras) \o Tail(top.from.pending),
                       selected |-> With(top.from.selected, n, v),
                       expanded |-> With(top.from.expanded, n, top.asked.extras)]
<1>1. PICK v \in top.left : /\ trail' = [trail EXCEPT ![last].left = @ \ {v}]
                            /\ search' = next(v)
  BY TryCandidateMoves
<1>2. last \in DOMAIN trail /\ registry' = registry
  BY TryCandidateMoves
<1>3. ChoiceOK(top) /\ top \in ChoicePoints /\ v \in Candidates(top.asked)
  BY <1>1, <1>2, InvParts DEF ChoiceOK
<1>4. SearchOK(next(v))
  <2>1. /\ SearchOK(top.from) /\ top.from.pending # <<>> /\ top.asked = Head(top.from.pending)
        /\ Holds(top.asked, {}) /\ n \notin DOMAIN top.from.selected /\ OwnersOf(n) # {}
        /\ registry \in Registries
    BY <1>3, InvParts DEF ChoiceOK
  <2>2. QED
    BY <1>3, <2>1, TryKeeps
<1> HIDE DEF next
<1>5. SearchOK(search)'
  <2>1. PICK t : t = next(v)
    OBVIOUS
  <2>2. SearchOK(t)'
    BY <1>2, <1>4, <2>1, SearchFrame
  <2>3. QED
    BY <1>1, <2>1, <2>2
<1> DEFINE c == [top EXCEPT !.left = @ \ {v}]
<1>6. /\ c \in ChoicePoints /\ c.asked = top.asked /\ c.from = top.from /\ c.left \subseteq top.left
  BY <1>3 DEF ChoicePoints
<1>7. ChoiceOK(c)
  BY <1>3, <1>6 DEF ChoiceOK
<1> HIDE DEF c
<1>8. /\ trail' \in Seq(ChoicePoints) /\ DOMAIN trail' = DOMAIN trail
      /\ trail'[last] = c /\ \A k \in DOMAIN trail : k # last => trail'[k] = trail[k]
  <2>1. trail' = [trail EXCEPT ![last] = c]
    BY <1>1 DEF c
  <2>2. trail \in Seq(ChoicePoints) /\ DOMAIN trail = 1 .. Len(trail)
    BY InvParts
  <2>3. QED
    BY <1>2, <1>6, <2>1, <2>2, ExceptSeq
<1>9. (\A k \in DOMAIN trail : ChoiceOK(trail[k]))'
  <2>1. ASSUME NEW k \in DOMAIN trail' PROVE ChoiceOK(trail[k])'
    <3>1. PICK d : d = trail'[k]
      OBVIOUS
    <3>2. ChoiceOK(d)
      BY <1>7, <1>8, <3>1, InvParts
    <3>3. ChoiceOK(d)'
      BY <1>2, <3>2, ChoiceFrame
    <3>4. QED
      BY <3>1, <3>3
  <2>2. QED
    BY <2>1
<1>10. QED
  BY <1>2, <1>5, <1>8, <1>9, InvParts DEF SearchInv

LEMMA FrontOfTrail ==
    ASSUME SearchInv, GiveUp
    PROVE  /\ trail' \in Seq(ChoicePoints) /\ Len(trail) \in DOMAIN trail
           /\ DOMAIN trail' = DOMAIN trail \ {Len(trail)}
           /\ \A k \in DOMAIN trail' : trail'[k] = trail[k]
           /\ UNCHANGED <<registry, search, outcome>> /\ trail[Len(trail)].left = {}
           /\ outcome = "backtracking"
<1>1. trail \in Seq(ChoicePoints) /\ Len(trail) \in Nat /\ DOMAIN trail = 1 .. Len(trail)
  BY InvParts
<1>2. trail # <<>> /\ trail' = SubSeq(trail, 1, Len(trail) - 1)
  BY DEF GiveUp, Front
<1>3. Len(trail) # 0
  BY <1>1, <1>2, EmptySeq
<1>4. Len(trail) \in DOMAIN trail
  BY <1>1, <1>3
<1>5. /\ trail' \in Seq(ChoicePoints) /\ Len(trail') = Len(trail) - 1
      /\ \A k \in 1 .. Len(trail') : trail'[k] = trail[k]
  <2>1. Len(trail) - 1 \in 0 .. Len(trail)
    BY <1>1, <1>3
  <2> DEFINE m == Len(trail) - 1
             front == SubSeq(trail, 1, m)
  <2>2. \A i \in 1 .. m : i \in 1 .. Len(trail)
    BY <1>1
  <2> HIDE DEF m
  <2>3. m \in 0 .. Len(trail)
    BY <2>1 DEF m
  <2>4. front \in Seq(ChoicePoints) /\ Len(front) = m /\ \A k \in 1 .. m : front[k] = trail[k]
    BY <1>1, <2>2, <2>3, SubSeqProperties
  <2>5. QED
    BY <1>2, <2>4 DEF m
<1>6. DOMAIN trail' = 1 .. Len(trail) - 1
  BY <1>5, LenProperties
<1>7. DOMAIN trail' = DOMAIN trail \ {Len(trail)}
  BY <1>1, <1>3, <1>6
<1>8. QED
  BY <1>4, <1>5, <1>6, <1>7 DEF GiveUp

LEMMA GiveUpKeeps ==
    ASSUME SearchInv, GiveUp PROVE SearchInv'
<1>1. /\ trail' \in Seq(ChoicePoints) /\ DOMAIN trail' \subseteq DOMAIN trail
      /\ \A k \in DOMAIN trail' : trail'[k] = trail[k]
      /\ UNCHANGED <<registry, search>>
  BY FrontOfTrail
<1>2. SearchOK(search)'
  <2>1. PICK s : s = search
    OBVIOUS
  <2>2. SearchOK(s)'
    BY <1>1, <2>1, InvParts, SearchFrame
  <2>3. QED
    BY <1>1, <2>1, <2>2
<1>3. (\A k \in DOMAIN trail : ChoiceOK(trail[k]))'
  <2>1. ASSUME NEW k \in DOMAIN trail' PROVE ChoiceOK(trail[k])'
    <3>1. PICK d : d = trail'[k]
      OBVIOUS
    <3>2. ChoiceOK(d)
      BY <1>1, <3>1, InvParts
    <3>3. ChoiceOK(d)'
      BY <1>1, <3>2, ChoiceFrame
    <3>4. QED
      BY <3>1, <3>3
  <2>2. QED
    BY <2>1
<1>4. QED
  BY <1>1, <1>2, <1>3, InvParts DEF SearchInv

LEMMA SearchStepKeeps ==
    ASSUME SearchInv, [SearchNext]_searchVars PROVE SearchInv'
<1>1. CASE Refuse \/ MissingProject \/ Lock \/ Conflict \/ UNCHANGED searchVars
  <2>1. UNCHANGED <<registry, search, trail>>
    BY <1>1 DEF Refuse, Fails, MissingProject, Lock, Conflict, searchVars
  <2>2. QED
    BY <2>1, QuietKeeps
<1>2. QED
  BY <1>1, SkipByMarkerKeeps, ReuseStepKeeps, ChooseKeeps, TryCandidateKeeps, GiveUpKeeps DEF SearchNext

LEMMA SearchStart == SearchInit => SearchInv
<1> SUFFICES ASSUME SearchInit PROVE SearchInv
  OBVIOUS
<1>1. registry \in Registries /\ trail = <<>>
  BY DEF SearchInit
<1>2. search.pending = registry.roots /\ search.selected = NoPackages /\ search.expanded = NoPackages
  BY DEF SearchInit
<1>3. NoPackages \in Selections /\ NoPackages \in Expansions /\ DOMAIN NoPackages = {}
  <2>1. {} \in SUBSET Names /\ NoPackages \in [{} -> Versions] /\ NoPackages \in [{} -> SUBSET Extras]
    BY DEF NoPackages
  <2>2. QED
    BY <2>1 DEF Selections, Expansions
<1>4. search \in Searches
  BY <1>1, <1>3, RegistryAssumption DEF SearchInit, Searches
<1>5. Needed(search)
  <2> SUFFICES ASSUME NEW sel \in Selections, NEW exp \in [DOMAIN sel -> SUBSET Extras], Closed(sel, exp),
                      NEW req \in ToSet(registry.roots), Holds(req, {})
               PROVE  Satisfied(req, sel, exp)
    BY <1>2, <1>3 DEF Needed
  <2>1. QED
    BY DemandedBy DEF Closed
<1>6. Met(search)
  <2>1. Offered(NoPackages)
    BY <1>3 DEF Offered
  <2>2. \A req \in Demanded(NoPackages, NoPackages) : req \in ToSet(registry.roots)
    BY <1>3, DemandedBy
  <2>3. QED
    BY <1>2, <2>1, <2>2 DEF Met
<1>7. trail \in Seq(ChoicePoints) /\ DOMAIN trail = {}
  BY <1>1, EmptySeq
<1>8. QED
  BY <1>1, <1>2, <1>4, <1>5, <1>6, <1>7 DEF SearchInv, SearchOK

(* Every reachable search is as SearchInv says.                            *)
THEOREM SearchIsSound == SearchSpec => []SearchInv
<1>1. SearchInv /\ [SearchNext]_searchVars => SearchInv'
  BY SearchStepKeeps
<1>2. QED
  BY SearchStart, <1>1, PTL DEF SearchSpec

-----------------------------------------------------------------------------
(* What is locked *)

(* A lock meets every requirement of the roots, of the selected wheels and of*)
(* their extras, and holds nothing that could be taken away (#search).     *)
THEOREM LockIsRight == SearchSpec => []SelectionIsRight
<1>1. ASSUME SearchInv, outcome = "locked", search.pending = <<>>
      PROVE  SelectionIsRight
  <2> DEFINE selected == search.selected
             expanded == search.expanded
  <2>1. /\ search \in Searches /\ DOMAIN expanded = DOMAIN selected /\ Needed(search) /\ Met(search)
        /\ Offered(selected)
    BY <1>1, InvParts, SearchParts
  <2>2. /\ selected \in Selections /\ DOMAIN selected \subseteq Names
        /\ selected \in [DOMAIN selected -> Versions] /\ expanded \in [DOMAIN selected -> SUBSET Extras]
    BY <2>1, SearchFields
  <2>3. ToSet(search.pending) = {}
    BY <1>1 DEF ToSet
  <2>4. Closed(selected, expanded)
    BY <2>1, <2>3 DEF Met, Closed
  <2>5. ASSUME NEW S \in SUBSET DOMAIN selected, NEW less \in [S -> SUBSET Extras],
               \A n \in S : less[n] \subseteq expanded[n], Closed(Restricted(selected, S), less)
        PROVE  S = DOMAIN selected /\ less = expanded
    <3> DEFINE part == Restricted(selected, S)
    <3>1. DOMAIN part = S /\ part \in [S -> Versions] /\ \A n \in S : part[n] = selected[n]
      BY <2>2 DEF Restricted
    <3>2. part \in Selections
      <4>1. S \in SUBSET Names
        BY <2>2
      <4> HIDE DEF part
      <4>2. QED
        BY <3>1, <4>1 DEF Selections
    <3>3. Offered(part)
      BY <2>1, <3>1 DEF Offered
    <3>4. Agrees(search, part)
      BY <3>1 DEF Agrees
    <3>5. Closed(part, less) /\ less \in [DOMAIN part -> SUBSET Extras]
      BY <2>5, <3>1
    <3> HIDE DEF part
    <3>6. DOMAIN selected \subseteq S /\ \A n \in DOMAIN selected : expanded[n] \subseteq less[n]
      BY <2>1, <3>1, <3>2, <3>3, <3>4, <3>5 DEF Needed
    <3>7. S = DOMAIN selected
      BY <3>6
    <3>8. \A n \in DOMAIN selected : less[n] = expanded[n]
      BY <2>5, <3>6, <3>7
    <3>9. less = expanded
      BY <2>2, <3>7, <3>8
    <3>10. QED
      BY <3>7, <3>9
  <2>6. QED
    BY <2>1, <2>4, <2>5 DEF SelectionIsRight
<1> DEFINE LockedEmpty == outcome = "locked" => search.pending = <<>>
<1>2. SearchInit => LockedEmpty
  BY DEF SearchInit
<1>3. LockedEmpty /\ [SearchNext]_searchVars => LockedEmpty'
  <2> SUFFICES ASSUME LockedEmpty, [SearchNext]_searchVars PROVE LockedEmpty'
    OBVIOUS
  <2>1. CASE Lock \/ Conflict \/ Refuse \/ MissingProject \/ Choose \/ UNCHANGED searchVars
    BY <2>1 DEF Lock, Conflict, Refuse, Fails, MissingProject, Choose, searchVars
  <2>2. CASE SkipByMarker \/ Reuse \/ TryCandidate
    BY <2>2 DEF SkipByMarker, Reuse, TryCandidate, Continues
  <2>3. CASE GiveUp
    BY <2>3 DEF GiveUp
  <2>4. QED
    BY <2>1, <2>2, <2>3 DEF SearchNext
<1>4. SearchInv /\ LockedEmpty => SelectionIsRight
  BY <1>1 DEF SelectionIsRight
<1> HIDE DEF LockedEmpty
<1>5. QED
  BY SearchIsSound, <1>2, <1>3, <1>4, PTL DEF SearchSpec

-----------------------------------------------------------------------------
(* What is refused: no right selection was passed over *)

Right(sel, exp) ==
    sel \in Selections /\ exp \in [DOMAIN sel -> SUBSET Extras] /\ Offered(sel) /\ Closed(sel, exp)

LEMMA MissedNothing ==
    ASSUME NothingMissed, registry.policy = "forbid", NEW sel, NEW exp, Right(sel, exp)
    PROVE  Within(sel)
BY DEF NothingMissed, Right

\* A right selection stays right, and where it was it stays found.
LEMMA RightFrame ==
    ASSUME registry' = registry, NEW sel, NEW exp, Right(sel, exp)'
    PROVE  Right(sel, exp)
<1>1. \A n, v, extras : Dependencies(n, v, extras)' = Dependencies(n, v, extras)
  BY DEF Dependencies, Holds
<1>2. Demanded(sel, exp)' = Demanded(sel, exp)
  BY <1>1 DEF Demanded, Holds
<1>3. QED
  BY <1>2 DEF Right, Selections, Offered, Closed, Satisfied, Usable, OwnersOf

\* A right selection that agrees with the search meets what is asked next.
LEMMA AskedIsMet ==
    ASSUME SearchInv, NEW sel, NEW exp, Right(sel, exp), Agrees(search, sel), search.pending # <<>>,
           Holds(Asked, {})
    PROVE  Satisfied(Asked, sel, exp) /\ DOMAIN search.selected \subseteq DOMAIN sel
<1>1. Needed(search) /\ search.pending \in Seq(Requirements)
  BY InvParts, SearchParts, SearchFields
<1>2. Asked \in ToSet(search.pending)
  BY <1>1, ToSetTail DEF Asked
<1>3. QED
  BY <1>1, <1>2 DEF Needed, Right

(* Every right selection is still to be found after a step: with the search,*)
(* or with a candidate left at some choice point.                          *)
LEMMA NothingMissedStep ==
    ASSUME SearchInv, NothingMissed, [SearchNext]_searchVars PROVE NothingMissed'
<1>1. registry' = registry
  BY DEF SearchNext, SkipByMarker, Refuse, Fails, Reuse, Continues, Choose, MissingProject, TryCandidate,
         GiveUp, Lock, Conflict, searchVars
<1> SUFFICES ASSUME registry.policy = "forbid", NEW sel, NEW exp, Right(sel, exp)
             PROVE  Within(sel)'
  BY <1>1, RightFrame DEF NothingMissed, Right
<1>2. Within(sel)
  BY MissedNothing
<1>3. CASE SkipByMarker \/ Reuse
  <2>1. /\ search'.selected = search.selected /\ outcome = "searching" /\ outcome' = "searching"
        /\ trail' = trail
    BY <1>3, InvParts DEF SkipByMarker, Reuse, Continues, Searching, Searches
  <2>2. QED
    BY <1>2, <2>1 DEF Within, Agrees
<1>4. CASE Refuse
  <2>1. /\ search.pending # <<>> /\ Holds(Asked, {}) /\ Asked.name \in DOMAIN search.selected
        /\ search.selected[Asked.name] \notin Asked.allows
        /\ UNCHANGED <<search, trail>>
    BY <1>4 DEF Refuse, Fails, Searching, IsSelected
  <2>2. ~Agrees(search, sel)
    <3> SUFFICES ASSUME Agrees(search, sel) PROVE FALSE
      OBVIOUS
    <3>1. Satisfied(Asked, sel, exp)
      BY <2>1, AskedIsMet
    <3>2. sel[Asked.name] = search.selected[Asked.name]
      BY <2>1, <3>1 DEF Agrees, Satisfied
    <3>3. QED
      BY <2>1, <3>1, <3>2 DEF Satisfied
  <2>3. QED
    BY <1>2, <2>1, <2>2 DEF Within
<1>5. CASE Choose
  <2> DEFINE new == Len(trail) + 1
             c == trail'[new]
  <2>1. search.pending # <<>> /\ Holds(Asked, {})
    BY <1>5, ChooseMoves
  <2>2. new \in DOMAIN trail' /\ \A k \in DOMAIN trail : k \in DOMAIN trail' /\ trail'[k] = trail[k]
    BY <1>5, ChooseMoves, InvParts
  <2>3. CASE Agrees(search, sel)
    <3>1. Satisfied(Asked, sel, exp)
      BY <2>1, <2>3, AskedIsMet
    <3>2. sel[Asked.name] \in Usable(Asked.name) /\ sel[Asked.name] \in Asked.allows
      BY <3>1 DEF Satisfied, Right, Offered
    <3>3. sel[Asked.name] \in Candidates(Asked)
      BY <3>2 DEF Candidates, Usable
    <3>4. c.from = search /\ c.asked = Asked /\ c.left = Candidates(Asked)
      BY <1>5, ChooseMoves
    <3>5. Agrees(c.from, sel) /\ sel[c.asked.name] \in c.left
      BY <2>3, <3>3, <3>4
    <3>6. \E k \in DOMAIN trail' : Agrees(trail'[k].from, sel) /\ sel[trail'[k].asked.name] \in trail'[k].left
      BY <2>2, <3>5
    <3>7. QED
      BY <3>6 DEF Within, Agrees
  <2>4. CASE ~Agrees(search, sel)
    <3>1. PICK k \in DOMAIN trail : Agrees(trail[k].from, sel) /\ sel[trail[k].asked.name] \in trail[k].left
      BY <1>2, <2>4 DEF Within
    <3>2. k \in DOMAIN trail' /\ trail'[k] = trail[k]
      BY <2>2
    <3>3. QED
      BY <3>1, <3>2 DEF Within, Agrees
  <2>5. QED
    BY <2>3, <2>4
<1>6. CASE TryCandidate
  <2> DEFINE last == Len(trail)
             top == trail[last]
             n == top.asked.name
  <2>1. /\ last \in DOMAIN trail /\ outcome = "backtracking" /\ outcome' = "searching"
    BY <1>6, TryCandidateMoves
  <2>2. PICK v \in top.left :
          /\ trail' = [trail EXCEPT ![last].left = @ \ {v}]
          /\ search'.selected = With(top.from.selected, n, v)
    <3>1. PICK v \in top.left :
            /\ trail' = [trail EXCEPT ![last].left = @ \ {v}]
            /\ search' = [pending |-> Dependencies(n, v, top.asked.extras) \o Tail(top.from.pending),
                          selected |-> With(top.from.selected, n, v),
                          expanded |-> With(top.from.expanded, n, top.asked.extras)]
      BY <1>6, TryCandidateMoves
    <3>2. search'.selected = With(top.from.selected, n, v)
      BY <3>1
    <3>3. QED
      BY <3>1, <3>2
  <2>3. PICK k \in DOMAIN trail : Agrees(trail[k].from, sel) /\ sel[trail[k].asked.name] \in trail[k].left
    BY <1>2, <2>1 DEF Within
  <2>4. trail[k] \in ChoicePoints /\ top \in ChoicePoints /\ trail \in Seq(ChoicePoints)
    BY <2>1, InvParts
  <2>5. /\ DOMAIN trail' = DOMAIN trail
        /\ trail'[k].from = trail[k].from /\ trail'[k].asked = trail[k].asked
        /\ trail'[k].left = IF k = last THEN top.left \ {v} ELSE trail[k].left
    BY <2>1, <2>2, <2>4 DEF ChoicePoints
  <2>6. CASE k = last /\ sel[n] = v
    <3>1. Agrees(top.from, sel)
      BY <2>3, <2>6
    <3>2. \A m \in DOMAIN search'.selected \cap DOMAIN sel : sel[m] = search'.selected[m]
      BY <2>2, <2>6, <3>1 DEF Agrees, With
    <3>3. QED
      BY <2>1, <3>2 DEF Within, Agrees
  <2>7. CASE ~(k = last /\ sel[n] = v)
    <3>1. sel[trail'[k].asked.name] \in trail'[k].left /\ k \in DOMAIN trail'
      BY <2>3, <2>5, <2>7
    <3>2. Agrees(trail'[k].from, sel)
      BY <2>3, <2>5
    <3>3. QED
      BY <3>1, <3>2 DEF Within, Agrees
  <2>8. QED
    BY <2>6, <2>7
<1>7. CASE GiveUp
  <2>1. /\ DOMAIN trail' = DOMAIN trail \ {Len(trail)} /\ \A k \in DOMAIN trail' : trail'[k] = trail[k]
        /\ trail[Len(trail)].left = {} /\ outcome = "backtracking"
    BY <1>7, FrontOfTrail
  <2>2. PICK k \in DOMAIN trail : Agrees(trail[k].from, sel) /\ sel[trail[k].asked.name] \in trail[k].left
    BY <1>2, <2>1 DEF Within
  <2>3. k \in DOMAIN trail' /\ trail'[k] = trail[k]
    BY <2>1, <2>2
  <2>4. QED
    BY <2>2, <2>3 DEF Within, Agrees
<1>8. CASE Conflict
  <2>1. outcome = "backtracking" /\ trail = <<>>
    BY <1>8 DEF Conflict
  <2>2. QED
    BY <1>2, <2>1 DEF Within
<1>9. CASE MissingProject \/ Lock \/ UNCHANGED searchVars
  <2>1. /\ UNCHANGED <<search, trail>>
        /\ outcome \in {"searching", "locked", "noProject"} => outcome' \in {"searching", "locked", "noProject"}
    BY <1>9 DEF MissingProject, Lock, searchVars
  <2>2. QED
    BY <1>2, <2>1 DEF Within, Agrees
<1>10. QED
  BY <1>3, <1>4, <1>5, <1>6, <1>7, <1>8, <1>9 DEF SearchNext

LEMMA NothingMissedStart == SearchInit => NothingMissed
<1> SUFFICES ASSUME SearchInit PROVE NothingMissed
  OBVIOUS
<1>1. outcome = "searching" /\ DOMAIN search.selected = {}
  BY DEF SearchInit, NoPackages
<1>2. QED
  BY <1>1 DEF NothingMissed, Within, Agrees

(* A conflict is reported only when no selection of usable wheels is right *)
(* (resolve, "Package dependency conflict").                               *)
THEOREM ConflictIsFinal == SearchSpec => []ConflictIsReal
<1> DEFINE NowhereLeft == outcome = "conflict" => trail = <<>>
<1>1. SearchInit => NowhereLeft
  BY DEF SearchInit
<1>2. NowhereLeft /\ [SearchNext]_searchVars => NowhereLeft'
  <2> SUFFICES ASSUME NowhereLeft, [SearchNext]_searchVars PROVE NowhereLeft'
    OBVIOUS
  <2>1. CASE Lock \/ Conflict \/ Refuse \/ MissingProject \/ Choose \/ UNCHANGED searchVars
    BY <2>1 DEF Lock, Conflict, Refuse, Fails, MissingProject, Choose, searchVars
  <2>2. CASE SkipByMarker \/ Reuse \/ TryCandidate
    BY <2>2 DEF SkipByMarker, Reuse, TryCandidate, Continues
  <2>3. CASE GiveUp
    BY <2>3 DEF GiveUp
  <2>4. QED
    BY <2>1, <2>2, <2>3 DEF SearchNext
<1>3. SearchInv /\ NothingMissed /\ NowhereLeft => ConflictIsReal
  <2> SUFFICES ASSUME SearchInv, NothingMissed, NowhereLeft, outcome = "conflict",
                      registry.policy = "forbid", NEW S \in SUBSET Names,
                      NEW selected \in [S -> Versions], NEW expanded \in [S -> SUBSET Extras],
                      Offered(selected), Closed(selected, expanded)
               PROVE  FALSE
    BY DEF ConflictIsReal
  <2>1. Right(selected, expanded)
    BY DEF Right, Selections
  <2>2. Within(selected)
    BY <2>1, MissedNothing
  <2>3. DOMAIN trail = {}
    OBVIOUS
  <2>4. QED
    BY <2>2, <2>3 DEF Within
<1>4. SearchInv /\ NothingMissed /\ [SearchNext]_searchVars => NothingMissed'
  BY NothingMissedStep
<1> HIDE DEF NowhereLeft
<1>5. QED
  BY SearchIsSound, NothingMissedStart, <1>1, <1>2, <1>3, <1>4, PTL DEF SearchSpec
-----------------------------------------------------------------------------
(***************************************************************************)
(* ControlSession: what an answer is worth, for any number of requests and *)
(* pages: "not sent" and "try again" are the truth for good, a command     *)
(* runs at most once, and only the current page answers.                   *)
(*                                                                         *)
(* A request moves one way: asked for, waiting at the host, in the bridge's*)
(* queue, with one page, over. The invariant says of each place what may   *)
(* have happened there, and of every answer on its way what it is based on.*)
(***************************************************************************)

-----------------------------------------------------------------------------
(* The inductive invariant *)

Frame == [id : Requests \cup {Fatal}, term : Terminal \cup {NoTerminal}]
Order == [kind : {"request", "cancel"}, id : Requests]
Page == [state : PageStates, cmd : Requests \cup {NoRequest}, term : Terminal \cup {NoTerminal}]

Typed ==
    /\ client \in [Requests -> {"idle", "pending", "cancelling", "settled"}]
    /\ told \in [Requests -> Terminal \cup {NoTerminal}]
    /\ toServer \in Seq(Order) /\ toClient \in Seq(Frame)
    /\ host \in [Requests -> {"new", "waiting", "inPage", "settled"}]
    /\ record \in [Requests -> {"none", "queued", "delivered", "terminal"}]
    /\ owner \in [Requests -> Epochs \cup {NoPage}]
    /\ pageEpoch \in Epochs \cup {NoPage} /\ heldPoll \in Epochs \cup {NoPage}
    /\ page \in [Epochs -> Page]
    /\ runs \in [Requests -> Seq(Epochs)]

\* A request is asked for once, and before the server knows it.
Asks(i, r) == toServer[i].kind = "request" /\ toServer[i].id = r
AskedOnce ==
    \A r \in Requests :
      /\ client[r] = "idle" => host[r] = "new"
      /\ \A i \in 1 .. Len(toServer) : Asks(i, r) =>
           /\ host[r] = "new" /\ client[r] # "idle"
           /\ \A j \in 1 .. Len(toServer) : Asks(j, r) => j = i

\* What the host knows of a request and what the bridge has of it.
HostMatchesBridge ==
    \A r \in Requests :
      /\ host[r] \in {"new", "waiting"} => record[r] = "none"
      /\ host[r] = "inPage" => InBridge(r)
      /\ host[r] = "settled" => record[r] = "terminal"

\* The answer t of page e to request r says what the page did.
Backed(t, r, e) ==
    /\ t \in Terminal
    /\ t.outcome = "notSent" \/ t.retry => runs[r] = <<>>
    /\ t.outcome = "applied" => runs[r] = <<e>>

\* A command goes to one page, which runs it at most once.
OnePage(r) ==
    /\ record[r] \in {"none", "queued"} => runs[r] = <<>> /\ \A e \in Epochs : page[e].cmd # r
    /\ runs[r] = <<>> \/ Len(runs[r]) = 1
    /\ \A e \in Epochs : page[e].cmd = r =>
         /\ owner[r] = e
         /\ page[e].state = "running" => runs[r] = <<>>
         /\ page[e].state = "posting" => Backed(page[e].term, r, e)

PagesFit ==
    /\ \A e \in Epochs :
         /\ page[e].state \in {"booting", "asking", "holding"} => page[e].cmd = NoRequest
         /\ page[e].state \in {"running", "posting"} => page[e].cmd \in Requests
    /\ \A r \in Requests : OnePage(r)

\* Request r is over, and no page did or will do anything for it.
Dead(r) ==
    /\ host[r] = "settled" /\ runs[r] = <<>>
    /\ \A e \in Epochs : page[e].cmd = r => page[e].state # "running"

Truthful(t, r) ==
    /\ t.outcome = "notSent" \/ t.retry => Dead(r)
    /\ t.outcome = "applied" => Len(runs[r]) = 1

\* Every answer, on its way or told, is true.
Answered ==
    \A r \in Requests :
      /\ Truthful(told[r], r)
      /\ \A i \in 1 .. Len(toClient) : toClient[i].id = r => Truthful(toClient[i].term, r)

IInv == Typed /\ AskedOnce /\ HostMatchesBridge /\ PagesFit /\ Answered

-----------------------------------------------------------------------------
(* Finishing requests *)

LEMMA SetToSeqIn ==
    ASSUME NEW S, IsFiniteSet(S)
    PROVE  /\ Cardinality(S) \in Nat
           /\ \A i \in 1 .. Cardinality(S) : SetToSeq(S)[i] \in S
  <1>1. Cardinality(S) \in Nat /\ ExistsBijection(1 .. Cardinality(S), S)
    BY FS_CardinalityType
  <1>2. PICK f : f \in Bijection(1 .. Cardinality(S), S)
    BY <1>1, Fun_ExistsBij
  <1>3. f \in [1 .. Cardinality(S) -> S] /\ IsInjective(f)
    BY <1>2 DEF Bijection, Injection, IsInjective
  <1>4. SetToSeq(S) \in [1 .. Cardinality(S) -> S]
    BY <1>3 DEF SetToSeq
  <1> QED BY <1>1, <1>4

LEMMA FrameRecord ==
    ASSUME NEW r \in Requests, NEW t \in Terminal \cup {NoTerminal}
    PROVE  [id |-> r, term |-> t] \in Frame /\ [id |-> r, term |-> t].id = r
           /\ [id |-> r, term |-> t].term = t
  BY DEF Frame

\* What _finish of S does to the records and to the answers on their way.
LEMMA Finished ==
    ASSUME Typed, NEW S \in SUBSET Requests, NEW term,
           \A r \in S : term[r] \in Terminal, Finish(S, term)
    PROVE  /\ toClient' \in Seq(Frame)
           /\ \A i \in 1 .. Len(toClient') :
                \/ i \in 1 .. Len(toClient) /\ toClient'[i] = toClient[i]
                \/ i \notin 1 .. Len(toClient)
                   /\ \E r \in S : toClient'[i] = [id |-> r, term |-> term[r]]
           /\ record' \in [Requests -> {"none", "queued", "delivered", "terminal"}]
           /\ host' \in [Requests -> {"new", "waiting", "inPage", "settled"}]
           /\ \A r \in S : record'[r] = "terminal" /\ host'[r] = "settled"
           /\ \A r \in Requests \ S : record'[r] = record[r] /\ host'[r] = host[r]
  <1> DEFINE new == [i \in 1 .. Cardinality(S) |->
                        LET r == SetToSeq(S)[i] IN [id |-> r, term |-> term[r]]]
             n == Cardinality(S)
  <1>1. n \in Nat /\ \A i \in 1 .. n : SetToSeq(S)[i] \in S
    BY ControlAssumption, FS_Subset, SetToSeqIn
  <1>2. \A i \in 1 .. n : \E r \in S : new[i] = [id |-> r, term |-> term[r]]
    BY <1>1
  <1>3. \A i \in 1 .. n : new[i] \in Frame
    BY <1>2, FrameRecord
  <1>4. new \in Seq(Frame) /\ Len(new) = n
    <2>1. new = [i \in 1 .. n |-> new[i]]
      OBVIOUS
    <2> HIDE DEF new
    <2> QED BY <1>1, <1>3, <2>1
  <1>5. toClient' = toClient \o new /\ toClient \in Seq(Frame)
    BY DEF Finish, Typed
  <1> HIDE DEF new, n
  <1>6. toClient' \in Seq(Frame) /\ Len(toClient') = Len(toClient) + n
    <2>1. toClient \o new \in Seq(Frame)
      BY <1>4, <1>5, ConcatProperties, Zenon
    <2>2. Len(toClient \o new) = Len(toClient) + n
      BY <1>4, <1>5, ConcatProperties, Zenon
    <2> QED BY <1>5, <2>1, <2>2, Zenon
  <1>7. ASSUME NEW i \in 1 .. Len(toClient')
        PROVE  \/ i \in 1 .. Len(toClient) /\ toClient'[i] = toClient[i]
               \/ i \notin 1 .. Len(toClient)
                  /\ \E r \in S : toClient'[i] = [id |-> r, term |-> term[r]]
    <2>1. CASE i \in 1 .. Len(toClient)
      BY <1>4, <1>5, <2>1
    <2>2. CASE i \notin 1 .. Len(toClient)
      <3>1. i - Len(toClient) \in 1 .. n /\ toClient'[i] = new[i - Len(toClient)]
        BY <1>1, <1>4, <1>5, <1>6, <2>2
      <3> QED BY <1>2, <2>2, <3>1
    <2> QED BY <2>1, <2>2
  <1>8. /\ record' = [r \in Requests |-> IF r \in S THEN "terminal" ELSE record[r]]
        /\ host' = [r \in Requests |-> IF r \in S THEN "settled" ELSE host[r]]
    BY DEF Finish
  <1>9. /\ record' \in [Requests -> {"none", "queued", "delivered", "terminal"}]
        /\ host' \in [Requests -> {"new", "waiting", "inPage", "settled"}]
        /\ \A r \in S : record'[r] = "terminal" /\ host'[r] = "settled"
        /\ \A r \in Requests \ S : record'[r] = record[r] /\ host'[r] = host[r]
    BY <1>8 DEF Typed
  <1> QED BY <1>6, <1>7, <1>9

-----------------------------------------------------------------------------
(* What is true stays true *)

\* What is dead stays so and what ran has run: old answers stay true, and only
\* the new ones have to be looked at.
LEMMA AnswersKept ==
    ASSUME Answered, Typed,
           \A r \in Requests : Dead(r) => Dead(r)',
           \A r \in Requests : Len(runs[r]) = 1 => Len(runs'[r]) = 1,
           \A r \in Requests : \A t : t = told'[r] => t = told[r] \/ Truthful(t, r)',
           \A i \in 1 .. Len(toClient') : \A f : f = toClient'[i] =>
              \/ \E k \in 1 .. Len(toClient) : toClient[k] = f
              \/ f.id \in Requests => Truthful(f.term, f.id)'
    PROVE  Answered'
  <1>1. ASSUME NEW r \in Requests, NEW t, Truthful(t, r)
        PROVE  Truthful(t, r)'
    BY <1>1 DEF Truthful
  <1>2. ASSUME NEW r \in Requests
        PROVE  Truthful(told[r], r)'
    <2>1. PICK t : t = told'[r]
      OBVIOUS
    <2>2. Truthful(t, r)'
      <3>1. CASE t = told[r]
        <4>1. Truthful(t, r)
          BY <3>1 DEF Answered
        <4> QED BY <1>1, <4>1
      <3> QED BY <2>1, <3>1
    <2> QED BY <2>1, <2>2 DEF Truthful
  <1>3. ASSUME NEW r \in Requests, NEW i \in 1 .. Len(toClient'), toClient'[i].id = r
        PROVE  Truthful(toClient[i].term, r)'
    <2>1. PICK f : f = toClient'[i]
      OBVIOUS
    <2>2. Truthful(f.term, r)'
      <3>1. CASE \E k \in 1 .. Len(toClient) : toClient[k] = f
        <4>1. Truthful(f.term, r)
          BY <1>3, <2>1, <3>1 DEF Answered
        <4> QED BY <1>1, <4>1
      <3>2. CASE f.id \in Requests => Truthful(f.term, f.id)'
        BY <1>3, <2>1, <3>2
      <3> QED BY <2>1, <3>1, <3>2
    <2> QED BY <2>1, <2>2 DEF Truthful
  <1> QED BY <1>2, <1>3 DEF Answered

LEMMA AnswersStay ==
    ASSUME Answered, Typed, told' = told,
           \A r \in Requests : Dead(r) => Dead(r)',
           \A r \in Requests : Len(runs[r]) = 1 => Len(runs'[r]) = 1,
           \A i \in 1 .. Len(toClient') : \A f : f = toClient'[i] =>
              \/ i \in 1 .. Len(toClient) /\ toClient[i] = f
              \/ f.id \in Requests => Truthful(f.term, f.id)'
    PROVE  Answered'
  <1>1. \A r \in Requests : \A t : t = told'[r] => t = told[r] \/ Truthful(t, r)'
    OBVIOUS
  <1>2. \A i \in 1 .. Len(toClient') : \A f : f = toClient'[i] =>
          \/ \E k \in 1 .. Len(toClient) : toClient[k] = f
          \/ f.id \in Requests => Truthful(f.term, f.id)'
    BY Zenon
  <1> QED BY <1>1, <1>2, AnswersKept

LEMMA PagesStay ==
    ASSUME PagesFit, UNCHANGED <<record, owner, page, runs>>
    PROVE  PagesFit'
  BY DEF PagesFit, OnePage, Backed

LEMMA HostStays ==
    ASSUME HostMatchesBridge, UNCHANGED <<host, record>>
    PROVE  HostMatchesBridge'
  BY DEF HostMatchesBridge, InBridge

\* No answer is written.
LEMMA AnswersSame ==
    ASSUME Answered, Typed, UNCHANGED <<told, toClient>>,
           \A r \in Requests : Dead(r) => Dead(r)',
           \A r \in Requests : Len(runs[r]) = 1 => Len(runs'[r]) = 1
    PROVE  Answered'
  <1>1. \A i \in 1 .. Len(toClient') : \A f : f = toClient'[i] =>
          i \in 1 .. Len(toClient) /\ toClient[i] = f
    OBVIOUS
  <1> QED BY <1>1, AnswersStay

LEMMA DeadStays ==
    ASSUME UNCHANGED <<host, page, runs>>, NEW r \in Requests, Dead(r)
    PROVE  Dead(r)'
  BY DEF Dead

\* The server's stdin is as it was.
LEMMA AskedStays ==
    ASSUME AskedOnce, toServer' = toServer,
           \A r \in Requests : client'[r] = "idle" <=> client[r] = "idle",
           \A r \in Requests : host[r] = "new" => host'[r] = "new"
    PROVE  AskedOnce'
  BY DEF AskedOnce, Asks

\* A frame is read.
LEMMA AskedTail ==
    ASSUME AskedOnce, Typed, toServer # <<>>, toServer' = Tail(toServer), client' = client,
           \A r \in Requests : host[r] = "new" /\ ~Asks(1, r) => host'[r] = "new"
    PROVE  AskedOnce'
  <1>1. /\ Len(toServer') = Len(toServer) - 1 /\ Len(toServer) \in Nat
        /\ \A i \in 1 .. Len(toServer') : i + 1 \in 1 .. Len(toServer)
                                          /\ toServer'[i] = toServer[i + 1]
    <2>1. toServer \in Seq(Order) /\ Len(toServer) \in Nat
      BY DEF Typed
    <2>2. /\ Len(Tail(toServer)) = Len(toServer) - 1
          /\ \A i \in 1 .. Len(Tail(toServer)) : Tail(toServer)[i] = toServer[i + 1]
      BY <2>1, HeadTailProperties, Zenon
    <2>3. /\ Len(toServer') = Len(toServer) - 1
          /\ \A i \in 1 .. Len(toServer') : toServer'[i] = toServer[i + 1]
      BY <2>2, Zenon
    <2> QED BY <2>1, <2>3
  <1>2. 1 \in 1 .. Len(toServer)
    BY DEF Typed
  <1>3. ASSUME NEW r \in Requests
        PROVE  /\ client'[r] = "idle" => host'[r] = "new"
               /\ \A i \in 1 .. Len(toServer') : Asks(i, r)' =>
                    /\ host'[r] = "new" /\ client'[r] # "idle"
                    /\ \A j \in 1 .. Len(toServer') : Asks(j, r)' => j = i
    <2>1. client[r] = "idle" => ~Asks(1, r)
      BY <1>2 DEF AskedOnce
    <2>2. client'[r] = "idle" => host'[r] = "new"
      BY <2>1 DEF AskedOnce
    <2>3. ASSUME NEW i \in 1 .. Len(toServer'), Asks(i, r)'
          PROVE  /\ host'[r] = "new" /\ client'[r] # "idle"
                 /\ \A j \in 1 .. Len(toServer') : Asks(j, r)' => j = i
      <3>1. \A j \in 1 .. Len(toServer') : Asks(j, r)' => Asks(j + 1, r)
        BY <1>1 DEF Asks
      <3>2. i + 1 \in 1 .. Len(toServer) /\ Asks(i + 1, r)
        BY <1>1, <2>3, <3>1
      <3>3. /\ host[r] = "new" /\ client[r] # "idle"
            /\ \A j \in 1 .. Len(toServer) : Asks(j, r) => j = i + 1
        BY <3>2 DEF AskedOnce
      <3>4. ~Asks(1, r)
        BY <1>2, <3>3
      <3> QED BY <1>1, <3>1, <3>3, <3>4
    <2> QED BY <2>2, <2>3
  <1> QED BY <1>3 DEF AskedOnce

\* S is finished without a page's answer: who has no page may be told "not sent".
LEMMA CutOffKeeps ==
    ASSUME IInv, NEW S \in SUBSET Requests, NEW term,
           \A r \in S : /\ term[r] \in Terminal /\ term[r].outcome # "applied"
                        /\ term[r].outcome = "notSent" \/ term[r].retry
                             => record[r] \in {"none", "queued"},
           Finish(S, term), UNCHANGED <<told, owner, page, runs>>
    PROVE  /\ toClient' \in Seq(Frame)
           /\ record' \in [Requests -> {"none", "queued", "delivered", "terminal"}]
           /\ host' \in [Requests -> {"new", "waiting", "inPage", "settled"}]
           /\ \A r \in Requests \ S : record'[r] = record[r] /\ host'[r] = host[r]
           /\ HostMatchesBridge' /\ PagesFit' /\ Answered'
  <1>1. /\ toClient' \in Seq(Frame)
        /\ \A i \in 1 .. Len(toClient') :
             \/ i \in 1 .. Len(toClient) /\ toClient'[i] = toClient[i]
             \/ i \notin 1 .. Len(toClient)
                /\ \E r \in S : toClient'[i] = [id |-> r, term |-> term[r]]
        /\ record' \in [Requests -> {"none", "queued", "delivered", "terminal"}]
        /\ host' \in [Requests -> {"new", "waiting", "inPage", "settled"}]
        /\ \A r \in S : record'[r] = "terminal" /\ host'[r] = "settled"
        /\ \A r \in Requests \ S : record'[r] = record[r] /\ host'[r] = host[r]
    BY Finished DEF IInv
  <1>2. HostMatchesBridge'
    BY <1>1 DEF IInv, HostMatchesBridge, InBridge
  <1>3. PagesFit'
    <2>1. \A r \in Requests : record'[r] \in {"none", "queued"} => record[r] \in {"none", "queued"}
      BY <1>1
    <2> QED BY <2>1 DEF IInv, PagesFit, OnePage, Backed
  <1>4. Answered'
    <2>1. \A r \in Requests : Dead(r) => Dead(r)'
      BY <1>1 DEF Dead
    <2>2. ASSUME NEW r \in S, term[r].outcome = "notSent" \/ term[r].retry
          PROVE  Dead(r)'
      <3>1. record[r] \in {"none", "queued"}
        BY <2>2
      <3>2. runs[r] = <<>> /\ \A e \in Epochs : page[e].cmd # r
        BY <3>1 DEF IInv, PagesFit, OnePage
      <3> QED BY <1>1, <3>2 DEF Dead
    <2>3. \A r \in S : Truthful(term[r], r)'
      BY <2>2 DEF Truthful
    <2>4. ASSUME NEW i \in 1 .. Len(toClient'), NEW f, f = toClient'[i]
          PROVE  \/ i \in 1 .. Len(toClient) /\ toClient[i] = f
                 \/ f.id \in Requests => Truthful(f.term, f.id)'
      <3>1. CASE i \in 1 .. Len(toClient) /\ toClient'[i] = toClient[i]
        BY <2>4, <3>1
      <3>2. CASE \E r \in S : toClient'[i] = [id |-> r, term |-> term[r]]
        <4>1. PICK r \in S : f = [id |-> r, term |-> term[r]]
          BY <2>4, <3>2
        <4>2. f.id = r /\ f.term = term[r]
          BY <4>1
        <4> QED BY <2>3, <4>2
      <3> QED BY <1>1, <3>1, <3>2
    <2> QED BY <2>1, <2>4, AnswersStay DEF IInv
  <1> QED BY <1>1, <1>2, <1>3, <1>4

-----------------------------------------------------------------------------
(* The client *)

\* A frame goes on the server's stdin: a request only of an id never used.
LEMMA ClientSends ==
    ASSUME IInv, NEW m \in Order, NEW s \in {"pending", "cancelling"},
           client' = [client EXCEPT ![m.id] = s], toServer' = Append(toServer, m),
           m.kind = "request" => client[m.id] = "idle",
           told' = told, toClient' = toClient, host' = host, record' = record, owner' = owner,
           pageEpoch' = pageEpoch, heldPoll' = heldPoll, page' = page, runs' = runs
    PROVE  IInv'
  <1>0. toServer \in Seq(Order) /\ Len(toServer) \in Nat
    BY DEF IInv, Typed
  <1>1. /\ Len(toServer') = Len(toServer) + 1
        /\ toServer'[Len(toServer) + 1] = m
        /\ \A i \in 1 .. Len(toServer) : toServer'[i] = toServer[i]
        /\ toServer' \in Seq(Order)
    BY <1>0
  <1> DEFINE r == m.id
  <1>2. r \in Requests /\ m.kind \in {"request", "cancel"}
    BY DEF Order
  <1> HIDE DEF r
  <1>6. client' = [client EXCEPT ![r] = s]
    BY DEF r
  <1>7. Typed'
    <2>1. client' \in [Requests -> {"idle", "pending", "cancelling", "settled"}]
      BY <1>2, <1>6 DEF IInv, Typed
    <2> QED BY <1>1, <2>1 DEF IInv, Typed
  <1>3. AskedOnce'
    <2> SUFFICES ASSUME NEW q \in Requests
                 PROVE  /\ client'[q] = "idle" => host'[q] = "new"
                        /\ \A i \in 1 .. Len(toServer') : Asks(i, q)' =>
                             /\ host'[q] = "new" /\ client'[q] # "idle"
                             /\ \A j \in 1 .. Len(toServer') : Asks(j, q)' => j = i
      BY DEF AskedOnce
    <2>1. /\ client'[r] = s /\ \A p \in Requests \ {r} : client'[p] = client[p]
          /\ s # "idle" /\ host' = host
      BY <1>2, <1>6 DEF IInv, Typed
    <2>2. \A i \in 1 .. Len(toServer') :
            Asks(i, q)' => \/ i \in 1 .. Len(toServer) /\ Asks(i, q)
                           \/ i = Len(toServer) + 1 /\ q = r /\ m.kind = "request"
      BY <1>0, <1>1 DEF Asks, r
    <2>3. q = r /\ m.kind = "request" =>
            host[q] = "new" /\ \A i \in 1 .. Len(toServer) : ~Asks(i, q)
      BY DEF IInv, AskedOnce, r
    <2>4. /\ client[q] = "idle" => host[q] = "new"
          /\ \A i \in 1 .. Len(toServer) : Asks(i, q) =>
               /\ host[q] = "new" /\ client[q] # "idle"
               /\ \A j \in 1 .. Len(toServer) : Asks(j, q) => j = i
      BY DEF IInv, AskedOnce
    <2> QED BY <1>0, <2>1, <2>2, <2>3, <2>4
  <1>4. PagesFit' /\ HostMatchesBridge'
    BY PagesStay, HostStays DEF IInv
  <1>5. Answered'
    BY DeadStays, AnswersSame DEF IInv
  <1> QED BY <1>7, <1>3, <1>4, <1>5 DEF IInv

\* The client reads a frame, or hears no more: an answer it notes was on its way.
LEMMA ClientHears ==
    ASSUME IInv, client' \in [Requests -> {"idle", "pending", "cancelling", "settled"}],
           \A r \in Requests : client'[r] = "idle" => client[r] = "idle",
           told' \in [Requests -> Terminal \cup {NoTerminal}],
           \A r \in Requests : \/ told'[r] = told[r] \/ told'[r] = Answer("outcomeUnknown", FALSE)
                               \/ \E k \in 1 .. Len(toClient) : toClient[k] = [id |-> r, term |-> told'[r]],
           \/ toClient' = toClient
           \/ toClient # <<>> /\ toClient' = Tail(toClient),
           UNCHANGED <<toServer, host, record, owner, pageEpoch, heldPoll, page, runs>>
    PROVE  IInv'
  <1>1. /\ toClient' \in Seq(Frame)
        /\ \A i \in 1 .. Len(toClient') : \E k \in 1 .. Len(toClient) : toClient[k] = toClient'[i]
    <2>1. toClient \in Seq(Frame)
      BY DEF IInv, Typed
    <2>2. CASE toClient' = toClient
      BY <2>1, <2>2
    <2>3. CASE toClient # <<>> /\ toClient' = Tail(toClient)
      <3>1. /\ Tail(toClient) \in Seq(Frame) /\ Len(Tail(toClient)) = Len(toClient) - 1
            /\ \A i \in 1 .. Len(Tail(toClient)) : Tail(toClient)[i] = toClient[i + 1]
        BY <2>1, <2>3, HeadTailProperties, Zenon
      <3>2. Len(toClient) \in Nat
        BY <2>1
      <3>3. \A i \in 1 .. Len(Tail(toClient)) : i + 1 \in 1 .. Len(toClient)
        BY <3>1, <3>2
      <3> QED BY <2>3, <3>1, <3>3, Zenon
    <2> QED BY <2>2, <2>3
  <1>2. Typed'
    BY <1>1 DEF IInv, Typed
  <1>3. AskedOnce'
    <2>1. \A r \in Requests, i \in 1 .. Len(toServer) : Asks(i, r)' <=> Asks(i, r)
      BY DEF Asks
    <2> QED BY <2>1 DEF IInv, AskedOnce
  <1>4. PagesFit' /\ HostMatchesBridge'
    BY PagesStay, HostStays DEF IInv
  <1>5. Answered'
    <2>1. \A r \in Requests : Dead(r) => Dead(r)'
      BY DeadStays
    <2>2. \A r \in Requests : Len(runs[r]) = 1 => Len(runs'[r]) = 1
      OBVIOUS
    <2>3. ASSUME NEW r \in Requests, NEW t, t = told'[r]
          PROVE  t = told[r] \/ Truthful(t, r)'
      <3>1. CASE t = Answer("outcomeUnknown", FALSE)
        <4>1. t.outcome = "outcomeUnknown" /\ t.retry = FALSE
          BY <3>1 DEF Answer
        <4> QED BY <4>1 DEF Truthful
      <3>2. CASE \E k \in 1 .. Len(toClient) : toClient[k] = [id |-> r, term |-> t]
        <4>1. Truthful(t, r)
          BY <3>2 DEF IInv, Answered
        <4> QED BY <2>1, <4>1 DEF Truthful
      <3> QED BY <2>3, <3>1, <3>2
    <2>4. \A i \in 1 .. Len(toClient') : \A f : f = toClient'[i] =>
              \/ \E k \in 1 .. Len(toClient) : toClient[k] = f
              \/ f.id \in Requests => Truthful(f.term, f.id)'
      BY <1>1, Zenon
    <2> QED BY <2>1, <2>2, <2>3, <2>4, AnswersKept DEF IInv
  <1> QED BY <1>2, <1>3, <1>4, <1>5 DEF IInv

\* Whoever still waits is told that nobody knows.
LEMMA LosingConnection ==
    ASSUME IInv, LoseConnection,
           toClient' = toClient \/ (toClient # <<>> /\ toClient' = Tail(toClient)),
           UNCHANGED <<toServer, host, record, owner, pageEpoch, heldPoll, page, runs>>
    PROVE  IInv'
  <1>1. Answer("outcomeUnknown", FALSE) \in Terminal
    BY DEF Answer, Terminal, Outcomes
  <1>2. /\ client' \in [Requests -> {"idle", "pending", "cancelling", "settled"}]
        /\ \A r \in Requests : client'[r] = "idle" => client[r] = "idle"
    BY DEF LoseConnection, IInv, Typed
  <1>3. /\ told' \in [Requests -> Terminal \cup {NoTerminal}]
        /\ \A r \in Requests : told'[r] = told[r] \/ told'[r] = Answer("outcomeUnknown", FALSE)
    BY <1>1 DEF LoseConnection, IInv, Typed
  <1> QED BY <1>2, <1>3, ClientHears

LEMMA ClientKeeps ==
    ASSUME IInv, ClientStep
    PROVE  IInv'
  <1>1. ASSUME NEW r \in Requests, ClientRequest(r)
        PROVE  IInv'
    <2> DEFINE m == [kind |-> "request", id |-> r]
    <2>1. m \in Order /\ m.id = r /\ m.kind = "request"
      BY DEF Order
    <2>2. /\ client' = [client EXCEPT ![r] = "pending"] /\ toServer' = Append(toServer, m)
          /\ client[r] = "idle"
          /\ told' = told /\ toClient' = toClient /\ host' = host /\ record' = record
          /\ owner' = owner /\ pageEpoch' = pageEpoch /\ heldPoll' = heldPoll
          /\ page' = page /\ runs' = runs
      BY <1>1 DEF ClientRequest, bridgeVars, hostVars
    <2>3. m.kind = "request" => client[m.id] = "idle"
      BY <2>1, <2>2
    <2>4. \E s \in {"pending", "cancelling"} : client' = [client EXCEPT ![m.id] = s]
      BY <2>1, <2>2
    <2> HIDE DEF m
    <2> QED BY <2>1, <2>2, <2>3, <2>4, ClientSends, Zenon
  <1>2. ASSUME NEW r \in Requests, ClientDeadline(r)
        PROVE  IInv'
    <2> DEFINE m == [kind |-> "cancel", id |-> r]
    <2>1. m \in Order /\ m.id = r /\ m.kind = "cancel"
      BY DEF Order
    <2>2. /\ client' = [client EXCEPT ![r] = "cancelling"] /\ toServer' = Append(toServer, m)
          /\ client[r] = "pending"
          /\ told' = told /\ toClient' = toClient /\ host' = host /\ record' = record
          /\ owner' = owner /\ pageEpoch' = pageEpoch /\ heldPoll' = heldPoll
          /\ page' = page /\ runs' = runs
      BY <1>2 DEF ClientDeadline, bridgeVars, hostVars
    <2>3. m.kind = "request" => client[m.id] = "idle"
      BY <2>1, <2>2
    <2>4. \E s \in {"pending", "cancelling"} : client' = [client EXCEPT ![m.id] = s]
      BY <2>1, <2>2
    <2> HIDE DEF m
    <2> QED BY <2>1, <2>2, <2>3, <2>4, ClientSends, Zenon
  <1>3. CASE ClientGivesUp
    BY <1>3, LosingConnection DEF ClientGivesUp, bridgeVars, hostVars
  <1>4. CASE ClientSeesEnd
    BY <1>4, LosingConnection DEF ClientSeesEnd, bridgeVars, hostVars
  <1>5. CASE ClientKills
    <2>1. UNCHANGED <<client, told, toServer, toClient, host, record, owner, pageEpoch, heldPoll, page, runs>>
      BY <1>5 DEF ClientKills, clientVars, bridgeVars, hostVars
    <2>2. \A r \in Requests : told'[r] = told[r] /\ (client'[r] = "idle" => client[r] = "idle")
      BY <2>1
    <2> QED BY <2>1, <2>2, ClientHears DEF IInv, Typed
  <1>6. CASE ClientReads
    <2> DEFINE f == Head(toClient)
    <2>1. /\ toClient # <<>> /\ toClient' = Tail(toClient)
          /\ UNCHANGED <<toServer, host, record, owner, pageEpoch, heldPoll, page, runs>>
      BY <1>6 DEF ClientReads, bridgeVars, hostVars
    <2>2. toClient \in Seq(Frame) /\ f \in Frame /\ 1 \in 1 .. Len(toClient) /\ f = toClient[1]
      BY <2>1 DEF IInv, Typed
    <2>3. CASE f.id = Fatal
      BY <1>6, <2>1, <2>3, LosingConnection DEF ClientReads
    <2>4. CASE f.id # Fatal
      <3>1. /\ client' = [client EXCEPT ![f.id] = "settled"]
            /\ told' = [told EXCEPT ![f.id] = f.term]
        BY <1>6, <2>4 DEF ClientReads
      <3>2. f.id \in Requests /\ f.term \in Terminal \cup {NoTerminal}
            /\ f = [id |-> f.id, term |-> f.term]
        BY <2>2, <2>4 DEF Frame
      <3> HIDE DEF f
      <3>3. /\ client' \in [Requests -> {"idle", "pending", "cancelling", "settled"}]
            /\ \A r \in Requests : client'[r] = "idle" => client[r] = "idle"
        BY <3>1 DEF IInv, Typed
      <3>4. /\ told' \in [Requests -> Terminal \cup {NoTerminal}]
            /\ told'[f.id] = f.term /\ \A r \in Requests \ {f.id} : told'[r] = told[r]
        BY <3>1, <3>2 DEF IInv, Typed
      <3>5. \A r \in Requests : \/ told'[r] = told[r]
                                \/ \E k \in 1 .. Len(toClient) : toClient[k] = [id |-> r, term |-> told'[r]]
        BY <2>2, <3>2, <3>4
      <3> QED BY <2>1, <3>3, <3>4, <3>5, ClientHears
    <2> QED BY <2>3, <2>4
  <1> QED BY <1>1, <1>2, <1>3, <1>4, <1>5, <1>6 DEF ClientStep

-----------------------------------------------------------------------------
(* The server *)

LEMMA AnswerFields ==
    ASSUME NEW o \in Outcomes, NEW b \in BOOLEAN
    PROVE  Answer(o, b) \in Terminal /\ Answer(o, b).outcome = o /\ Answer(o, b).retry = b
  BY DEF Answer, Terminal

LEMMA CutOffFields ==
    ASSUME NEW r
    PROVE  /\ CutOff(r) \in Terminal /\ CutOff(r).outcome # "applied" /\ ~CutOff(r).retry
           /\ CutOff(r).outcome = "notSent" => record[r] # "delivered"
  <1>1. CASE record[r] = "delivered"
    BY <1>1, AnswerFields DEF CutOff, Outcomes
  <1>2. CASE record[r] # "delivered"
    BY <1>2, AnswerFields DEF CutOff, Outcomes
  <1> QED BY <1>1, <1>2

\* Requests of the bridge's, or one it never got, are cut off.
LEMMA FinishCutOffKeeps ==
    ASSUME IInv, NEW S \in SUBSET Requests, FinishCutOff(S),
           \A r \in S : host[r] # "new" /\ record[r] # "terminal",
           client' = client, told' = told, owner' = owner, page' = page, runs' = runs,
           pageEpoch' = pageEpoch, heldPoll' \in Epochs \cup {NoPage},
           toServer' = toServer \/ (toServer # <<>> /\ toServer' = Tail(toServer))
    PROVE  IInv'
  <1> DEFINE term == [r \in S |-> CutOff(r)]
  <1>1. \A r \in S : record[r] \in {"none", "queued", "delivered"}
    BY DEF IInv, Typed
  <1>2. \A r \in S : /\ term[r] \in Terminal /\ term[r].outcome # "applied"
                     /\ term[r].outcome = "notSent" \/ term[r].retry
                          => record[r] \in {"none", "queued"}
    BY <1>1, CutOffFields
  <1>3. Finish(S, term)
    BY DEF FinishCutOff
  <1> HIDE DEF term
  <1>4. /\ toClient' \in Seq(Frame)
        /\ record' \in [Requests -> {"none", "queued", "delivered", "terminal"}]
        /\ host' \in [Requests -> {"new", "waiting", "inPage", "settled"}]
        /\ \A r \in Requests \ S : record'[r] = record[r] /\ host'[r] = host[r]
        /\ HostMatchesBridge' /\ PagesFit' /\ Answered'
    BY <1>2, <1>3, CutOffKeeps
  <1>5. toServer' \in Seq(Order)
    <2>1. toServer \in Seq(Order)
      BY DEF IInv, Typed
    <2> QED BY <2>1, HeadTailProperties
  <1>6. Typed'
    BY <1>4, <1>5 DEF IInv, Typed
  <1>7. \A r \in Requests : host[r] = "new" => host'[r] = "new"
    BY <1>4
  <1>8. AskedOnce'
    BY <1>7, AskedStays, AskedTail DEF IInv
  <1> QED BY <1>4, <1>6, <1>8 DEF IInv

LEMMA InBridgeIsAsked ==
    ASSUME IInv, NEW r \in Requests, InBridge(r)
    PROVE  host[r] = "inPage" /\ record[r] # "terminal"
  BY DEF IInv, Typed, HostMatchesBridge, InBridge

LEMMA ServerReadsKeeps ==
    ASSUME IInv, ServerReads
    PROVE  IInv'
  <1> DEFINE f == Head(toServer)
             r == f.id
  <1>1. /\ toServer # <<>> /\ toServer' = Tail(toServer)
        /\ UNCHANGED <<client, told, owner, page, runs, pageEpoch, heldPoll>>
    BY DEF ServerReads, clientVars
  <1>2. f \in Order /\ r \in Requests /\ f = toServer[1] /\ 1 \in 1 .. Len(toServer)
        /\ toServer' \in Seq(Order)
    <2>1. toServer \in Seq(Order)
      BY DEF IInv, Typed
    <2>2. f \in Order /\ Tail(toServer) \in Seq(Order)
      BY <1>1, <2>1, HeadTailProperties
    <2>3. f = toServer[1] /\ 1 \in 1 .. Len(toServer)
      BY <1>1, <2>1
    <2>4. r \in Requests
      BY <2>2 DEF Order
    <2> QED BY <1>1, <2>2, <2>3, <2>4
  <1>3. CASE f.kind = "request" /\ host' = [host EXCEPT ![r] = "waiting"]
             /\ UNCHANGED <<toClient, record>>
    <2>1. Asks(1, r) /\ host[r] = "new"
      BY <1>2, <1>3 DEF IInv, AskedOnce, Asks
    <2>2. \A q \in Requests : host[q] = "new" /\ ~Asks(1, q) => host'[q] = "new"
      BY <2>1, <1>3 DEF IInv, Typed
    <2>3. AskedOnce'
      BY <1>1, <2>2, AskedTail DEF IInv
    <2>4. Typed'
      BY <1>1, <1>2, <1>3 DEF IInv, Typed
    <2>5. HostMatchesBridge'
      BY <1>2, <1>3, <2>1 DEF IInv, Typed, HostMatchesBridge, InBridge
    <2>6. PagesFit'
      BY <1>1, <1>3, PagesStay DEF IInv
    <2>7. \A q \in Requests : Dead(q) => Dead(q)'
      BY <1>1, <1>3, <2>1 DEF IInv, Typed, Dead
    <2>8. Answered'
      BY <1>1, <1>3, <2>7, AnswersSame DEF IInv
    <2> QED BY <2>3, <2>4, <2>5, <2>6, <2>8 DEF IInv
  <1>4. CASE f.kind = "cancel" /\ InBridge(r) /\ FinishCutOff({r})
    BY <1>1, <1>2, <1>4, InBridgeIsAsked, FinishCutOffKeeps DEF IInv, Typed
  <1>5. CASE f.kind = "cancel" /\ UNCHANGED <<toClient, host, record>>
    <2>1. Typed'
      BY <1>1, <1>2, <1>5 DEF IInv, Typed
    <2>2. AskedOnce'
      BY <1>1, <1>5, AskedTail DEF IInv
    <2>3. HostMatchesBridge' /\ PagesFit'
      BY <1>1, <1>5, HostStays, PagesStay DEF IInv
    <2>4. Answered'
      BY <1>1, <1>5, DeadStays, AnswersSame DEF IInv
    <2> QED BY <2>1, <2>2, <2>3, <2>4 DEF IInv
  <1> QED BY <1>3, <1>4, <1>5, Zenon DEF ServerReads, hostVars

LEMMA CommandTimeoutKeeps ==
    ASSUME IInv, NEW r \in Requests, CommandTimeout(r)
    PROVE  IInv'
  <1> DEFINE term == [q \in {r} |-> IF record[q] = "delivered" THEN Answer("outcomeUnknown", FALSE)
                                    ELSE Answer("notSent", TRUE)]
  <1>1. Finish({r}, term) /\ InBridge(r)
        /\ UNCHANGED <<client, told, toServer, owner, page, runs, pageEpoch, heldPoll>>
    BY DEF CommandTimeout, clientVars
  <1>2. \A q \in {r} : /\ term[q] \in Terminal /\ term[q].outcome # "applied"
                       /\ term[q].outcome = "notSent" \/ term[q].retry
                            => record[q] \in {"none", "queued"}
    <2>1. CASE record[r] = "delivered"
      BY <2>1, AnswerFields DEF Outcomes
    <2>2. CASE record[r] = "queued"
      BY <2>2, AnswerFields DEF Outcomes
    <2> QED BY <1>1, <2>1, <2>2 DEF InBridge
  <1> HIDE DEF term
  <1>3. /\ toClient' \in Seq(Frame)
        /\ record' \in [Requests -> {"none", "queued", "delivered", "terminal"}]
        /\ host' \in [Requests -> {"new", "waiting", "inPage", "settled"}]
        /\ \A q \in Requests \ {r} : record'[q] = record[q] /\ host'[q] = host[q]
        /\ HostMatchesBridge' /\ PagesFit' /\ Answered'
    BY <1>1, <1>2, CutOffKeeps
  <1>4. Typed'
    BY <1>1, <1>3 DEF IInv, Typed
  <1>5. AskedOnce'
    BY <1>1, <1>3, InBridgeIsAsked, AskedStays DEF IInv
  <1> QED BY <1>3, <1>4, <1>5 DEF IInv

\* Nothing the invariant speaks of has changed, except which poll is held.
LEMMA NothingChanges ==
    ASSUME IInv, heldPoll' \in Epochs \cup {NoPage},
           UNCHANGED <<client, told, toServer, toClient, host, record, owner, pageEpoch, page, runs>>
    PROVE  IInv'
  <1>1. Typed'
    BY DEF IInv, Typed
  <1>2. AskedOnce' /\ HostMatchesBridge' /\ PagesFit'
    BY AskedStays, HostStays, PagesStay DEF IInv
  <1>3. Answered'
    BY DeadStays, AnswersSame DEF IInv
  <1> QED BY <1>1, <1>2, <1>3 DEF IInv

LEMMA ShutdownKeeps ==
    ASSUME IInv, Shutdown
    PROVE  IInv'
  <1>1. PICK S : S = {r \in Requests : InBridge(r)}
    OBVIOUS
  <1>2. FinishCutOff(S) /\ S \in SUBSET Requests
    BY <1>1 DEF Shutdown
  <1>3. \A r \in S : host[r] # "new" /\ record[r] # "terminal"
    BY <1>1, InBridgeIsAsked
  <1>4. /\ client' = client /\ told' = told /\ owner' = owner /\ page' = page /\ runs' = runs
        /\ pageEpoch' = pageEpoch /\ toServer' = toServer /\ heldPoll' = heldPoll
    BY DEF Shutdown, clientVars
  <1>5. heldPoll' \in Epochs \cup {NoPage}
    BY <1>4 DEF IInv, Typed
  <1> QED BY <1>2, <1>3, <1>4, <1>5, FinishCutOffKeeps, Zenon

LEMMA FinishShutdownKeeps ==
    ASSUME IInv, FinishShutdown
    PROVE  IInv'
  <1>1. /\ UNCHANGED <<client, told, toServer, toClient, host, record, owner, pageEpoch, page, runs>>
        /\ heldPoll' = NoPage
    BY DEF FinishShutdown, clientVars, hostVars
  <1> QED BY <1>1, NothingChanges

\* Command r goes to page e, or to nobody who still listens on the poll of e.
LEMMA GivingKeeps ==
    ASSUME IInv, NEW r \in Requests, NEW e \in Epochs,
           record[r] \in {"none", "queued"}, host[r] \in {"waiting", "inPage"},
           record' = [record EXCEPT ![r] = "delivered"],
           host' = [host EXCEPT ![r] = "inPage"],
           owner' = [owner EXCEPT ![r] = e],
           \/ page' = page
           \/ /\ page[e].state \in {"holding", "asking"}
              /\ page' = [page EXCEPT ![e].state = "running", ![e].cmd = r],
           heldPoll' \in Epochs \cup {NoPage},
           UNCHANGED <<client, told, toServer, toClient, pageEpoch, runs>>
    PROVE  IInv'
  <1>1. /\ record' \in [Requests -> {"none", "queued", "delivered", "terminal"}]
        /\ host' \in [Requests -> {"new", "waiting", "inPage", "settled"}]
        /\ owner' \in [Requests -> Epochs \cup {NoPage}]
        /\ record'[r] = "delivered" /\ host'[r] = "inPage" /\ owner'[r] = e
        /\ \A q \in Requests \ {r} : /\ record'[q] = record[q] /\ host'[q] = host[q]
                                     /\ owner'[q] = owner[q]
    BY DEF IInv, Typed
  <1>2. /\ page' \in [Epochs -> Page]
        /\ \A p \in Epochs \ {e} : page'[p] = page[p]
        /\ page'[e] = page[e] \/ (page'[e].state = "running" /\ page'[e].cmd = r)
    <2>1. CASE page' = page
      BY <2>1 DEF IInv, Typed
    <2>2. CASE page' = [page EXCEPT ![e].state = "running", ![e].cmd = r]
      <3>1. page \in [Epochs -> Page] /\ page[e] \in Page
        BY DEF IInv, Typed
      <3> DEFINE g == [page[e] EXCEPT !.state = "running", !.cmd = r]
      <3>2. g \in Page /\ g.state = "running" /\ g.cmd = r
        BY <3>1 DEF Page, PageStates
      <3>3. page' = [page EXCEPT ![e] = g]
        BY <2>2
      <3> HIDE DEF g
      <3> QED BY <3>1, <3>2, <3>3
    <2> QED BY <2>1, <2>2
  <1>3. runs[r] = <<>> /\ \A p \in Epochs : page[p].cmd # r
    BY DEF IInv, PagesFit, OnePage
  <1>4. Typed'
    BY <1>1, <1>2 DEF IInv, Typed
  <1>5. AskedOnce'
    BY <1>1, AskedStays DEF IInv
  <1>6. HostMatchesBridge'
    BY <1>1 DEF IInv, HostMatchesBridge, InBridge
  <1>7. PagesFit'
    <2>1. \A p \in Epochs :
            /\ page'[p].state \in {"booting", "asking", "holding"} => page'[p].cmd = NoRequest
            /\ page'[p].state \in {"running", "posting"} => page'[p].cmd \in Requests
      BY <1>2 DEF IInv, PagesFit
    <2>2. ASSUME NEW q \in Requests \ {r}
          PROVE  OnePage(q)'
      <3>1. OnePage(q) /\ record'[q] = record[q] /\ owner'[q] = owner[q] /\ runs' = runs
        BY <1>1 DEF IInv, PagesFit
      <3>2. \A p \in Epochs : page'[p].cmd = q => page'[p] = page[p]
        BY <1>2
      <3> QED BY <3>1, <3>2 DEF OnePage, Backed
    <2>3. OnePage(r)'
      <3>1. \A p \in Epochs : page'[p].cmd = r => p = e /\ page'[p].state = "running"
        BY <1>2, <1>3
      <3> QED BY <1>1, <1>3, <3>1 DEF OnePage
    <2> QED BY <2>1, <2>2, <2>3 DEF PagesFit
  <1>8. Answered'
    <2>1. ~Dead(r)
      BY DEF Dead
    <2>2. ASSUME NEW q \in Requests \ {r}, Dead(q)
          PROVE  Dead(q)'
      <3>1. \A p \in Epochs : page'[p].cmd = q => page'[p] = page[p]
        BY <1>2
      <3> QED BY <1>1, <2>2, <3>1 DEF Dead
    <2> QED BY <2>1, <2>2, AnswersSame DEF IInv
  <1> QED BY <1>4, <1>5, <1>6, <1>7, <1>8 DEF IInv

\* A request that waits for a page is queued.
LEMMA QueueingKeeps ==
    ASSUME IInv, NEW r \in Requests, host[r] = "waiting",
           record' = [record EXCEPT ![r] = "queued"],
           host' = [host EXCEPT ![r] = "inPage"],
           UNCHANGED <<client, told, toServer, toClient, owner, pageEpoch, heldPoll, page, runs>>
    PROVE  IInv'
  <1>1. /\ record' \in [Requests -> {"none", "queued", "delivered", "terminal"}]
        /\ host' \in [Requests -> {"new", "waiting", "inPage", "settled"}]
        /\ record'[r] = "queued" /\ host'[r] = "inPage"
        /\ \A q \in Requests \ {r} : record'[q] = record[q] /\ host'[q] = host[q]
    BY DEF IInv, Typed
  <1>2. record[r] = "none"
    BY DEF IInv, HostMatchesBridge
  <1>3. Typed'
    BY <1>1 DEF IInv, Typed
  <1>4. AskedOnce'
    BY <1>1, AskedStays DEF IInv
  <1>5. HostMatchesBridge'
    BY <1>1 DEF IInv, HostMatchesBridge, InBridge
  <1>6. PagesFit'
    <2>1. \A q \in Requests : record'[q] \in {"none", "queued"} => record[q] \in {"none", "queued"}
      BY <1>1, <1>2
    <2> QED BY <2>1 DEF IInv, PagesFit, OnePage, Backed
  <1>7. Answered'
    <2>1. \A q \in Requests : Dead(q) => Dead(q)'
      BY <1>1 DEF Dead
    <2> QED BY <2>1, AnswersSame DEF IInv
  <1> QED BY <1>3, <1>4, <1>5, <1>6, <1>7 DEF IInv

LEMMA DispatchKeeps ==
    ASSUME IInv, NEW r \in Requests, Dispatch(r)
    PROVE  IInv'
  <1>1. host[r] = "waiting" /\ UNCHANGED <<client, told, toServer, pageEpoch, runs>>
    BY DEF Dispatch, clientVars
  <1>2. record[r] = "none"
    BY <1>1 DEF IInv, HostMatchesBridge
  <1>3. heldPoll \in Epochs \cup {NoPage}
    BY DEF IInv, Typed
  <1>4. CASE FinishCutOff({r}) /\ UNCHANGED <<owner, heldPoll, page>>
    BY <1>1, <1>2, <1>3, <1>4, FinishCutOffKeeps
  <1>5. CASE /\ host' = [host EXCEPT ![r] = "inPage"]
             /\ heldPoll # NoPage /\ heldPoll' = NoPage /\ UNCHANGED toClient
             /\ IF page[heldPoll].state = "holding" THEN Deliver(r, heldPoll)
                ELSE /\ record' = [record EXCEPT ![r] = "delivered"]
                     /\ owner' = [owner EXCEPT ![r] = heldPoll]
                     /\ UNCHANGED page
    <2>1. PICK e \in Epochs : e = heldPoll
      BY <1>3, <1>5
    <2>2. /\ record' = [record EXCEPT ![r] = "delivered"] /\ owner' = [owner EXCEPT ![r] = e]
          /\ \/ page' = page
             \/ /\ page[e].state \in {"holding", "asking"}
                /\ page' = [page EXCEPT ![e].state = "running", ![e].cmd = r]
      BY <1>5, <2>1 DEF Deliver
    <2> QED BY <1>1, <1>2, <1>5, <2>2, GivingKeeps
  <1>6. CASE /\ host' = [host EXCEPT ![r] = "inPage"]
             /\ record' = [record EXCEPT ![r] = "queued"]
             /\ UNCHANGED <<toClient, owner, heldPoll, page>>
    BY <1>1, <1>6, QueueingKeeps
  <1> QED BY <1>4, <1>5, <1>6 DEF Dispatch

-----------------------------------------------------------------------------
(* The pages *)

\* Page p is as it was, or has nothing to run and no answer to post.
LetGo(p) ==
    \/ page'[p] = page[p]
    \/ page'[p].state = "gone" /\ page'[p].cmd = page[p].cmd
    \/ page'[p].state \in {"asking", "holding"} /\ page'[p].cmd = NoRequest

LEMMA PagesLetGo ==
    ASSUME IInv, owner' = owner, runs' = runs, \A p \in Epochs : LetGo(p),
           \A r \in Requests : record'[r] \in {"none", "queued"} => record[r] \in {"none", "queued"},
           \A r \in Requests : host[r] = "settled" => host'[r] = "settled"
    PROVE  PagesFit' /\ \A r \in Requests : Dead(r) => Dead(r)'
  <1>1. NoRequest \notin Requests
    BY NotARequest
  <1>2. \A p \in Epochs :
          /\ page'[p].state \in {"booting", "asking", "holding"} => page'[p].cmd = NoRequest
          /\ page'[p].state \in {"running", "posting"} => page'[p].cmd \in Requests
    BY DEF IInv, PagesFit, LetGo
  <1>3. ASSUME NEW r \in Requests, NEW p \in Epochs, page'[p].cmd = r
        PROVE  page[p].cmd = r /\ (page'[p] = page[p] \/ page'[p].state = "gone")
    BY <1>1, <1>3 DEF LetGo
  <1>4. ASSUME NEW r \in Requests
        PROVE  OnePage(r)'
    <2>1. OnePage(r)
      BY DEF IInv, PagesFit
    <2> QED BY <1>3, <2>1 DEF OnePage, Backed
  <1>5. ASSUME NEW r \in Requests, Dead(r)
        PROVE  Dead(r)'
    BY <1>3, <1>5 DEF Dead
  <1> QED BY <1>2, <1>4, <1>5 DEF PagesFit

\* A page moves without taking a command or answering one.
LEMMA PageMovesKeeps ==
    ASSUME IInv, page' \in [Epochs -> Page], \A p \in Epochs : LetGo(p),
           heldPoll' \in Epochs \cup {NoPage},
           UNCHANGED <<client, told, toServer, toClient, host, record, owner, pageEpoch, runs>>
    PROVE  IInv'
  <1>1. PagesFit' /\ \A r \in Requests : Dead(r) => Dead(r)'
    BY PagesLetGo
  <1>2. Typed'
    BY DEF IInv, Typed
  <1>3. AskedOnce' /\ HostMatchesBridge'
    BY AskedStays, HostStays DEF IInv
  <1>4. Answered'
    BY <1>1, AnswersSame DEF IInv
  <1> QED BY <1>1, <1>2, <1>3, <1>4 DEF IInv

LEMMA PageState ==
    ASSUME IInv, NEW e \in Epochs, NEW s \in PageStates, page' = [page EXCEPT ![e].state = s]
    PROVE  /\ page' \in [Epochs -> Page]
           /\ page'[e].state = s /\ page'[e].cmd = page[e].cmd
           /\ \A p \in Epochs \ {e} : page'[p] = page[p]
  <1>1. page \in [Epochs -> Page] /\ page[e] \in Page
    BY DEF IInv, Typed
  <1> DEFINE g == [page[e] EXCEPT !.state = s]
  <1>2. g \in Page /\ g.state = s /\ g.cmd = page[e].cmd
    BY <1>1 DEF Page
  <1>3. page' = [page EXCEPT ![e] = g]
    OBVIOUS
  <1> HIDE DEF g
  <1> QED BY <1>1, <1>2, <1>3

LEMMA PagePollsKeeps ==
    ASSUME IInv, NEW e \in Epochs, PagePolls(e)
    PROVE  IInv'
  <1>1. /\ page[e].state = "asking" /\ page[e].cmd = NoRequest
        /\ UNCHANGED <<client, told, toServer, toClient, host, pageEpoch, runs>>
    BY DEF PagePolls, clientVars, hostVars, IInv, PagesFit
  <1>2. heldPoll \in Epochs \cup {NoPage}
    BY DEF IInv, Typed
  <1>3. CASE page' = [page EXCEPT ![e].state = "gone"] /\ UNCHANGED <<record, owner, heldPoll>>
    <2>1. page' \in [Epochs -> Page] /\ \A p \in Epochs : LetGo(p)
      BY <1>3, PageState DEF PageStates, LetGo
    <2> QED BY <1>1, <1>2, <1>3, <2>1, PageMovesKeeps
  <1>4. CASE /\ \E r \in Requests : Head(queue) = r /\ record[r] = "queued" /\ Deliver(r, e)
             /\ UNCHANGED heldPoll
    <2>1. PICK r \in Requests : record[r] = "queued" /\ Deliver(r, e)
      BY <1>4
    <2>2. host[r] = "inPage"
      BY <2>1, InBridgeIsAsked DEF InBridge
    <2>3. host' = [host EXCEPT ![r] = "inPage"]
      BY <1>1, <2>2 DEF IInv, Typed
    <2> QED BY <1>1, <1>2, <1>4, <2>1, <2>2, <2>3, GivingKeeps DEF Deliver
  <1>5. CASE /\ heldPoll' = e /\ page' = [page EXCEPT ![e].state = "holding"]
             /\ UNCHANGED <<record, owner>>
    <2>1. page' \in [Epochs -> Page] /\ \A p \in Epochs : LetGo(p)
      BY <1>1, <1>5, PageState DEF PageStates, LetGo
    <2> QED BY <1>1, <1>5, <2>1, PageMovesKeeps
  <1> QED BY <1>3, <1>4, <1>5 DEF PagePolls

LEMMA HoldExpiresKeeps ==
    ASSUME IInv, NEW e \in Epochs, HoldExpires(e)
    PROVE  IInv'
  <1>1. /\ heldPoll' = NoPage
        /\ page' = [page EXCEPT ![e].state = IF @ = "holding" THEN "asking" ELSE @]
        /\ UNCHANGED <<client, told, toServer, toClient, host, record, owner, pageEpoch, runs>>
    BY DEF HoldExpires, clientVars, hostVars
  <1>2. page[e] \in Page /\ page[e].state \in PageStates
    BY DEF IInv, Typed, Page
  <1>3. PICK s \in PageStates : s = IF page[e].state = "holding" THEN "asking" ELSE page[e].state
    BY <1>2 DEF PageStates
  <1>4. page' = [page EXCEPT ![e].state = s]
    BY <1>1, <1>3
  <1>5. page' \in [Epochs -> Page] /\ \A p \in Epochs : LetGo(p)
    <2>1. CASE page[e].state = "holding"
      <3>1. page[e].cmd = NoRequest /\ s = "asking"
        BY <1>3, <2>1 DEF IInv, PagesFit
      <3> QED BY <1>4, <3>1, PageState DEF LetGo
    <2>2. CASE page[e].state # "holding"
      <3>1. page' = page
        BY <1>3, <1>4, <2>2 DEF IInv, Typed, Page
      <3> QED BY <3>1 DEF IInv, Typed, LetGo
    <2> QED BY <2>1, <2>2
  <1> QED BY <1>1, <1>5, PageMovesKeeps

LEMMA PageLostKeeps ==
    ASSUME IInv, NEW e \in Epochs, PageLost(e)
    PROVE  IInv'
  <1>1. /\ page' = [page EXCEPT ![e].state = "gone"] /\ heldPoll' = heldPoll
        /\ UNCHANGED <<client, told, toServer, toClient, host, record, owner, pageEpoch, runs>>
    BY DEF PageLost, clientVars, hostVars, bridgeVars
  <1>2. page' \in [Epochs -> Page] /\ \A p \in Epochs : LetGo(p)
    BY <1>1, PageState DEF PageStates, LetGo
  <1>3. heldPoll' \in Epochs \cup {NoPage}
    BY <1>1 DEF IInv, Typed
  <1> QED BY <1>1, <1>2, <1>3, PageMovesKeeps

\* The page answers its command, which it ran or refused.
LEMMA PageRunsKeeps ==
    ASSUME IInv, NEW e \in Epochs, PageRuns(e)
    PROVE  IInv'
  <1>1. /\ page[e].state = "running"
        /\ UNCHANGED <<client, told, toServer, toClient, host, record, owner, pageEpoch, heldPoll>>
    BY DEF PageRuns, clientVars, hostVars, bridgeVars
  <1>2. PICK c \in Requests : c = page[e].cmd
    BY <1>1 DEF IInv, PagesFit
  <1>3. /\ owner[c] = e /\ runs[c] = <<>> /\ record[c] \notin {"none", "queued"}
        /\ \A p \in Epochs : page[p].cmd = c => p = e
    BY <1>1, <1>2 DEF IInv, PagesFit, OnePage
  <1>4. ~Dead(c)
    BY <1>1, <1>2 DEF Dead
  <1>5. PICK t \in Terminal :
          /\ page' = [page EXCEPT ![e].state = "posting", ![e].term = t]
          /\ \/ t.outcome = "notSent" /\ runs' = runs
             \/ t.outcome = "applied" /\ ~t.retry /\ runs' = [runs EXCEPT ![c] = Append(@, e)]
    <2>1. CASE \E retry \in BOOLEAN :
                 /\ page' = [page EXCEPT ![e].state = "posting", ![e].term = Answer("notSent", retry)]
                 /\ UNCHANGED runs
      BY <2>1, AnswerFields DEF Outcomes
    <2>2. CASE /\ page' = [page EXCEPT ![e].state = "posting", ![e].term = Answer("applied", FALSE)]
               /\ runs' = [runs EXCEPT ![page[e].cmd] = Append(@, e)]
      BY <1>2, <2>2, AnswerFields DEF Outcomes
    <2> QED BY <2>1, <2>2 DEF PageRuns
  <1>6. /\ page' \in [Epochs -> Page]
        /\ page'[e].state = "posting" /\ page'[e].cmd = c /\ page'[e].term = t
        /\ \A p \in Epochs \ {e} : page'[p] = page[p]
    <2>1. page \in [Epochs -> Page] /\ page[e] \in Page
      BY DEF IInv, Typed
    <2> DEFINE g == [page[e] EXCEPT !.state = "posting", !.term = t]
    <2>2. g \in Page /\ g.state = "posting" /\ g.cmd = c /\ g.term = t
      BY <1>2, <2>1 DEF Page, PageStates
    <2>3. page' = [page EXCEPT ![e] = g]
      BY <1>5
    <2> HIDE DEF g
    <2> QED BY <2>1, <2>2, <2>3
  <1>7. /\ runs' \in [Requests -> Seq(Epochs)]
        /\ \A q \in Requests \ {c} : runs'[q] = runs[q]
        /\ t.outcome = "notSent" \/ t.retry => runs'[c] = <<>>
        /\ t.outcome = "applied" => runs'[c] = <<e>>
        /\ runs'[c] = <<>> \/ Len(runs'[c]) = 1
    <2>1. runs \in [Requests -> Seq(Epochs)]
      BY DEF IInv, Typed
    <2>2. CASE t.outcome = "notSent" /\ runs' = runs
      BY <1>3, <2>1, <2>2
    <2>3. CASE t.outcome = "applied" /\ ~t.retry /\ runs' = [runs EXCEPT ![c] = Append(@, e)]
      <3>1. Append(runs[c], e) = <<e>> /\ <<e>> \in Seq(Epochs) /\ Len(<<e>>) = 1
        BY <1>3
      <3> QED BY <2>1, <2>3, <3>1
    <2> QED BY <1>5, <2>2, <2>3
  <1>8. Typed'
    BY <1>1, <1>6, <1>7 DEF IInv, Typed
  <1>9. AskedOnce' /\ HostMatchesBridge'
    BY <1>1, AskedStays, HostStays DEF IInv
  <1>10. PagesFit'
    <2>1. \A p \in Epochs :
            /\ page'[p].state \in {"booting", "asking", "holding"} => page'[p].cmd = NoRequest
            /\ page'[p].state \in {"running", "posting"} => page'[p].cmd \in Requests
      BY <1>6 DEF IInv, PagesFit
    <2>2. ASSUME NEW q \in Requests \ {c}
          PROVE  OnePage(q)'
      <3>1. OnePage(q) /\ record' = record /\ owner' = owner /\ runs'[q] = runs[q]
        BY <1>1, <1>7 DEF IInv, PagesFit
      <3>2. \A p \in Epochs : page'[p].cmd = q => page'[p] = page[p]
        BY <1>6
      <3>3. \A p \in Epochs : page[p].cmd # q => page'[p].cmd # q
        BY <3>2
      <3> QED BY <3>1, <3>2, <3>3 DEF OnePage, Backed
    <2>3. OnePage(c)'
      <3>1. \A p \in Epochs : page'[p].cmd = c => p = e
        BY <1>3, <1>6
      <3>2. Backed(t, c, e)'
        BY <1>7 DEF Backed
      <3> QED BY <1>1, <1>3, <1>6, <1>7, <3>1, <3>2 DEF OnePage, Backed
    <2> QED BY <2>1, <2>2, <2>3 DEF PagesFit
  <1>11. Answered'
    <2>1. ASSUME NEW q \in Requests, Dead(q)
          PROVE  Dead(q)'
      <3>1. q # c
        BY <1>4, <2>1
      <3>2. \A p \in Epochs : page'[p].cmd = q => page'[p] = page[p]
        BY <1>6, <3>1
      <3> QED BY <1>1, <1>7, <2>1, <3>1, <3>2 DEF Dead
    <2>2. \A q \in Requests : Len(runs[q]) = 1 => Len(runs'[q]) = 1
      BY <1>3, <1>7
    <2> QED BY <1>1, <2>1, <2>2, AnswersSame DEF IInv
  <1> QED BY <1>8, <1>9, <1>10, <1>11 DEF IInv

\* Page answers and cut-offs by a new page: every finished command had a page.
LEMMA FinishDeliveredKeeps ==
    ASSUME IInv, NEW S \in SUBSET Requests, NEW term, Finish(S, term),
           \A r \in S : record[r] = "delivered" /\ term[r] \in Terminal /\ Truthful(term[r], r)',
           page' \in [Epochs -> Page], \A p \in Epochs : LetGo(p),
           pageEpoch' \in Epochs \cup {NoPage}, heldPoll' \in Epochs \cup {NoPage},
           UNCHANGED <<client, told, toServer, owner, runs>>
    PROVE  IInv'
  <1>1. /\ toClient' \in Seq(Frame)
        /\ \A i \in 1 .. Len(toClient') :
             \/ i \in 1 .. Len(toClient) /\ toClient'[i] = toClient[i]
             \/ i \notin 1 .. Len(toClient)
                /\ \E r \in S : toClient'[i] = [id |-> r, term |-> term[r]]
        /\ record' \in [Requests -> {"none", "queued", "delivered", "terminal"}]
        /\ host' \in [Requests -> {"new", "waiting", "inPage", "settled"}]
        /\ \A r \in S : record'[r] = "terminal" /\ host'[r] = "settled"
        /\ \A r \in Requests \ S : record'[r] = record[r] /\ host'[r] = host[r]
    BY Finished DEF IInv
  <1>2. \A r \in Requests : record'[r] \in {"none", "queued"} => record[r] \in {"none", "queued"}
    BY <1>1
  <1>3. \A r \in Requests : host[r] = "settled" => host'[r] = "settled"
    BY <1>1
  <1>4. PagesFit' /\ \A r \in Requests : Dead(r) => Dead(r)'
    BY <1>2, <1>3, PagesLetGo
  <1>5. Typed'
    BY <1>1 DEF IInv, Typed
  <1>6. AskedOnce'
    <2>1. \A r \in S : host[r] # "new"
      BY InBridgeIsAsked DEF InBridge
    <2>2. \A r \in Requests : host[r] = "new" => host'[r] = "new"
      BY <1>1, <2>1
    <2> QED BY <2>2, AskedStays DEF IInv
  <1>7. HostMatchesBridge'
    BY <1>1 DEF IInv, HostMatchesBridge, InBridge
  <1>8. Answered'
    <2>1. ASSUME NEW i \in 1 .. Len(toClient'), NEW f, f = toClient'[i]
          PROVE  \/ i \in 1 .. Len(toClient) /\ toClient[i] = f
                 \/ f.id \in Requests => Truthful(f.term, f.id)'
      <3>1. CASE i \in 1 .. Len(toClient) /\ toClient'[i] = toClient[i]
        BY <2>1, <3>1
      <3>2. CASE \E r \in S : toClient'[i] = [id |-> r, term |-> term[r]]
        <4>1. PICK r \in S : f = [id |-> r, term |-> term[r]]
          BY <2>1, <3>2
        <4>2. f.id = r /\ f.term = term[r] /\ Truthful(term[r], r)'
          BY <4>1
        <4> QED BY <4>2
      <3> QED BY <1>1, <3>1, <3>2
    <2> QED BY <1>4, <2>1, AnswersStay DEF IInv
  <1> QED BY <1>4, <1>5, <1>6, <1>7, <1>8 DEF IInv

LEMMA PageReadyKeeps ==
    ASSUME IInv, NEW e \in Epochs, PageReady(e)
    PROVE  IInv'
  <1>1. /\ pageEpoch' = e /\ heldPoll' = NoPage
        /\ UNCHANGED <<client, told, toServer, owner, runs>>
    BY DEF PageReady, clientVars
  <1>2. PICK S \in SUBSET Requests : S = {r \in Requests : record[r] = "delivered"}
    OBVIOUS
  <1>3. PICK term : term = [r \in Requests |-> Answer("outcomeUnknown", FALSE)]
    OBVIOUS
  <1>4. Finish(S, term)
    BY <1>2, <1>3 DEF PageReady
  <1>5. \A r \in S : record[r] = "delivered" /\ term[r] \in Terminal /\ Truthful(term[r], r)'
    <2>1. \A r \in S : /\ term[r] = Answer("outcomeUnknown", FALSE)
                       /\ term[r] \in Terminal /\ term[r].outcome = "outcomeUnknown" /\ ~term[r].retry
      BY <1>3, AnswerFields DEF Outcomes
    <2> QED BY <1>2, <2>1 DEF Truthful
  <1>6. page' \in [Epochs -> Page] /\ \A p \in Epochs : LetGo(p)
    <2>1. page \in [Epochs -> Page]
      BY DEF IInv, Typed
    <2>2. ASSUME NEW p \in Epochs
          PROVE  page'[p] \in Page /\ LetGo(p)
      <3>1. page[p] \in Page /\ p \in Epochs
        BY <2>1
      <3>2. CASE p = e
        <4>1. page[p].cmd = NoRequest
          BY <3>2 DEF PageReady, IInv, PagesFit
        <4>2. page'[p] = [page[p] EXCEPT !.state = "asking"]
          BY <3>2 DEF PageReady
        <4> QED BY <3>1, <4>1, <4>2 DEF Page, PageStates, LetGo
      <3>3. CASE p # e /\ p = heldPoll /\ page[p].state = "holding"
        <4>1. page'[p] = [page[p] EXCEPT !.state = "gone"]
          BY <3>3 DEF PageReady
        <4> QED BY <3>1, <4>1 DEF Page, PageStates, LetGo
      <3>4. CASE p # e /\ ~(p = heldPoll /\ page[p].state = "holding")
        <4>1. page'[p] = page[p]
          BY <3>4 DEF PageReady
        <4> QED BY <3>1, <4>1 DEF LetGo
      <3> QED BY <3>2, <3>3, <3>4
    <2>3. page' = [p \in Epochs |-> page'[p]]
      BY DEF PageReady
    <2> QED BY <2>2, <2>3
  <1> QED BY <1>1, <1>4, <1>5, <1>6, FinishDeliveredKeeps

\* After its post a page has no command.
HasPosted(e) ==
    page' = [page EXCEPT ![e].state = "asking", ![e].cmd = NoRequest, ![e].term = NoTerminal]

LEMMA Posted ==
    ASSUME IInv, NEW e \in Epochs,
           HasPosted(e)
    PROVE  /\ page' \in [Epochs -> Page] /\ \A p \in Epochs : LetGo(p)
           /\ page'[e].cmd = NoRequest /\ \A p \in Epochs \ {e} : page'[p] = page[p]
  <1>1. page \in [Epochs -> Page] /\ page[e] \in Page
    BY DEF IInv, Typed
  <1> DEFINE g == [page[e] EXCEPT !.state = "asking", !.cmd = NoRequest, !.term = NoTerminal]
  <1>2. g \in Page /\ g.state = "asking" /\ g.cmd = NoRequest
    BY <1>1 DEF Page, PageStates
  <1>3. page' = [page EXCEPT ![e] = g]
    BY DEF HasPosted
  <1> HIDE DEF g
  <1> QED BY <1>1, <1>2, <1>3 DEF LetGo

\* The page's answer counts: the command was this page's, and ran once or not.
LEMMA AcceptedKeeps ==
    ASSUME IInv, NEW e \in Epochs, page[e].state = "posting",
           NEW c \in Requests, c = page[e].cmd, record[c] = "delivered",
           NEW t, t = page[e].term,
           NEW S \in SUBSET Requests, S = {c}, NEW term, \A r \in S : term[r] = t,
           Finish(S, term),
           HasPosted(e),
           UNCHANGED <<client, told, toServer, owner, pageEpoch, heldPoll, runs>>
    PROVE  IInv'
  <1>1. Backed(t, c, e) /\ \A p \in Epochs : page[p].cmd = c => p = e
    BY DEF IInv, PagesFit, OnePage
  <1>2. /\ page' \in [Epochs -> Page] /\ \A p \in Epochs : LetGo(p)
        /\ page'[e].cmd = NoRequest /\ \A p \in Epochs \ {e} : page'[p] = page[p]
    BY Posted
  <1>3. host'[c] = "settled" /\ \A p \in Epochs : page'[p].cmd # c
    <2>1. host'[c] = "settled"
      BY DEF Finish
    <2> QED BY <1>1, <1>2, <2>1, NotARequest
  <1>4. Truthful(t, c)'
    <2>1. t.outcome = "applied" => Len(runs'[c]) = 1
      BY <1>1 DEF Backed
    <2>2. t.outcome = "notSent" \/ t.retry => Dead(c)'
      BY <1>1, <1>3 DEF Backed, Dead
    <2> QED BY <2>1, <2>2 DEF Truthful
  <1>5. \A r \in S : record[r] = "delivered" /\ term[r] \in Terminal /\ Truthful(term[r], r)'
    <2>1. \A r \in S : r = c /\ term[r] = t
      OBVIOUS
    <2> QED BY <1>1, <1>4, <2>1 DEF Backed
  <1>6. pageEpoch' \in Epochs \cup {NoPage} /\ heldPoll' \in Epochs \cup {NoPage}
    BY DEF IInv, Typed
  <1> QED BY <1>2, <1>5, <1>6, FinishDeliveredKeeps

\* The page's answer does not fit a frame: every request of the bridge is over
\* and the client is told that it lost the connection.
LEMMA FatalKeeps ==
    ASSUME IInv, NEW e \in Epochs, NEW S \in SUBSET Requests, \A r \in S : InBridge(r),
           record' = [q \in Requests |-> IF q \in S THEN "terminal" ELSE record[q]],
           host' = [q \in Requests |-> IF q \in S THEN "settled" ELSE host[q]],
           toClient' = Append(toClient, [id |-> Fatal, term |-> NoTerminal]),
           HasPosted(e),
           UNCHANGED <<client, told, toServer, owner, pageEpoch, heldPoll, runs>>
    PROVE  IInv'
  <1>1. /\ record' \in [Requests -> {"none", "queued", "delivered", "terminal"}]
        /\ host' \in [Requests -> {"new", "waiting", "inPage", "settled"}]
        /\ \A r \in S : record'[r] = "terminal" /\ host'[r] = "settled"
        /\ \A r \in Requests \ S : record'[r] = record[r] /\ host'[r] = host[r]
    BY DEF IInv, Typed
  <1>2. page' \in [Epochs -> Page] /\ \A p \in Epochs : LetGo(p)
    BY Posted
  <1>3. PagesFit' /\ \A r \in Requests : Dead(r) => Dead(r)'
    <2>1. \A r \in Requests : record'[r] \in {"none", "queued"} => record[r] \in {"none", "queued"}
      BY <1>1
    <2>2. \A r \in Requests : host[r] = "settled" => host'[r] = "settled"
      BY <1>1
    <2> QED BY <1>2, <2>1, <2>2, PagesLetGo
  <1>4. /\ toClient' \in Seq(Frame)
        /\ \A i \in 1 .. Len(toClient') :
             \/ i \in 1 .. Len(toClient) /\ toClient'[i] = toClient[i]
             \/ toClient'[i].id = Fatal
    <2>1. PICK f : f = [id |-> Fatal, term |-> NoTerminal]
      OBVIOUS
    <2>2. f \in Frame /\ f.id = Fatal
      BY <2>1 DEF Frame
    <2>3. toClient \in Seq(Frame) /\ toClient' = Append(toClient, f)
      BY <2>1 DEF IInv, Typed
    <2> QED BY <2>2, <2>3
  <1>5. Typed'
    BY <1>1, <1>2, <1>4 DEF IInv, Typed
  <1>6. AskedOnce'
    <2>1. \A r \in Requests : host[r] = "new" => host'[r] = "new"
      BY <1>1, InBridgeIsAsked
    <2> QED BY <2>1, AskedStays DEF IInv
  <1>7. HostMatchesBridge'
    BY <1>1 DEF IInv, HostMatchesBridge, InBridge
  <1>8. Answered'
    <2>1. \A i \in 1 .. Len(toClient') : \A f : f = toClient'[i] =>
            \/ i \in 1 .. Len(toClient) /\ toClient[i] = f
            \/ f.id \in Requests => Truthful(f.term, f.id)'
      BY <1>4, NotARequest
    <2> QED BY <1>3, <2>1, AnswersStay DEF IInv
  <1> QED BY <1>3, <1>5, <1>6, <1>7, <1>8 DEF IInv

LEMMA PagePostsKeeps ==
    ASSUME IInv, NEW e \in Epochs, PagePosts(e)
    PROVE  IInv'
  <1>1. /\ page[e].state = "posting"
        /\ HasPosted(e)
        /\ UNCHANGED <<client, told, toServer, owner, pageEpoch, heldPoll, runs>>
    BY DEF PagePosts, HasPosted, clientVars
  <1>2. PICK c \in Requests : c = page[e].cmd
    BY <1>1 DEF IInv, PagesFit
  <1>3. PICK t : t = page[e].term
    OBVIOUS
  <1>4. CASE Accepted(c, e) /\ Finish({c}, [q \in {c} |-> t])
    <2>1. record[c] = "delivered"
      BY <1>4 DEF Accepted
    <2>2. PICK S \in SUBSET Requests : S = {c}
      OBVIOUS
    <2>3. PICK term : term = [q \in {c} |-> t]
      OBVIOUS
    <2>4. Finish(S, term) /\ \A r \in S : term[r] = t
      BY <1>4, <2>2, <2>3
    <2> QED BY <1>1, <1>2, <1>3, <2>1, <2>2, <2>4, AcceptedKeeps
  <1>5. CASE /\ Accepted(c, e)
             /\ LET others == {q \in Requests \ {c} : InBridge(q)} IN
                /\ record' = [q \in Requests |-> IF q \in others \cup {c} THEN "terminal" ELSE record[q]]
                /\ host' = [q \in Requests |-> IF q \in others \cup {c} THEN "settled" ELSE host[q]]
                /\ toClient' = Append(toClient, [id |-> Fatal, term |-> NoTerminal])
    <2>1. PICK S \in SUBSET Requests : S = {q \in Requests \ {c} : InBridge(q)} \cup {c}
      OBVIOUS
    <2>2. /\ record' = [q \in Requests |-> IF q \in S THEN "terminal" ELSE record[q]]
          /\ host' = [q \in Requests |-> IF q \in S THEN "settled" ELSE host[q]]
          /\ toClient' = Append(toClient, [id |-> Fatal, term |-> NoTerminal])
      BY <1>5, <2>1
    <2>3. \A r \in S : InBridge(r)
      BY <1>5, <2>1 DEF Accepted, InBridge
    <2> QED BY <1>1, <2>2, <2>3, FatalKeeps
  <1>6. CASE UNCHANGED <<toClient, host, record>>
    <2>1. page' \in [Epochs -> Page] /\ \A p \in Epochs : LetGo(p)
      BY <1>1, Posted
    <2>2. heldPoll' \in Epochs \cup {NoPage}
      BY <1>1 DEF IInv, Typed
    <2> QED BY <1>1, <1>6, <2>1, <2>2, PageMovesKeeps
  <1> QED BY <1>2, <1>3, <1>4, <1>5, <1>6 DEF PagePosts, hostVars

-----------------------------------------------------------------------------
(* The invariant and what it gives *)

LEMMA Starts ==
    ASSUME ControlInit
    PROVE  IInv
  <1>1. [state |-> "booting", cmd |-> NoRequest, term |-> NoTerminal] \in Page
    BY DEF Page, PageStates
  <1>2. Typed
    <2>1. page \in [Epochs -> Page]
      BY <1>1 DEF ControlInit
    <2> QED BY <2>1 DEF ControlInit, Typed
  <1>3. AskedOnce /\ HostMatchesBridge
    BY DEF ControlInit, AskedOnce, HostMatchesBridge
  <1>4. PagesFit
    BY NotARequest DEF ControlInit, PagesFit, OnePage
  <1>5. Answered
    <2>1. NoTerminal.outcome = "none" /\ NoTerminal.retry = FALSE
      BY DEF NoTerminal
    <2> QED BY <2>1 DEF ControlInit, Answered, Truthful
  <1> QED BY <1>2, <1>3, <1>4, <1>5 DEF IInv

LEMMA Steps ==
    ASSUME IInv, [ControlNext]_controlVars
    PROVE  IInv'
  <1>1. CASE ClientStep
    BY <1>1, ClientKeeps
  <1>2. CASE ServerStep
    BY <1>2, ServerReadsKeeps, ShutdownKeeps, FinishShutdownKeeps, DispatchKeeps,
       CommandTimeoutKeeps DEF ServerStep, StdinEnds, ShutdownSignal
  <1>3. CASE PageStep
    BY <1>3, PageReadyKeeps, PagePollsKeeps, HoldExpiresKeeps, PageLostKeeps, PageRunsKeeps,
       PagePostsKeeps DEF PageStep
  <1>4. CASE UNCHANGED controlVars
    <2>1. /\ UNCHANGED <<client, told, toServer, toClient, host, record, owner, pageEpoch, page, runs>>
          /\ heldPoll' = heldPoll
      BY <1>4 DEF controlVars, clientVars, hostVars, bridgeVars
    <2>2. heldPoll' \in Epochs \cup {NoPage}
      BY <2>1 DEF IInv, Typed
    <2> QED BY <2>1, <2>2, NothingChanges
  <1> QED BY <1>1, <1>2, <1>3, <1>4 DEF ControlNext

\* What the places of a request and the answers on their way say holds in
\* every state.
THEOREM Invariant == ControlSpec => []IInv
  <1>1. ControlInit => IInv
    BY Starts
  <1>2. IInv /\ [ControlNext]_controlVars => IInv'
    BY Steps
  <1> QED BY <1>1, <1>2, PTL DEF ControlSpec

\* "Not sent" and "try again" are the truth for good: no page ran the command
\* and none still can (pageCommandBridge.mjs finishCancel, close and the timer).
THEOREM SafeToRetryAlways == ControlSpec => []SafeToRetry
  <1>1. IInv => SafeToRetry
    <2> SUFFICES ASSUME IInv, NEW r \in Requests, told[r].outcome = "notSent" \/ told[r].retry
                 PROVE  runs[r] = <<>> /\ ~CanStillRun(r)
      BY DEF SafeToRetry
    <2>1. Dead(r)
      BY DEF IInv, Answered, Truthful
    <2>2. host[r] = "settled" /\ record[r] = "terminal"
      BY <2>1 DEF Dead, IInv, HostMatchesBridge
    <2>3. ASSUME NEW i \in 1 .. Len(toServer), toServer[i] = [kind |-> "request", id |-> r]
          PROVE  FALSE
      <3>1. Asks(i, r)
        BY <2>3 DEF Asks
      <3> QED BY <2>2, <3>1 DEF IInv, AskedOnce
    <2> QED BY <2>1, <2>2, <2>3 DEF CanStillRun, Dead
  <1> QED BY <1>1, Invariant, PTL

\* One page runs a command, once, and whoever is told "applied" had it run.
THEOREM RunsAtMostOnceAlways == ControlSpec => []RunsAtMostOnce
  <1>1. IInv => RunsAtMostOnce
    <2> SUFFICES ASSUME IInv, NEW r \in Requests
                 PROVE  /\ Len(runs[r]) <= 1
                        /\ told[r].outcome = "applied" => Len(runs[r]) = 1
      BY DEF RunsAtMostOnce
    <2>1. runs[r] = <<>> \/ Len(runs[r]) = 1
      BY DEF IInv, PagesFit, OnePage
    <2>2. told[r].outcome = "applied" => Len(runs[r]) = 1
      BY DEF IInv, Answered, Truthful
    <2>3. Len(runs[r]) <= 1
      <3>1. Len(runs[r]) \in {0, 1}
        BY <2>1
      <3>2. \A n \in {0, 1} : n <= 1
        OBVIOUS
      <3> QED BY <3>1, <3>2, Zenon
    <2> QED BY <2>2, <2>3
  <1> QED BY <1>1, Invariant, PTL

-----------------------------------------------------------------------------
(* Who may say "applied" *)

\* This step writes "applied" for request r.
SaysApplied(r) ==
    /\ Len(toClient') > Len(toClient)
    /\ Last(toClient') = [id |-> r, term |-> Answer("applied", FALSE)]

LEMMA NothingSaid ==
    ASSUME IInv, toClient' = toClient, NEW r \in Requests
    PROVE  ~SaysApplied(r)
  <1>1. Len(toClient) \in Nat
    BY DEF IInv, Typed
  <1>2. SaysApplied(r) => Len(toClient') > Len(toClient)
    BY Zenon DEF SaysApplied
  <1> QED BY <1>1, <1>2

\* An answer that _finish writes is one of those it was given.
LEMMA FinishSays ==
    ASSUME IInv, NEW S \in SUBSET Requests, NEW term,
           \A r \in S : term[r] \in Terminal, Finish(S, term),
           NEW c \in Requests, SaysApplied(c)
    PROVE  c \in S /\ term[c] = Answer("applied", FALSE)
  <1>1. Typed
    BY DEF IInv
  <1>2. /\ toClient' \in Seq(Frame)
        /\ \A i \in 1 .. Len(toClient') :
             \/ i \in 1 .. Len(toClient) /\ toClient'[i] = toClient[i]
             \/ i \notin 1 .. Len(toClient)
                /\ \E r \in S : toClient'[i] = [id |-> r, term |-> term[r]]
        /\ record' \in [Requests -> {"none", "queued", "delivered", "terminal"}]
        /\ host' \in [Requests -> {"new", "waiting", "inPage", "settled"}]
        /\ \A r \in S : record'[r] = "terminal" /\ host'[r] = "settled"
        /\ \A r \in Requests \ S : record'[r] = record[r] /\ host'[r] = host[r]
    BY <1>1, Finished
  <1>3. PICK k : k = Len(toClient')
    OBVIOUS
  <1>4. k \in 1 .. Len(toClient') /\ k \notin 1 .. Len(toClient)
    <2>1. Len(toClient') \in Nat /\ Len(toClient) \in Nat /\ Len(toClient') > Len(toClient)
      BY <1>1, <1>2 DEF SaysApplied, Typed
    <2> QED BY <1>3, <2>1
  <1>5. PICK q \in S : toClient'[k] = [id |-> q, term |-> term[q]]
    BY <1>2, <1>4
  <1>6. toClient'[k] = [id |-> c, term |-> Answer("applied", FALSE)]
    <2>1. Last(toClient') = toClient'[Len(toClient')]
      BY Zenon DEF Last
    <2> QED BY <1>3, <2>1, Zenon DEF SaysApplied
  <1>7. q = c /\ term[q] = Answer("applied", FALSE)
    <2>1. PICK t : t = Answer("applied", FALSE)
      OBVIOUS
    <2>2. [id |-> q, term |-> term[q]] = [id |-> c, term |-> t]
      BY <1>5, <1>6, <2>1, Zenon
    <2>3. q = c /\ term[q] = t
      BY <2>2
    <2> QED BY <2>1, <2>3, Zenon
  <1> QED BY <1>7, Zenon

LEMMA CutOffIsSilent ==
    ASSUME IInv, NEW S \in SUBSET Requests, FinishCutOff(S), NEW r \in Requests
    PROVE  ~SaysApplied(r)
  <1>1. PICK term : term = [q \in S |-> CutOff(q)]
    OBVIOUS
  <1>2. Finish(S, term)
    BY <1>1 DEF FinishCutOff
  <1>3. \A q \in S : term[q] \in Terminal /\ term[q].outcome # "applied"
    BY <1>1, CutOffFields
  <1>4. Answer("applied", FALSE).outcome = "applied"
    BY DEF Answer
  <1> QED BY <1>2, <1>3, <1>4, FinishSays

\* Only the post of the current page says "applied", and it ran the command.
LEMMA PagePostsSays ==
    ASSUME IInv, NEW e \in Epochs, PagePosts(e), NEW r \in Requests, SaysApplied(r)
    PROVE  record[r] = "delivered" /\ owner[r] = pageEpoch /\ Last(runs[r]) = pageEpoch
  <1>1. page[e].state = "posting"
    BY DEF PagePosts
  <1>2. PICK c \in Requests : c = page[e].cmd
    BY <1>1 DEF IInv, PagesFit
  <1>3. PICK t : t = page[e].term
    OBVIOUS
  <1>4. Backed(t, c, e)
    BY <1>1, <1>2, <1>3 DEF IInv, PagesFit, OnePage
  <1>5. CASE Accepted(c, e) /\ Finish({c}, [q \in {c} |-> t])
    <2>1. PICK S \in SUBSET Requests : S = {c}
      OBVIOUS
    <2>2. PICK term : term = [q \in {c} |-> t]
      OBVIOUS
    <2>3. Finish(S, term) /\ \A q \in S : q = c /\ term[q] = t
      BY <1>5, <2>1, <2>2
    <2>4. r = c /\ t = Answer("applied", FALSE)
      BY <1>4, <2>3, FinishSays DEF Backed
    <2>5. runs[r] = <<e>>
      BY <1>4, <2>4 DEF Backed, Answer
    <2>6. Last(runs[r]) = e
      BY <2>5 DEF Last
    <2> QED BY <1>5, <2>4, <2>6 DEF Accepted
  <1>6. CASE toClient' = Append(toClient, [id |-> Fatal, term |-> NoTerminal])
    <2>1. PICK f : f = [id |-> Fatal, term |-> NoTerminal]
      OBVIOUS
    <2>2. toClient \in Seq(Frame) /\ f \in Frame /\ toClient' = Append(toClient, f)
      BY <1>6, <2>1 DEF IInv, Typed, Frame
    <2>3. toClient'[Len(toClient')] = f
      BY <2>2
    <2>4. f = [id |-> r, term |-> Answer("applied", FALSE)]
      BY <2>3 DEF SaysApplied, Last
    <2> QED BY <2>1, <2>4, NotARequest
  <1>7. CASE UNCHANGED toClient
    BY <1>7, NothingSaid
  <1> QED BY <1>2, <1>3, <1>5, <1>6, <1>7 DEF PagePosts

LEMMA ServerIsSilent ==
    ASSUME IInv, ServerStep, NEW r \in Requests
    PROVE  ~SaysApplied(r)
  <1>1. \A S \in SUBSET Requests : FinishCutOff(S) => ~SaysApplied(r)
    BY CutOffIsSilent
  <1>2. toClient' = toClient => ~SaysApplied(r)
    BY NothingSaid
  <1>3. CASE ServerReads
    <2>1. Head(toServer).id \in Requests
      <3>1. toServer \in Seq(Order) /\ toServer # <<>>
        BY <1>3 DEF ServerReads, IInv, Typed
      <3>2. Head(toServer) \in Order
        BY <3>1, HeadTailProperties, Zenon
      <3> QED BY <3>2 DEF Order
    <2> QED BY <1>1, <1>2, <1>3, <2>1 DEF ServerReads
  <1>4. CASE Shutdown
    BY <1>1, <1>4 DEF Shutdown
  <1>5. CASE FinishShutdown
    BY <1>2, <1>5 DEF FinishShutdown
  <1>6. ASSUME NEW q \in Requests, Dispatch(q)
        PROVE  ~SaysApplied(r)
    BY <1>1, <1>2, <1>6 DEF Dispatch
  <1>7. ASSUME NEW q \in Requests, CommandTimeout(q)
        PROVE  ~SaysApplied(r)
    <2>1. PICK S \in SUBSET Requests : S = {q}
      OBVIOUS
    <2>2. PICK term : term = [p \in {q} |-> IF record[p] = "delivered" THEN Answer("outcomeUnknown", FALSE)
                                            ELSE Answer("notSent", TRUE)]
      OBVIOUS
    <2>3. Finish(S, term)
      BY <1>7, <2>1, <2>2 DEF CommandTimeout
    <2>4. \A p \in S : term[p] \in Terminal /\ term[p].outcome # "applied"
      BY <2>1, <2>2, AnswerFields DEF Outcomes
    <2> QED BY <2>3, <2>4, FinishSays DEF Answer
  <1> QED BY <1>3, <1>4, <1>5, <1>6, <1>7 DEF ServerStep, StdinEnds, ShutdownSignal

LEMMA PagesSay ==
    ASSUME IInv, NEW e \in Epochs, NEW r \in Requests, SaysApplied(r),
           \/ PageReady(e) \/ PagePolls(e) \/ HoldExpires(e)
           \/ PageLost(e) \/ PageRuns(e) \/ PagePosts(e)
    PROVE  record[r] = "delivered" /\ owner[r] = pageEpoch /\ Last(runs[r]) = pageEpoch
  <1>1. CASE PageReady(e)
    <2>1. PICK S \in SUBSET Requests : S = {q \in Requests : record[q] = "delivered"}
      OBVIOUS
    <2>2. PICK term : term = [q \in Requests |-> Answer("outcomeUnknown", FALSE)]
      OBVIOUS
    <2>3. Finish(S, term)
      BY <1>1, <2>1, <2>2 DEF PageReady
    <2>4. \A q \in S : term[q] \in Terminal /\ term[q].outcome # "applied"
      BY <2>1, <2>2, AnswerFields DEF Outcomes
    <2> QED BY <2>3, <2>4, FinishSays DEF Answer
  <1>2. CASE PagePosts(e)
    BY <1>2, PagePostsSays
  <1>3. CASE PagePolls(e) \/ HoldExpires(e) \/ PageLost(e) \/ PageRuns(e)
    <2>1. toClient' = toClient
      BY <1>3 DEF PagePolls, HoldExpires, PageLost, PageRuns
    <2> QED BY <2>1, NothingSaid
  <1> QED BY <1>1, <1>2, <1>3

LEMMA ClientIsSilent ==
    ASSUME IInv, ClientStep, NEW r \in Requests
    PROVE  ~SaysApplied(r)
  <1>1. toClient' = toClient => ~SaysApplied(r)
    BY NothingSaid
  <1>2. CASE ClientReads
    <2>1. toClient \in Seq(Frame) /\ toClient # <<>> /\ toClient' = Tail(toClient)
      BY <1>2 DEF ClientReads, IInv, Typed
    <2>2. Len(toClient') = Len(toClient) - 1
      BY <2>1
    <2>3. Len(toClient) \in Nat
      BY <2>1
    <2>4. SaysApplied(r) => Len(toClient') > Len(toClient)
      BY Zenon DEF SaysApplied
    <2> QED BY <2>2, <2>3, <2>4
  <1> QED BY <1>1, <1>2 DEF ClientStep, ClientRequest, ClientDeadline, ClientGivesUp,
                            ClientKills, ClientSeesEnd

\* A page that was replaced never gets an answer through: "applied" is written
\* once, while its command is delivered, for the page that is current then and
\* ran it (pageCommandBridge.mjs, the checks of POST /controlResult).
THEOREM ReplacedPagesAreSilentAlways == ControlSpec => ReplacedPagesAreSilent
  <1> DEFINE OnlyCurrent == \A r \in Requests :
                       SaysApplied(r) => /\ record[r] = "delivered" /\ owner[r] = pageEpoch
                                         /\ Last(runs[r]) = pageEpoch
  <1>1. IInv /\ [ControlNext]_controlVars => [OnlyCurrent]_controlVars
    <2> SUFFICES ASSUME IInv, ControlNext
                 PROVE  OnlyCurrent
      OBVIOUS
    <2>1. ASSUME NEW r \in Requests, SaysApplied(r)
          PROVE  record[r] = "delivered" /\ owner[r] = pageEpoch /\ Last(runs[r]) = pageEpoch
      BY <2>1, ClientIsSilent, ServerIsSilent, PagesSay DEF ControlNext, PageStep
    <2> QED BY <2>1
  <1>2. [][OnlyCurrent]_controlVars => ReplacedPagesAreSilent
    <2>1. OnlyCurrent => \A r \in Requests :
             Len(toClient') > Len(toClient) /\ Last(toClient') = [id |-> r, term |-> Answer("applied", FALSE)]
             => record[r] = "delivered" /\ owner[r] = pageEpoch /\ Last(runs[r]) = pageEpoch
      BY DEF SaysApplied
    <2> QED BY <2>1, PTL DEF ReplacedPagesAreSilent
  <1> HIDE DEF OnlyCurrent
  <1> QED BY <1>1, <1>2, Invariant, PTL DEF ControlSpec
=============================================================================
