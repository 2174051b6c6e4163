------------------------- MODULE KernelRuntime_proofs -------------------------
(***************************************************************************)
(* Five theorems about the kernel: calls keep their order, calls of one id *)
(* get one receipt, and, for a client that awaits every restore before its *)
(* next call, the three generations agree, application references expire   *)
(* and a delta checkpoint matches its parent.                              *)
(*                                                                         *)
(* The argument has three layers, each an invariant over the one before.   *)
(*                                                                         *)
(*   Sound     the queue.  InTurn: owners of what is active, pending and   *)
(*             waiting were called in that order.  Settlement: an open     *)
(*             entry has an owner and subscribers that wait for it, a call *)
(*             waits for an open entry or holds the receipt of a resolved  *)
(*             one, and every job of the microtask queue continues a       *)
(*             restore of its own.  The worker lives until the queue ends. *)
(*   ApartNow  an outstanding restore is the only call outstanding, so the *)
(*             queue is empty while it continues: nothing becomes active   *)
(*             between the worker's answer and the generation's advance.   *)
(*   Descends  what the worker's memory descends from is what the next     *)
(*             descriptor names as its parent, except while a restore      *)
(*             continues.                                                  *)
(***************************************************************************)
EXTENDS KernelRuntime, FiniteSetTheorems, SequenceTheorems, TLAPS

-----------------------------------------------------------------------------
(* The shape of the state *)

Stages == {"idle", "admission", "subscribed", "resuming", "returned", "rejected"}
Receipts == [generation : Nat, version : Nat]
MaybeId == Ids \cup {None}
Reference == [name : MaybeId, generation : Nat, image : Nat]
AnyInput == MaybeId \cup Reference
CallRecord ==
    [stage : Stages, turn : Nat, generation : Nat \cup {None}, input : AnyInput,
     receipt : Receipts \cup {None}]

States == {"none", "queued", "executing", "completed", "failed", "cancelled", "terminated"}
Outcomes == {"pending", "resolved", "rejected"}
EntryRecord ==
    [state : States, owner : Calls \cup {None}, operation : Operations \cup {None},
     input : AnyInput, subscribers : Seq(Calls), outcome : Outcomes,
     receipt : Receipts \cup {None}]

Jobs == {Pump} \cup {Settle(c) : c \in Calls} \cup {Resume(c) : c \in Calls}

Lives == {"ready", "executing", "interrupting", "closed", "terminated"}
KernelRecord ==
    [life : Lives, generation : Nat, version : Nat, environment : Nat,
     activeRef : AnyInput]
WorkerRecord ==
    [alive : BOOLEAN, at : Base \cup {None}, taken : Capture \cup {None}, image : Nat,
     invoked : [registered : Nat, ran : Nat]]

QueueTyped ==
    /\ call \in [Calls -> CallRecord]
    /\ line \in Seq(Calls)
    /\ jobs \in Seq(Jobs)
    /\ entries \in [Ids -> EntryRecord]
    /\ pending \in Seq(Ids)
    /\ active \in MaybeId
    /\ terminal \in BOOLEAN

\* A restore names a checkpoint that was sealed.
CheckpointsTyped ==
    /\ DOMAIN checkpoints \subseteq Ids
    /\ \A r \in DOMAIN checkpoints : checkpoints[r].depth \in Nat
    /\ \A c \in Calls :
          Operation(c) = "restore" /\ call[c].stage \in {"admission", "subscribed"}
            => call[c].input \in DOMAIN checkpoints

WorldTyped ==
    /\ client \in Clients
    /\ unsealed \in Nat
    /\ kernel \in KernelRecord
    /\ references \in [generation : Nat, live : SUBSET Reference, issued : SUBSET Reference]
    /\ worker \in WorkerRecord
    /\ CheckpointsTyped

-----------------------------------------------------------------------------
(* Admission *)

Called == {c \in Calls : call[c].stage # "idle"}
Turn(c) == call[c].turn
OwnerTurn(id) == call[entries[id].owner].turn

\* Turns are given in the order of the calls; what waits in line was called in
\* that order, and after everything that is pending or active.
InTurn ==
    /\ IsFiniteSet(Called)
    /\ \A c \in Calls : Turn(c) <= Cardinality(Called)
    /\ \A i \in DOMAIN line : call[line[i]].stage = "admission"
    /\ \A i, j \in DOMAIN line : i < j => Turn(line[i]) < Turn(line[j])
    /\ \A i, j \in DOMAIN pending : i < j => OwnerTurn(pending[i]) < OwnerTurn(pending[j])
    /\ \A i \in DOMAIN pending, j \in DOMAIN line : OwnerTurn(pending[i]) < Turn(line[j])
    /\ active # None =>
         /\ \A j \in DOMAIN line : OwnerTurn(active) < Turn(line[j])
         /\ \A i \in DOMAIN pending : OwnerTurn(active) < OwnerTurn(pending[i])

-----------------------------------------------------------------------------
(* Settlement *)

Submitted(id) == entries[id].state # "none"
Open(id) == entries[id].state \in {"queued", "executing"} /\ entries[id].outcome = "pending"

Admitted(c, id) ==
    c \in Calls /\ call[c].stage \notin {"idle", "admission"} /\ CommandId(c) = id

Subscribed(c, id) ==
    /\ call[c].stage = "subscribed" /\ CommandId(c) = id
    /\ Operation(c) = entries[id].operation /\ call[c].input = entries[id].input

\* An entry that was submitted has an owner that called; while its promise is
\* open every call that follows it, the owner first, is subscribed, once.
Followed(id) ==
    /\ Submitted(id) => Admitted(entries[id].owner, id)
    /\ Open(id) =>
         /\ entries[id].subscribers # <<>>
         /\ entries[id].subscribers[1] = entries[id].owner
         /\ \A i \in DOMAIN entries[id].subscribers : Subscribed(entries[id].subscribers[i], id)
         /\ \A i, j \in DOMAIN entries[id].subscribers :
              entries[id].subscribers[i] = entries[id].subscribers[j] => i = j
    /\ entries[id].state = "none" => entries[id].outcome = "pending"
    /\ entries[id].state = "queued" => entries[id].outcome = "pending"
    /\ entries[id].state = "completed" => entries[id].outcome # "pending"
    /\ entries[id].state \in {"failed", "cancelled", "terminated"}
         => entries[id].outcome = "rejected"
    /\ entries[id].outcome = "resolved"
         => entries[id].state = "completed" /\ entries[id].receipt \in Receipts

\* A call waits for an entry that is open, and returns what resolved it.
Waiting(c) ==
    /\ call[c].stage = "subscribed" => Open(CommandId(c))
    /\ call[c].stage = "resuming" => Operation(c) = "restore"
    /\ call[c].stage \in {"resuming", "returned"} =>
         call[c].receipt \in Receipts /\ entries[CommandId(c)].outcome = "resolved"
    /\ call[c].stage = "returned" /\ Operation(c) # "restore"
         => call[c].receipt = entries[CommandId(c)].receipt

Continues(j, c) == j = Settle(c) \/ j = Resume(c)

Settlement ==
    /\ \A id \in Ids : Followed(id)
    /\ \A c \in Calls : Waiting(c)
    /\ \A i \in DOMAIN pending : entries[pending[i]].state = "queued"
    /\ active # None => entries[active].state = "executing"
    /\ active # None /\ ~terminal => entries[active].outcome = "pending"
    /\ \A i \in DOMAIN jobs : \A c \in Calls :
         Continues(jobs[i], c) =>
           /\ call[c].stage = "resuming"
           /\ \A j \in DOMAIN jobs : Continues(jobs[j], c) => j = i

Queue == QueueTyped /\ InTurn /\ Settlement

-----------------------------------------------------------------------------
(* A client that keeps its restores apart *)

Continuing == \E i \in DOMAIN jobs : jobs[i] # Pump

Alone ==
    /\ \A c, d \in Outstanding : Operation(c) = "restore" => d = c
    /\ Continuing => active = None /\ pending = <<>>

OneGeneration ==
    queueGeneration = kernel.generation /\ references.generation = kernel.generation

OneImage ==
    /\ worker.invoked.registered = worker.invoked.ran
    /\ Continuing \/ \A ref \in references.live : ref.image = worker.image

ApartNow == Alone /\ OneGeneration /\ OneImage

\* No two calls share a command id when one of them restores.
OneRestorePerId ==
    \A c, d \in Calls : CommandId(c) = CommandId(d) /\ Operation(c) = "restore" => c = d

\* What the worker's memory descends from is what the next descriptor names.
Descends ==
    /\ \A i \in DOMAIN jobs : \A c \in Calls :
         Continues(jobs[i], c) => worker.taken = None /\ worker.at.ref = call[c].input
    /\ worker.taken = None =>
         Continuing \/ (worker.at # None => worker.at.ref = kernel.activeRef)
    /\ worker.taken # None =>
         /\ active # None /\ entries[active].operation = "checkpoint"
         /\ worker.at.ref = active
         /\ worker.taken.baseline # None => worker.taken.baseline.ref = kernel.activeRef
    /\ DeltaMatchesParent

Lineage == client.apart /\ OneRestorePerId /\ unsealed = 0 => Descends
-----------------------------------------------------------------------------
(* Records and functions of the state *)

LEMMA JobKinds ==
    /\ \A c \in Calls : ~Continues(Pump, c)
    /\ \A j \in Jobs : j # Pump => \E c \in Calls : Continues(j, c)
    /\ \A c, d \in Calls : Continues(Settle(c), d) => d = c
    /\ \A c, d \in Calls : Continues(Resume(c), d) => d = c
    /\ \A c \in Calls : Settle(c) \in Jobs /\ Resume(c) \in Jobs
    /\ \A c \in Calls : Settle(c) # Pump /\ Resume(c) # Pump
    /\ Pump \in Jobs
  <1>1. ASSUME NEW c \in Calls
        PROVE  /\ Pump # Settle(c) /\ Pump # Resume(c)
               /\ \A d \in Calls : Settle(c) # Resume(d)
    <2>1. Pump.job = "pump" /\ Settle(c).job = "settle" /\ Resume(c).job = "resume"
          /\ \A d \in Calls : Resume(d).job = "resume"
      BY DEF Pump, Settle, Resume
    <2> QED BY <2>1
  <1>2. ASSUME NEW c \in Calls, NEW d \in Calls
        PROVE  /\ Settle(c) = Settle(d) => c = d
               /\ Resume(c) = Resume(d) => c = d
    <2>1. Settle(c).call = c /\ Settle(d).call = d /\ Resume(c).call = c /\ Resume(d).call = d
      BY DEF Settle, Resume
    <2> QED BY <2>1
  <1> QED BY <1>1, <1>2 DEF Continues, Jobs

\* Every call of cs is rejected; nothing else changes.
LEMMA RejectFields ==
    ASSUME call \in [Calls -> CallRecord], NEW cs
    PROVE  /\ Reject(cs) \in [Calls -> CallRecord]
           /\ \A c \in Calls \ cs : Reject(cs)[c] = call[c]
           /\ \A c \in Calls :
                /\ c \in cs => Reject(cs)[c].stage = "rejected"
                /\ Reject(cs)[c].turn = call[c].turn /\ Reject(cs)[c].input = call[c].input
                /\ Reject(cs)[c].receipt = call[c].receipt
                /\ Reject(cs)[c].generation = call[c].generation
  <1>1. ASSUME NEW c \in Calls
        PROVE  LET q == [call[c] EXCEPT !.stage = "rejected"]
               IN  /\ q \in CallRecord /\ q.stage = "rejected" /\ q.turn = call[c].turn
                   /\ q.input = call[c].input /\ q.receipt = call[c].receipt
                   /\ q.generation = call[c].generation
    BY SMT DEF CallRecord, Stages
  <1>2. ASSUME NEW c \in Calls
        PROVE  Reject(cs)[c] = IF c \in cs THEN [call[c] EXCEPT !.stage = "rejected"]
                               ELSE call[c]
    BY DEF Reject
  <1>3. \A c \in Calls : Reject(cs)[c] \in CallRecord
    BY <1>1, <1>2
  <1>4. Reject(cs) \in [Calls -> CallRecord]
    BY <1>3 DEF Reject
  <1> QED BY <1>1, <1>2, <1>4

LEMMA ResolveFields ==
    ASSUME call \in [Calls -> CallRecord], NEW cs, NEW receipt \in Receipts
    PROVE  /\ Resolve(cs, receipt) \in [Calls -> CallRecord]
           /\ \A c \in Calls \ cs : Resolve(cs, receipt)[c] = call[c]
           /\ \A c \in Calls :
                LET q == Resolve(cs, receipt)[c] IN
                /\ c \in cs => /\ q.stage = IF Operation(c) = "restore" THEN "resuming"
                                            ELSE "returned"
                               /\ q.receipt = receipt
                /\ q.turn = call[c].turn /\ q.input = call[c].input
                /\ q.generation = call[c].generation
  <1>1. ASSUME NEW c \in Calls, NEW stage \in Stages
        PROVE  LET q == [call[c] EXCEPT !.stage = stage, !.receipt = receipt]
               IN  /\ q \in CallRecord /\ q.stage = stage /\ q.turn = call[c].turn
                   /\ q.input = call[c].input /\ q.receipt = receipt
                   /\ q.generation = call[c].generation
    <2> DEFINE q1 == [call[c] EXCEPT !.stage = stage]
               q2 == [q1 EXCEPT !.receipt = receipt]
    <2>1. /\ q1 \in CallRecord /\ q1.stage = stage /\ q1.turn = call[c].turn
          /\ q1.input = call[c].input /\ q1.generation = call[c].generation
      BY SMT DEF CallRecord
    <2> HIDE DEF q1
    <2>2. /\ q2 \in CallRecord /\ q2.stage = stage /\ q2.turn = call[c].turn
          /\ q2.input = call[c].input /\ q2.generation = call[c].generation
          /\ q2.receipt = receipt
      BY <2>1, SMT DEF CallRecord
    <2> QED BY <2>2 DEF q1
  <1>2. ASSUME NEW c \in Calls
        PROVE  Resolve(cs, receipt)[c] =
                 IF c \in cs
                 THEN IF Operation(c) = "restore"
                      THEN [call[c] EXCEPT !.stage = "resuming", !.receipt = receipt]
                      ELSE [call[c] EXCEPT !.stage = "returned", !.receipt = receipt]
                 ELSE call[c]
    BY DEF Resolve
  <1>3. "resuming" \in Stages /\ "returned" \in Stages
    BY DEF Stages
  <1> HIDE DEF Resolve
  <1>4. ASSUME NEW c \in Calls
        PROVE  LET q == Resolve(cs, receipt)[c] IN
                /\ q \in CallRecord
                /\ c \notin cs => q = call[c]
                /\ c \in cs => /\ q.stage = IF Operation(c) = "restore" THEN "resuming"
                                            ELSE "returned"
                               /\ q.receipt = receipt
                /\ q.turn = call[c].turn /\ q.input = call[c].input
                /\ q.generation = call[c].generation
    <2>1. CASE c \in cs /\ Operation(c) = "restore"
      <3> DEFINE w == [call[c] EXCEPT !.stage = "resuming", !.receipt = receipt]
      <3>1. /\ w \in CallRecord /\ w.stage = "resuming" /\ w.turn = call[c].turn
            /\ w.input = call[c].input /\ w.receipt = receipt
            /\ w.generation = call[c].generation
        BY <1>1, <1>3
      <3>2. Resolve(cs, receipt)[c] = w
        BY <1>2, <2>1
      <3> HIDE DEF w
      <3> QED BY <2>1, <3>1, <3>2
    <2>2. CASE c \in cs /\ Operation(c) # "restore"
      <3> DEFINE w == [call[c] EXCEPT !.stage = "returned", !.receipt = receipt]
      <3>1. /\ w \in CallRecord /\ w.stage = "returned" /\ w.turn = call[c].turn
            /\ w.input = call[c].input /\ w.receipt = receipt
            /\ w.generation = call[c].generation
        BY <1>1, <1>3
      <3>2. Resolve(cs, receipt)[c] = w
        BY <1>2, <2>2
      <3> HIDE DEF w
      <3> QED BY <2>2, <3>1, <3>2
    <2>3. CASE c \notin cs
      BY <1>2, <2>3
    <2> QED BY <2>1, <2>2, <2>3
  <1>5. Resolve(cs, receipt) \in [Calls -> CallRecord]
    BY <1>4 DEF Resolve
  <1> QED BY <1>4, <1>5

\* The next in line is given its generation, and nothing else.
LEMMA TurnFields ==
    ASSUME WorldTyped, NEW f \in [Calls -> CallRecord], NEW l \in Seq(Calls)
    PROVE  /\ TakesTurn(f, l) \in [Calls -> CallRecord]
           /\ \A c \in Calls :
                LET q == TakesTurn(f, l)[c] IN
                /\ q.stage = f[c].stage /\ q.turn = f[c].turn
                /\ q.input = f[c].input /\ q.receipt = f[c].receipt
  <1>1. CASE l = <<>>
    BY <1>1 DEF TakesTurn
  <1>2. CASE l # <<>>
    <2>1. PICK h \in Calls : h = Head(l)
      BY <1>2
    <2> DEFINE g == IF f[h].generation = None THEN kernel.generation ELSE f[h].generation
               q == [f[h] EXCEPT !.generation = g]
    <2>2. TakesTurn(f, l) = [f EXCEPT ![h] = q]
      BY <1>2, <2>1 DEF TakesTurn
    <2>3. g \in Nat \cup {None}
      <3>1. kernel.generation \in Nat /\ f[h].generation \in Nat \cup {None}
        BY SMT DEF WorldTyped, KernelRecord, CallRecord
      <3> QED BY <3>1
    <2> HIDE DEF g
    <2>4. q \in CallRecord /\ q.stage = f[h].stage /\ q.turn = f[h].turn
          /\ q.input = f[h].input /\ q.receipt = f[h].receipt
      BY <2>3, SMT DEF CallRecord
    <2> HIDE DEF q
    <2> QED BY <2>2, <2>4
  <1> QED BY <1>1, <1>2

\* The entry whose state and outcome change.
LEMMA EntryFields ==
    ASSUME NEW e \in EntryRecord, NEW state \in States, NEW outcome \in Outcomes
    PROVE  LET q == [e EXCEPT !.state = state, !.outcome = outcome]
           IN  /\ q \in EntryRecord /\ q.state = state /\ q.outcome = outcome
               /\ q.owner = e.owner /\ q.operation = e.operation /\ q.input = e.input
               /\ q.subscribers = e.subscribers /\ q.receipt = e.receipt
  <1> DEFINE q1 == [e EXCEPT !.state = state]
             q2 == [q1 EXCEPT !.outcome = outcome]
  <1>1. /\ q1 \in EntryRecord /\ q1.state = state
        /\ q1.owner = e.owner /\ q1.operation = e.operation /\ q1.input = e.input
        /\ q1.subscribers = e.subscribers /\ q1.receipt = e.receipt /\ q1.outcome = e.outcome
    BY SMT DEF EntryRecord
  <1> HIDE DEF q1
  <1>2. /\ q2 \in EntryRecord /\ q2.state = state /\ q2.outcome = outcome
        /\ q2.owner = e.owner /\ q2.operation = e.operation /\ q2.input = e.input
        /\ q2.subscribers = e.subscribers /\ q2.receipt = e.receipt
    BY <1>1, SMT DEF EntryRecord
  <1> QED BY <1>2 DEF q1

LEMMA ReceiptFields ==
    ASSUME NEW e \in EntryRecord, NEW receipt \in Receipts
    PROVE  LET q == [e EXCEPT !.receipt = receipt]
           IN  /\ q \in EntryRecord /\ q.state = e.state /\ q.outcome = e.outcome
               /\ q.owner = e.owner /\ q.operation = e.operation /\ q.input = e.input
               /\ q.subscribers = e.subscribers /\ q.receipt = receipt
  BY SMT DEF EntryRecord

LEMMA SubscriberFields ==
    ASSUME NEW e \in EntryRecord, NEW c \in Calls
    PROVE  LET q == [e EXCEPT !.subscribers = Append(@, c)]
           IN  /\ q \in EntryRecord /\ q.state = e.state /\ q.outcome = e.outcome
               /\ q.owner = e.owner /\ q.operation = e.operation /\ q.input = e.input
               /\ q.subscribers = Append(e.subscribers, c) /\ q.receipt = e.receipt
  <1> DEFINE s == Append(e.subscribers, c)
  <1>1. s \in Seq(Calls)
    <2>1. e.subscribers \in Seq(Calls)
      BY SMT DEF EntryRecord
    <2> QED BY <2>1
  <1> HIDE DEF s
  <1>2. LET q == [e EXCEPT !.subscribers = s]
        IN  /\ q \in EntryRecord /\ q.state = e.state /\ q.outcome = e.outcome
            /\ q.owner = e.owner /\ q.operation = e.operation /\ q.input = e.input
            /\ q.subscribers = s /\ q.receipt = e.receipt
    BY <1>1, SMT DEF EntryRecord
  <1> QED BY <1>2 DEF s

-----------------------------------------------------------------------------
(* Settlement *)

\* What every step keeps of an entry.
SameEntry(id) ==
    /\ entries'[id].owner = entries[id].owner /\ entries'[id].operation = entries[id].operation
    /\ entries'[id].input = entries[id].input

SameCall(c) == call'[c].turn = call[c].turn /\ call'[c].input = call[c].input

\* The entries of D, none of them settled before, are rejected with every call
\* that follows one of them; a call that was continuing may end.
Rejecting(D) ==
    /\ \A id \in D : id \in Ids /\ entries[id].state \in {"queued", "executing"}
    /\ \A id \in Ids :
         /\ SameEntry(id)
         /\ id \notin D => entries'[id] = entries[id]
         /\ id \in D => /\ entries'[id].outcome = "rejected"
                        /\ entries'[id].state \in {"failed", "cancelled", "terminated", "executing"}
    /\ \A c \in Calls :
         /\ SameCall(c)
         /\ call[c].stage = "subscribed" /\ CommandId(c) \in D => call'[c].stage = "rejected"
         /\ \/ call[c].stage = "subscribed" /\ CommandId(c) \in D
            \/ call'[c] = call[c]
            \/ /\ call[c].stage = "resuming" /\ call'[c].stage \in {"returned", "rejected"}
               /\ call'[c].receipt \in Receipts
    /\ \A i \in DOMAIN pending' : /\ pending'[i] \notin D
                                  /\ \E k \in DOMAIN pending : pending'[i] = pending[k]
    /\ active' # None => /\ active' = active /\ entries'[active].state = "executing"
                         /\ ~terminal' => active \notin D
    /\ terminal => terminal'

\* The jobs that continue a restore, one for each call that is resuming.
JobsSound ==
    \A i \in DOMAIN jobs : \A c \in Calls :
      Continues(jobs[i], c) =>
        /\ call[c].stage = "resuming"
        /\ \A j \in DOMAIN jobs : Continues(jobs[j], c) => j = i

\* No call goes back to where it was not admitted yet.
NoneGoesBack ==
    \A c \in Calls : call[c].stage \notin {"idle", "admission"}
                       => call'[c].stage \notin {"idle", "admission"}

\* An entry that at most starts, and whose followers stay.
LEMMA EntryKept ==
    ASSUME Queue, NEW id \in Ids, NoneGoesBack, SameEntry(id),
           \/ entries'[id].state = entries[id].state
           \/ entries[id].state = "queued" /\ entries'[id].state = "executing",
           entries'[id].outcome = entries[id].outcome,
           entries'[id].subscribers = entries[id].subscribers,
           entries'[id].receipt = entries[id].receipt,
           \A c \in Calls : call[c].stage = "subscribed" /\ CommandId(c) = id
              => call'[c].stage = "subscribed" /\ call'[c].input = call[c].input
    PROVE  Followed(id)'
  <1>1. PICK e \in EntryRecord : e = entries[id]
    BY DEF Queue, QueueTyped
  <1>2. PICK state : state = entries'[id].state
    OBVIOUS
  <1>3. /\ entries'[id].owner = e.owner /\ entries'[id].operation = e.operation
        /\ entries'[id].input = e.input /\ entries'[id].outcome = e.outcome
        /\ entries'[id].subscribers = e.subscribers /\ entries'[id].receipt = e.receipt
        /\ entries'[id].state = state
        /\ state = e.state \/ (e.state = "queued" /\ state = "executing")
    BY <1>1, <1>2 DEF SameEntry
  <1>4. e.subscribers \in Seq(Calls)
    BY SMT DEF EntryRecord
  <1>5. \A i \in DOMAIN e.subscribers : e.subscribers[i] \in Calls
    BY <1>4
  <1>6. Followed(id)
    BY DEF Queue, Settlement
  <1>7. /\ e.state # "none" =>
             /\ e.owner \in Calls /\ call[e.owner].stage \notin {"idle", "admission"}
             /\ CommandId(e.owner) = id
        /\ e.state \in {"queued", "executing"} /\ e.outcome = "pending" =>
              /\ e.subscribers # <<>> /\ e.subscribers[1] = e.owner
              /\ \A i \in DOMAIN e.subscribers :
                   /\ call[e.subscribers[i]].stage = "subscribed"
                   /\ CommandId(e.subscribers[i]) = id
                   /\ Operation(e.subscribers[i]) = e.operation
                   /\ call[e.subscribers[i]].input = e.input
              /\ \A i, j \in DOMAIN e.subscribers : e.subscribers[i] = e.subscribers[j] => i = j
    BY <1>1, <1>6 DEF Followed, Open, Submitted, Admitted, Subscribed
  <1>8. e.state # "none" => call'[e.owner].stage \notin {"idle", "admission"}
    BY <1>7 DEF NoneGoesBack
  <1>9. e.state \in {"queued", "executing"} /\ e.outcome = "pending" =>
          \A i \in DOMAIN e.subscribers :
             /\ call'[e.subscribers[i]].stage = "subscribed"
             /\ call'[e.subscribers[i]].input = e.input
    BY <1>5, <1>7
  <1>10. /\ e.state = "none" => e.outcome = "pending"
         /\ e.state = "queued" => e.outcome = "pending"
         /\ e.state = "completed" => e.outcome # "pending"
         /\ e.state \in {"failed", "cancelled", "terminated"} => e.outcome = "rejected"
         /\ e.outcome = "resolved" => e.state = "completed" /\ e.receipt \in Receipts
    BY <1>1, <1>6 DEF Followed
  <1>11. /\ state # "none" => e.state # "none"
         /\ state \in {"queued", "executing"} => e.state \in {"queued", "executing"}
         /\ state = "none" => e.state = "none"
         /\ state = "queued" => e.state = "queued"
         /\ state = "completed" => e.state = "completed"
         /\ state \in {"failed", "cancelled", "terminated"} => e.state = state
         /\ e.state = "completed" => state = "completed"
    BY <1>3
  <1> QED BY <1>3, <1>7, <1>8, <1>9, <1>10, <1>11
          DEF Followed, Open, Subscribed, Submitted, Admitted

\* A call whose entry stays open, or settled as it was.
LEMMA CallKept ==
    ASSUME Queue, NEW c \in Calls,
           call'[c].stage = call[c].stage, call'[c].receipt = call[c].receipt,
           call[c].stage = "subscribed" /\ Open(CommandId(c))
             => /\ entries'[CommandId(c)].state \in {"queued", "executing"}
                /\ entries'[CommandId(c)].outcome = "pending",
           entries[CommandId(c)].outcome = "resolved"
             => /\ entries'[CommandId(c)].outcome = "resolved"
                /\ entries'[CommandId(c)].receipt = entries[CommandId(c)].receipt
    PROVE  Waiting(c)'
  <1>1. Waiting(c)
    BY DEF Queue, Settlement
  <1> QED BY <1>1 DEF Waiting, Open

LEMMA RejectsSettle ==
    ASSUME Queue, QueueTyped', NEW D, Rejecting(D), JobsSound'
    PROVE  Settlement'
  <1>a. NoneGoesBack
    BY SMT DEF NoneGoesBack, Rejecting
  <1>1. ASSUME NEW id \in Ids
        PROVE  Followed(id)'
    <2>1. Followed(id)
      BY DEF Queue, Settlement
    <2>2. CASE id \in D
      <3>1. PICK owner : owner = entries[id].owner
        OBVIOUS
      <3>2. /\ entries'[id].outcome = "rejected" /\ entries'[id].owner = owner
            /\ entries'[id].state \in {"failed", "cancelled", "terminated", "executing"}
            /\ entries[id].state # "none"
        BY <2>2, <3>1 DEF Rejecting, SameEntry
      <3>3. /\ owner \in Calls /\ CommandId(owner) = id
            /\ call'[owner].stage \notin {"idle", "admission"}
        BY <1>a, <2>1, <3>1, <3>2 DEF Followed, Submitted, Admitted, NoneGoesBack
      <3> QED BY <3>2, <3>3, SMT DEF Followed, Open, Submitted, Admitted
    <2>3. CASE id \notin D
      <3>1. entries'[id] = entries[id] /\ SameEntry(id)
        BY <2>3 DEF Rejecting
      <3>2. \A c \in Calls : call[c].stage = "subscribed" /\ CommandId(c) = id
               => call'[c] = call[c]
        BY <2>3, SMT DEF Rejecting
      <3> QED BY <1>a, <3>1, <3>2, EntryKept
    <2> QED BY <2>2, <2>3
  <1>2. ASSUME NEW c \in Calls
        PROVE  Waiting(c)'
    <2>1. Waiting(c) /\ CommandId(c) \in Ids
      BY DEF Queue, Settlement, Ids
    <2> DEFINE id == CommandId(c)
    <2>2. CASE call[c].stage = "subscribed" /\ id \in D
      <3>1. call'[c].stage = "rejected"
        BY <2>2 DEF Rejecting
      <3> QED BY <3>1 DEF Waiting
    <2>3. entries[id].outcome = "resolved" => entries'[id] = entries[id]
      <3>1. entries[id].outcome = "resolved" => entries[id].state = "completed"
        BY <2>1 DEF Queue, Settlement, Followed
      <3> QED BY <2>1, <3>1 DEF Rejecting
    <2>4. CASE /\ ~(call[c].stage = "subscribed" /\ id \in D)
               /\ call'[c] = call[c]
      <3>1. id \notin D => entries'[id] = entries[id]
        BY <2>1 DEF Rejecting
      <3>2. call'[c].stage = "subscribed" => Open(id)'
        BY <2>1, <2>4, <3>1 DEF Waiting, Open
      <3> HIDE DEF id
      <3> QED BY <2>1, <2>3, <2>4, <3>2 DEF Waiting, id
    <2>5. CASE /\ call[c].stage = "resuming" /\ call'[c].stage \in {"returned", "rejected"}
               /\ call'[c].receipt \in Receipts
      <3>1. Operation(c) = "restore" /\ entries[id].outcome = "resolved"
        BY <2>1, <2>5 DEF Waiting
      <3> QED BY <2>3, <2>5, <3>1 DEF Waiting
    <2> QED BY <2>2, <2>4, <2>5 DEF Rejecting
  <1>3. \A i \in DOMAIN pending' : entries'[pending'[i]].state = "queued"
    <2> SUFFICES ASSUME NEW i \in DOMAIN pending' PROVE entries'[pending'[i]].state = "queued"
      OBVIOUS
    <2>1. PICK k \in DOMAIN pending : pending'[i] = pending[k]
      BY DEF Rejecting
    <2>2. pending[k] \in Ids /\ entries[pending[k]].state = "queued"
      BY DEF Queue, QueueTyped, Settlement
    <2>3. entries'[pending[k]] = entries[pending[k]]
      BY <2>1, <2>2 DEF Rejecting
    <2> QED BY <2>1, <2>2, <2>3
  <1>4. active' # None => entries'[active'].state = "executing"
    BY DEF Rejecting
  <1>5. active' # None /\ ~terminal' => entries'[active'].outcome = "pending"
    <2> SUFFICES ASSUME active' # None, ~terminal' PROVE entries'[active'].outcome = "pending"
      OBVIOUS
    <2>1. active' = active /\ active # None /\ active \notin D /\ ~terminal
      BY DEF Rejecting
    <2>2. active \in Ids
      BY <2>1 DEF Queue, QueueTyped, MaybeId
    <2>3. entries'[active] = entries[active] /\ entries[active].outcome = "pending"
      BY <2>1, <2>2 DEF Rejecting, Queue, Settlement
    <2> QED BY <2>1, <2>3
  <1> QED BY <1>1, <1>2, <1>3, <1>4, <1>5 DEF Settlement, JobsSound

\* What Finish and Throw do to the active entry.
LEMMA FinishFields ==
    ASSUME Queue, NEW id \in Ids, NEW receipt \in Receipts, Finish(id, receipt)
    PROVE  /\ entries' \in [Ids -> EntryRecord]
           /\ \A x \in Ids \ {id} : entries'[x] = entries[x]
           /\ SameEntry(id) /\ entries'[id].subscribers = entries[id].subscribers
           /\ entries'[id].state = "completed"
           /\ entries'[id].outcome = IF entries[id].outcome = "pending" THEN "resolved"
                                     ELSE entries[id].outcome
           /\ entries'[id].receipt = receipt
  <1>1. PICK e \in EntryRecord : e = entries[id]
    BY DEF Queue, QueueTyped
  <1>q. entries \in [Ids -> EntryRecord]
    BY DEF Queue, QueueTyped
  <1> DEFINE outcome == IF e.outcome = "pending" THEN "resolved" ELSE e.outcome
             p == [e EXCEPT !.state = "completed"]
             q1 == [p EXCEPT !.outcome = outcome]
             q2 == [q1 EXCEPT !.receipt = receipt]
             f1 == [entries EXCEPT ![id].state = "completed"]
             f2 == [f1 EXCEPT ![id].outcome = IF @ = "pending" THEN "resolved" ELSE @]
             f3 == [f2 EXCEPT ![id].receipt = receipt]
  <1>2. "completed" \in States /\ outcome \in Outcomes
    <2>1. e.outcome \in Outcomes
      BY SMT DEF EntryRecord
    <2> QED BY <2>1 DEF States, Outcomes
  <1> HIDE DEF outcome
  <1>p. /\ p \in EntryRecord /\ p.state = "completed" /\ p.outcome = e.outcome
        /\ p.owner = e.owner /\ p.operation = e.operation /\ p.input = e.input
        /\ p.subscribers = e.subscribers
    BY <1>2, SMT DEF EntryRecord
  <1>f. f1 = [entries EXCEPT ![id] = p]
    BY <1>1, <1>q
  <1> HIDE DEF p
  <1>3. /\ q1 \in EntryRecord /\ q1.state = "completed" /\ q1.outcome = outcome
        /\ q1.owner = e.owner /\ q1.operation = e.operation /\ q1.input = e.input
        /\ q1.subscribers = e.subscribers
    BY <1>p, <1>2, SMT DEF EntryRecord
  <1> HIDE DEF q1
  <1>4. /\ q2 \in EntryRecord /\ q2.state = "completed" /\ q2.outcome = outcome
        /\ q2.owner = e.owner /\ q2.operation = e.operation /\ q2.input = e.input
        /\ q2.subscribers = e.subscribers /\ q2.receipt = receipt
    BY <1>3, ReceiptFields
  <1>5. entries' = f3
    BY Zenon DEF Finish
  <1>7. f2 = [entries EXCEPT ![id] = q1]
    <2>2. f1[id] = p /\ DOMAIN f1 = Ids /\ \A x \in Ids \ {id} : f1[x] = entries[x]
      BY <1>1, <1>q, <1>f
    <2> HIDE DEF f1
    <2>3. f2 = [f1 EXCEPT ![id] = q1]
      BY <1>p, <2>2 DEF outcome, q1
    <2> QED BY <1>1, <1>q, <2>2, <2>3
  <1>8. f3 = [entries EXCEPT ![id] = q2]
    <2>1. f2[id] = q1 /\ DOMAIN f2 = Ids /\ \A x \in Ids \ {id} : f2[x] = entries[x]
      BY <1>1, <1>q, <1>7
    <2> HIDE DEF f2
    <2> QED BY <1>1, <1>q, <2>1
  <1> HIDE DEF q2, f3
  <1>9. entries' = [entries EXCEPT ![id] = q2]
    BY <1>5, <1>8
  <1> QED BY <1>1, <1>q, <1>4, <1>9 DEF outcome, SameEntry

LEMMA ThrowFields ==
    ASSUME Queue, NEW id \in Ids, Throw(id)
    PROVE  /\ entries' \in [Ids -> EntryRecord]
           /\ \A x \in Ids \ {id} : entries'[x] = entries[x]
           /\ SameEntry(id)
           /\ entries'[id].state = "failed"
           /\ entries'[id].outcome = IF entries[id].outcome = "pending" THEN "rejected"
                                     ELSE entries[id].outcome
  <1>1. PICK e \in EntryRecord : e = entries[id]
    BY DEF Queue, QueueTyped
  <1>q. entries \in [Ids -> EntryRecord]
    BY DEF Queue, QueueTyped
  <1> DEFINE outcome == IF e.outcome = "pending" THEN "rejected" ELSE e.outcome
             p == [e EXCEPT !.state = "failed"]
             q1 == [p EXCEPT !.outcome = outcome]
             f1 == [entries EXCEPT ![id].state = "failed"]
             f2 == [f1 EXCEPT ![id].outcome = IF @ = "pending" THEN "rejected" ELSE @]
  <1>2. "failed" \in States /\ outcome \in Outcomes
    <2>1. e.outcome \in Outcomes
      BY SMT DEF EntryRecord
    <2> QED BY <2>1 DEF States, Outcomes
  <1> HIDE DEF outcome
  <1>p. /\ p \in EntryRecord /\ p.state = "failed" /\ p.outcome = e.outcome
        /\ p.owner = e.owner /\ p.operation = e.operation /\ p.input = e.input
    BY <1>2, SMT DEF EntryRecord
  <1>f. f1 = [entries EXCEPT ![id] = p]
    BY <1>1, <1>q
  <1> HIDE DEF p
  <1>3. /\ q1 \in EntryRecord /\ q1.state = "failed" /\ q1.outcome = outcome
        /\ q1.owner = e.owner /\ q1.operation = e.operation /\ q1.input = e.input
    BY <1>p, <1>2, SMT DEF EntryRecord
  <1> HIDE DEF q1
  <1>4. entries' = f2
    BY Zenon DEF Throw
  <1>6. f2 = [entries EXCEPT ![id] = q1]
    <2>2. f1[id] = p /\ DOMAIN f1 = Ids /\ \A x \in Ids \ {id} : f1[x] = entries[x]
      BY <1>1, <1>q, <1>f
    <2> HIDE DEF f1
    <2>3. f2 = [f1 EXCEPT ![id] = q1]
      BY <1>p, <2>2 DEF outcome, q1
    <2> QED BY <1>1, <1>q, <2>2, <2>3
  <1> HIDE DEF f2
  <1>7. entries' = [entries EXCEPT ![id] = q1]
    BY <1>4, <1>6
  <1> QED BY <1>1, <1>q, <1>3, <1>7 DEF outcome, SameEntry


\* What the answer to the active command leaves of the microtask queue.
LEMMA AnswerJobs ==
    ASSUME Queue, Task, active # None, NEW receipt \in Receipts,
           Finish(active, receipt)
    PROVE  jobs' \in Seq(Jobs) /\ JobsSound'
  <1>1. active \in Ids
    BY DEF Queue, QueueTyped, MaybeId
  <1>2. PICK e \in EntryRecord : e = entries[active]
    BY <1>1 DEF Queue, QueueTyped
  <1>3. e.subscribers \in Seq(Calls)
    BY SMT DEF EntryRecord
  <1>4. CASE e.operation = "restore" /\ e.outcome = "pending"
    <2>1. jobs' = Append(SettleJobs(e.subscribers), Pump)
      BY <1>2, <1>4, Zenon DEF Finish
    <2> DEFINE n == Len(e.subscribers)
    <2>2. n \in Nat /\ DOMAIN e.subscribers = 1..n
      BY <1>3
    <2>3. /\ SettleJobs(e.subscribers) \in Seq(Jobs)
          /\ Len(SettleJobs(e.subscribers)) = n
          /\ \A i \in 1..n : SettleJobs(e.subscribers)[i] = Settle(e.subscribers[i])
      <3>1. SettleJobs(e.subscribers) = [i \in 1..n |-> Settle(e.subscribers[i])]
        BY <2>2 DEF SettleJobs
      <3>2. \A i \in 1..n : Settle(e.subscribers[i]) \in Jobs
        BY <1>3, JobKinds
      <3> QED BY <2>2, <3>1, <3>2
    <2>4. Pump \in Jobs
      BY JobKinds
    <2> HIDE DEF n
    <2>5. /\ jobs' \in Seq(Jobs) /\ DOMAIN jobs' = 1..(n + 1)
          /\ \A i \in 1..n : jobs'[i] = Settle(e.subscribers[i])
          /\ jobs'[n + 1] = Pump
      BY <2>1, <2>2, <2>3, <2>4
    <2>6. /\ \A i \in 1..n : /\ e.subscribers[i] \in Calls
                             /\ call[e.subscribers[i]].stage = "subscribed"
                             /\ CommandId(e.subscribers[i]) = active
                             /\ Operation(e.subscribers[i]) = "restore"
          /\ \A i, j \in 1..n : e.subscribers[i] = e.subscribers[j] => i = j
      <3>1. Followed(active) /\ Open(active)
        BY <1>1, <1>2, <1>4 DEF Queue, Settlement, Open
      <3> QED BY <1>2, <1>3, <1>4, <2>2, <3>1 DEF Followed, Subscribed
    <2>7. \A i \in 1..n : call'[e.subscribers[i]].stage = "resuming"
      <3> SUFFICES ASSUME NEW i \in 1..n PROVE call'[e.subscribers[i]].stage = "resuming"
        OBVIOUS
      <3>1. PICK c \in Calls : c = e.subscribers[i]
        BY <2>6
      <3>2. c \in Followers(active) /\ Operation(c) = "restore"
        BY <2>6, <3>1 DEF Followers
      <3>3. call' = Resolve(Followers(active), receipt) /\ call \in [Calls -> CallRecord]
        BY Zenon DEF Finish, Queue, QueueTyped
      <3>4. call'[c].stage = "resuming"
        BY <3>2, <3>3, ResolveFields
      <3> QED BY <3>1, <3>4
    <2>8. ASSUME NEW i \in 1..(n + 1), NEW c \in Calls, Continues(jobs'[i], c)
          PROVE  i \in 1..n /\ c = e.subscribers[i]
      <3>1. i # n + 1
        BY <2>5, <2>8, JobKinds
      <3>2. i \in 1..n
        BY <2>2, <3>1
      <3> QED BY <2>5, <2>6, <2>8, <3>2, JobKinds
    <2>9. JobsSound'
      BY <2>5, <2>6, <2>7, <2>8 DEF JobsSound, Continues
    <2> QED BY <2>5, <2>9
  <1>5. CASE ~(e.operation = "restore" /\ e.outcome = "pending")
    <2>1. jobs' = <<Pump>>
      BY <1>2, <1>5, Zenon DEF Finish
    <2> QED BY <2>1, JobKinds DEF JobsSound, Continues
  <1> QED BY <1>4, <1>5

LEMMA FinishSettles ==
    ASSUME Queue, QueueTyped', Task, active # None, NEW receipt \in Receipts,
           Finish(active, receipt), UNCHANGED <<pending, terminal>>
    PROVE  Settlement'
  <1>1. PICK id \in Ids : id = active
    BY DEF Queue, QueueTyped, MaybeId
  <1>2. /\ entries' \in [Ids -> EntryRecord]
        /\ \A x \in Ids \ {id} : entries'[x] = entries[x]
        /\ SameEntry(id)
        /\ entries'[id].state = "completed"
        /\ entries'[id].outcome = IF entries[id].outcome = "pending" THEN "resolved"
                                  ELSE entries[id].outcome
        /\ entries'[id].receipt = receipt
    BY <1>1, FinishFields
  <1>3. /\ entries[id].state = "executing" /\ Followed(id)
        /\ entries[id].outcome \in {"pending", "rejected"}
    <2>1. entries[id].state = "executing" /\ Followed(id)
      BY <1>1 DEF Queue, Settlement
    <2>2. entries[id].outcome \in Outcomes
      BY SMT DEF Queue, QueueTyped, EntryRecord
    <2> QED BY <2>1, <2>2 DEF Followed, Outcomes
  <1>4. /\ call \in [Calls -> CallRecord]
        /\ call' = Resolve(Followers(id), receipt)
    BY <1>1, Zenon DEF Queue, QueueTyped, Finish
  <1>5. /\ \A c \in Calls \ Followers(id) : call'[c] = call[c]
        /\ \A c \in Followers(id) : /\ call'[c].stage = IF Operation(c) = "restore"
                                                        THEN "resuming" ELSE "returned"
                                    /\ call'[c].receipt = receipt
    BY <1>4, ResolveFields DEF Followers
  <1>6. NoneGoesBack
    <2> SUFFICES ASSUME NEW c \in Calls, call[c].stage \notin {"idle", "admission"}
                 PROVE  call'[c].stage \notin {"idle", "admission"}
      BY DEF NoneGoesBack
    <2> QED BY <1>5
  <1>7. ASSUME NEW x \in Ids
        PROVE  Followed(x)'
    <2>1. CASE x # id
      <3>1. entries'[x] = entries[x]
        BY <1>2, <2>1
      <3>2. \A c \in Calls : call[c].stage = "subscribed" /\ CommandId(c) = x
              => call'[c] = call[c]
        BY <1>5, <2>1 DEF Followers
      <3> QED BY <1>6, <3>1, <3>2, EntryKept DEF SameEntry
    <2>2. CASE x = id
      <3>1. PICK owner : owner = entries[id].owner
        OBVIOUS
      <3>2. owner \in Calls /\ CommandId(owner) = id
            /\ call'[owner].stage \notin {"idle", "admission"}
        BY <1>3, <1>6, <3>1 DEF Followed, Submitted, Admitted, NoneGoesBack
      <3>3. entries'[id].owner = owner
        BY <1>2, <3>1 DEF SameEntry
      <3> QED BY <1>2, <1>3, <2>2, <3>2, <3>3 DEF Followed, Open, Submitted, Admitted
    <2> QED BY <2>1, <2>2
  <1>8. ASSUME NEW c \in Calls
        PROVE  Waiting(c)'
    <2>1. Waiting(c)
      BY DEF Queue, Settlement
    <2>2. CASE c \in Followers(id)
      <3>1. Open(id) /\ CommandId(c) = id
        BY <2>1, <2>2 DEF Followers, Waiting
      <3>2. entries'[id].outcome = "resolved"
        BY <1>2, <3>1 DEF Open
      <3> QED BY <1>2, <1>5, <2>2, <3>1, <3>2 DEF Waiting
    <2>3. CASE c \notin Followers(id)
      <3>1. call'[c] = call[c]
        BY <1>5, <2>3
      <3>2. CommandId(c) \in Ids
        BY DEF Ids
      <3>3. call[c].stage = "subscribed" => CommandId(c) # id
        BY <2>3 DEF Followers
      <3>4. entries[CommandId(c)].outcome = "resolved" => CommandId(c) # id
        BY <1>3
      <3> QED BY <1>2, <3>1, <3>2, <3>3, <3>4, CallKept DEF Open
    <2> QED BY <2>2, <2>3
  <1>9. \A i \in DOMAIN pending' : entries'[pending'[i]].state = "queued"
    <2> SUFFICES ASSUME NEW i \in DOMAIN pending PROVE entries'[pending[i]].state = "queued"
      OBVIOUS
    <2>1. pending[i] \in Ids /\ entries[pending[i]].state = "queued"
      BY DEF Queue, QueueTyped, Settlement
    <2> QED BY <1>2, <1>3, <2>1
  <1>10. active' = None
    BY DEF Finish
  <1> QED BY <1>7, <1>8, <1>9, <1>10, AnswerJobs DEF Settlement, JobsSound

LEMMA ThrowSettles ==
    ASSUME Queue, QueueTyped', Task, active # None,
           Throw(active), UNCHANGED <<pending, terminal>>
    PROVE  Settlement'
  <1>1. PICK id \in Ids : id = active
    BY DEF Queue, QueueTyped, MaybeId
  <1>2. /\ entries' \in [Ids -> EntryRecord]
        /\ \A x \in Ids \ {id} : entries'[x] = entries[x]
        /\ SameEntry(id)
        /\ entries'[id].state = "failed"
        /\ entries'[id].outcome = IF entries[id].outcome = "pending" THEN "rejected"
                                  ELSE entries[id].outcome
    BY <1>1, ThrowFields
  <1>3. /\ entries[id].state = "executing" /\ Followed(id)
        /\ entries[id].outcome \in {"pending", "rejected"}
    <2>1. entries[id].state = "executing" /\ Followed(id)
      BY <1>1 DEF Queue, Settlement
    <2>2. entries[id].outcome \in Outcomes
      BY SMT DEF Queue, QueueTyped, EntryRecord
    <2> QED BY <2>1, <2>2 DEF Followed, Outcomes
  <1>4. call \in [Calls -> CallRecord] /\ call' = Reject(Followers(id))
    BY <1>1, Zenon DEF Queue, QueueTyped, Throw
  <1>5. /\ \A c \in Calls \ Followers(id) : call'[c] = call[c]
        /\ \A c \in Followers(id) : call'[c].stage = "rejected"
        /\ \A c \in Calls : SameCall(c)
    <2>1. \A c \in Followers(id) : c \in Calls
      BY DEF Followers
    <2> QED BY <1>4, <2>1, RejectFields DEF SameCall
  <1>6. JobsSound'
    <2>1. jobs' = <<Pump>>
      BY Zenon DEF Throw
    <2> QED BY <2>1, JobKinds DEF JobsSound, Continues
  <1>7. \A i \in DOMAIN pending : pending[i] # id
    BY <1>3 DEF Queue, Settlement
  <1>8. Rejecting({id})
    <2>1. \A x \in Ids : /\ SameEntry(x)
                         /\ x # id => entries'[x] = entries[x]
      BY <1>2 DEF SameEntry
    <2>2. entries'[id].outcome = "rejected"
      BY <1>2, <1>3
    <2>3. ASSUME NEW c \in Calls
          PROVE  /\ call[c].stage = "subscribed" /\ CommandId(c) = id => call'[c].stage = "rejected"
                 /\ \/ call[c].stage = "subscribed" /\ CommandId(c) = id
                    \/ call'[c] = call[c]
      BY <1>5 DEF Followers
    <2>4. active' = None
      BY DEF Throw
    <2> QED BY <1>2, <1>3, <1>5, <1>7, <2>1, <2>2, <2>3, <2>4 DEF Rejecting
  <1> QED BY <1>6, <1>8, RejectsSettle

-----------------------------------------------------------------------------
(* The queue's invariant, step by step                                     *)

\* What is pending was pending, in the same order.
StillInOrder ==
    /\ \A i \in DOMAIN pending' : \E k \in DOMAIN pending : pending'[i] = pending[k]
    /\ \A i, j \in DOMAIN pending' : i < j =>
          \E k, m \in DOMAIN pending : /\ k < m
                                       /\ pending'[i] = pending[k] /\ pending'[j] = pending[m]

\* What becomes active was pending, before whatever stays so.
TakenInOrder ==
    \E k \in DOMAIN pending :
        /\ active' = pending[k]
        /\ \A i \in DOMAIN pending' :
              \E m \in DOMAIN pending : k < m /\ pending'[i] = pending[m]

LEMMA TurnsKept ==
    ASSUME Queue, UNCHANGED line, StillInOrder,
           active' = active \/ active' = None \/ TakenInOrder,
           \A id \in Ids : entries'[id].owner = entries[id].owner,
           \A c \in Calls :
              /\ call'[c].turn = call[c].turn
              /\ call'[c].stage = "idle" <=> call[c].stage = "idle"
              /\ call[c].stage = "admission" => call'[c].stage = "admission"
    PROVE  InTurn'
  <1>1. Called' = Called
    BY DEF Called
  <1>2. \A c \in Calls : Turn(c)' = Turn(c)
    BY DEF Turn
  <1>3. /\ \A i \in DOMAIN line : line[i] \in Calls
        /\ \A i \in DOMAIN pending : pending[i] \in Ids
        /\ active # None => active \in Ids
    BY DEF Queue, QueueTyped, MaybeId
  <1>4. ASSUME NEW i \in DOMAIN pending
        PROVE  entries[pending[i]].owner \in Calls
    <2>1. pending[i] \in Ids /\ entries[pending[i]].state = "queued"
      BY <1>3 DEF Queue, Settlement
    <2> QED BY <2>1 DEF Queue, Settlement, Followed, Submitted, Admitted
  <1>5. ASSUME active # None
        PROVE  entries[active].owner \in Calls
    <2>1. active \in Ids /\ entries[active].state = "executing"
      BY <1>3, <1>5 DEF Queue, Settlement
    <2> QED BY <2>1 DEF Queue, Settlement, Followed, Submitted, Admitted
  <1>6. \A i \in DOMAIN pending : call'[entries'[pending[i]].owner].turn = OwnerTurn(pending[i])
    BY <1>3, <1>4 DEF OwnerTurn
  <1>7. active # None => call'[entries'[active].owner].turn = OwnerTurn(active)
    BY <1>3, <1>5 DEF OwnerTurn
  <1>8. \A i \in DOMAIN line : call'[line[i]].turn = call[line[i]].turn
    BY <1>3
  <1>9. IsFiniteSet(Called') /\ \A c \in Calls : call'[c].turn <= Cardinality(Called')
    BY <1>1 DEF Queue, InTurn, Turn
  <1>10. \A i \in DOMAIN line' : call'[line'[i]].stage = "admission"
    BY <1>3 DEF Queue, InTurn
  <1>11. \A i, j \in DOMAIN line' : i < j => call'[line'[i]].turn < call'[line'[j]].turn
    BY <1>8 DEF Queue, InTurn, Turn
  <1>12. ASSUME NEW i \in DOMAIN pending', NEW j \in DOMAIN pending', i < j
         PROVE  call'[entries'[pending'[i]].owner].turn < call'[entries'[pending'[j]].owner].turn
    <2>1. PICK k \in DOMAIN pending, m \in DOMAIN pending :
             k < m /\ pending'[i] = pending[k] /\ pending'[j] = pending[m]
      BY <1>12 DEF StillInOrder
    <2>2. OwnerTurn(pending[k]) < OwnerTurn(pending[m])
      BY <2>1 DEF Queue, InTurn
    <2> QED BY <1>6, <2>1, <2>2
  <1>13. ASSUME NEW i \in DOMAIN pending', NEW j \in DOMAIN line'
         PROVE  call'[entries'[pending'[i]].owner].turn < call'[line'[j]].turn
    <2>1. PICK k \in DOMAIN pending : pending'[i] = pending[k]
      BY DEF StillInOrder
    <2>2. j \in DOMAIN line /\ line'[j] = line[j]
      OBVIOUS
    <2>3. OwnerTurn(pending[k]) < call[line[j]].turn
      BY <2>2 DEF Queue, InTurn, Turn
    <2> QED BY <1>6, <1>8, <2>1, <2>2, <2>3
  <1>14. ASSUME active' # None
         PROVE  /\ \A j \in DOMAIN line' : call'[entries'[active'].owner].turn < call'[line'[j]].turn
                /\ \A i \in DOMAIN pending' : call'[entries'[active'].owner].turn
                                                < call'[entries'[pending'[i]].owner].turn
    <2>5. CASE active' = active
      <3>1. active' = active /\ active # None
        BY <1>14, <2>5
      <3>2. /\ \A j \in DOMAIN line : OwnerTurn(active) < call[line[j]].turn
            /\ \A i \in DOMAIN pending : OwnerTurn(active) < OwnerTurn(pending[i])
        BY <3>1 DEF Queue, InTurn, Turn
      <3>3. \A j \in DOMAIN line' : call'[entries'[active'].owner].turn < call'[line'[j]].turn
        BY <1>7, <1>8, <3>1, <3>2
      <3>4. ASSUME NEW i \in DOMAIN pending'
            PROVE  call'[entries'[active'].owner].turn < call'[entries'[pending'[i]].owner].turn
        <4>1. PICK k \in DOMAIN pending : pending'[i] = pending[k]
          BY DEF StillInOrder
        <4> QED BY <1>6, <1>7, <3>1, <3>2, <4>1
      <3> QED BY <3>3, <3>4
    <2>6. CASE TakenInOrder
      <3>1. PICK k \in DOMAIN pending :
               /\ active' = pending[k]
               /\ \A i \in DOMAIN pending' :
                     \E m \in DOMAIN pending : k < m /\ pending'[i] = pending[m]
        BY <2>6 DEF TakenInOrder
      <3>2. \A j \in DOMAIN line' : call'[entries'[active'].owner].turn < call'[line'[j]].turn
        <4> SUFFICES ASSUME NEW j \in DOMAIN line'
                     PROVE  call'[entries'[active'].owner].turn < call'[line'[j]].turn
          OBVIOUS
        <4>1. j \in DOMAIN line /\ line'[j] = line[j]
          OBVIOUS
        <4>2. OwnerTurn(pending[k]) < call[line[j]].turn
          BY <4>1 DEF Queue, InTurn, Turn
        <4> QED BY <1>6, <1>8, <3>1, <4>1, <4>2
      <3>3. ASSUME NEW i \in DOMAIN pending'
            PROVE  call'[entries'[active'].owner].turn < call'[entries'[pending'[i]].owner].turn
        <4>1. PICK m \in DOMAIN pending : k < m /\ pending'[i] = pending[m]
          BY <3>1
        <4>2. OwnerTurn(pending[k]) < OwnerTurn(pending[m])
          BY <4>1 DEF Queue, InTurn
        <4> QED BY <1>6, <3>1, <4>1, <4>2
      <3> QED BY <3>2, <3>3
    <2> QED BY <1>14, <2>5, <2>6
  <1> QED BY <1>9, <1>10, <1>11, <1>12, <1>13, <1>14 DEF InTurn, Turn, OwnerTurn

LEMMA FinishQueue ==
    ASSUME Queue, Task, active # None, NEW receipt \in Receipts,
           Finish(active, receipt), UNCHANGED <<line, pending, terminal>>
    PROVE  Queue'
  <1>1. PICK id \in Ids : id = active
    BY DEF Queue, QueueTyped, MaybeId
  <1>2. /\ entries' \in [Ids -> EntryRecord]
        /\ \A x \in Ids : SameEntry(x)
    BY <1>1, FinishFields DEF SameEntry
  <1>3. call \in [Calls -> CallRecord] /\ call' = Resolve(Followers(id), receipt)
    BY <1>1, Zenon DEF Queue, QueueTyped, Finish
  <1>4. /\ call' \in [Calls -> CallRecord]
        /\ \A c \in Calls : call'[c].turn = call[c].turn
        /\ \A c \in Calls \ Followers(id) : call'[c] = call[c]
        /\ \A c \in Followers(id) : call'[c].stage \in {"resuming", "returned"}
    BY <1>3, ResolveFields DEF Followers
  <1>5. active' = None
    BY DEF Finish
  <1>6. QueueTyped'
    BY <1>2, <1>4, <1>5, AnswerJobs DEF Queue, QueueTyped, MaybeId
  <1>7. \A c \in Calls : /\ call'[c].stage = "idle" <=> call[c].stage = "idle"
                         /\ call[c].stage = "admission" => call'[c].stage = "admission"
    BY <1>4 DEF Followers
  <1>8. StillInOrder
    BY DEF StillInOrder
  <1>9. InTurn'
    BY <1>2, <1>4, <1>5, <1>7, <1>8, TurnsKept DEF SameEntry
  <1> QED BY <1>6, <1>9, FinishSettles DEF Queue

LEMMA ThrowQueue ==
    ASSUME Queue, Task, active # None, Throw(active), UNCHANGED <<line, pending, terminal>>
    PROVE  Queue'
  <1>1. PICK id \in Ids : id = active
    BY DEF Queue, QueueTyped, MaybeId
  <1>2. /\ entries' \in [Ids -> EntryRecord]
        /\ \A x \in Ids : SameEntry(x)
    BY <1>1, ThrowFields DEF SameEntry
  <1>3. call \in [Calls -> CallRecord] /\ call' = Reject(Followers(id))
    BY <1>1, Zenon DEF Queue, QueueTyped, Throw
  <1>4. /\ call' \in [Calls -> CallRecord]
        /\ \A c \in Calls : call'[c].turn = call[c].turn
        /\ \A c \in Calls \ Followers(id) : call'[c] = call[c]
        /\ \A c \in Followers(id) : call'[c].stage = "rejected"
    BY <1>3, RejectFields DEF Followers
  <1>5. active' = None /\ jobs' = <<Pump>> /\ Pump \in Jobs
    BY JobKinds, Zenon DEF Throw
  <1>6. QueueTyped'
    <2>1. jobs' \in Seq(Jobs)
      BY <1>5
    <2> QED BY <1>2, <1>4, <1>5, <2>1 DEF Queue, QueueTyped, MaybeId
  <1>7. \A c \in Calls : /\ call'[c].stage = "idle" <=> call[c].stage = "idle"
                         /\ call[c].stage = "admission" => call'[c].stage = "admission"
    BY <1>4 DEF Followers
  <1>8. StillInOrder
    BY DEF StillInOrder
  <1>9. InTurn'
    BY <1>2, <1>4, <1>5, <1>7, <1>8, TurnsKept DEF SameEntry
  <1> QED BY <1>6, <1>9, ThrowSettles DEF Queue

LEMMA IdleQueue ==
    ASSUME Queue, UNCHANGED <<call, line, jobs, queue>>
    PROVE  Queue'
  <1>1. QueueTyped'
    BY DEF Queue, QueueTyped, queue
  <1>2. InTurn'
    BY DEF Queue, InTurn, Called, Turn, OwnerTurn, queue
  <1>3. Settlement'
    BY DEF Queue, Settlement, Followed, Waiting, Open, Submitted, Admitted, Subscribed, queue
  <1> QED BY <1>1, <1>2, <1>3 DEF Queue

PendingIds == {pending[i] : i \in DOMAIN pending}

\* The calls that follow a pending entry.
LEMMA PendingFollowers ==
    ASSUME Queue, NEW c \in Calls
    PROVE  (\E i \in DOMAIN pending : c \in Followers(pending[i]))
             <=> call[c].stage = "subscribed" /\ CommandId(c) \in PendingIds
  BY DEF Followers, PendingIds

LEMMA PendingAreQueued ==
    ASSUME Queue, NEW id \in PendingIds
    PROVE  id \in Ids /\ entries[id].state = "queued"
  BY DEF Queue, QueueTyped, Settlement, PendingIds

\* An entry rejected in the given state.
LEMMA OutcomeFields ==
    ASSUME NEW e \in EntryRecord
    PROVE  LET q == [e EXCEPT !.outcome = "rejected"]
           IN  /\ q \in EntryRecord /\ q.state = e.state /\ q.outcome = "rejected"
               /\ q.owner = e.owner /\ q.operation = e.operation /\ q.input = e.input
  <1> DEFINE q == [e EXCEPT !.outcome = "rejected"]
  <1>1. "rejected" \in Outcomes
    BY DEF Outcomes
  <1>2. /\ q \in EntryRecord /\ q.state = e.state /\ q.outcome = "rejected"
        /\ q.owner = e.owner /\ q.operation = e.operation /\ q.input = e.input
    BY <1>1, SMT DEF EntryRecord
  <1> QED BY <1>2

LEMMA EndFields ==
    ASSUME NEW e \in EntryRecord, NEW state \in {"failed", "cancelled", "terminated"}
    PROVE  LET q == [e EXCEPT !.state = state, !.outcome = "rejected"]
           IN  /\ q \in EntryRecord /\ q.state = state /\ q.outcome = "rejected"
               /\ q.owner = e.owner /\ q.operation = e.operation /\ q.input = e.input
  <1>1. state \in States /\ "rejected" \in Outcomes
    BY DEF States, Outcomes
  <1> DEFINE q1 == [e EXCEPT !.state = state]
             q2 == [q1 EXCEPT !.outcome = "rejected"]
  <1>2. /\ q1 \in EntryRecord /\ q1.state = state
        /\ q1.owner = e.owner /\ q1.operation = e.operation /\ q1.input = e.input
    BY <1>1, SMT DEF EntryRecord
  <1> HIDE DEF q1
  <1>3. /\ q2 \in EntryRecord /\ q2.state = state /\ q2.outcome = "rejected"
        /\ q2.owner = e.owner /\ q2.operation = e.operation /\ q2.input = e.input
    BY <1>1, <1>2, SMT DEF EntryRecord
  <1> QED BY <1>3 DEF q1

\* terminate(): the pending entries are rejected, and those dropped with them.
LEMMA TerminateQueue ==
    ASSUME Queue, Task, UNCHANGED <<line, jobs>>, NEW dropped, NEW cs,
           Terminate(dropped, cs),
           \/ dropped = {} /\ cs = {}
           \/ active # None /\ dropped = {active} /\ cs = Followers(active)
    PROVE  Queue'
  <1> DEFINE D == PendingIds \cup dropped
  <1>1. entries \in [Ids -> EntryRecord] /\ call \in [Calls -> CallRecord]
    BY DEF Queue, QueueTyped
  <1>2. ASSUME NEW id \in dropped
        PROVE  id = active /\ id \in Ids /\ entries[id].state = "executing"
    <2>1. id = active /\ active # None
      BY <1>2
    <2> QED BY <2>1 DEF Queue, QueueTyped, MaybeId, Settlement
  <1>3. \A id \in D : id \in Ids /\ entries[id].state \in {"queued", "executing"}
    BY <1>2, PendingAreQueued
  <1>4. entries' = [id \in Ids |->
           IF id \in PendingIds
           THEN [entries[id] EXCEPT !.state = "terminated", !.outcome = "rejected"]
           ELSE IF id \in dropped THEN [entries[id] EXCEPT !.outcome = "rejected"]
                ELSE entries[id]]
    BY DEF Terminate, PendingIds
  <1>5. ASSUME NEW id \in Ids
        PROVE  /\ entries'[id] \in EntryRecord
               /\ SameEntry(id)
               /\ id \notin D => entries'[id] = entries[id]
               /\ id \in D => /\ entries'[id].outcome = "rejected"
                              /\ entries'[id].state \in {"terminated", "executing"}
               /\ id \notin PendingIds => entries'[id].state = entries[id].state
    <2>1. PICK e \in EntryRecord : e = entries[id]
      BY <1>1
    <2>2. CASE id \in PendingIds
      <3> DEFINE q == [e EXCEPT !.state = "terminated", !.outcome = "rejected"]
      <3>1. /\ q \in EntryRecord /\ q.state = "terminated" /\ q.outcome = "rejected"
            /\ q.owner = e.owner /\ q.operation = e.operation /\ q.input = e.input
        <4>1. "terminated" \in {"failed", "cancelled", "terminated"}
          OBVIOUS
        <4> QED BY <4>1, EndFields
      <3>2. entries'[id] = q
        BY <1>4, <2>1, <2>2
      <3> HIDE DEF q
      <3> QED BY <2>1, <2>2, <3>1, <3>2 DEF SameEntry
    <2>3. CASE id \notin PendingIds /\ id \in dropped
      <3> DEFINE q == [e EXCEPT !.outcome = "rejected"]
      <3>1. /\ q \in EntryRecord /\ q.state = e.state /\ q.outcome = "rejected"
            /\ q.owner = e.owner /\ q.operation = e.operation /\ q.input = e.input
        BY OutcomeFields
      <3>2. entries'[id] = q /\ e.state = "executing"
        BY <1>2, <1>4, <2>1, <2>3
      <3> HIDE DEF q
      <3> QED BY <2>1, <2>3, <3>1, <3>2 DEF SameEntry
    <2>4. CASE id \notin D
      BY <1>4, <2>1, <2>4 DEF SameEntry
    <2> QED BY <2>2, <2>3, <2>4
  <1> DEFINE R == cs \cup {c \in Calls : \E i \in DOMAIN pending : c \in Followers(pending[i])}
  <1>6. call' = Reject(R) /\ pending' = <<>> /\ active' = active /\ terminal' = TRUE
    BY DEF Terminate
  <1>7. \A c \in Calls : c \in R <=> call[c].stage = "subscribed" /\ CommandId(c) \in D
    <2> SUFFICES ASSUME NEW c \in Calls
                 PROVE  c \in R <=> call[c].stage = "subscribed" /\ CommandId(c) \in D
      OBVIOUS
    <2>1. c \in cs <=> call[c].stage = "subscribed" /\ CommandId(c) \in dropped
      BY DEF Followers
    <2> QED BY <2>1, PendingFollowers
  <1> HIDE DEF R
  <1>8. /\ call' \in [Calls -> CallRecord]
        /\ \A c \in Calls : SameCall(c)
        /\ \A c \in Calls : /\ c \in R => call'[c].stage = "rejected"
                            /\ c \notin R => call'[c] = call[c]
    BY <1>1, <1>6, RejectFields DEF SameCall
  <1> HIDE DEF D
  <1>9. QueueTyped'
    <2>1. entries' \in [Ids -> EntryRecord]
      BY <1>4, <1>5
    <2>2. terminal' \in BOOLEAN /\ pending' \in Seq(Ids)
      BY <1>6
    <2> QED BY <1>6, <1>8, <2>1, <2>2 DEF Queue, QueueTyped
  <1>10. StillInOrder
    BY <1>6 DEF StillInOrder
  <1>11. InTurn'
    <2>1. \A c \in Calls : /\ call'[c].stage = "idle" <=> call[c].stage = "idle"
                           /\ call[c].stage = "admission" => call'[c].stage = "admission"
      BY <1>7, <1>8
    <2> QED BY <1>5, <1>6, <1>8, <1>10, <2>1, TurnsKept DEF SameEntry, SameCall
  <1>12. Rejecting(D)
    <2>1. active' # None => /\ active' = active /\ entries'[active].state = "executing"
                            /\ terminal'
      <3> SUFFICES ASSUME active # None PROVE entries'[active].state = "executing"
        BY <1>6
      <3>1. active \in Ids /\ entries[active].state = "executing"
        BY DEF Queue, QueueTyped, MaybeId, Settlement
      <3>2. active \notin PendingIds
        BY <3>1, PendingAreQueued
      <3> QED BY <1>5, <3>1, <3>2
    <2>2. DOMAIN pending' = {}
      BY <1>6
    <2>3. \A c \in Calls :
            /\ call[c].stage = "subscribed" /\ CommandId(c) \in D => call'[c].stage = "rejected"
            /\ \/ call[c].stage = "subscribed" /\ CommandId(c) \in D
               \/ call'[c] = call[c]
      BY <1>7, <1>8
    <2> QED BY <1>3, <1>5, <1>6, <1>8, <2>1, <2>2, <2>3 DEF Rejecting
  <1>13. JobsSound'
    BY DEF Task, JobsSound
  <1> QED BY <1>9, <1>11, <1>12, <1>13, RejectsSettle DEF Queue

-----------------------------------------------------------------------------
(* cancel() *)

LEMMA PendingOnce ==
    ASSUME Queue, NEW i \in DOMAIN pending, NEW j \in DOMAIN pending, pending[i] = pending[j]
    PROVE  i = j
  <1>1. pending \in Seq(Ids) /\ i \in Nat /\ j \in Nat
    BY DEF Queue, QueueTyped
  <1>2. \A k \in DOMAIN pending : OwnerTurn(pending[k]) \in Nat
    <2> SUFFICES ASSUME NEW k \in DOMAIN pending PROVE OwnerTurn(pending[k]) \in Nat
      OBVIOUS
    <2>1. pending[k] \in Ids /\ entries[pending[k]].state = "queued"
      BY <1>1 DEF Queue, Settlement
    <2>2. PICK c \in Calls : c = entries[pending[k]].owner
      BY <2>1 DEF Queue, Settlement, Followed, Submitted, Admitted
    <2>3. call[c].turn \in Nat
      BY SMT DEF Queue, QueueTyped, CallRecord
    <2> QED BY <2>2, <2>3 DEF OwnerTurn
  <1>3. /\ i < j => OwnerTurn(pending[i]) < OwnerTurn(pending[j])
        /\ j < i => OwnerTurn(pending[j]) < OwnerTurn(pending[i])
    BY DEF Queue, InTurn
  <1>4. PICK n \in Nat : n = OwnerTurn(pending[i])
    BY <1>2
  <1>5. OwnerTurn(pending[j]) = n
    BY <1>4
  <1> QED BY <1>1, <1>3, <1>4, <1>5

LEMMA WithoutFacts ==
    ASSUME NEW S, NEW s \in Seq(S), NEW k \in DOMAIN s
    PROVE  LET w == Without(s, k) IN
           /\ w \in Seq(S)
           /\ \A i \in DOMAIN w : i \in 1..(Len(s) - 1)
           /\ \A i \in DOMAIN w : w[i] = IF i < k THEN s[i] ELSE s[i + 1]
  <1>1. Len(s) \in Nat /\ k \in 1..Len(s) /\ Len(s) - 1 \in Nat
    OBVIOUS
  <1>2. \A i \in 1..(Len(s) - 1) : (IF i < k THEN s[i] ELSE s[i + 1]) \in S
    BY <1>1
  <1>3. Without(s, k) = [i \in 1..(Len(s) - 1) |-> IF i < k THEN s[i] ELSE s[i + 1]]
    BY DEF Without
  <1>4. Without(s, k) \in Seq(S)
    BY <1>1, <1>2, <1>3
  <1> QED BY <1>3, <1>4

LEMMA CancelQueue ==
    ASSUME Queue, Task, NEW id \in Ids, entries[id].state = "queued",
           entries' = [entries EXCEPT ![id].state = "cancelled", ![id].outcome = "rejected"],
           \E i \in DOMAIN pending : pending[i] = id /\ pending' = Without(pending, i),
           call' = Reject(Followers(id)),
           UNCHANGED <<line, jobs, active, terminal>>
    PROVE  Queue'
  <1>1. PICK k \in DOMAIN pending : pending[k] = id /\ pending' = Without(pending, k)
    OBVIOUS
  <1>2. entries \in [Ids -> EntryRecord] /\ call \in [Calls -> CallRecord] /\ pending \in Seq(Ids)
    BY DEF Queue, QueueTyped
  <1>3. /\ entries' \in [Ids -> EntryRecord]
        /\ \A x \in Ids : SameEntry(x)
        /\ \A x \in Ids \ {id} : entries'[x] = entries[x]
        /\ entries'[id].state = "cancelled" /\ entries'[id].outcome = "rejected"
    <2>1. PICK e \in EntryRecord : e = entries[id]
      BY <1>2
    <2> DEFINE q == [e EXCEPT !.state = "cancelled", !.outcome = "rejected"]
    <2>2. /\ q \in EntryRecord /\ q.state = "cancelled" /\ q.outcome = "rejected"
          /\ q.owner = e.owner /\ q.operation = e.operation /\ q.input = e.input
      <3>1. "cancelled" \in {"failed", "cancelled", "terminated"}
        OBVIOUS
      <3> QED BY <3>1, EndFields
    <2>3. entries' = [entries EXCEPT ![id] = q]
      BY <1>2, <2>1
    <2> HIDE DEF q
    <2> QED BY <1>2, <2>1, <2>2, <2>3 DEF SameEntry
  <1>4. /\ call' \in [Calls -> CallRecord]
        /\ \A c \in Calls : SameCall(c)
        /\ \A c \in Calls \ Followers(id) : call'[c] = call[c]
        /\ \A c \in Followers(id) : call'[c].stage = "rejected"
    BY <1>2, RejectFields DEF Followers, SameCall
  <1>5. /\ pending' \in Seq(Ids)
        /\ \A i \in DOMAIN pending' :
             /\ i \in 1..(Len(pending) - 1)
             /\ pending'[i] = IF i < k THEN pending[i] ELSE pending[i + 1]
    BY <1>1, <1>2, WithoutFacts
  <1>6. Len(pending) \in Nat /\ DOMAIN pending = 1..Len(pending)
    BY <1>2
  <1>7. StillInOrder
    <2>1. ASSUME NEW i \in DOMAIN pending'
          PROVE  \E m \in DOMAIN pending : pending'[i] = pending[m]
      BY <1>5, <1>6
    <2>2. ASSUME NEW i \in DOMAIN pending', NEW j \in DOMAIN pending', i < j
          PROVE  \E l, m \in DOMAIN pending :
                    l < m /\ pending'[i] = pending[l] /\ pending'[j] = pending[m]
      <3> DEFINE l == IF i < k THEN i ELSE i + 1
                 m == IF j < k THEN j ELSE j + 1
      <3>1. i \in 1..(Len(pending) - 1) /\ j \in 1..(Len(pending) - 1)
        BY <1>5
      <3>2. l \in DOMAIN pending /\ m \in DOMAIN pending /\ l < m
        BY <1>6, <2>2, <3>1
      <3>3. pending'[i] = pending[l] /\ pending'[j] = pending[m]
        BY <1>5
      <3> QED BY <3>2, <3>3
    <2> QED BY <2>1, <2>2 DEF StillInOrder
  <1>8. ASSUME NEW i \in DOMAIN pending'
        PROVE  pending'[i] # id
    <2> DEFINE l == IF i < k THEN i ELSE i + 1
    <2>1. l \in DOMAIN pending /\ l # k /\ pending'[i] = pending[l]
      BY <1>5, <1>6
    <2> HIDE DEF l
    <2> QED BY <1>1, <2>1, PendingOnce
  <1>9. QueueTyped'
    BY <1>3, <1>4, <1>5 DEF Queue, QueueTyped
  <1>10. InTurn'
    <2>1. \A c \in Calls : /\ call'[c].stage = "idle" <=> call[c].stage = "idle"
                           /\ call[c].stage = "admission" => call'[c].stage = "admission"
      BY <1>4 DEF Followers
    <2> QED BY <1>3, <1>4, <1>7, <2>1, TurnsKept DEF SameEntry, SameCall
  <1>11. Rejecting({id})
    <2>1. active # None => active # id /\ active \in Ids /\ entries[active].state = "executing"
      BY DEF Queue, QueueTyped, Settlement, MaybeId
    <2>2. \A i \in DOMAIN pending' : \E m \in DOMAIN pending : pending'[i] = pending[m]
      BY <1>7 DEF StillInOrder
    <2>3. \A c \in Calls :
            /\ call[c].stage = "subscribed" /\ CommandId(c) = id => call'[c].stage = "rejected"
            /\ \/ call[c].stage = "subscribed" /\ CommandId(c) = id
               \/ call'[c] = call[c]
      BY <1>4 DEF Followers
    <2>4. active' # None => entries'[active].state = "executing"
      BY <1>3, <2>1
    <2> QED BY <1>3, <1>4, <1>8, <2>1, <2>2, <2>3, <2>4 DEF Rejecting
  <1>12. JobsSound'
    BY DEF Task, JobsSound
  <1> QED BY <1>9, <1>10, <1>11, <1>12, RejectsSettle DEF Queue

-----------------------------------------------------------------------------
(* Microtasks *)

\* What is left of the microtask queue after its head; the head's call is gone.
LEMMA TailJobs ==
    ASSUME Queue, jobs # <<>>
    PROVE  /\ Tail(jobs) \in Seq(Jobs) /\ Head(jobs) \in Jobs /\ 1 \in DOMAIN jobs
           /\ jobs[1] = Head(jobs)
           /\ \A i \in DOMAIN Tail(jobs) :
                i + 1 \in DOMAIN jobs /\ i + 1 # 1 /\ Tail(jobs)[i] = jobs[i + 1]
           /\ \A i \in DOMAIN Tail(jobs) : \A c \in Calls :
                Continues(Tail(jobs)[i], c) =>
                  /\ call[c].stage = "resuming"
                  /\ ~Continues(Head(jobs), c)
                  /\ \A j \in DOMAIN Tail(jobs) : Continues(Tail(jobs)[j], c) => j = i
           /\ \A c \in Calls : Continues(Head(jobs), c) => call[c].stage = "resuming"
  <1>1. jobs \in Seq(Jobs)
    BY DEF Queue, QueueTyped
  <1>2. /\ Tail(jobs) \in Seq(Jobs) /\ Head(jobs) \in Jobs /\ 1 \in DOMAIN jobs
        /\ jobs[1] = Head(jobs)
    BY <1>1
  <1>3. \A i \in DOMAIN Tail(jobs) :
           i \in Nat /\ i + 1 \in DOMAIN jobs /\ i + 1 # 1 /\ Tail(jobs)[i] = jobs[i + 1]
    BY <1>1
  <1>4. \A i \in DOMAIN jobs : \A c \in Calls :
          Continues(jobs[i], c) =>
            /\ call[c].stage = "resuming"
            /\ \A j \in DOMAIN jobs : Continues(jobs[j], c) => j = i
    BY DEF Queue, Settlement
  <1>5. ASSUME NEW i \in DOMAIN Tail(jobs), NEW c \in Calls, Continues(Tail(jobs)[i], c)
        PROVE  /\ call[c].stage = "resuming"
               /\ ~Continues(Head(jobs), c)
               /\ \A j \in DOMAIN Tail(jobs) : Continues(Tail(jobs)[j], c) => j = i
    <2>1. Continues(jobs[i + 1], c) /\ i + 1 \in DOMAIN jobs /\ i \in Nat /\ i + 1 # 1
      BY <1>3, <1>5
    <2>2. call[c].stage = "resuming" /\ ~Continues(Head(jobs), c)
      BY <1>2, <1>4, <2>1
    <2>3. ASSUME NEW j \in DOMAIN Tail(jobs), Continues(Tail(jobs)[j], c)
          PROVE  j = i
      <3>1. Continues(jobs[j + 1], c) /\ j + 1 \in DOMAIN jobs /\ j \in Nat
        BY <1>3, <2>3
      <3>2. j + 1 = i + 1
        BY <1>4, <2>1, <3>1
      <3> QED BY <2>1, <3>1, <3>2
    <2> QED BY <2>2, <2>3
  <1>6. \A c \in Calls : Continues(Head(jobs), c) => call[c].stage = "resuming"
    BY <1>2, <1>4
  <1> QED BY <1>2, <1>3, <1>5, <1>6

LEMMA TailSound ==
    ASSUME Queue, jobs # <<>>, jobs' = Tail(jobs),
           \A c \in Calls : ~Continues(Head(jobs), c) /\ call[c].stage = "resuming"
                              => call'[c].stage = "resuming"
    PROVE  jobs' \in Seq(Jobs) /\ JobsSound'
  <1>1. jobs' \in Seq(Jobs)
    BY TailJobs
  <1>2. ASSUME NEW i \in DOMAIN jobs', NEW c \in Calls, Continues(jobs'[i], c)
        PROVE  /\ call'[c].stage = "resuming"
               /\ \A j \in DOMAIN jobs' : Continues(jobs'[j], c) => j = i
    BY <1>2, TailJobs
  <1> QED BY <1>1, <1>2 DEF JobsSound, Continues

LEMMA RunPumpQueue ==
    ASSUME Queue, RunPump
    PROVE  Queue'
  <1>1. jobs # <<>> /\ jobs' = Tail(jobs) /\ UNCHANGED <<call, line, terminal>>
    BY DEF RunPump, Microtask
  <1>2. jobs' \in Seq(Jobs) /\ JobsSound'
    BY <1>1, TailSound
  <1>3. CASE active # None \/ terminal \/ pending = <<>>
    <2>1. UNCHANGED <<entries, pending, active>>
      BY <1>3, Zenon DEF RunPump
    <2>2. QueueTyped'
      BY <1>1, <1>2, <2>1 DEF Queue, QueueTyped
    <2>3. InTurn'
      BY <1>1, <2>1 DEF Queue, InTurn, Called, Turn, OwnerTurn
    <2>4. Rejecting({})
      <3>1. active # None => entries[active].state = "executing"
        BY DEF Queue, Settlement
      <3> QED BY <1>1, <2>1, <3>1 DEF Rejecting, SameEntry, SameCall
    <2> QED BY <1>2, <2>2, <2>3, <2>4, RejectsSettle DEF Queue
  <1>4. CASE active = None /\ ~terminal /\ pending # <<>>
    <2>1. /\ active' = Head(pending) /\ pending' = Tail(pending)
          /\ entries' = [entries EXCEPT ![Head(pending)].state = "executing"]
      BY <1>4, Zenon DEF RunPump
    <2>2. /\ pending \in Seq(Ids) /\ entries \in [Ids -> EntryRecord]
          /\ 1 \in DOMAIN pending /\ pending[1] = Head(pending) /\ Head(pending) \in Ids
          /\ Tail(pending) \in Seq(Ids)
          /\ \A i \in DOMAIN Tail(pending) :
               i \in Nat /\ i + 1 \in DOMAIN pending /\ 1 < i + 1
               /\ Tail(pending)[i] = pending[i + 1]
      <3>1. pending \in Seq(Ids) /\ entries \in [Ids -> EntryRecord]
        BY DEF Queue, QueueTyped
      <3> QED BY <1>4, <3>1
    <2>3. PICK id \in Ids : id = Head(pending)
      BY <2>2
    <2>4. entries[id].state = "queued" /\ entries[id].outcome = "pending"
      BY <2>2, <2>3 DEF Queue, Settlement, Followed
    <2>5. PICK e \in EntryRecord : e = entries[id]
      BY <2>2
    <2> DEFINE q == [e EXCEPT !.state = "executing"]
    <2>6. /\ q \in EntryRecord /\ q.state = "executing" /\ q.outcome = e.outcome
          /\ q.owner = e.owner /\ q.operation = e.operation /\ q.input = e.input
          /\ q.subscribers = e.subscribers /\ q.receipt = e.receipt
      <3>1. "executing" \in States
        BY DEF States
      <3> QED BY <3>1, SMT DEF EntryRecord
    <2>7. entries' = [entries EXCEPT ![id] = q]
      BY <2>1, <2>2, <2>3, <2>5
    <2> HIDE DEF q
    <2>8. /\ entries' \in [Ids -> EntryRecord]
          /\ \A x \in Ids : /\ SameEntry(x)
                            /\ entries'[x].outcome = entries[x].outcome
                            /\ entries'[x].subscribers = entries[x].subscribers
                            /\ entries'[x].receipt = entries[x].receipt
          /\ \A x \in Ids \ {id} : entries'[x] = entries[x]
          /\ entries'[id].state = "executing"
      BY <2>2, <2>5, <2>6, <2>7 DEF SameEntry
    <2>9. QueueTyped'
      BY <1>1, <1>2, <2>1, <2>2, <2>8 DEF Queue, QueueTyped, MaybeId
    <2>10. StillInOrder
      <3>1. ASSUME NEW i \in DOMAIN pending', NEW j \in DOMAIN pending', i < j
            PROVE  \E k, m \in DOMAIN pending :
                      k < m /\ pending'[i] = pending[k] /\ pending'[j] = pending[m]
        <4>1. /\ i + 1 \in DOMAIN pending /\ j + 1 \in DOMAIN pending /\ i + 1 < j + 1
              /\ pending'[i] = pending[i + 1] /\ pending'[j] = pending[j + 1]
          BY <2>1, <2>2, <3>1
        <4> QED BY <4>1
      <3> QED BY <2>1, <2>2, <3>1 DEF StillInOrder
    <2>11. TakenInOrder
      BY <2>1, <2>2 DEF TakenInOrder
    <2>12. InTurn'
      BY <1>1, <2>8, <2>10, <2>11, TurnsKept DEF SameEntry
    <2>13. NoneGoesBack
      BY <1>1 DEF NoneGoesBack
    <2>14. \A x \in Ids : Followed(x)'
      <3> SUFFICES ASSUME NEW x \in Ids PROVE Followed(x)'
        OBVIOUS
      <3>1. \/ entries'[x].state = entries[x].state
            \/ entries[x].state = "queued" /\ entries'[x].state = "executing"
        BY <2>4, <2>8
      <3>2. \A c \in Calls : call[c].stage = "subscribed" /\ CommandId(c) = x
              => call'[c].stage = "subscribed" /\ call'[c].input = call[c].input
        BY <1>1
      <3> QED BY <2>8, <2>13, <3>1, <3>2, EntryKept
    <2>15. \A c \in Calls : Waiting(c)'
      <3> SUFFICES ASSUME NEW c \in Calls PROVE Waiting(c)'
        OBVIOUS
      <3>1. CommandId(c) \in Ids
        BY DEF Ids
      <3>2. Open(CommandId(c)) => /\ entries'[CommandId(c)].state \in {"queued", "executing"}
                                  /\ entries'[CommandId(c)].outcome = "pending"
        BY <2>8, <3>1 DEF Open
      <3> QED BY <1>1, <2>8, <3>1, <3>2, CallKept
    <2>16. \A i \in DOMAIN pending' : entries'[pending'[i]].state = "queued"
      <3> SUFFICES ASSUME NEW i \in DOMAIN pending' PROVE entries'[pending'[i]].state = "queued"
        OBVIOUS
      <3>1. /\ i + 1 \in DOMAIN pending /\ 1 < i + 1 /\ i + 1 # 1
            /\ pending'[i] = pending[i + 1]
        BY <2>1, <2>2
      <3>2. pending[i + 1] # id
        BY <2>2, <2>3, <3>1, PendingOnce
      <3>3. pending[i + 1] \in Ids /\ entries[pending[i + 1]].state = "queued"
        BY <2>2, <3>1 DEF Queue, Settlement
      <3> QED BY <2>8, <3>1, <3>2, <3>3
    <2>17. active' = id /\ entries'[id].outcome = "pending"
      BY <2>1, <2>3, <2>4, <2>8
    <2>18. entries'[active'].state = "executing" /\ entries'[active'].outcome = "pending"
      BY <2>8, <2>17
    <2>19. Settlement'
      BY <1>2, <2>14, <2>15, <2>16, <2>18 DEF Settlement, JobsSound
    <2> QED BY <2>9, <2>12, <2>19 DEF Queue
  <1> QED BY <1>3, <1>4

LEMMA SettleRestoreQueue ==
    ASSUME Queue, NEW c \in Calls, SettleRestore(c)
    PROVE  Queue'
  <1>1. /\ jobs # <<>> /\ Head(jobs) = Settle(c) /\ jobs' = Append(Tail(jobs), Resume(c))
        /\ UNCHANGED <<call, line, entries, pending, active, terminal>>
    BY DEF SettleRestore, Microtask, queue
  <1>2. PICK n \in Nat : n = Len(Tail(jobs))
    BY TailJobs, <1>1
  <1>3. /\ jobs' \in Seq(Jobs) /\ DOMAIN jobs' = 1..(n + 1) /\ DOMAIN Tail(jobs) = 1..n
        /\ \A i \in 1..n : jobs'[i] = Tail(jobs)[i]
        /\ jobs'[n + 1] = Resume(c)
    <2>1. Tail(jobs) \in Seq(Jobs) /\ Resume(c) \in Jobs
      BY <1>1, TailJobs, JobKinds
    <2> HIDE DEF Resume
    <2> QED BY <1>1, <1>2, <2>1
  <1>4. Continues(Head(jobs), c)
    BY <1>1 DEF Continues
  <1>5. ASSUME NEW i \in DOMAIN jobs', NEW d \in Calls, Continues(jobs'[i], d)
        PROVE  \/ i \in DOMAIN Tail(jobs) /\ Continues(Tail(jobs)[i], d) /\ d # c
               \/ i = n + 1 /\ d = c
    <2>1. CASE i = n + 1
      BY <1>3, <1>5, <2>1, JobKinds
    <2>2. CASE i # n + 1
      <3>1. i \in 1..n
        BY <1>2, <1>3, <2>2
      <3>2. Continues(Tail(jobs)[i], d) /\ i \in DOMAIN Tail(jobs)
        BY <1>3, <1>5, <3>1
      <3> QED BY <1>1, <1>4, <3>2, TailJobs
    <2> QED BY <2>1, <2>2
  <1>6. JobsSound'
    <2>1. ASSUME NEW i \in DOMAIN jobs', NEW d \in Calls, Continues(jobs'[i], d)
          PROVE  /\ call'[d].stage = "resuming"
                 /\ \A j \in DOMAIN jobs' : Continues(jobs'[j], d) => j = i
      BY <1>1, <1>4, <1>5, <2>1, TailJobs
    <2> QED BY <2>1 DEF JobsSound, Continues
  <1>7. QueueTyped'
    BY <1>1, <1>3 DEF Queue, QueueTyped
  <1>8. InTurn'
    BY <1>1 DEF Queue, InTurn, Called, Turn, OwnerTurn
  <1>9. Rejecting({})
    <2>1. active # None => entries[active].state = "executing"
      BY DEF Queue, Settlement
    <2> QED BY <1>1, <2>1 DEF Rejecting, SameEntry, SameCall
  <1> QED BY <1>6, <1>7, <1>8, <1>9, RejectsSettle DEF Queue

\* The promise of a restore resumes: the call returns or is rejected.
LEMMA ResumeQueue ==
    ASSUME Queue, WorldTyped, NEW c \in Calls, ResumeRestore(c)
    PROVE  Queue'
  <1>1. /\ jobs # <<>> /\ Head(jobs) = Resume(c) /\ jobs' = Tail(jobs)
        /\ UNCHANGED <<line, active, terminal>>
    BY Zenon DEF ResumeRestore, Microtask
  <1>2. Continues(Head(jobs), c) /\ \A d \in Calls : Continues(Head(jobs), d) => d = c
    BY <1>1, JobKinds DEF Continues
  <1>3. call[c].stage = "resuming" /\ call[c].receipt \in Receipts
    <2>1. call[c].stage = "resuming"
      BY <1>1, <1>2, TailJobs
    <2> QED BY <2>1 DEF Queue, Settlement, Waiting
  <1>4. call \in [Calls -> CallRecord] /\ entries \in [Ids -> EntryRecord]
    BY DEF Queue, QueueTyped
  <1>5. CASE active # None
    <2>1. call' = Reject({c}) /\ UNCHANGED <<entries, pending>>
      BY <1>5, Zenon DEF ResumeRestore
    <2>2. /\ call' \in [Calls -> CallRecord]
          /\ \A d \in Calls : SameCall(d)
          /\ \A d \in Calls \ {c} : call'[d] = call[d]
          /\ call'[c].stage = "rejected" /\ call'[c].receipt = call[c].receipt
      BY <1>4, <2>1, RejectFields DEF SameCall
    <2>3. jobs' \in Seq(Jobs) /\ JobsSound'
      BY <1>1, <1>2, <2>2, TailSound
    <2>4. QueueTyped'
      BY <1>1, <2>1, <2>2, <2>3 DEF Queue, QueueTyped
    <2>5. StillInOrder
      BY <2>1 DEF StillInOrder
    <2>6. InTurn'
      BY <1>1, <1>3, <2>1, <2>2, <2>5, TurnsKept DEF SameCall
    <2>7. Rejecting({})
      <3>1. active # None => entries[active].state = "executing"
        BY DEF Queue, Settlement
      <3> QED BY <1>1, <1>3, <2>1, <2>2, <3>1 DEF Rejecting, SameEntry
    <2> QED BY <2>3, <2>4, <2>6, <2>7, RejectsSettle DEF Queue
  <1>6. CASE active = None
    <2> DEFINE next == kernel.generation + 1
               stale == {d \in Calls : \E i \in DOMAIN pending : d \in Followers(pending[i])}
               r == Reject(stale)
    <2>1. entries' = [id \in Ids |->
             IF id \in PendingIds
             THEN [entries[id] EXCEPT !.state = "failed", !.outcome = "rejected"]
             ELSE entries[id]]
      <3>1. entries' = [id \in Ids |->
               IF \E i \in DOMAIN pending : pending[i] = id
               THEN [entries[id] EXCEPT !.state = "failed", !.outcome = "rejected"]
               ELSE entries[id]]
        BY <1>6, Zenon DEF ResumeRestore
      <3>2. \A id : id \in PendingIds <=> \E i \in DOMAIN pending : pending[i] = id
        BY DEF PendingIds
      <3> QED BY <3>1, <3>2
    <2>19. pending' = <<>>
      BY <1>6, Zenon DEF ResumeRestore
    <2>2. call' = [r EXCEPT ![c].stage = "returned",
                            ![c].receipt = [@ EXCEPT !.generation = next]]
      BY <1>6, Zenon DEF ResumeRestore
    <2>3. next \in Nat
      <3>1. kernel.generation \in Nat
        BY SMT DEF WorldTyped, KernelRecord
      <3> QED BY <3>1
    <2>4. \A d \in Calls : d \in stale <=> call[d].stage = "subscribed" /\ CommandId(d) \in PendingIds
      BY PendingFollowers
    <2> HIDE DEF next, stale
    <2>5. /\ r \in [Calls -> CallRecord]
          /\ \A d \in Calls \ stale : r[d] = call[d]
          /\ \A d \in Calls : /\ d \in stale => r[d].stage = "rejected"
                              /\ r[d].turn = call[d].turn /\ r[d].input = call[d].input
      BY <1>4, RejectFields
    <2>6. r[c] = call[c]
      BY <1>3, <2>4, <2>5
    <2> HIDE DEF r
    <2>7. PICK k \in CallRecord : k = call[c]
      BY <1>4
    <2>8. PICK receipt \in Receipts : receipt = [k.receipt EXCEPT !.generation = next]
      <3>1. PICK m \in Receipts : m = k.receipt
        BY <1>3, <2>7
      <3>2. [m EXCEPT !.generation = next] \in Receipts
        BY <2>3, SMT DEF Receipts
      <3> QED BY <3>1, <3>2
    <2> DEFINE w1 == [k EXCEPT !.stage = "returned"]
               w2 == [w1 EXCEPT !.receipt = receipt]
    <2>9. /\ w1 \in CallRecord /\ w1.stage = "returned" /\ w1.turn = k.turn
          /\ w1.input = k.input /\ w1.receipt = k.receipt
      <3>1. "returned" \in Stages
        BY DEF Stages
      <3> QED BY <3>1, SMT DEF CallRecord
    <2>10. call' = [r EXCEPT ![c] = w2]
      <3> DEFINE f1 == [r EXCEPT ![c].stage = "returned"]
      <3>1. call' = [f1 EXCEPT ![c].receipt = [@ EXCEPT !.generation = next]]
        BY <2>2
      <3>2. f1 = [r EXCEPT ![c] = w1]
        BY <2>5, <2>6, <2>7
      <3>3. f1[c] = w1 /\ DOMAIN f1 = Calls /\ \A d \in Calls \ {c} : f1[d] = r[d]
        BY <2>5, <3>2
      <3> HIDE DEF f1, w1
      <3> QED BY <2>5, <2>8, <2>9, <3>1, <3>2, <3>3
    <2> HIDE DEF w1
    <2>11. /\ w2 \in CallRecord /\ w2.stage = "returned" /\ w2.turn = k.turn
           /\ w2.input = k.input /\ w2.receipt = receipt
      BY <2>9, SMT DEF CallRecord
    <2> HIDE DEF w2
    <2>12. /\ call' \in [Calls -> CallRecord]
           /\ \A d \in Calls : SameCall(d)
           /\ \A d \in Calls \ {c} : /\ d \in stale => call'[d].stage = "rejected"
                                     /\ d \notin stale => call'[d] = call[d]
           /\ call'[c].stage = "returned" /\ call'[c].receipt \in Receipts
      BY <2>5, <2>7, <2>10, <2>11 DEF SameCall
    <2>13. /\ entries' \in [Ids -> EntryRecord]
           /\ \A id \in Ids :
                /\ SameEntry(id)
                /\ id \notin PendingIds => entries'[id] = entries[id]
                /\ id \in PendingIds => /\ entries'[id].outcome = "rejected"
                                        /\ entries'[id].state = "failed"
      <3>1. ASSUME NEW id \in Ids
            PROVE  /\ entries'[id] \in EntryRecord
                   /\ SameEntry(id)
                   /\ id \notin PendingIds => entries'[id] = entries[id]
                   /\ id \in PendingIds => /\ entries'[id].outcome = "rejected"
                                           /\ entries'[id].state = "failed"
        <4>1. PICK e \in EntryRecord : e = entries[id]
          BY <1>4
        <4>2. CASE id \in PendingIds
          <5> DEFINE q == [e EXCEPT !.state = "failed", !.outcome = "rejected"]
          <5>1. /\ q \in EntryRecord /\ q.state = "failed" /\ q.outcome = "rejected"
                /\ q.owner = e.owner /\ q.operation = e.operation /\ q.input = e.input
            <6>1. "failed" \in {"failed", "cancelled", "terminated"}
              OBVIOUS
            <6> QED BY <6>1, EndFields
          <5>2. entries'[id] = q
            BY <2>1, <4>1, <4>2
          <5> HIDE DEF q
          <5> QED BY <4>1, <4>2, <5>1, <5>2 DEF SameEntry
        <4>3. CASE id \notin PendingIds
          BY <2>1, <4>1, <4>3 DEF SameEntry
        <4> QED BY <4>2, <4>3
      <3> QED BY <2>1, <3>1
    <2>14. jobs' \in Seq(Jobs) /\ JobsSound'
      <3>1. \A d \in Calls : ~Continues(Head(jobs), d) /\ call[d].stage = "resuming"
                               => call'[d].stage = "resuming"
        BY <1>2, <2>4, <2>12
      <3> QED BY <1>1, <3>1, TailSound
    <2>15. QueueTyped'
      BY <1>1, <2>19, <2>12, <2>13, <2>14 DEF Queue, QueueTyped
    <2>16. StillInOrder
      BY <2>19 DEF StillInOrder
    <2>17. InTurn'
      <3>1. \A d \in Calls : /\ call'[d].stage = "idle" <=> call[d].stage = "idle"
                             /\ call[d].stage = "admission" => call'[d].stage = "admission"
        BY <1>3, <2>4, <2>12
      <3> QED BY <1>1, <2>12, <2>13, <2>16, <3>1, TurnsKept DEF SameCall, SameEntry
    <2>18. Rejecting(PendingIds)
      <3>1. \A id \in PendingIds : id \in Ids /\ entries[id].state \in {"queued", "executing"}
        BY PendingAreQueued
      <3>2. \A d \in Calls :
              /\ call[d].stage = "subscribed" /\ CommandId(d) \in PendingIds
                   => call'[d].stage = "rejected"
              /\ \/ call[d].stage = "subscribed" /\ CommandId(d) \in PendingIds
                 \/ call'[d] = call[d]
                 \/ /\ call[d].stage = "resuming" /\ call'[d].stage \in {"returned", "rejected"}
                    /\ call'[d].receipt \in Receipts
        BY <1>3, <2>4, <2>12
      <3>3. DOMAIN pending' = {}
        BY <2>19
      <3> QED BY <1>1, <1>6, <2>12, <2>13, <3>1, <3>2, <3>3 DEF Rejecting
    <2> QED BY <2>14, <2>15, <2>17, <2>18, RejectsSettle DEF Queue
  <1> QED BY <1>5, <1>6

-----------------------------------------------------------------------------
(* Calls, and their admission *)

\* A call that is not admitted, yet or at all, disturbs no entry.
LEMMA NewCallSettles ==
    ASSUME Queue, NEW c \in Calls, call[c].stage \in {"idle", "admission"},
           call'[c].stage \in {"admission", "rejected"},
           \A d \in Calls \ {c} : /\ call'[d].stage = call[d].stage
                                  /\ call'[d].input = call[d].input
                                  /\ call'[d].receipt = call[d].receipt,
           UNCHANGED <<entries, pending, active, terminal, jobs>>
    PROVE  Settlement'
  <1>1. NoneGoesBack
    BY DEF NoneGoesBack
  <1>2. \A x \in Ids : Followed(x)'
    <2> SUFFICES ASSUME NEW x \in Ids PROVE Followed(x)'
      OBVIOUS
    <2>1. \A d \in Calls : call[d].stage = "subscribed" /\ CommandId(d) = x
              => call'[d].stage = "subscribed" /\ call'[d].input = call[d].input
      OBVIOUS
    <2> QED BY <1>1, <2>1, EntryKept DEF SameEntry
  <1>3. \A d \in Calls : Waiting(d)'
    <2> SUFFICES ASSUME NEW d \in Calls PROVE Waiting(d)'
      OBVIOUS
    <2>1. CASE d = c
      BY <2>1 DEF Waiting
    <2>2. CASE d # c
      BY <2>2, CallKept DEF Open
    <2> QED BY <2>1, <2>2
  <1>4. \A i \in DOMAIN jobs : \A d \in Calls :
          Continues(jobs[i], d) => call'[d].stage = "resuming"
    BY DEF Queue, Settlement
  <1> QED BY <1>2, <1>3, <1>4 DEF Queue, Settlement, Continues

\* The call at the head of the line is admitted, answered or rejected.
LEMMA SubmitTurns ==
    ASSUME Queue, NEW c \in Calls, line # <<>>, Head(line) = c, line' = Tail(line),
           active' = active, NEW id \in Ids,
           \A d \in Calls : /\ call'[d].turn = call[d].turn
                            /\ d # c => call'[d].stage = call[d].stage,
           call'[c].stage \notin {"idle", "admission"},
           \A x \in Ids \ {id} : entries'[x].owner = entries[x].owner,
           \/ pending' = pending /\ entries'[id].owner = entries[id].owner
           \/ /\ pending' = Append(pending, id) /\ entries'[id].owner = c
              /\ entries[id].state = "none"
    PROVE  InTurn'
  <1>1. /\ line \in Seq(Calls) /\ pending \in Seq(Ids)
        /\ active # None => active \in Ids
    BY DEF Queue, QueueTyped, MaybeId
  <1>2. /\ 1 \in DOMAIN line /\ line[1] = c
        /\ \A j \in DOMAIN line' : j \in Nat /\ j + 1 \in DOMAIN line /\ 1 < j + 1
                                   /\ line'[j] = line[j + 1]
    BY <1>1
  <1>3. /\ \A i \in DOMAIN line : line[i] \in Calls /\ call[line[i]].stage = "admission"
        /\ \A i, j \in DOMAIN line : i < j => call[line[i]].turn < call[line[j]].turn
    BY <1>1 DEF Queue, InTurn, Turn
  <1>4. Called' = Called
    BY <1>2, <1>3 DEF Called
  <1>5. IsFiniteSet(Called') /\ \A d \in Calls : call'[d].turn <= Cardinality(Called')
    BY <1>4 DEF Queue, InTurn, Turn
  <1>6. \A d \in Calls : call[d].turn \in Nat
    BY SMT DEF Queue, QueueTyped, CallRecord
  <1>7. \A j \in DOMAIN line' : /\ line'[j] \in Calls /\ call[c].turn < call'[line'[j]].turn
                                /\ call'[line'[j]].stage = "admission"
    <2> SUFFICES ASSUME NEW j \in DOMAIN line'
                 PROVE  /\ line'[j] \in Calls /\ call[c].turn < call'[line'[j]].turn
                        /\ call'[line'[j]].stage = "admission"
      OBVIOUS
    <2>1. PICK d \in Calls : d = line'[j]
      BY <1>2, <1>3
    <2>2. call[c].turn < call[d].turn /\ call[d].stage = "admission"
      BY <1>2, <1>3, <2>1
    <2>3. d # c
      BY <1>6, <2>2
    <2> QED BY <2>1, <2>2, <2>3
  <1>8. \A i, j \in DOMAIN line' : i < j => call'[line'[i]].turn < call'[line'[j]].turn
    <2> SUFFICES ASSUME NEW i \in DOMAIN line', NEW j \in DOMAIN line', i < j
                 PROVE  call'[line'[i]].turn < call'[line'[j]].turn
      OBVIOUS
    <2>1. i + 1 < j + 1 /\ i + 1 \in DOMAIN line /\ j + 1 \in DOMAIN line
      BY <1>2
    <2>2. call[line[i + 1]].turn < call[line[j + 1]].turn
      BY <1>3, <2>1
    <2> QED BY <1>2, <1>3, <2>1, <2>2
  \* An id that is pending or active keeps its owner, whose turn was before c's.
  <1>9. ASSUME NEW x \in Ids, entries[x].state # "none"
        PROVE  entries[x].owner \in Calls
    BY <1>9 DEF Queue, Settlement, Followed, Submitted, Admitted
  <1>10. \A i \in DOMAIN pending : /\ pending[i] \in Ids
                                   /\ entries'[pending[i]].owner = entries[pending[i]].owner
                                   /\ call'[entries'[pending[i]].owner].turn = OwnerTurn(pending[i])
                                   /\ OwnerTurn(pending[i]) < call[c].turn
    <2> SUFFICES ASSUME NEW i \in DOMAIN pending
                 PROVE  /\ pending[i] \in Ids
                        /\ entries'[pending[i]].owner = entries[pending[i]].owner
                        /\ call'[entries'[pending[i]].owner].turn = OwnerTurn(pending[i])
                        /\ OwnerTurn(pending[i]) < call[c].turn
      OBVIOUS
    <2>1. PICK x \in Ids : x = pending[i] /\ entries[x].state = "queued"
      BY <1>1 DEF Queue, Settlement
    <2>2. entries'[x].owner = entries[x].owner
      BY <2>1
    <2>3. entries[x].owner \in Calls
      BY <1>9, <2>1
    <2>4. OwnerTurn(x) < call[c].turn
      BY <1>2, <2>1 DEF Queue, InTurn, Turn
    <2> QED BY <2>1, <2>2, <2>3, <2>4 DEF OwnerTurn
  <1>11. active # None =>
           /\ call'[entries'[active].owner].turn = OwnerTurn(active)
           /\ OwnerTurn(active) < call[c].turn
    <2> SUFFICES ASSUME active # None
                 PROVE  /\ call'[entries'[active].owner].turn = OwnerTurn(active)
                        /\ OwnerTurn(active) < call[c].turn
      OBVIOUS
    <2>1. PICK x \in Ids : x = active /\ entries[x].state = "executing"
      BY <1>1 DEF Queue, Settlement
    <2>2. entries'[x].owner = entries[x].owner
      BY <2>1
    <2>3. entries[x].owner \in Calls
      BY <1>9, <2>1
    <2>4. OwnerTurn(x) < call[c].turn
      BY <1>2, <2>1 DEF Queue, InTurn, Turn
    <2> QED BY <2>1, <2>2, <2>3, <2>4 DEF OwnerTurn
  <1>16. /\ \A i \in DOMAIN pending' :
             \/ i \in DOMAIN pending /\ pending'[i] = pending[i]
             \/ pending'[i] = id /\ entries'[id].owner = c
         /\ \A i, j \in DOMAIN pending' : i < j => i \in DOMAIN pending /\ pending'[i] = pending[i]
    <2>1. CASE pending' = pending
      BY <2>1
    <2>2. CASE pending' = Append(pending, id) /\ entries'[id].owner = c
      <3>1. PICK n \in Nat : n = Len(pending)
        BY <1>1
      <3>2. /\ DOMAIN pending = 1..n /\ DOMAIN pending' = 1..(n + 1) /\ pending'[n + 1] = id
            /\ \A i \in 1..n : pending'[i] = pending[i]
        BY <1>1, <2>2, <3>1
      <3>3. \A i \in DOMAIN pending' : i \in 1..n \/ i = n + 1
        BY <3>2
      <3>4. \A i, j \in DOMAIN pending' : i < j => i \in 1..n
        BY <3>2
      <3> QED BY <2>2, <3>2, <3>3, <3>4
    <2> QED BY <2>1, <2>2
  \* The turns of what is pending now, all up to c's.
  <1>12. \A i \in DOMAIN pending' :
            /\ call'[entries'[pending'[i]].owner].turn <= call[c].turn
            /\ active # None => OwnerTurn(active) < call'[entries'[pending'[i]].owner].turn
    <2> SUFFICES ASSUME NEW i \in DOMAIN pending'
                 PROVE  /\ call'[entries'[pending'[i]].owner].turn <= call[c].turn
                        /\ active # None => OwnerTurn(active) < call'[entries'[pending'[i]].owner].turn
      OBVIOUS
    <2>1. CASE i \in DOMAIN pending /\ pending'[i] = pending[i]
      <3>1. PICK o \in Calls : o = entries[pending[i]].owner /\ entries'[pending[i]].owner = o
        <4>1. pending[i] \in Ids /\ entries[pending[i]].state = "queued"
          BY <1>10, <2>1 DEF Queue, Settlement
        <4> QED BY <1>9, <1>10, <2>1, <4>1
      <3>2. call[o].turn < call[c].turn
        BY <1>10, <2>1, <3>1 DEF OwnerTurn
      <3>3. active # None => OwnerTurn(active) < call[o].turn
        BY <2>1, <3>1 DEF Queue, InTurn, OwnerTurn
      <3> QED BY <1>6, <2>1, <3>1, <3>2, <3>3
    <2>2. CASE pending'[i] = id /\ entries'[id].owner = c
      BY <1>6, <1>11, <2>2
    <2> QED BY <1>16, <2>1, <2>2
  <1>13. \A i \in DOMAIN pending', j \in DOMAIN line' :
            call'[entries'[pending'[i]].owner].turn < call'[line'[j]].turn
    <2> SUFFICES ASSUME NEW i \in DOMAIN pending', NEW j \in DOMAIN line'
                 PROVE  call'[entries'[pending'[i]].owner].turn < call'[line'[j]].turn
      OBVIOUS
    <2>1. PICK o \in Calls : o = entries'[pending'[i]].owner
      <3>1. CASE i \in DOMAIN pending /\ pending'[i] = pending[i]
        <4>1. pending[i] \in Ids /\ entries[pending[i]].state = "queued"
          BY <1>10, <3>1 DEF Queue, Settlement
        <4> QED BY <1>9, <1>10, <3>1, <4>1
      <3>2. CASE pending'[i] = id /\ entries'[id].owner = c
        BY <3>2
      <3> QED BY <1>16, <3>1, <3>2
    <2>2. PICK d \in Calls : d = line'[j]
      BY <1>7
    <2>3. call[o].turn <= call[c].turn /\ call[c].turn < call[d].turn
      BY <1>7, <1>12, <2>1, <2>2
    <2> QED BY <1>6, <2>1, <2>2, <2>3
  <1>14. \A i, j \in DOMAIN pending' : i < j =>
            call'[entries'[pending'[i]].owner].turn < call'[entries'[pending'[j]].owner].turn
    <2> SUFFICES ASSUME NEW i \in DOMAIN pending', NEW j \in DOMAIN pending', i < j
                 PROVE  call'[entries'[pending'[i]].owner].turn < call'[entries'[pending'[j]].owner].turn
      OBVIOUS
    <2>1. CASE /\ i \in DOMAIN pending /\ pending'[i] = pending[i]
               /\ j \in DOMAIN pending /\ pending'[j] = pending[j]
      <3>1. OwnerTurn(pending[i]) < OwnerTurn(pending[j])
        BY <2>1 DEF Queue, InTurn
      <3> QED BY <1>10, <2>1, <3>1
    <2>2. CASE /\ i \in DOMAIN pending /\ pending'[i] = pending[i]
               /\ pending'[j] = id /\ entries'[id].owner = c
      BY <1>10, <2>2
    <2> QED BY <1>16, <2>1, <2>2
  <1>15. active' # None =>
           /\ \A j \in DOMAIN line' : call'[entries'[active'].owner].turn < call'[line'[j]].turn
           /\ \A i \in DOMAIN pending' : call'[entries'[active'].owner].turn
                                           < call'[entries'[pending'[i]].owner].turn
    <2> SUFFICES ASSUME active # None
                 PROVE  /\ \A j \in DOMAIN line' : call'[entries'[active].owner].turn < call'[line'[j]].turn
                        /\ \A i \in DOMAIN pending' : call'[entries'[active].owner].turn
                                                       < call'[entries'[pending'[i]].owner].turn
      OBVIOUS
    <2>1. PICK o \in Calls : o = entries[active].owner
      <3>1. active \in Ids /\ entries[active].state = "executing"
        BY <1>1 DEF Queue, Settlement
      <3> QED BY <1>9, <3>1
    <2>2. call[o].turn < call[c].turn /\ call'[entries'[active].owner].turn = call[o].turn
      BY <1>11, <2>1 DEF OwnerTurn
    <2>3. ASSUME NEW j \in DOMAIN line'
          PROVE  call'[entries'[active].owner].turn < call'[line'[j]].turn
      <3>1. PICK d \in Calls : d = line'[j]
        BY <1>7
      <3>2. call[c].turn < call[d].turn
        BY <1>7, <3>1
      <3> QED BY <1>6, <2>2, <3>1, <3>2
    <2> QED BY <1>11, <1>12, <2>3
  <1> QED BY <1>5, <1>7, <1>8, <1>13, <1>14, <1>15 DEF InTurn, Turn, OwnerTurn

\* What a call becomes, and whether it joins the line.
LEMMA CallFields ==
    ASSUME Queue, WorldTyped, NEW c \in Calls, Call(c)
    PROVE  /\ call' \in [Calls -> CallRecord]
           /\ \A d \in Calls \ {c} :
                /\ call'[d].stage = call[d].stage /\ call'[d].turn = call[d].turn
                /\ call'[d].input = call[d].input /\ call'[d].receipt = call[d].receipt
           /\ \/ /\ call'[c].stage = "rejected" /\ call'[c].turn <= Cardinality(Called)
                 /\ line' = line
              \/ /\ call'[c].stage = "admission" /\ call'[c].turn = Cardinality(Called) + 1
                 /\ call'[c].input \in Inputs(c)
                 /\ line' = Append(line, c)
  <1>1. /\ call[c].stage = "idle" /\ Task
        /\ UNCHANGED <<jobs, entries, pending, active, terminal>>
    BY DEF Call, queue
  <1>2. /\ call \in [Calls -> CallRecord] /\ line \in Seq(Calls) /\ pending \in Seq(Ids)
        /\ active # None => active \in Ids
    BY DEF Queue, QueueTyped, MaybeId
  <1>3. PICK k \in CallRecord : k = call[c]
    BY <1>2
  <1> DEFINE n == Cardinality(Called)
  <1>4. /\ n \in Nat /\ IsFiniteSet(Called)
        /\ \A d \in Calls : call[d].turn <= n
    BY FS_CardinalityType DEF Queue, InTurn, Turn
  <1>5. Called = {d \in Calls : call[d].stage # "idle"} /\ c \notin Called
    BY <1>1 DEF Called
  <1> HIDE DEF n
  <1>6. PICK input \in Inputs(c), named \in {None} \cup 0..kernel.generation :
          IF kernel.life \in {"closed", "terminated"}
          THEN /\ call' = [call EXCEPT ![c].stage = "rejected"]
               /\ UNCHANGED line
          ELSE LET called == [call EXCEPT
                     ![c].stage = "admission", ![c].input = input,
                     ![c].generation = named,
                     ![c].turn = 1 + n]
               IN  /\ call' = IF line = <<>> THEN TakesTurn(called, <<c>>)
                                             ELSE called
                   /\ line' = Append(line, c)
    BY <1>5, Zenon DEF Call, n
  <1>7. input \in AnyInput /\ named \in Nat \cup {None}
    <2>1. input \in AnyInput
      <3>1. DOMAIN checkpoints \subseteq MaybeId /\ references.issued \subseteq Reference
        BY SMT DEF WorldTyped, CheckpointsTyped, MaybeId
      <3> QED BY <3>1, Zenon DEF Inputs, AnyInput, MaybeId
    <2>2. kernel.generation \in Nat
      BY SMT DEF WorldTyped, KernelRecord
    <2> QED BY <2>1, <2>2
  <1>8. /\ call' \in [Calls -> CallRecord]
        /\ \A d \in Calls \ {c} : /\ call'[d].stage = call[d].stage /\ call'[d].turn = call[d].turn
                                  /\ call'[d].input = call[d].input
                                  /\ call'[d].receipt = call[d].receipt
        /\ \/ call'[c].stage = "rejected" /\ call'[c].turn <= n /\ line' = line
           \/ /\ call'[c].stage = "admission" /\ call'[c].turn = n + 1
              /\ call'[c].input \in Inputs(c) /\ line' = Append(line, c)
    <2>1. CASE kernel.life \in {"closed", "terminated"}
      <3>1. call' = [call EXCEPT ![c].stage = "rejected"] /\ line' = line
        BY <1>6, <2>1
      <3> DEFINE q == [k EXCEPT !.stage = "rejected"]
      <3>2. q \in CallRecord /\ q.stage = "rejected" /\ q.turn = k.turn
        <4>1. "rejected" \in Stages
          BY DEF Stages
        <4> QED BY <4>1, SMT DEF CallRecord
      <3>3. call' = [call EXCEPT ![c] = q]
        BY <1>3, <3>1
      <3> HIDE DEF q
      <3>4. k.turn <= n
        BY <1>3, <1>4
      <3> QED BY <1>2, <3>1, <3>2, <3>3, <3>4
    <2>2. CASE kernel.life \notin {"closed", "terminated"}
      <3> DEFINE called == [call EXCEPT ![c].stage = "admission", ![c].input = input,
                                        ![c].generation = named, ![c].turn = 1 + n]
                 q1 == [k EXCEPT !.stage = "admission"]
                 q2 == [q1 EXCEPT !.input = input]
                 q3 == [q2 EXCEPT !.generation = named]
                 q4 == [q3 EXCEPT !.turn = 1 + n]
                 f1 == [call EXCEPT ![c].stage = "admission"]
                 f2 == [f1 EXCEPT ![c].input = input]
                 f3 == [f2 EXCEPT ![c].generation = named]
                 f4 == [f3 EXCEPT ![c].turn = 1 + n]
      <3>1. /\ call' = IF line = <<>> THEN TakesTurn(called, <<c>>) ELSE called
            /\ line' = Append(line, c)
        BY <1>6, <2>2, Zenon
      <3>2. called = f4
        OBVIOUS
      <3>3. f1 = [call EXCEPT ![c] = q1]
        BY <1>2, <1>3
      <3>4. q1 \in CallRecord /\ q1.stage = "admission"
        <4>1. "admission" \in Stages
          BY DEF Stages
        <4> QED BY <4>1, SMT DEF CallRecord
      <3> HIDE DEF f1, q1, called
      <3>5. f2 = [call EXCEPT ![c] = q2]
        BY <1>2, <3>3
      <3>6. q2 \in CallRecord /\ q2.stage = "admission" /\ q2.input = input
        BY <1>7, <3>4, SMT DEF CallRecord
      <3> HIDE DEF f2, q2
      <3>7. f3 = [call EXCEPT ![c] = q3]
        BY <1>2, <3>5
      <3>8. q3 \in CallRecord /\ q3.stage = "admission" /\ q3.input = input
        BY <1>7, <3>6, SMT DEF CallRecord
      <3> HIDE DEF f3, q3
      <3>9. f4 = [call EXCEPT ![c] = q4]
        BY <1>2, <3>7
      <3>10. q4 \in CallRecord /\ q4.stage = "admission" /\ q4.turn = n + 1 /\ q4.input = input
        <4>1. 1 + n \in Nat /\ 1 + n = n + 1
          BY <1>4
        <4> QED BY <3>8, <4>1, SMT DEF CallRecord
      <3> HIDE DEF f4, q4
      <3>11. /\ called \in [Calls -> CallRecord]
             /\ \A d \in Calls \ {c} : called[d] = call[d]
             /\ called[c] = q4
        BY <1>2, <3>2, <3>9, <3>10
      <3>12. /\ call' \in [Calls -> CallRecord]
             /\ \A d \in Calls : /\ call'[d].stage = called[d].stage
                                 /\ call'[d].turn = called[d].turn
                                 /\ call'[d].input = called[d].input
                                 /\ call'[d].receipt = called[d].receipt
        <4>1. <<c>> \in Seq(Calls)
          OBVIOUS
        <4>2. CASE line = <<>>
          BY <3>1, <3>11, <4>1, <4>2, TurnFields
        <4>3. CASE line # <<>>
          BY <3>1, <3>11, <4>3
        <4> QED BY <4>2, <4>3
      <3> QED BY <3>1, <3>10, <3>11, <3>12
    <2> QED BY <2>1, <2>2
  <1> QED BY <1>8 DEF n

LEMMA CallQueue ==
    ASSUME Queue, WorldTyped, NEW c \in Calls, Call(c)
    PROVE  Queue'
  <1>1. /\ call[c].stage = "idle" /\ Task
        /\ UNCHANGED <<jobs, entries, pending, active, terminal>>
    BY DEF Call, queue
  <1>2. /\ call \in [Calls -> CallRecord] /\ line \in Seq(Calls) /\ pending \in Seq(Ids)
        /\ active # None => active \in Ids
    BY DEF Queue, QueueTyped, MaybeId
  <1> DEFINE n == Cardinality(Called)
  <1>4. /\ n \in Nat /\ IsFiniteSet(Called)
        /\ \A d \in Calls : call[d].turn <= n
    BY FS_CardinalityType DEF Queue, InTurn, Turn
  <1>5. Called = {d \in Calls : call[d].stage # "idle"} /\ c \notin Called
    BY <1>1 DEF Called
  <1> HIDE DEF n
  <1>8. /\ call' \in [Calls -> CallRecord]
        /\ \A d \in Calls \ {c} : /\ call'[d].stage = call[d].stage /\ call'[d].turn = call[d].turn
                                  /\ call'[d].input = call[d].input
                                  /\ call'[d].receipt = call[d].receipt
        /\ \/ call'[c].stage = "rejected" /\ call'[c].turn <= n /\ line' = line
           \/ call'[c].stage = "admission" /\ call'[c].turn = n + 1 /\ line' = Append(line, c)
    BY CallFields DEF n
  <1>9. /\ IsFiniteSet(Called') /\ Cardinality(Called') = n + 1
    <2>1. Called' = Called \cup {c}
      BY <1>5, <1>8 DEF Called
    <2> QED BY <1>4, <1>5, <2>1, FS_AddElement DEF n
  <1>10. \A d \in Calls : call[d].turn \in Nat /\ call'[d].turn \in Nat
    BY <1>2, <1>8, SMT DEF CallRecord
  <1>11. line' \in Seq(Calls)
    BY <1>2, <1>8
  <1>12. QueueTyped'
    BY <1>1, <1>8, <1>11 DEF Queue, QueueTyped
  <1>13. Settlement'
    BY <1>1, <1>8, NewCallSettles
  <1>14. \A d \in Calls : call'[d].turn <= n + 1
    BY <1>4, <1>8, <1>10
  <1>15. \A i \in DOMAIN line : /\ line[i] \in Calls /\ line[i] # c
                                /\ call[line[i]].stage = "admission"
    BY <1>1, <1>2 DEF Queue, InTurn
  <1>16. /\ \A i \in DOMAIN line' : \/ i \in DOMAIN line /\ line'[i] = line[i]
                                    \/ /\ line'[i] = c /\ call'[c].turn = n + 1
                                       /\ call'[c].stage = "admission"
         /\ \A i, j \in DOMAIN line' : i < j => i \in DOMAIN line /\ line'[i] = line[i]
    <2>1. CASE line' = line
      BY <2>1
    <2>2. CASE line' = Append(line, c) /\ call'[c].turn = n + 1 /\ call'[c].stage = "admission"
      <3>1. PICK m \in Nat : m = Len(line)
        BY <1>2
      <3>2. /\ DOMAIN line = 1..m /\ DOMAIN line' = 1..(m + 1) /\ line'[m + 1] = c
            /\ \A i \in 1..m : line'[i] = line[i]
        BY <1>2, <2>2, <3>1
      <3>3. \A i \in DOMAIN line' : i \in 1..m \/ i = m + 1
        BY <3>2
      <3>4. \A i, j \in DOMAIN line' : i < j => i \in 1..m
        BY <3>2
      <3> QED BY <2>2, <3>2, <3>3, <3>4
    <2> QED BY <1>8, <2>1, <2>2
  <1>17. \A i \in DOMAIN line' : call'[line'[i]].stage = "admission"
    BY <1>8, <1>15, <1>16
  <1>18. \A i, j \in DOMAIN line' : i < j => call'[line'[i]].turn < call'[line'[j]].turn
    <2> SUFFICES ASSUME NEW i \in DOMAIN line', NEW j \in DOMAIN line', i < j
                 PROVE  call'[line'[i]].turn < call'[line'[j]].turn
      OBVIOUS
    <2>1. i \in DOMAIN line /\ line'[i] = line[i]
      BY <1>16
    <2>2. CASE j \in DOMAIN line /\ line'[j] = line[j]
      <3>1. call[line[i]].turn < call[line[j]].turn
        BY <2>1, <2>2 DEF Queue, InTurn, Turn
      <3> QED BY <1>8, <1>15, <2>1, <2>2, <3>1
    <2>3. CASE line'[j] = c /\ call'[c].turn = n + 1
      <3>1. PICK d \in Calls : d = line[i] /\ d # c
        BY <1>15, <2>1
      <3> QED BY <1>4, <1>8, <1>10, <2>1, <2>3, <3>1
    <2> QED BY <1>16, <2>2, <2>3
  \* Owners were called before c.
  <1>19. ASSUME NEW x \in Ids, entries[x].state # "none"
         PROVE  entries[x].owner \in Calls \ {c}
    BY <1>1, <1>19 DEF Queue, Settlement, Followed, Submitted, Admitted
  <1>20. \A i \in DOMAIN pending : entries[pending[i]].owner \in Calls \ {c}
    BY <1>2, <1>19 DEF Queue, Settlement
  <1>21. active # None => entries[active].owner \in Calls \ {c}
    BY <1>2, <1>19 DEF Queue, Settlement
  <1>22. ASSUME NEW o \in Calls \ {c},
                \A j \in DOMAIN line : call[o].turn < call[line[j]].turn
         PROVE  \A j \in DOMAIN line' : call'[o].turn < call'[line'[j]].turn
    <2> SUFFICES ASSUME NEW j \in DOMAIN line' PROVE call'[o].turn < call'[line'[j]].turn
      OBVIOUS
    <2>1. CASE j \in DOMAIN line /\ line'[j] = line[j]
      BY <1>8, <1>15, <1>22, <2>1
    <2>2. CASE line'[j] = c /\ call'[c].turn = n + 1
      BY <1>4, <1>8, <1>10, <2>2
    <2> QED BY <1>16, <2>1, <2>2
  <1>23. InTurn'
    <2>1. \A i, j \in DOMAIN pending' : i < j =>
            call'[entries'[pending'[i]].owner].turn < call'[entries'[pending'[j]].owner].turn
      BY <1>1, <1>8, <1>20 DEF Queue, InTurn, OwnerTurn
    <2>2. \A i \in DOMAIN pending', j \in DOMAIN line' :
            call'[entries'[pending'[i]].owner].turn < call'[line'[j]].turn
      <3> SUFFICES ASSUME NEW i \in DOMAIN pending
                   PROVE  \A j \in DOMAIN line' :
                            call'[entries[pending[i]].owner].turn < call'[line'[j]].turn
        BY <1>1
      <3>1. PICK o \in Calls \ {c} : o = entries[pending[i]].owner
        BY <1>20
      <3>2. \A j \in DOMAIN line : call[o].turn < call[line[j]].turn
        BY <3>1 DEF Queue, InTurn, OwnerTurn, Turn
      <3> QED BY <1>22, <3>1, <3>2
    <2>3. active' # None =>
            /\ \A j \in DOMAIN line' : call'[entries'[active'].owner].turn < call'[line'[j]].turn
            /\ \A i \in DOMAIN pending' : call'[entries'[active'].owner].turn
                                            < call'[entries'[pending'[i]].owner].turn
      <3> SUFFICES ASSUME active # None
                   PROVE  /\ \A j \in DOMAIN line' : call'[entries[active].owner].turn
                                                       < call'[line'[j]].turn
                          /\ \A i \in DOMAIN pending : call'[entries[active].owner].turn
                                                         < call'[entries[pending[i]].owner].turn
        BY <1>1
      <3>1. PICK o \in Calls \ {c} : o = entries[active].owner
        BY <1>21
      <3>2. \A j \in DOMAIN line : call[o].turn < call[line[j]].turn
        BY <3>1 DEF Queue, InTurn, OwnerTurn, Turn
      <3>3. \A i \in DOMAIN pending : call[o].turn < call[entries[pending[i]].owner].turn
        BY <3>1 DEF Queue, InTurn, OwnerTurn
      <3> QED BY <1>8, <1>20, <1>22, <3>1, <3>2, <3>3
    <2> QED BY <1>9, <1>14, <1>17, <1>18, <2>1, <2>2, <2>3 DEF InTurn, Turn, OwnerTurn
  <1> QED BY <1>12, <1>13, <1>23 DEF Queue

\* What every branch of #submit() has in common.
LEMMA SubmitSteps ==
    ASSUME Queue, WorldTyped, NEW c \in Calls, NEW f \in [Calls -> CallRecord],
           line # <<>>, Head(line) = c, line' = Tail(line), call' = TakesTurn(f, Tail(line)),
           \A d \in Calls : /\ f[d].turn = call[d].turn /\ f[d].input = call[d].input
                            /\ d # c => f[d] = call[d]
    PROVE  /\ call[c].stage = "admission"
           /\ line' \in Seq(Calls) /\ call' \in [Calls -> CallRecord]
           /\ \A d \in Calls : /\ call'[d].turn = call[d].turn /\ call'[d].input = call[d].input
                               /\ call'[d].stage = f[d].stage /\ call'[d].receipt = f[d].receipt
                               /\ d # c => /\ call'[d].stage = call[d].stage
                                           /\ call'[d].receipt = call[d].receipt
  <1>1. line \in Seq(Calls) /\ Tail(line) \in Seq(Calls)
    BY DEF Queue, QueueTyped
  <1>2. 1 \in DOMAIN line /\ line[1] = c
    BY <1>1
  <1>3. call[c].stage = "admission"
    BY <1>2 DEF Queue, InTurn
  <1>4. /\ call' \in [Calls -> CallRecord]
        /\ \A d \in Calls : /\ call'[d].stage = f[d].stage /\ call'[d].turn = f[d].turn
                            /\ call'[d].input = f[d].input /\ call'[d].receipt = f[d].receipt
    BY <1>1, TurnFields
  <1> QED BY <1>1, <1>3, <1>4

\* The command is rejected, or answered as its entry was rejected.
LEMMA SubmitRejects ==
    ASSUME Queue, WorldTyped, NEW c \in Calls,
           line # <<>>, Head(line) = c, line' = Tail(line),
           call' = TakesTurn(Reject({c}), Tail(line)),
           UNCHANGED <<jobs, entries, pending, active, terminal>>
    PROVE  Queue'
  <1>1. call \in [Calls -> CallRecord]
    BY DEF Queue, QueueTyped
  <1> DEFINE f == Reject({c})
  <1>2. /\ f \in [Calls -> CallRecord]
        /\ \A d \in Calls : /\ f[d].turn = call[d].turn /\ f[d].input = call[d].input
                            /\ d # c => f[d] = call[d]
        /\ f[c].stage = "rejected"
    BY <1>1, RejectFields
  <1>7. call' = TakesTurn(f, Tail(line))
    OBVIOUS
  <1> HIDE DEF f
  <1>3. /\ call[c].stage = "admission"
        /\ line' \in Seq(Calls) /\ call' \in [Calls -> CallRecord]
        /\ \A d \in Calls : /\ call'[d].turn = call[d].turn /\ call'[d].input = call[d].input
                            /\ d # c => /\ call'[d].stage = call[d].stage
                                        /\ call'[d].receipt = call[d].receipt
        /\ call'[c].stage = "rejected"
    <2>1. /\ call[c].stage = "admission"
          /\ line' \in Seq(Calls) /\ call' \in [Calls -> CallRecord]
          /\ \A d \in Calls : /\ call'[d].turn = call[d].turn /\ call'[d].input = call[d].input
                              /\ call'[d].stage = f[d].stage /\ call'[d].receipt = f[d].receipt
                              /\ d # c => /\ call'[d].stage = call[d].stage
                                          /\ call'[d].receipt = call[d].receipt
      BY <1>2, <1>7, SubmitSteps
    <2> QED BY <1>2, <2>1
  <1>4. QueueTyped'
    BY <1>3 DEF Queue, QueueTyped
  <1>5. Settlement'
    BY <1>3, NewCallSettles
  <1>6. InTurn'
    <2>1. CommandId(c) \in Ids
      BY DEF Ids
    <2> QED BY <1>3, <2>1, SubmitTurns
  <1> QED BY <1>4, <1>5, <1>6 DEF Queue

LEMMA SubmitNew ==
    ASSUME Queue, WorldTyped, NEW c \in Calls, Task,
           line # <<>>, Head(line) = c, line' = Tail(line),
           entries[CommandId(c)].state = "none", Admit(c, FALSE),
           UNCHANGED <<active, terminal>>
    PROVE  Queue'
  <1> DEFINE subscribed == [call EXCEPT ![c].stage = "subscribed"]
  <1>1. PICK id \in Ids : id = CommandId(c)
    BY DEF Ids
  <1>2. /\ entries' = [entries EXCEPT ![id] = Entry(c)]
        /\ pending' = Append(pending, id)
        /\ jobs' = <<Pump>>
        /\ call' = TakesTurn(subscribed, Tail(line))
    BY <1>1, Zenon DEF Admit
  <1>3. /\ call \in [Calls -> CallRecord] /\ entries \in [Ids -> EntryRecord]
        /\ pending \in Seq(Ids) /\ entries[id].state = "none"
    BY <1>1 DEF Queue, QueueTyped
  <1>4. PICK k \in CallRecord : k = call[c]
    BY <1>3
  <1>5. /\ subscribed \in [Calls -> CallRecord]
        /\ \A d \in Calls : /\ subscribed[d].turn = call[d].turn
                            /\ subscribed[d].input = call[d].input
                            /\ d # c => subscribed[d] = call[d]
        /\ subscribed[c].stage = "subscribed"
    <2> DEFINE q == [k EXCEPT !.stage = "subscribed"]
    <2>1. q \in CallRecord /\ q.stage = "subscribed" /\ q.turn = k.turn /\ q.input = k.input
      <3>1. "subscribed" \in Stages
        BY DEF Stages
      <3> QED BY <3>1, SMT DEF CallRecord
    <2>2. subscribed = [call EXCEPT ![c] = q]
      BY <1>3, <1>4
    <2> HIDE DEF q, subscribed
    <2> QED BY <1>3, <1>4, <2>1, <2>2
  <1> HIDE DEF subscribed
  <1>6. /\ call[c].stage = "admission"
        /\ line' \in Seq(Calls) /\ call' \in [Calls -> CallRecord]
        /\ \A d \in Calls : /\ call'[d].turn = call[d].turn /\ call'[d].input = call[d].input
                            /\ d # c => /\ call'[d].stage = call[d].stage
                                        /\ call'[d].receipt = call[d].receipt
        /\ call'[c].stage = "subscribed"
    BY <1>2, <1>5, SubmitSteps
  <1>7. PICK e \in EntryRecord :
          /\ e = Entry(c)
          /\ e.state = "queued" /\ e.owner = c /\ e.operation = Operation(c)
          /\ e.input = call[c].input /\ e.subscribers = <<c>> /\ e.outcome = "pending"
    <2>1. PICK input \in AnyInput : input = k.input
      BY SMT DEF CallRecord
    <2>2. PICK operation \in Operations : operation = Operation(c)
      BY OperationAssumption
    <2>3. PICK subscribers \in Seq(Calls) : subscribers = <<c>>
      <3>1. <<c>> \in Seq(Calls)
        OBVIOUS
      <3> QED BY <3>1
    <2>4. Entry(c) = [state |-> "queued", owner |-> c, operation |-> operation,
                      input |-> input, subscribers |-> subscribers,
                      outcome |-> "pending", receipt |-> None]
      BY <1>4, <2>1, <2>2, <2>3 DEF Entry
    <2>5. "queued" \in States /\ "pending" \in Outcomes
      BY DEF States, Outcomes
    <2> DEFINE q == [state |-> "queued", owner |-> c, operation |-> operation,
                      input |-> input, subscribers |-> subscribers,
                      outcome |-> "pending", receipt |-> None]
    <2>6. /\ q \in EntryRecord /\ q.state = "queued" /\ q.owner = c /\ q.operation = operation
          /\ q.input = input /\ q.subscribers = subscribers /\ q.outcome = "pending"
      BY <2>5, SMT DEF EntryRecord
    <2> HIDE DEF q
    <2>7. Entry(c) = q
      BY <2>4 DEF q
    <2> QED BY <1>4, <2>1, <2>2, <2>3, <2>6, <2>7
  <1>8. /\ entries' \in [Ids -> EntryRecord]
        /\ \A x \in Ids \ {id} : entries'[x] = entries[x]
        /\ entries'[id] = e
    BY <1>2, <1>3, <1>7
  <1>9. jobs' \in Seq(Jobs) /\ JobsSound'
    <2>1. jobs' = <<Pump>> /\ Pump \in Jobs
      BY <1>2, JobKinds
    <2> QED BY <2>1, JobKinds DEF JobsSound, Continues
  <1>10. pending' \in Seq(Ids)
    BY <1>2, <1>3
  <1>11. QueueTyped'
    BY <1>6, <1>8, <1>9, <1>10 DEF Queue, QueueTyped
  <1>12. InTurn'
    <2>1. pending' = Append(pending, id) /\ entries'[id].owner = c /\ entries[id].state = "none"
      BY <1>1, <1>2, <1>7, <1>8
    <2>2. \A x \in Ids \ {id} : entries'[x].owner = entries[x].owner
      BY <1>8
    <2>3. /\ call'[c].stage \notin {"idle", "admission"}
          /\ \A d \in Calls : /\ call'[d].turn = call[d].turn
                              /\ d # c => call'[d].stage = call[d].stage
      BY <1>6
    <2> QED BY <2>1, <2>2, <2>3, SubmitTurns
  <1>13. NoneGoesBack
    BY <1>6 DEF NoneGoesBack
  <1>14. \A x \in Ids : Followed(x)'
    <2> SUFFICES ASSUME NEW x \in Ids PROVE Followed(x)'
      OBVIOUS
    <2>1. CASE x # id
      <3>1. \A d \in Calls : call[d].stage = "subscribed" /\ CommandId(d) = x
              => call'[d].stage = "subscribed" /\ call'[d].input = call[d].input
        BY <1>1, <1>6, <2>1
      <3> QED BY <1>8, <1>13, <2>1, <3>1, EntryKept DEF SameEntry
    <2>2. CASE x = id
      <3>1. entries'[id].subscribers = <<c>> /\ DOMAIN <<c>> = {1} /\ <<c>>[1] = c /\ <<c>> # <<>>
        BY <1>7, <1>8
      <3>2. /\ entries'[id].state = "queued" /\ entries'[id].owner = c
            /\ entries'[id].operation = Operation(c) /\ entries'[id].input = call'[c].input
            /\ entries'[id].outcome = "pending"
        BY <1>6, <1>7, <1>8
      <3> QED BY <1>1, <1>6, <2>2, <3>1, <3>2 DEF Followed, Open, Submitted, Admitted, Subscribed
    <2> QED BY <2>1, <2>2
  <1>15. \A d \in Calls : Waiting(d)'
    <2> SUFFICES ASSUME NEW d \in Calls PROVE Waiting(d)'
      OBVIOUS
    <2>1. CASE d = c
      <3>1. entries'[id].state = "queued" /\ entries'[id].outcome = "pending"
        BY <1>7, <1>8
      <3> QED BY <1>1, <1>6, <2>1, <3>1 DEF Waiting, Open
    <2>2. CASE d # c
      <3>1. CommandId(d) \in Ids
        BY DEF Ids
      <3>2. CommandId(d) = id => ~Open(id) /\ entries[id].outcome = "pending"
        <4>1. Followed(id)
          BY DEF Queue, Settlement
        <4> QED BY <1>3, <4>1 DEF Followed, Open
      <3> QED BY <1>6, <1>8, <2>2, <3>1, <3>2, CallKept DEF Open
    <2> QED BY <2>1, <2>2
  <1>16. \A i \in DOMAIN pending' : entries'[pending'[i]].state = "queued"
    <2> SUFFICES ASSUME NEW i \in DOMAIN pending' PROVE entries'[pending'[i]].state = "queued"
      OBVIOUS
    <2>1. CASE pending'[i] = id
      BY <1>7, <1>8, <2>1
    <2>2. CASE i \in DOMAIN pending /\ pending'[i] = pending[i]
      <3>1. pending[i] \in Ids /\ entries[pending[i]].state = "queued"
        BY <1>3, <2>2 DEF Queue, Settlement
      <3> QED BY <1>3, <1>8, <2>2, <3>1
    <2>3. \/ i \in DOMAIN pending /\ pending'[i] = pending[i]
          \/ pending'[i] = id
      BY <1>2, <1>3
    <2> QED BY <2>1, <2>2, <2>3
  <1>17. active' # None => /\ active' = active /\ active \in Ids /\ active # id
                           /\ entries[active].state = "executing"
    BY <1>3 DEF Queue, QueueTyped, Settlement, MaybeId
  <1>18. active' # None => entries'[active'].state = "executing"
    BY <1>8, <1>17
  <1>19. active' # None /\ ~terminal' => entries'[active'].outcome = "pending"
    <2> SUFFICES ASSUME active' # None, ~terminal' PROVE entries'[active'].outcome = "pending"
      OBVIOUS
    <2>1. ~terminal /\ active # None
      BY <1>17
    <2>2. entries[active].outcome = "pending"
      BY <2>1 DEF Queue, Settlement
    <2> QED BY <1>8, <1>17, <2>2
  <1>20. Settlement'
    BY <1>9, <1>14, <1>15, <1>16, <1>18, <1>19 DEF Settlement, JobsSound
  <1> QED BY <1>11, <1>12, <1>20 DEF Queue

\* A repeated command id: the call joins the entry, or gets what settled it.
LEMMA KnownSettles ==
    ASSUME Queue, NEW c \in Calls, NEW id \in Ids, id = CommandId(c),
           call[c].stage = "admission", entries[id].state # "none",
           \A x \in Ids : /\ SameEntry(x)
                          /\ entries'[x].state = entries[x].state
                          /\ entries'[x].outcome = entries[x].outcome
                          /\ entries'[x].receipt = entries[x].receipt
                          /\ x # id => entries'[x].subscribers = entries[x].subscribers,
           entries'[id].subscribers = Append(entries[id].subscribers, c),
           \A d \in Calls : /\ call'[d].input = call[d].input
                            /\ d # c => /\ call'[d].stage = call[d].stage
                                        /\ call'[d].receipt = call[d].receipt,
           \/ /\ entries[id].outcome = "pending" /\ call'[c].stage = "subscribed"
              /\ Operation(c) = entries[id].operation /\ call[c].input = entries[id].input
           \/ entries[id].outcome = "rejected" /\ call'[c].stage = "rejected"
           \/ /\ entries[id].outcome = "resolved" /\ call'[c].receipt = entries[id].receipt
              /\ call'[c].stage = IF Operation(c) = "restore" THEN "resuming" ELSE "returned",
           JobsSound', UNCHANGED <<pending, active, terminal>>
    PROVE  Settlement'
  <1>1. NoneGoesBack
    <2> SUFFICES ASSUME NEW d \in Calls, call[d].stage \notin {"idle", "admission"}
                 PROVE  call'[d].stage \notin {"idle", "admission"}
      BY DEF NoneGoesBack
    <2> QED OBVIOUS
  <1>2. Followed(id) /\ Waiting(c)
    BY DEF Queue, Settlement
  <1>3. PICK e \in EntryRecord : e = entries[id]
    BY DEF Queue, QueueTyped
  <1>4. e.subscribers \in Seq(Calls)
    BY SMT DEF EntryRecord
  <1>5. PICK s \in Seq(Calls) : s = e.subscribers
    BY <1>4
  <1>6. PICK n \in Nat : n = Len(s) /\ DOMAIN s = 1..n
    OBVIOUS
  <1>7. PICK s2 : /\ s2 = Append(s, c) /\ DOMAIN s2 = 1..(n + 1) /\ s2[n + 1] = c
                  /\ \A i \in 1..n : s2[i] = s[i]
                  /\ s2 # <<>>
    <2> DEFINE t == Append(s, c)
    <2>1. /\ DOMAIN t = 1..(n + 1) /\ t[n + 1] = c
          /\ \A i \in 1..n : t[i] = s[i]
      BY <1>6
    <2>2. t # <<>>
      BY <1>6
    <2> QED BY <2>1, <2>2
  <1>8. /\ entries'[id].owner = e.owner /\ entries'[id].operation = e.operation
        /\ entries'[id].input = e.input /\ entries'[id].state = e.state
        /\ entries'[id].outcome = e.outcome /\ entries'[id].receipt = e.receipt
        /\ entries'[id].subscribers = s2
    BY <1>3, <1>5, <1>7 DEF SameEntry
  <1>9. Open(id) =>
          /\ s # <<>> /\ s[1] = e.owner
          /\ \A i \in 1..n : /\ s[i] \in Calls /\ call[s[i]].stage = "subscribed"
                             /\ CommandId(s[i]) = id
                             /\ Operation(s[i]) = e.operation /\ call[s[i]].input = e.input
          /\ \A i, j \in 1..n : s[i] = s[j] => i = j
    <2> SUFFICES ASSUME Open(id)
                 PROVE  /\ s # <<>> /\ s[1] = e.owner
                        /\ \A i \in 1..n : /\ s[i] \in Calls /\ call[s[i]].stage = "subscribed"
                                           /\ CommandId(s[i]) = id
                                           /\ Operation(s[i]) = e.operation
                                           /\ call[s[i]].input = e.input
                        /\ \A i, j \in 1..n : s[i] = s[j] => i = j
      OBVIOUS
    <2>1. entries[id].subscribers = s
      BY <1>3, <1>5
    <2>2. /\ s # <<>> /\ s[1] = entries[id].owner
          /\ \A i \in DOMAIN s : Subscribed(s[i], id)
          /\ \A i, j \in DOMAIN s : s[i] = s[j] => i = j
      BY <1>2, <2>1, Zenon DEF Followed
    <2>3. \A i \in 1..n : s[i] \in Calls
      BY <1>6
    <2> QED BY <1>3, <1>6, <2>2, <2>3 DEF Subscribed
  <1>10. Open(id) =>
          /\ s2[1] = e.owner
          /\ \A i \in 1..(n + 1) : /\ call'[s2[i]].stage = "subscribed" /\ CommandId(s2[i]) = id
                                   /\ Operation(s2[i]) = e.operation /\ call'[s2[i]].input = e.input
          /\ \A i, j \in 1..(n + 1) : s2[i] = s2[j] => i = j
    <2> SUFFICES ASSUME Open(id)
                 PROVE  /\ s2[1] = e.owner
                        /\ \A i \in 1..(n + 1) : /\ call'[s2[i]].stage = "subscribed"
                                                 /\ CommandId(s2[i]) = id
                                                 /\ Operation(s2[i]) = e.operation
                                                 /\ call'[s2[i]].input = e.input
                        /\ \A i, j \in 1..(n + 1) : s2[i] = s2[j] => i = j
      OBVIOUS
    <2>1. /\ call'[c].stage = "subscribed" /\ Operation(c) = e.operation
          /\ call'[c].input = e.input
      BY <1>3 DEF Open
    <2>2. \A i \in 1..n : s2[i] # c /\ s2[i] \in Calls
      BY <1>7, <1>9
    <2>3. \A i \in 1..(n + 1) : i \in 1..n \/ i = n + 1
      OBVIOUS
    <2>4. 1 \in 1..n
      BY <1>6, <1>9
    <2>5. \A i \in 1..n : /\ call'[s2[i]].stage = "subscribed" /\ CommandId(s2[i]) = id
                          /\ Operation(s2[i]) = e.operation /\ call'[s2[i]].input = e.input
      BY <1>7, <1>9, <2>2
    <2>6. \A i \in 1..(n + 1) : /\ call'[s2[i]].stage = "subscribed" /\ CommandId(s2[i]) = id
                                /\ Operation(s2[i]) = e.operation /\ call'[s2[i]].input = e.input
      BY <1>7, <2>1, <2>3, <2>5
    <2>7. \A i, j \in 1..(n + 1) : s2[i] = s2[j] => i = j
      BY <1>7, <1>9, <2>2, <2>3
    <2> QED BY <1>7, <1>9, <2>4, <2>6, <2>7
  <1>11. /\ e.owner \in Calls /\ CommandId(e.owner) = id
         /\ call'[e.owner].stage \notin {"idle", "admission"}
    BY <1>1, <1>2, <1>3 DEF Followed, Submitted, Admitted, NoneGoesBack
  <1>12. Followed(id)'
    <2>1. Open(id) <=> e.state \in {"queued", "executing"} /\ e.outcome = "pending"
      BY <1>3 DEF Open
    <2>2. /\ e.state # "none"
          /\ e.state = "queued" => e.outcome = "pending"
          /\ e.state = "completed" => e.outcome # "pending"
          /\ e.state \in {"failed", "cancelled", "terminated"} => e.outcome = "rejected"
          /\ e.outcome = "resolved" => e.state = "completed" /\ e.receipt \in Receipts
      BY <1>2, <1>3 DEF Followed
    <2> QED BY <1>7, <1>8, <1>10, <1>11, <2>1, <2>2
            DEF Followed, Open, Submitted, Admitted, Subscribed
  <1>13. \A x \in Ids : Followed(x)'
    <2> SUFFICES ASSUME NEW x \in Ids, x # id PROVE Followed(x)'
      BY <1>12
    <2>1. \A d \in Calls : call[d].stage = "subscribed" /\ CommandId(d) = x
            => call'[d].stage = "subscribed" /\ call'[d].input = call[d].input
      OBVIOUS
    <2> QED BY <1>1, <2>1, EntryKept
  <1>14. \A d \in Calls : Waiting(d)'
    <2> SUFFICES ASSUME NEW d \in Calls PROVE Waiting(d)'
      OBVIOUS
    <2>1. CASE d # c
      <3>1. CommandId(d) \in Ids
        BY DEF Ids
      <3> QED BY <2>1, <3>1, CallKept DEF Open
    <2>2. CASE d = c
      <3>1. entries[id].outcome = "pending" => Open(id)
        <4>1. e.state \in States /\ e.state # "none"
          BY <1>3, SMT DEF EntryRecord
        <4> QED BY <1>2, <1>3, <4>1 DEF Followed, Open, States
      <3>2. entries[id].outcome = "resolved" => e.receipt \in Receipts
        BY <1>2, <1>3 DEF Followed
      <3>3. CASE entries[id].outcome = "pending" /\ call'[c].stage = "subscribed"
        <4>1. e.state \in {"queued", "executing"} /\ e.outcome = "pending"
          BY <1>3, <3>1, <3>3 DEF Open
        <4> QED BY <1>8, <2>2, <3>3, <4>1 DEF Waiting, Open
      <3>4. CASE entries[id].outcome = "rejected" /\ call'[c].stage = "rejected"
        BY <2>2, <3>4 DEF Waiting
      <3>5. CASE /\ entries[id].outcome = "resolved" /\ call'[c].receipt = entries[id].receipt
                 /\ call'[c].stage = IF Operation(c) = "restore" THEN "resuming" ELSE "returned"
        <4>1. /\ call'[c].receipt = e.receipt /\ e.receipt \in Receipts
              /\ entries'[id].receipt = e.receipt /\ entries'[id].outcome = "resolved"
          BY <1>3, <1>8, <3>2, <3>5
        <4> QED BY <2>2, <3>5, <4>1 DEF Waiting
      <3> QED BY <3>3, <3>4, <3>5
    <2> QED BY <2>1, <2>2
  <1>15. \A i \in DOMAIN pending : pending[i] \in Ids
    BY DEF Queue, QueueTyped
  <1>16. active # None => active \in Ids
    BY DEF Queue, QueueTyped, MaybeId
  <1> QED BY <1>13, <1>14, <1>15, <1>16 DEF Queue, Settlement, JobsSound

LEMMA SubmitKnown ==
    ASSUME Queue, WorldTyped, NEW c \in Calls, Task,
           line # <<>>, Head(line) = c, line' = Tail(line),
           entries[CommandId(c)].state # "none",
           entries[CommandId(c)].operation = Operation(c),
           entries[CommandId(c)].input = call[c].input, Admit(c, TRUE),
           UNCHANGED <<active, terminal>>
    PROVE  Queue'
  <1> DEFINE subscribed == [call EXCEPT ![c].stage = "subscribed"]
             rejected == Reject({c})
  <1>1. PICK id \in Ids : id = CommandId(c)
    BY DEF Ids
  <1>2. /\ call \in [Calls -> CallRecord] /\ entries \in [Ids -> EntryRecord]
        /\ pending \in Seq(Ids) /\ entries[id].state # "none" /\ jobs = <<>>
        /\ Followed(id)
    BY <1>1 DEF Queue, QueueTyped, Task, Settlement
  <1>3. PICK e \in EntryRecord : e = entries[id]
    BY <1>2
  <1>4. PICK k \in CallRecord : k = call[c]
    BY <1>2
  <1> DEFINE resolved == Resolve({c}, e.receipt)
  <1>5. entries' = [entries EXCEPT ![id].subscribers = Append(@, c)] /\ pending' = pending
    BY <1>1, Zenon DEF Admit
  <1>6. \/ /\ e.outcome = "pending"
           /\ jobs' = jobs /\ call' = TakesTurn(subscribed, Tail(line))
        \/ /\ e.outcome = "rejected"
           /\ jobs' = jobs /\ call' = TakesTurn(rejected, Tail(line))
        \/ /\ e.outcome = "resolved"
           /\ jobs' = IF Operation(c) = "restore" THEN <<Settle(c)>> ELSE <<>>
           /\ call' = TakesTurn(resolved, Tail(line))
    <2>1. e.outcome \in {"pending", "resolved", "rejected"}
      BY SMT DEF EntryRecord, Outcomes
    <2>2. CASE e.outcome = "pending"
      BY <1>1, <1>3, <2>2 DEF Admit
    <2>3. CASE e.outcome = "rejected"
      BY <1>1, <1>3, <2>3 DEF Admit
    <2>4. CASE e.outcome = "resolved"
      BY <1>1, <1>3, <2>4 DEF Admit
    <2> QED BY <2>1, <2>2, <2>3, <2>4
  <1>7. /\ subscribed \in [Calls -> CallRecord]
        /\ \A d \in Calls : /\ subscribed[d].turn = call[d].turn
                            /\ subscribed[d].input = call[d].input
                            /\ d # c => subscribed[d] = call[d]
        /\ subscribed[c].stage = "subscribed"
    <2> DEFINE q == [k EXCEPT !.stage = "subscribed"]
    <2>1. q \in CallRecord /\ q.stage = "subscribed" /\ q.turn = k.turn /\ q.input = k.input
      <3>1. "subscribed" \in Stages
        BY DEF Stages
      <3> QED BY <3>1, SMT DEF CallRecord
    <2>2. subscribed = [call EXCEPT ![c] = q]
      BY <1>2, <1>4
    <2> HIDE DEF q, subscribed
    <2> QED BY <1>2, <1>4, <2>1, <2>2
  <1>8. /\ rejected \in [Calls -> CallRecord]
        /\ \A d \in Calls : /\ rejected[d].turn = call[d].turn
                            /\ rejected[d].input = call[d].input
                            /\ d # c => rejected[d] = call[d]
        /\ rejected[c].stage = "rejected"
    BY <1>2, RejectFields
  <1>9. e.outcome = "resolved" =>
          /\ resolved \in [Calls -> CallRecord]
          /\ \A d \in Calls : /\ resolved[d].turn = call[d].turn
                              /\ resolved[d].input = call[d].input
                              /\ d # c => resolved[d] = call[d]
          /\ resolved[c].stage = IF Operation(c) = "restore" THEN "resuming" ELSE "returned"
          /\ resolved[c].receipt = e.receipt
    <2> SUFFICES ASSUME e.outcome = "resolved"
                 PROVE  /\ resolved \in [Calls -> CallRecord]
                        /\ \A d \in Calls : /\ resolved[d].turn = call[d].turn
                                            /\ resolved[d].input = call[d].input
                                            /\ d # c => resolved[d] = call[d]
                        /\ resolved[c].stage = IF Operation(c) = "restore" THEN "resuming"
                                               ELSE "returned"
                        /\ resolved[c].receipt = e.receipt
      OBVIOUS
    <2>1. PICK receipt \in Receipts : receipt = e.receipt
      BY <1>2, <1>3 DEF Followed
    <2> QED BY <1>2, <2>1, ResolveFields
  <1> HIDE DEF subscribed, rejected, resolved
  <1>10. /\ call[c].stage = "admission"
         /\ line' \in Seq(Calls) /\ call' \in [Calls -> CallRecord]
         /\ \A d \in Calls : /\ call'[d].turn = call[d].turn /\ call'[d].input = call[d].input
                             /\ d # c => /\ call'[d].stage = call[d].stage
                                         /\ call'[d].receipt = call[d].receipt
         /\ \/ /\ e.outcome = "pending" /\ call'[c].stage = "subscribed" /\ jobs' = jobs
            \/ /\ e.outcome = "rejected" /\ call'[c].stage = "rejected" /\ jobs' = jobs
            \/ /\ e.outcome = "resolved" /\ call'[c].receipt = e.receipt
               /\ call'[c].stage = IF Operation(c) = "restore" THEN "resuming" ELSE "returned"
               /\ jobs' = IF Operation(c) = "restore" THEN <<Settle(c)>> ELSE <<>>
    <2>1. CASE e.outcome = "pending" /\ jobs' = jobs /\ call' = TakesTurn(subscribed, Tail(line))
      BY <1>7, <2>1, SubmitSteps
    <2>2. CASE e.outcome = "rejected" /\ jobs' = jobs /\ call' = TakesTurn(rejected, Tail(line))
      BY <1>8, <2>2, SubmitSteps
    <2>3. CASE /\ e.outcome = "resolved"
               /\ jobs' = IF Operation(c) = "restore" THEN <<Settle(c)>> ELSE <<>>
               /\ call' = TakesTurn(resolved, Tail(line))
      BY <1>9, <2>3, SubmitSteps
    <2> QED BY <1>6, <2>1, <2>2, <2>3
  <1>11. /\ entries' \in [Ids -> EntryRecord]
         /\ \A x \in Ids : /\ SameEntry(x)
                           /\ entries'[x].state = entries[x].state
                           /\ entries'[x].outcome = entries[x].outcome
                           /\ entries'[x].receipt = entries[x].receipt
                           /\ x # id => entries'[x].subscribers = entries[x].subscribers
         /\ entries'[id].subscribers = Append(entries[id].subscribers, c)
    <2> DEFINE q == [e EXCEPT !.subscribers = Append(@, c)]
    <2>1. /\ q \in EntryRecord /\ q.state = e.state /\ q.outcome = e.outcome
          /\ q.owner = e.owner /\ q.operation = e.operation /\ q.input = e.input
          /\ q.subscribers = Append(e.subscribers, c) /\ q.receipt = e.receipt
      BY SubscriberFields
    <2>2. entries' = [entries EXCEPT ![id] = q]
      BY <1>2, <1>3, <1>5
    <2> HIDE DEF q
    <2> QED BY <1>2, <1>3, <2>1, <2>2 DEF SameEntry
  <1>12. jobs' \in Seq(Jobs) /\ JobsSound'
    <2>1. Settle(c) \in Jobs /\ \A d \in Calls : Continues(Settle(c), d) => d = c
      BY JobKinds
    <2>2. CASE jobs' = <<>>
      BY <2>2 DEF JobsSound
    <2>3. CASE jobs' = <<Settle(c)>> /\ call'[c].stage = "resuming"
      <3>1. jobs' \in Seq(Jobs) /\ DOMAIN jobs' = {1} /\ jobs'[1] = Settle(c)
        <4> HIDE DEF Settle
        <4> QED BY <2>1, <2>3
      <3> QED BY <2>1, <2>3, <3>1 DEF JobsSound, Continues
    <2> QED BY <1>2, <1>10, <2>2, <2>3
  <1>13. QueueTyped'
    BY <1>5, <1>10, <1>11, <1>12 DEF Queue, QueueTyped
  <1>14. InTurn'
    <2>1. call'[c].stage \notin {"idle", "admission"}
      BY <1>10
    <2>2. \A x \in Ids : entries'[x].owner = entries[x].owner
      BY <1>11 DEF SameEntry
    <2> QED BY <1>5, <1>10, <2>1, <2>2, SubmitTurns
  <1>15. Settlement'
    <2>1. Operation(c) = entries[id].operation /\ call[c].input = entries[id].input
      BY <1>1
    <2>2. \/ /\ entries[id].outcome = "pending" /\ call'[c].stage = "subscribed"
             /\ Operation(c) = entries[id].operation /\ call[c].input = entries[id].input
          \/ entries[id].outcome = "rejected" /\ call'[c].stage = "rejected"
          \/ /\ entries[id].outcome = "resolved" /\ call'[c].receipt = entries[id].receipt
             /\ call'[c].stage = IF Operation(c) = "restore" THEN "resuming" ELSE "returned"
      BY <1>3, <1>10, <2>1
    <2>3. \A d \in Calls : /\ call'[d].input = call[d].input
                          /\ d # c => /\ call'[d].stage = call[d].stage
                                      /\ call'[d].receipt = call[d].receipt
      BY <1>10
    <2>4. UNCHANGED <<pending, active, terminal>>
      BY <1>5
    <2> QED BY <1>1, <1>2, <1>10, <1>11, <1>12, <2>2, <2>3, <2>4, KnownSettles
  <1> QED BY <1>13, <1>14, <1>15 DEF Queue

LEMMA SubmitQueue ==
    ASSUME Queue, WorldTyped, NEW c \in Calls, Submit(c)
    PROVE  Queue'
  <1> DEFINE id == CommandId(c)
             known == entries[id].state # "none"
             refuses == \/ terminal
                        \/ call[c].generation # queueGeneration
                        \/ known /\ <<entries[id].operation, entries[id].input>>
                                        # <<Operation(c), call[c].input>>
  <1>1. /\ Task /\ line # <<>> /\ Head(line) = c /\ line' = Tail(line)
        /\ UNCHANGED <<active, terminal>>
        /\ IF refuses
           THEN /\ call' = TakesTurn(Reject({c}), Tail(line))
                /\ UNCHANGED <<jobs, entries, pending>>
           ELSE Admit(c, known)
    BY Zenon DEF Submit
  <1>2. CASE refuses
    <2>1. call' = TakesTurn(Reject({c}), Tail(line)) /\ UNCHANGED <<jobs, entries, pending>>
      BY <1>1, <1>2
    <2> QED BY <1>1, <2>1, SubmitRejects
  <1>3. CASE ~refuses /\ entries[id].state = "none"
    <2>1. Admit(c, known)
      BY <1>1, <1>3
    <2>2. PICK u : u = FALSE /\ u = known
      BY <1>3
    <2>3. Admit(c, FALSE)
      BY <2>1, <1>3, Zenon DEF Admit
    <2> QED BY <1>1, <1>3, <2>3, SubmitNew
  <1>4. CASE ~refuses /\ entries[id].state # "none"
    <2>1. Admit(c, known)
      BY <1>1, <1>4
    <2>2. Admit(c, TRUE)
      BY <2>1, <1>4, Zenon DEF Admit
    <2>3. entries[id].operation = Operation(c) /\ entries[id].input = call[c].input
      BY <1>4
    <2> QED BY <1>1, <1>4, <2>2, <2>3, SubmitKnown
  <1> QED BY <1>2, <1>3, <1>4

-----------------------------------------------------------------------------
(* What a step does to the calls, and the frame of the other variables      *)

\* Calls age: unless one is made, none is waiting that was not before, and
\* none is admitted twice.
CallsAge ==
    \A c \in Calls :
        /\ call'[c].input = call[c].input
        /\ call'[c].stage \in {"admission", "subscribed"}
             => call[c].stage \in {"admission", "subscribed"}
        /\ call'[c].stage = "resuming"
             => call[c].stage \in {"admission", "subscribed", "resuming"}

LEMMA RejectAges ==
    ASSUME Queue, NEW cs, call' = Reject(cs)
    PROVE  CallsAge
  <1>1. /\ \A c \in Calls \ cs : call'[c] = call[c]
        /\ \A c \in Calls : /\ c \in cs => call'[c].stage = "rejected"
                            /\ call'[c].input = call[c].input
    BY RejectFields DEF Queue, QueueTyped
  <1> QED BY <1>1 DEF CallsAge

LEMMA FinishAges ==
    ASSUME Queue, NEW id, NEW receipt \in Receipts, Finish(id, receipt)
    PROVE  CallsAge
  <1>1. call \in [Calls -> CallRecord] /\ call' = Resolve(Followers(id), receipt)
    BY Zenon DEF Queue, QueueTyped, Finish
  <1>2. /\ \A c \in Calls \ Followers(id) : call'[c] = call[c]
        /\ \A c \in Followers(id) : call'[c].stage \in {"resuming", "returned"}
        /\ \A c \in Calls : call'[c].input = call[c].input
    BY <1>1, ResolveFields DEF Followers
  <1>3. \A c \in Followers(id) : call[c].stage = "subscribed"
    BY DEF Followers
  <1> QED BY <1>2, <1>3 DEF CallsAge

LEMMA ThrowAges ==
    ASSUME Queue, NEW id, Throw(id)
    PROVE  CallsAge
  <1>1. call' = Reject(Followers(id))
    BY Zenon DEF Throw
  <1> QED BY <1>1, RejectAges

LEMMA TerminateAges ==
    ASSUME Queue, NEW dropped, NEW cs, Terminate(dropped, cs)
    PROVE  CallsAge
  <1>1. PICK x : call' = Reject(x)
    BY Zenon DEF Terminate
  <1> QED BY <1>1, RejectAges

LEMMA SubmitAges ==
    ASSUME Queue, WorldTyped, NEW c \in Calls, Submit(c)
    PROVE  CallsAge
  <1>1. /\ line # <<>> /\ Head(line) = c /\ line' = Tail(line)
    BY Zenon DEF Submit
  <1>2. line \in Seq(Calls) /\ Tail(line) \in Seq(Calls) /\ call \in [Calls -> CallRecord]
    BY <1>1 DEF Queue, QueueTyped
  <1>3. call[c].stage = "admission"
    <2>1. 1 \in DOMAIN line /\ line[1] = c
      BY <1>1, <1>2
    <2> QED BY <2>1 DEF Queue, InTurn
  <1>4. ASSUME NEW f \in [Calls -> CallRecord], call' = TakesTurn(f, Tail(line)),
               \A d \in Calls : f[d].input = call[d].input /\ (d # c => f[d] = call[d])
        PROVE  CallsAge
    <2>1. \A d \in Calls : call'[d].stage = f[d].stage /\ call'[d].input = f[d].input
      BY <1>2, <1>4, TurnFields
    <2> QED BY <1>3, <1>4, <2>1 DEF CallsAge
  <1> DEFINE id == CommandId(c)
             rejected == Reject({c})
             subscribed == [call EXCEPT ![c].stage = "subscribed"]
             resolved == Resolve({c}, entries[id].receipt)
  <1>5. \/ call' = TakesTurn(rejected, Tail(line))
        \/ call' = TakesTurn(subscribed, Tail(line))
        \/ /\ call' = TakesTurn(resolved, Tail(line))
           /\ entries[id].outcome \notin {"pending", "rejected"}
    BY Zenon DEF Submit, Admit
  <1>6. CASE call' = TakesTurn(rejected, Tail(line))
    <2>1. rejected \in [Calls -> CallRecord]
          /\ \A d \in Calls : rejected[d].input = call[d].input /\ (d # c => rejected[d] = call[d])
      BY <1>2, RejectFields
    <2> HIDE DEF rejected
    <2> QED BY <1>4, <1>6, <2>1
  <1>7. CASE call' = TakesTurn(subscribed, Tail(line))
    <2>1. PICK k \in CallRecord : k = call[c]
      BY <1>2
    <2> DEFINE q == [k EXCEPT !.stage = "subscribed"]
    <2>2. q \in CallRecord /\ q.input = k.input
      <3>1. "subscribed" \in Stages
        BY DEF Stages
      <3> QED BY <3>1, SMT DEF CallRecord
    <2>3. subscribed = [call EXCEPT ![c] = q]
      BY <1>2, <2>1
    <2> HIDE DEF q, subscribed
    <2>4. subscribed \in [Calls -> CallRecord]
          /\ \A d \in Calls : subscribed[d].input = call[d].input /\ (d # c => subscribed[d] = call[d])
      BY <1>2, <2>1, <2>2, <2>3
    <2> QED BY <1>4, <1>7, <2>4
  <1>8. CASE /\ call' = TakesTurn(resolved, Tail(line))
             /\ entries[id].outcome \notin {"pending", "rejected"}
    <2>1. PICK e \in EntryRecord : e = entries[id]
      BY DEF Queue, QueueTyped, Ids
    <2>2. e.outcome \in Outcomes
      BY SMT DEF EntryRecord
    <2>3. entries[id].receipt \in Receipts
      <3>1. Followed(id) /\ entries[id].outcome = "resolved"
        BY <1>8, <2>1, <2>2 DEF Queue, Settlement, Ids, Outcomes
      <3> QED BY <3>1 DEF Followed
    <2>4. PICK receipt \in Receipts : receipt = entries[id].receipt
      BY <2>3
    <2>5. resolved \in [Calls -> CallRecord]
          /\ \A d \in Calls : resolved[d].input = call[d].input /\ (d # c => resolved[d] = call[d])
      BY <1>2, <2>4, ResolveFields
    <2> HIDE DEF resolved
    <2> QED BY <1>4, <1>8, <2>5
  <1> QED BY <1>5, <1>6, <1>7, <1>8

LEMMA ResumeAges ==
    ASSUME Queue, NEW c \in Calls, ResumeRestore(c)
    PROVE  CallsAge
  <1>1. CASE active # None
    <2>1. call' = Reject({c})
      BY <1>1, Zenon DEF ResumeRestore
    <2> QED BY <2>1, RejectAges
  <1>2. CASE active = None
    <2> DEFINE next == kernel.generation + 1
               stale == {d \in Calls : \E i \in DOMAIN pending : d \in Followers(pending[i])}
               r == Reject(stale)
               f1 == [r EXCEPT ![c].stage = "returned"]
    <2>11. call' = [r EXCEPT ![c].stage = "returned",
                             ![c].receipt = [@ EXCEPT !.generation = next]]
      BY <1>2, Zenon DEF ResumeRestore
    <2>1. call' = [f1 EXCEPT ![c].receipt = [@ EXCEPT !.generation = next]]
      BY <2>11
    <2>2. call \in [Calls -> CallRecord]
      BY DEF Queue, QueueTyped
    <2> HIDE DEF stale
    <2>3. /\ r \in [Calls -> CallRecord]
          /\ \A d \in Calls \ stale : r[d] = call[d]
          /\ \A d \in Calls : /\ d \in stale => r[d].stage = "rejected"
                              /\ r[d].input = call[d].input
      BY <2>2, RejectFields
    <2> HIDE DEF r
    <2>4. PICK k \in CallRecord : k = r[c]
      BY <2>3
    <2> DEFINE w1 == [k EXCEPT !.stage = "returned"]
               w2 == [w1 EXCEPT !.receipt = [@ EXCEPT !.generation = next]]
    <2>5. w1 \in CallRecord /\ w1.stage = "returned" /\ w1.input = k.input
      <3>1. "returned" \in Stages
        BY DEF Stages
      <3> QED BY <3>1, SMT DEF CallRecord
    <2>6. f1 = [r EXCEPT ![c] = w1]
      BY <2>3, <2>4
    <2>7. f1[c] = w1 /\ DOMAIN f1 = Calls /\ \A d \in Calls \ {c} : f1[d] = r[d]
      BY <2>3, <2>6
    <2> HIDE DEF f1, w1
    <2>8. call' = [f1 EXCEPT ![c] = w2]
      BY <2>1, <2>7
    <2>9. w2.stage = "returned" /\ w2.input = k.input
      <3> DEFINE receipt == [w1.receipt EXCEPT !.generation = next]
      <3>1. w2 = [w1 EXCEPT !.receipt = receipt]
        OBVIOUS
      <3> HIDE DEF receipt
      <3> QED BY <2>5, <3>1, SMT DEF CallRecord
    <2> HIDE DEF w2
    <2>10. call'[c] = w2 /\ \A d \in Calls \ {c} : call'[d] = r[d]
      BY <2>7, <2>8
    <2> QED BY <2>3, <2>4, <2>9, <2>10 DEF CallsAge
  <1> QED BY <1>1, <1>2

-----------------------------------------------------------------------------
(* The shape of the state and the queue's invariant, by every action       *)

Sound == Queue /\ WorldTyped /\ (worker.alive <=> ~terminal)

LEMMA CheckpointsKept ==
    ASSUME CheckpointsTyped, CallsAge, UNCHANGED checkpoints
    PROVE  CheckpointsTyped'
  BY DEF CheckpointsTyped, CallsAge

LEMMA FrameSound ==
    ASSUME Sound, Queue', CallsAge, UNCHANGED <<terminal, client, checkpoints>>,
           kernel' \in KernelRecord, worker' \in WorkerRecord, worker'.alive = worker.alive,
           references' \in [generation : Nat, live : SUBSET Reference, issued : SUBSET Reference],
           unsealed' \in Nat
    PROVE  Sound'
  <1>1. CheckpointsTyped'
    BY CheckpointsKept DEF Sound, WorldTyped
  <1>2. WorldTyped'
    BY <1>1 DEF Sound, WorldTyped
  <1>3. worker'.alive <=> ~terminal'
    BY Zenon DEF Sound
  <1> QED BY <1>2, <1>3, Zenon DEF Sound

LEMMA KernelTypes ==
    ASSUME WorldTyped
    PROVE  /\ kernel \in KernelRecord
           /\ kernel.generation \in Nat /\ kernel.version \in Nat /\ kernel.environment \in Nat
           /\ kernel.version + 1 \in Nat /\ kernel.environment + 1 \in Nat
           /\ references \in [generation : Nat, live : SUBSET Reference, issued : SUBSET Reference]
           /\ worker \in WorkerRecord /\ unsealed \in Nat
  <1>1. /\ kernel \in KernelRecord /\ unsealed \in Nat /\ worker \in WorkerRecord
        /\ references \in [generation : Nat, live : SUBSET Reference, issued : SUBSET Reference]
    BY DEF WorldTyped
  <1>2. kernel.generation \in Nat /\ kernel.version \in Nat /\ kernel.environment \in Nat
    BY <1>1, SMT DEF KernelRecord
  <1> QED BY <1>1, <1>2

LEMMA ReceiptTyped ==
    ASSUME WorldTyped, NEW version \in Nat
    PROVE  Receipt(version) \in Receipts
           /\ [generation |-> kernel.generation, version |-> version] \in Receipts
  <1>1. PICK g \in Nat : g = kernel.generation
    BY KernelTypes
  <1>2. [generation |-> g, version |-> version] \in Receipts
    BY SMT DEF Receipts
  <1> QED BY <1>1, <1>2 DEF Receipt

LEMMA ExecuteSound ==
    ASSUME Sound, Execute
    PROVE  Sound' /\ CallsAge
  <1>1. PICK version \in {kernel.version, kernel.version + 1} :
           /\ kernel' = [kernel EXCEPT !.version = version]
           /\ Finish(active, Receipt(version))
    BY Zenon DEF Execute
  <1>2. version \in Nat
    BY KernelTypes DEF Sound
  <1>3. PICK receipt \in Receipts : receipt = Receipt(version)
    BY <1>2, ReceiptTyped DEF Sound
  <1>4. /\ Task /\ active # None /\ Finish(active, receipt)
        /\ UNCHANGED <<line, pending, terminal, references, worker, client, unsealed, checkpoints>>
    BY <1>1, <1>3, Zenon DEF Execute, Answers, Handling, world
  <1>5. Queue'
    BY <1>4, FinishQueue DEF Sound
  <1>6. CallsAge
    BY <1>4, FinishAges DEF Sound
  <1>7. kernel' \in KernelRecord
    <2>1. [kernel EXCEPT !.version = version] \in KernelRecord
      BY <1>2, KernelTypes, SMT DEF KernelRecord, Sound
    <2> QED BY <1>1, <2>1
  <1> QED BY <1>4, <1>5, <1>6, <1>7, KernelTypes, FrameSound DEF Sound

LEMMA RegisterSound ==
    ASSUME Sound, RegisterApplication
    PROVE  Sound' /\ CallsAge
  <1> DEFINE ref == [name |-> active, generation |-> references.generation,
                     image |-> worker.image]
  <1>1. references' = [references EXCEPT !.live = @ \cup {ref}, !.issued = @ \cup {ref}]
    BY Zenon DEF RegisterApplication
  <1>2. PICK receipt \in Receipts : receipt = Receipt(kernel.version)
    BY KernelTypes, ReceiptTyped DEF Sound
  <1>3. /\ Task /\ active # None /\ Finish(active, receipt)
        /\ UNCHANGED <<line, pending, terminal, kernel, worker, client, unsealed, checkpoints>>
    BY <1>2, Zenon DEF RegisterApplication, Answers, Handling, world
  <1>4. Queue'
    BY <1>3, FinishQueue DEF Sound
  <1>5. CallsAge
    BY <1>3, FinishAges DEF Sound
  <1>6. ref \in Reference
    <2>1. active \in MaybeId
      BY DEF Sound, Queue, QueueTyped
    <2>2. PICK g \in Nat, m \in Nat : g = references.generation /\ m = worker.image
      <3>1. references.generation \in Nat
        BY KernelTypes DEF Sound
      <3>2. worker.image \in Nat
        BY KernelTypes, SMT DEF Sound, WorkerRecord
      <3> QED BY <3>1, <3>2
    <2> QED BY <2>1, <2>2, SMT DEF Reference
  <1> HIDE DEF ref
  <1>7. references' \in [generation : Nat, live : SUBSET Reference, issued : SUBSET Reference]
    <2> DEFINE live == references.live \cup {ref}
               issued == references.issued \cup {ref}
    <2>1. /\ references \in [generation : Nat, live : SUBSET Reference, issued : SUBSET Reference]
          /\ references.live \subseteq Reference /\ references.issued \subseteq Reference
      BY KernelTypes DEF Sound
    <2>2. live \in SUBSET Reference /\ issued \in SUBSET Reference
      BY <1>6, <2>1
    <2>3. references' = [references EXCEPT !.live = live, !.issued = issued]
      BY <1>1
    <2> HIDE DEF live, issued
    <2> QED BY <2>1, <2>2, <2>3
  <1> QED BY <1>3, <1>4, <1>5, <1>7, KernelTypes, FrameSound DEF Sound

LEMMA InvokeSound ==
    ASSUME Sound, InvokeApplication
    PROVE  Sound' /\ CallsAge
  <1> DEFINE ref == entries[active].input
  <1>1. /\ Task /\ active # None
        /\ UNCHANGED <<line, pending, terminal, kernel, references, client, unsealed, checkpoints>>
    BY Zenon DEF InvokeApplication, Answers, Handling, world
  <1>2. CASE Resolvable(ref)
    <2>1. /\ worker' = [worker EXCEPT !.invoked = [registered |-> ref.image, ran |-> worker.image]]
          /\ Finish(active, Receipt(kernel.version))
      BY <1>2, Zenon DEF InvokeApplication
    <2>2. PICK receipt \in Receipts : receipt = Receipt(kernel.version)
      BY KernelTypes, ReceiptTyped DEF Sound
    <2>3. Finish(active, receipt)
      BY <2>1, <2>2
    <2>4. Queue'
      BY <1>1, <2>3, FinishQueue DEF Sound
    <2>5. CallsAge
      BY <2>3, FinishAges DEF Sound
    <2>6. PICK r \in Reference : r = ref
      <3>1. ref \in references.live /\ references.live \subseteq Reference
        BY <1>2, KernelTypes DEF Resolvable, Sound
      <3> QED BY <3>1
    <2>7. PICK m \in Nat : m = worker.image
      BY KernelTypes, SMT DEF Sound, WorkerRecord
    <2>8. PICK invoked \in [registered : Nat, ran : Nat] :
             invoked = [registered |-> r.image, ran |-> m]
      <3>1. r.image \in Nat
        BY SMT DEF Reference
      <3>2. PICK i \in Nat : i = r.image
        BY <3>1
      <3>3. [registered |-> i, ran |-> m] \in [registered : Nat, ran : Nat]
        OBVIOUS
      <3> QED BY <3>2, <3>3
    <2>9. worker' = [worker EXCEPT !.invoked = invoked]
      BY <2>1, <2>6, <2>7, <2>8
    <2>10. PICK w \in WorkerRecord : w = worker
      BY KernelTypes DEF Sound
    <2>11. [w EXCEPT !.invoked = invoked] \in WorkerRecord
           /\ [w EXCEPT !.invoked = invoked].alive = w.alive
      BY SMT DEF WorkerRecord
    <2>12. worker' \in WorkerRecord /\ worker'.alive = worker.alive
      BY <2>9, <2>10, <2>11
    <2> QED BY <1>1, <2>4, <2>5, <2>12, KernelTypes, FrameSound DEF Sound
  <1>3. CASE ~Resolvable(ref)
    <2>1. Throw(active) /\ UNCHANGED worker
      BY <1>3, Zenon DEF InvokeApplication
    <2>2. Queue'
      BY <1>1, <2>1, ThrowQueue DEF Sound
    <2>3. CallsAge
      BY <2>1, ThrowAges DEF Sound
    <2> QED BY <1>1, <2>1, <2>2, <2>3, KernelTypes, FrameSound DEF Sound
  <1> QED BY <1>2, <1>3

LEMMA SnapshotSound ==
    ASSUME Sound, Snapshot
    PROVE  /\ Sound' /\ CallsAge
           /\ worker' \in WorkerRecord /\ worker'.taken \in Capture
           /\ worker'.at \in Base /\ worker'.at.ref = active
           /\ worker'.taken.baseline = None \/ worker'.taken.baseline = worker.at
           /\ worker'.image = worker.image /\ worker'.invoked = worker.invoked
  <1>1. /\ active # None /\ UNCHANGED <<call, line, jobs, queue, kernel, checkpoints, references, world>>
    BY Zenon DEF Snapshot, Answers, Handling
  <1>2. PICK base \in {None, worker.at} :
          LET depth == IF base = None THEN 0 ELSE base.depth + 1
          IN  worker' = [worker EXCEPT
                !.at = [ref |-> active, depth |-> depth],
                !.taken = [baseline |-> base, depth |-> depth]]
    BY Zenon DEF Snapshot
  <1> DEFINE depth == IF base = None THEN 0 ELSE base.depth + 1
  <1>3. worker' = [worker EXCEPT !.at = [ref |-> active, depth |-> depth],
                                 !.taken = [baseline |-> base, depth |-> depth]]
    BY <1>2
  <1>4. PICK w \in WorkerRecord : w = worker
    BY KernelTypes DEF Sound
  <1>5. base \in Base \cup {None}
    <2>1. w.at \in Base \cup {None}
      BY SMT DEF WorkerRecord
    <2> QED BY <1>4, <2>1
  <1>6. depth \in Nat
    <2>1. base # None => base.depth \in Nat
      BY <1>5, SMT DEF Base
    <2> QED BY <2>1
  <1> HIDE DEF depth
  <1>7. PICK id \in Ids : id = active
    BY <1>1 DEF Sound, Queue, QueueTyped, MaybeId
  <1>8. PICK at \in Base : at = [ref |-> id, depth |-> depth] /\ at.ref = id
    <2>1. [ref |-> id, depth |-> depth] \in Base
      BY <1>6, SMT DEF Base
    <2>2. [ref |-> id, depth |-> depth].ref = id
      OBVIOUS
    <2> QED BY <2>1, <2>2
  <1>9. PICK taken \in Capture : taken = [baseline |-> base, depth |-> depth]
                                 /\ taken.baseline = base
    <2>1. [baseline |-> base, depth |-> depth] \in Capture
      BY <1>5, <1>6, SMT DEF Capture
    <2>2. [baseline |-> base, depth |-> depth].baseline = base
      OBVIOUS
    <2> QED BY <2>1, <2>2
  <1> DEFINE w1 == [w EXCEPT !.at = at]
             w2 == [w1 EXCEPT !.taken = taken]
  <1>10. /\ w1 \in WorkerRecord /\ w1.alive = w.alive /\ w1.image = w.image
         /\ w1.invoked = w.invoked /\ w1.at = at
    BY SMT DEF WorkerRecord
  <1>11. worker' = w2
    BY <1>3, <1>4, <1>7, <1>8, <1>9
  <1> HIDE DEF w1
  <1>12. /\ w2 \in WorkerRecord /\ w2.alive = w.alive /\ w2.image = w.image
         /\ w2.invoked = w.invoked /\ w2.at = at /\ w2.taken = taken
    BY <1>10, SMT DEF WorkerRecord
  <1> HIDE DEF w2
  <1>13. /\ worker' \in WorkerRecord /\ worker'.alive = worker.alive
         /\ worker'.taken \in Capture /\ worker'.at \in Base /\ worker'.at.ref = active
         /\ worker'.taken.baseline = None \/ worker'.taken.baseline = worker.at
         /\ worker'.image = worker.image /\ worker'.invoked = worker.invoked
    BY <1>4, <1>7, <1>8, <1>9, <1>11, <1>12
  <1>14. Queue'
    BY <1>1, IdleQueue DEF Sound
  <1>15. CallsAge
    BY <1>1 DEF CallsAge
  <1>16. UNCHANGED <<terminal, client, checkpoints, kernel, references, unsealed>>
    BY <1>1, Zenon DEF queue, world
  <1>17. Sound'
    BY <1>13, <1>14, <1>15, <1>16, KernelTypes, FrameSound DEF Sound
  <1> QED BY <1>13, <1>15, <1>17

\* What is taken is sealed or given up: the rest of the worker is as before.
LEMMA UntakenWorker ==
    ASSUME NEW w \in WorkerRecord
    PROVE  LET q == [w EXCEPT !.taken = None]
           IN  /\ q \in WorkerRecord /\ q.alive = w.alive /\ q.at = w.at /\ q.taken = None
               /\ q.image = w.image /\ q.invoked = w.invoked
  BY SMT DEF WorkerRecord

LEMMA SealSound ==
    ASSUME Sound, Seal
    PROVE  Sound' /\ CallsAge
  <1>1. /\ Task /\ active # None /\ worker.taken # None
        /\ UNCHANGED <<line, pending, terminal, references, client, unsealed>>
    BY Zenon DEF Seal, Handling, world
  <1>2. worker' = [worker EXCEPT !.taken = None] /\ kernel' = [kernel EXCEPT !.activeRef = active]
    BY Zenon DEF Seal
  <1>3. PICK receipt \in Receipts : receipt = Receipt(kernel.version)
    BY KernelTypes, ReceiptTyped DEF Sound
  <1>4. Finish(active, receipt)
    BY <1>3, Zenon DEF Seal
  <1>5. Queue'
    BY <1>1, <1>4, FinishQueue DEF Sound
  <1>6. CallsAge
    BY <1>4, FinishAges DEF Sound
  <1>7. PICK w \in WorkerRecord : w = worker
    BY KernelTypes DEF Sound
  <1>8. worker' \in WorkerRecord /\ worker'.alive = worker.alive
    BY <1>2, <1>7, UntakenWorker
  <1>9. PICK id \in Ids : id = active
    BY <1>1 DEF Sound, Queue, QueueTyped, MaybeId
  <1>10. kernel' \in KernelRecord
    <2>1. id \in AnyInput
      BY DEF AnyInput, MaybeId
    <2>2. [kernel EXCEPT !.activeRef = id] \in KernelRecord
      BY <2>1, KernelTypes, SMT DEF Sound, KernelRecord
    <2> QED BY <1>2, <1>9, <2>2
  <1>11. CheckpointsTyped'
    <2>1. w.taken.depth \in Nat
      <3>1. w.taken \in Capture
        BY <1>1, <1>7, SMT DEF WorkerRecord
      <3> QED BY <3>1, SMT DEF Capture
    <2> DEFINE new == [parent |-> kernel.activeRef,
                       baseline |-> IF w.taken.baseline = None THEN None
                                    ELSE w.taken.baseline.ref,
                       depth |-> w.taken.depth,
                       environment |-> kernel.environment]
    <2>2. new.depth = w.taken.depth
      OBVIOUS
    <2>3. checkpoints' = [r \in DOMAIN checkpoints \cup {id} |->
                            IF r = id THEN new ELSE checkpoints[r]]
      BY <1>7, <1>9, Zenon DEF Seal
    <2> HIDE DEF new
    <2>4. /\ DOMAIN checkpoints' = DOMAIN checkpoints \cup {id}
          /\ \A r \in DOMAIN checkpoints' :
               checkpoints'[r] = IF r = id THEN new ELSE checkpoints[r]
      BY <2>3
    <2>5. CheckpointsTyped
      BY DEF Sound, WorldTyped
    <2> QED BY <1>6, <2>1, <2>2, <2>4, <2>5 DEF CheckpointsTyped, CallsAge
  <1>12. WorldTyped'
    BY <1>1, <1>8, <1>10, <1>11 DEF Sound, WorldTyped
  <1>13. worker'.alive <=> ~terminal'
    BY <1>1, <1>8, Zenon DEF Sound
  <1> QED BY <1>5, <1>6, <1>12, <1>13, Zenon DEF Sound

LEMMA SealFailsSound ==
    ASSUME Sound, SealFails
    PROVE  Sound' /\ CallsAge
  <1>1. /\ Task /\ active # None /\ Throw(active) /\ unsealed' = unsealed + 1
        /\ UNCHANGED <<line, pending, terminal, references, client, kernel, checkpoints>>
    BY Zenon DEF SealFails, Handling
  <1>2. worker' = [worker EXCEPT !.taken = None]
    BY Zenon DEF SealFails
  <1>3. Queue'
    BY <1>1, ThrowQueue DEF Sound
  <1>4. CallsAge
    BY <1>1, ThrowAges DEF Sound
  <1>5. PICK w \in WorkerRecord : w = worker
    BY KernelTypes DEF Sound
  <1>6. worker' \in WorkerRecord /\ worker'.alive = worker.alive
    BY <1>2, <1>5, UntakenWorker
  <1>7. unsealed' \in Nat
    BY <1>1, KernelTypes DEF Sound
  <1> QED BY <1>1, <1>3, <1>4, <1>6, <1>7, KernelTypes, FrameSound DEF Sound

\* The owner of an open entry waits for it.
LEMMA OpenOwner ==
    ASSUME Queue, NEW id \in Ids, Open(id)
    PROVE  \E c \in Calls : /\ c = entries[id].owner
                            /\ call[c].stage = "subscribed" /\ CommandId(c) = id
                            /\ Operation(c) = entries[id].operation
                            /\ call[c].input = entries[id].input
  <1>1. Followed(id)
    BY DEF Queue, Settlement
  <1>2. PICK e \in EntryRecord : e = entries[id]
    BY DEF Queue, QueueTyped
  <1>3. e.subscribers \in Seq(Calls)
    BY SMT DEF EntryRecord
  <1>4. /\ e.subscribers # <<>> /\ e.subscribers[1] = e.owner
        /\ \A i \in DOMAIN e.subscribers : Subscribed(e.subscribers[i], id)
    BY <1>1, <1>2, Zenon DEF Followed
  <1>5. 1 \in DOMAIN e.subscribers /\ e.subscribers[1] \in Calls
    BY <1>3, <1>4
  <1>6. Subscribed(e.owner, id) /\ e.owner \in Calls
    BY <1>4, <1>5
  <1> QED BY <1>2, <1>6 DEF Subscribed

\* While the worker lives, the active entry is open and its owner waits for it.
LEMMA ActiveOpen ==
    ASSUME Sound, worker.alive, active # None
    PROVE  /\ active \in Ids /\ Open(active)
           /\ \E c \in Calls : /\ c = entries[active].owner
                               /\ call[c].stage = "subscribed" /\ CommandId(c) = active
                               /\ Operation(c) = entries[active].operation
                               /\ call[c].input = entries[active].input
  <1>1. ~terminal
    BY Zenon DEF Sound
  <1>2. /\ active \in Ids /\ entries[active].state = "executing"
        /\ entries[active].outcome = "pending"
    BY <1>1 DEF Sound, Queue, QueueTyped, MaybeId, Settlement
  <1>3. Open(active)
    BY <1>2 DEF Open
  <1> QED BY <1>2, <1>3, OpenOwner DEF Sound

LEMMA RestoreInput ==
    ASSUME Sound, Answers("restore")
    PROVE  entries[active].input \in DOMAIN checkpoints /\ entries[active].input \in Ids
  <1>1. worker.alive /\ active # None /\ entries[active].operation = "restore"
    BY DEF Answers, Handling
  <1> QED BY <1>1, ActiveOpen DEF Sound, WorldTyped, CheckpointsTyped

LEMMA RestoreSound ==
    ASSUME Sound, Restore
    PROVE  Sound' /\ CallsAge
  <1>1. /\ Task /\ active # None /\ Answers("restore")
        /\ UNCHANGED <<line, pending, terminal, checkpoints, references, client, unsealed>>
    BY Zenon DEF Restore, Answers, Handling, world
  <1>2. CASE Verified(entries[active].input)
    <2>1. PICK ref \in Ids : ref = entries[active].input /\ ref \in DOMAIN checkpoints
      BY <1>1, RestoreInput
    <2>2. /\ worker' = [worker EXCEPT !.at = [ref |-> entries[active].input,
                                             depth |-> checkpoints[entries[active].input].depth],
                                      !.image = @ + 1]
          /\ kernel' = [kernel EXCEPT !.version = @ + 1]
          /\ Finish(active, Receipt(kernel.version + 1))
      BY <1>2, Zenon DEF Restore
    <2>3. PICK receipt \in Receipts : receipt = Receipt(kernel.version + 1)
      BY KernelTypes, ReceiptTyped DEF Sound
    <2>4. Finish(active, receipt)
      BY <2>2, <2>3
    <2>5. Queue'
      BY <1>1, <2>4, FinishQueue DEF Sound
    <2>6. CallsAge
      BY <2>4, FinishAges DEF Sound
    <2>7. kernel' \in KernelRecord
      <3>1. [kernel EXCEPT !.version = kernel.version + 1] \in KernelRecord
        BY KernelTypes, SMT DEF Sound, KernelRecord
      <3> QED BY <2>2, <3>1
    <2>8. PICK depth \in Nat : depth = checkpoints[ref].depth
      BY <2>1 DEF Sound, WorldTyped, CheckpointsTyped
    <2>9. PICK at \in Base : at = [ref |-> ref, depth |-> depth]
      <3>1. [ref |-> ref, depth |-> depth] \in Base
        BY SMT DEF Base
      <3> QED BY <3>1
    <2>10. PICK w \in WorkerRecord : w = worker
      BY KernelTypes DEF Sound
    <2>11. PICK image \in Nat : image = w.image + 1
      <3>1. w.image \in Nat
        BY SMT DEF WorkerRecord
      <3> QED BY <3>1
    <2> DEFINE w1 == [w EXCEPT !.at = at]
               w2 == [w1 EXCEPT !.image = image]
    <2>12. w1 \in WorkerRecord /\ w1.alive = w.alive /\ w1.image = w.image
      BY SMT DEF WorkerRecord
    <2>13. worker' = w2
      <3>1. worker' = [w EXCEPT !.at = at, !.image = @ + 1]
        BY <2>1, <2>2, <2>8, <2>9, <2>10
      <3>2. worker' = [w1 EXCEPT !.image = w1.image + 1]
        BY <3>1
      <3> HIDE DEF w1
      <3> QED BY <2>11, <2>12, <3>2
    <2> HIDE DEF w1
    <2>14. w2 \in WorkerRecord /\ w2.alive = w.alive
      BY <2>12, SMT DEF WorkerRecord
    <2> HIDE DEF w2
    <2>15. worker' \in WorkerRecord /\ worker'.alive = worker.alive
      BY <2>10, <2>13, <2>14
    <2> QED BY <1>1, <2>5, <2>6, <2>7, <2>15, KernelTypes, FrameSound DEF Sound
  <1>3. CASE ~Verified(entries[active].input)
    <2>1. Throw(active) /\ UNCHANGED <<worker, kernel>>
      BY <1>3, Zenon DEF Restore
    <2>2. Queue'
      BY <1>1, <2>1, ThrowQueue DEF Sound
    <2>3. CallsAge
      BY <2>1, ThrowAges DEF Sound
    <2> QED BY <1>1, <2>1, <2>2, <2>3, KernelTypes, FrameSound DEF Sound
  <1> QED BY <1>2, <1>3

LEMMA InstallSound ==
    ASSUME Sound, Install
    PROVE  Sound' /\ CallsAge
  <1>1. /\ Task /\ active # None
        /\ UNCHANGED <<line, pending, terminal, checkpoints, references, client, unsealed>>
    BY Zenon DEF Install, Answers, Handling, world
  <1>2. /\ kernel' = [kernel EXCEPT !.environment = @ + 1, !.activeRef = None, !.version = @ + 1]
        /\ worker' = [worker EXCEPT !.at = None]
        /\ Finish(active, Receipt(kernel.version + 1))
    BY Zenon DEF Install
  <1>3. PICK receipt \in Receipts : receipt = Receipt(kernel.version + 1)
    BY KernelTypes, ReceiptTyped DEF Sound
  <1>4. Finish(active, receipt)
    BY <1>2, <1>3
  <1>5. Queue'
    BY <1>1, <1>4, FinishQueue DEF Sound
  <1>6. CallsAge
    BY <1>4, FinishAges DEF Sound
  <1>7. PICK w \in WorkerRecord : w = worker
    BY KernelTypes DEF Sound
  <1>8. worker' \in WorkerRecord /\ worker'.alive = worker.alive
    <2>1. [w EXCEPT !.at = None] \in WorkerRecord /\ [w EXCEPT !.at = None].alive = w.alive
      BY SMT DEF WorkerRecord
    <2> QED BY <1>2, <1>7, <2>1
  <1>9. kernel' \in KernelRecord
    <2>1. PICK k \in KernelRecord : k = kernel
      BY KernelTypes DEF Sound
    <2>2. PICK v \in Nat, n \in Nat : v = k.version + 1 /\ n = k.environment + 1
      <3>1. k.version \in Nat /\ k.environment \in Nat
        BY SMT DEF KernelRecord
      <3> QED BY <3>1
    <2>3. None \in AnyInput
      BY DEF AnyInput, MaybeId
    <2> DEFINE k1 == [k EXCEPT !.environment = n]
               k2 == [k1 EXCEPT !.activeRef = None]
               k3 == [k2 EXCEPT !.version = v]
    <2>4. kernel' = k3
      <3>1. kernel' = [k EXCEPT !.environment = @ + 1, !.activeRef = None, !.version = @ + 1]
        BY <1>2, <2>1
      <3>2. k2.version = k.version
        BY SMT DEF KernelRecord
      <3>3. kernel' = [k2 EXCEPT !.version = @ + 1]
        BY <2>2, <3>1
      <3> HIDE DEF k2
      <3> QED BY <2>2, <3>2, <3>3
    <2>5. k1 \in KernelRecord
      BY SMT DEF KernelRecord
    <2> HIDE DEF k1
    <2>6. k2 \in KernelRecord
      BY <2>3, <2>5, SMT DEF KernelRecord
    <2> HIDE DEF k2
    <2>7. k3 \in KernelRecord
      BY <2>6, SMT DEF KernelRecord
    <2> HIDE DEF k3
    <2> QED BY <2>4, <2>7
  <1> QED BY <1>1, <1>5, <1>6, <1>8, <1>9, KernelTypes, FrameSound DEF Sound

LEMMA RefuseSound ==
    ASSUME Sound, Refuse
    PROVE  Sound' /\ CallsAge
  <1>1. /\ Task /\ active # None /\ Throw(active)
        /\ UNCHANGED <<line, pending, terminal, kernel, checkpoints, references, worker,
                       client, unsealed>>
    BY Zenon DEF Refuse
  <1>2. Queue'
    BY <1>1, ThrowQueue DEF Sound
  <1>3. CallsAge
    BY <1>1, ThrowAges DEF Sound
  <1> QED BY <1>1, <1>2, <1>3, KernelTypes, FrameSound DEF Sound

LEMMA SessionRejectsSound ==
    ASSUME Sound, SessionRejects
    PROVE  Sound' /\ CallsAge
  <1>1. /\ Task /\ active # None
        /\ UNCHANGED <<line, pending, terminal, kernel, checkpoints, references, worker,
                       client, unsealed>>
    BY Zenon DEF SessionRejects, world
  <1>2. Queue' /\ CallsAge
    <2>1. CASE entries[active].operation = "execute"
      <3>1. PICK receipt \in Receipts :
               receipt = [generation |-> kernel.generation, version |-> kernel.version]
        BY KernelTypes, ReceiptTyped DEF Sound
      <3>2. Finish(active, receipt)
        BY <2>1, <3>1, Zenon DEF SessionRejects
      <3> QED BY <1>1, <3>2, FinishQueue, FinishAges DEF Sound
    <2>2. CASE entries[active].operation # "execute"
      <3>1. Throw(active)
        BY <2>2, Zenon DEF SessionRejects
      <3> QED BY <1>1, <3>1, ThrowQueue, ThrowAges DEF Sound
    <2> QED BY <2>1, <2>2
  <1> QED BY <1>1, <1>2, KernelTypes, FrameSound DEF Sound

\* The queue has ended with the worker.
LEMMA EndSound ==
    ASSUME Sound, Queue', CallsAge, terminal' = TRUE, UNCHANGED <<client, checkpoints, unsealed>>,
           kernel' \in KernelRecord, worker' = [worker EXCEPT !.alive = FALSE],
           references' \in [generation : Nat, live : SUBSET Reference, issued : SUBSET Reference]
    PROVE  Sound'
  <1>1. PICK w \in WorkerRecord : w = worker
    BY KernelTypes DEF Sound
  <1>2. [w EXCEPT !.alive = FALSE] \in WorkerRecord /\ ~[w EXCEPT !.alive = FALSE].alive
    <2>1. PICK u \in BOOLEAN : u = FALSE
      OBVIOUS
    <2>2. [w EXCEPT !.alive = u] \in WorkerRecord
      BY SMT DEF WorkerRecord
    <2>3. [w EXCEPT !.alive = u].alive = u
      BY SMT DEF WorkerRecord
    <2>4. [w EXCEPT !.alive = FALSE] \in WorkerRecord /\ [w EXCEPT !.alive = FALSE].alive = u
      BY <2>1, <2>2, <2>3, Zenon
    <2> QED BY <2>1, <2>4, Zenon
  <1>3. worker' \in WorkerRecord /\ ~worker'.alive
    BY <1>1, <1>2
  <1>4. CheckpointsTyped'
    BY CheckpointsKept DEF Sound, WorldTyped
  <1>5. WorldTyped'
    BY <1>3, <1>4 DEF Sound, WorldTyped
  <1> QED BY <1>3, <1>5, Zenon DEF Sound

LEMMA FaultSound ==
    ASSUME Sound, Task, Fault, UNCHANGED <<line, jobs, checkpoints, references, client, unsealed>>
    PROVE  Sound' /\ CallsAge
  <1>1. /\ worker' = [worker EXCEPT !.alive = FALSE]
        /\ kernel' = [kernel EXCEPT !.life = "terminated"]
        /\ Terminate({}, {})
    BY DEF Fault
  <1>2. Queue'
    BY <1>1, TerminateQueue DEF Sound
  <1>3. CallsAge
    BY <1>1, TerminateAges DEF Sound
  <1>4. terminal' = TRUE
    BY <1>1, Zenon DEF Terminate
  <1>5. kernel' \in KernelRecord
    <2>1. "terminated" \in Lives
      BY DEF Lives
    <2>2. [kernel EXCEPT !.life = "terminated"] \in KernelRecord
      BY <2>1, KernelTypes, SMT DEF Sound, KernelRecord
    <2> QED BY <1>1, <2>2
  <1> QED BY <1>1, <1>2, <1>3, <1>4, <1>5, KernelTypes, EndSound DEF Sound

LEMMA WorkerFailsSound ==
    ASSUME Sound, WorkerFails
    PROVE  Sound' /\ CallsAge
  BY FaultSound, Zenon DEF WorkerFails

LEMMA InterruptSound ==
    ASSUME Sound, NEW id \in Ids, Interrupt(id)
    PROVE  Sound' /\ CallsAge
  <1>1. Task /\ UNCHANGED <<line, jobs, checkpoints, references, client, unsealed>>
    BY Zenon DEF Interrupt, world
  <1>2. CASE /\ entries[id].state = "queued"
             /\ entries' = [entries EXCEPT ![id].state = "cancelled", ![id].outcome = "rejected"]
             /\ \E i \in DOMAIN pending : pending[i] = id /\ pending' = Without(pending, i)
             /\ call' = Reject(Followers(id))
             /\ UNCHANGED <<active, terminal, queueGeneration, kernel, worker>>
    <2>1. Queue'
      BY <1>1, <1>2, CancelQueue DEF Sound
    <2>2. CallsAge
      BY <1>2, RejectAges DEF Sound
    <2> QED BY <1>1, <1>2, <2>1, <2>2, KernelTypes, FrameSound DEF Sound
  <1>3. CASE Fault
    BY <1>1, <1>3, FaultSound
  <1>4. CASE kernel' = [kernel EXCEPT !.life = "interrupting"] /\ UNCHANGED <<call, queue, worker>>
    <2>1. Queue' /\ CallsAge /\ UNCHANGED terminal
      BY <1>1, <1>4, IdleQueue DEF Sound, CallsAge, queue
    <2>2. kernel' \in KernelRecord
      <3>1. "interrupting" \in Lives
        BY DEF Lives
      <3>2. [kernel EXCEPT !.life = "interrupting"] \in KernelRecord
        BY <3>1, KernelTypes, SMT DEF Sound, KernelRecord
      <3> QED BY <1>4, <3>2
    <2> QED BY <1>1, <1>4, <2>1, <2>2, KernelTypes, FrameSound DEF Sound
  <1> QED BY <1>2, <1>3, <1>4, Zenon DEF Interrupt

LEMMA CloseSound ==
    ASSUME Sound, Close
    PROVE  Sound' /\ CallsAge
  <1>1. /\ Task /\ kernel' = [kernel EXCEPT !.life = "closed"]
        /\ worker' = [worker EXCEPT !.alive = FALSE]
        /\ references' = [references EXCEPT !.live = {}]
        /\ UNCHANGED <<line, jobs, checkpoints, client, unsealed>>
    BY Zenon DEF Close, world
  <1>2. Queue' /\ CallsAge /\ terminal' = TRUE
    <2>1. CASE terminal
      <3>1. UNCHANGED <<call, queue>>
        BY <2>1, Zenon DEF Close
      <3>2. Queue' /\ CallsAge
        BY <1>1, <3>1, IdleQueue DEF Sound, CallsAge
      <3>3. terminal \in BOOLEAN
        BY DEF Sound, Queue, QueueTyped
      <3>4. terminal' = terminal
        BY <3>1, Zenon DEF queue
      <3>5. terminal = TRUE
        BY <2>1, <3>3, Zenon
      <3> QED BY <3>2, <3>4, <3>5, Zenon
    <2>2. CASE ~terminal /\ active = None
      <3>1. Terminate({}, {})
        BY <2>2, Zenon DEF Close
      <3>2. terminal' = TRUE
        BY <3>1, Zenon DEF Terminate
      <3> QED BY <1>1, <3>1, <3>2, TerminateQueue, TerminateAges DEF Sound
    <2>3. CASE ~terminal /\ active # None
      <3>1. Terminate({active}, Followers(active))
        BY <2>3, Zenon DEF Close
      <3>2. terminal' = TRUE
        BY <3>1, Zenon DEF Terminate
      <3> QED BY <1>1, <2>3, <3>1, <3>2, TerminateQueue, TerminateAges DEF Sound
    <2> QED BY <2>1, <2>2, <2>3
  <1>3. kernel' \in KernelRecord
    <2>1. "closed" \in Lives
      BY DEF Lives
    <2>2. [kernel EXCEPT !.life = "closed"] \in KernelRecord
      BY <2>1, KernelTypes, SMT DEF Sound, KernelRecord
    <2> QED BY <1>1, <2>2
  <1>4. references' \in [generation : Nat, live : SUBSET Reference, issued : SUBSET Reference]
    BY <1>1, KernelTypes DEF Sound
  <1> QED BY <1>1, <1>2, <1>3, <1>4, EndSound

LEMMA RunPumpSound ==
    ASSUME Sound, RunPump
    PROVE  Sound' /\ CallsAge
  <1>1. UNCHANGED <<call, terminal, checkpoints, references, worker, client, unsealed>>
    BY Zenon DEF RunPump, world
  <1>2. Queue'
    BY RunPumpQueue DEF Sound
  <1>3. CallsAge
    BY <1>1 DEF CallsAge
  <1>4. kernel' \in KernelRecord
    <2>1. ASSUME NEW state \in {"ready", "executing"}, Reports(state)
          PROVE  kernel' \in KernelRecord
      <3> DEFINE life == IF kernel.life \in {"closed", "terminated", "interrupting"}
                         THEN kernel.life ELSE state
      <3>1. life \in Lives
        <4>1. kernel.life \in Lives
          BY KernelTypes, SMT DEF Sound, KernelRecord
        <4> QED BY <4>1 DEF Lives
      <3>2. kernel' = [kernel EXCEPT !.life = life]
        BY <2>1 DEF Reports
      <3> HIDE DEF life
      <3>3. [kernel EXCEPT !.life = life] \in KernelRecord
        BY <3>1, KernelTypes, SMT DEF Sound, KernelRecord
      <3> QED BY <3>2, <3>3
    <2>2. kernel' = kernel \/ Reports("ready") \/ Reports("executing")
      BY Zenon DEF RunPump
    <2> QED BY <2>1, <2>2, KernelTypes DEF Sound
  <1> QED BY <1>1, <1>2, <1>3, <1>4, KernelTypes, FrameSound DEF Sound

LEMMA SettleRestoreSound ==
    ASSUME Sound, NEW c \in Calls, SettleRestore(c)
    PROVE  Sound' /\ CallsAge
  <1>1. UNCHANGED <<call, terminal, kernel, checkpoints, references, worker, client, unsealed>>
    BY Zenon DEF SettleRestore, queue, world
  <1>2. Queue'
    BY SettleRestoreQueue DEF Sound
  <1>3. CallsAge
    BY <1>1 DEF CallsAge
  <1> QED BY <1>1, <1>2, <1>3, KernelTypes, FrameSound DEF Sound

LEMMA ResumeSound ==
    ASSUME Sound, NEW c \in Calls, ResumeRestore(c)
    PROVE  Sound' /\ CallsAge
  <1>1. UNCHANGED <<terminal, checkpoints, worker, client, unsealed>>
    BY Zenon DEF ResumeRestore, world
  <1>2. Queue'
    BY ResumeQueue DEF Sound
  <1>3. CallsAge
    BY ResumeAges DEF Sound
  <1>4. PICK next \in Nat : next = kernel.generation + 1
    BY KernelTypes DEF Sound
  <1>5. PICK k \in KernelRecord : k = kernel
    BY KernelTypes DEF Sound
  <1> DEFINE k1 == [k EXCEPT !.generation = next]
  <1>6. k1 \in KernelRecord
    BY SMT DEF KernelRecord
  <1>7. CASE active # None
    <2>1. kernel' = [kernel EXCEPT !.generation = kernel.generation + 1] /\ UNCHANGED references
      BY <1>7, Zenon DEF ResumeRestore
    <2>2. kernel' = k1
      BY <1>4, <1>5, <2>1
    <2> HIDE DEF k1
    <2>3. kernel' \in KernelRecord
      BY <1>6, <2>2
    <2> QED BY <1>1, <1>2, <1>3, <2>1, <2>3, KernelTypes, FrameSound DEF Sound
  <1>8. CASE active = None
    <2>1. /\ kernel' = [kernel EXCEPT !.generation = kernel.generation + 1,
                                      !.activeRef = call[c].input]
          /\ references' = [references EXCEPT !.generation = kernel.generation + 1, !.live = {}]
      BY <1>8, Zenon DEF ResumeRestore
    <2>2. PICK input \in AnyInput : input = call[c].input
      <3>1. PICK q \in CallRecord : q = call[c]
        BY DEF Sound, Queue, QueueTyped
      <3>2. q.input \in AnyInput
        BY SMT DEF CallRecord
      <3> QED BY <3>1, <3>2
    <2>3. kernel' = [k1 EXCEPT !.activeRef = input]
      BY <1>4, <1>5, <2>1, <2>2
    <2> HIDE DEF k1
    <2>4. [k1 EXCEPT !.activeRef = input] \in KernelRecord
      BY <1>6, SMT DEF KernelRecord
    <2>5. kernel' \in KernelRecord
      BY <2>3, <2>4
    <2>6. references' \in [generation : Nat, live : SUBSET Reference, issued : SUBSET Reference]
      BY <1>4, <2>1, KernelTypes DEF Sound
    <2> QED BY <1>1, <1>2, <1>3, <2>5, <2>6, KernelTypes, FrameSound DEF Sound
  <1> QED BY <1>7, <1>8

LEMMA SubmitSound ==
    ASSUME Sound, NEW c \in Calls, Submit(c)
    PROVE  Sound' /\ CallsAge
  <1>1. UNCHANGED <<terminal, kernel, checkpoints, references, worker, client, unsealed>>
    BY Zenon DEF Submit, world
  <1>2. Queue'
    BY SubmitQueue DEF Sound
  <1>3. CallsAge
    BY SubmitAges DEF Sound
  <1> QED BY <1>1, <1>2, <1>3, KernelTypes, FrameSound DEF Sound

LEMMA CallSound ==
    ASSUME Sound, NEW c \in Calls, Call(c)
    PROVE  Sound'
  <1>1. UNCHANGED <<terminal, kernel, checkpoints, references, worker, client, unsealed>>
    BY Zenon DEF Call, queue, world
  <1>2. Queue'
    BY CallQueue DEF Sound
  <1>3. /\ \A d \in Calls \ {c} : call'[d].stage = call[d].stage /\ call'[d].input = call[d].input
        /\ \/ call'[c].stage = "rejected"
           \/ call'[c].stage = "admission" /\ call'[c].input \in Inputs(c)
    BY CallFields, Zenon DEF Sound
  <1>4. CheckpointsTyped'
    <2>1. Operation(c) = "restore" => Inputs(c) = DOMAIN checkpoints
      BY DEF Inputs
    <2>2. CheckpointsTyped
      BY DEF Sound, WorldTyped
    <2> QED BY <1>1, <1>3, <2>1, <2>2 DEF CheckpointsTyped
  <1>5. WorldTyped'
    BY <1>1, <1>4 DEF Sound, WorldTyped
  <1>6. worker'.alive <=> ~terminal'
    BY <1>1, Zenon DEF Sound
  <1> QED BY <1>2, <1>5, <1>6, Zenon DEF Sound

LEMMA InitSound ==
    ASSUME Init
    PROVE  Sound
  <1>1. QueueTyped
    <2>1. call \in [Calls -> CallRecord]
      <3>1. [stage |-> "idle", turn |-> 0, generation |-> None, input |-> None,
             receipt |-> None] \in CallRecord
        <4>1. "idle" \in Stages /\ None \in AnyInput
          BY DEF Stages, AnyInput, MaybeId
        <4> QED BY <4>1, SMT DEF CallRecord
      <3> DEFINE q == [stage |-> "idle", turn |-> 0, generation |-> None, input |-> None,
                       receipt |-> None]
      <3>2. call = [c \in Calls |-> q]
        BY Zenon DEF Init
      <3> HIDE DEF q
      <3> QED BY <3>1, <3>2 DEF q
    <2>2. entries \in [Ids -> EntryRecord]
      <3>1. Unknown \in EntryRecord
        <4>1. "none" \in States /\ "pending" \in Outcomes /\ None \in AnyInput /\ <<>> \in Seq(Calls)
          BY DEF States, Outcomes, AnyInput, MaybeId
        <4> QED BY <4>1, SMT DEF EntryRecord, Unknown
      <3>2. entries = [id \in Ids |-> Unknown]
        BY Zenon DEF Init
      <3> QED BY <3>1, <3>2
    <2>3. line = <<>> /\ jobs = <<>> /\ pending = <<>> /\ active = None /\ terminal = FALSE
      BY Zenon DEF Init
    <2>4. terminal \in BOOLEAN
      BY <2>3, Zenon
    <2>5. /\ line \in Seq(Calls) /\ jobs \in Seq(Jobs) /\ pending \in Seq(Ids)
          /\ active \in MaybeId
      BY <2>3 DEF MaybeId
    <2> QED BY <2>1, <2>2, <2>4, <2>5, Zenon DEF QueueTyped
  <1>2. /\ \A c \in Calls : call[c].stage = "idle" /\ call[c].turn = 0
        /\ \A id \in Ids : entries[id].state = "none" /\ entries[id].outcome = "pending"
        /\ line = <<>> /\ jobs = <<>> /\ pending = <<>> /\ active = None
    BY DEF Init, Unknown
  <1>3. InTurn
    <2>1. Called = {}
      BY <1>2 DEF Called
    <2>2. IsFiniteSet(Called) /\ Cardinality(Called) = 0
      BY <2>1, FS_EmptySet
    <2> QED BY <1>2, <2>2 DEF InTurn, Turn
  <1>4. Settlement
    <2>1. \A id \in Ids : Followed(id)
      BY <1>2 DEF Followed, Open, Submitted
    <2>2. \A c \in Calls : Waiting(c)
      BY <1>2 DEF Waiting
    <2> QED BY <1>2, <2>1, <2>2 DEF Settlement
  <1>5. WorldTyped
    <2>1. checkpoints = [r \in {} |-> None]
      BY Zenon DEF Init
    <2>2. CheckpointsTyped
      BY <1>2, <2>1 DEF CheckpointsTyped
    <2>3. kernel \in KernelRecord
      <3>1. "ready" \in Lives /\ None \in AnyInput
        BY DEF Lives, AnyInput, MaybeId
      <3> QED BY <3>1, SMT DEF Init, KernelRecord
    <2>4. references \in [generation : Nat, live : SUBSET Reference, issued : SUBSET Reference]
      BY DEF Init
    <2>5. worker \in WorkerRecord
      <3>1. PICK invoked \in [registered : Nat, ran : Nat] : invoked = [registered |-> 0, ran |-> 0]
        <4>1. [registered |-> 0, ran |-> 0] \in [registered : Nat, ran : Nat]
          OBVIOUS
        <4> QED BY <4>1
      <3>2. PICK u \in BOOLEAN : u = TRUE
        OBVIOUS
      <3>3. [alive |-> u, at |-> None, taken |-> None, image |-> 0, invoked |-> invoked]
              \in WorkerRecord
        BY SMT DEF WorkerRecord
      <3>4. worker = [alive |-> u, at |-> None, taken |-> None, image |-> 0, invoked |-> invoked]
        BY <3>1, <3>2, Zenon DEF Init
      <3> QED BY <3>3, <3>4
    <2> QED BY <2>2, <2>3, <2>4, <2>5 DEF Init, WorldTyped
  <1>6. worker.alive /\ ~terminal
    BY DEF Init
  <1> QED BY <1>1, <1>3, <1>4, <1>5, <1>6, Zenon DEF Sound, Queue

\* The frame of a step in which nothing happens.
LEMMA IdleSound ==
    ASSUME Sound, UNCHANGED vars
    PROVE  Sound'
  <1>1. /\ UNCHANGED <<call, line, jobs, queue, kernel, checkpoints, references, worker,
                       terminal, client, unsealed>>
    BY DEF vars, queue, world
  <1>2. Queue'
    BY <1>1, IdleQueue DEF Sound
  <1>3. CallsAge
    BY <1>1 DEF CallsAge
  <1> QED BY <1>1, <1>2, <1>3, KernelTypes, FrameSound DEF Sound

(* The kernel's state keeps its shape, the queue is in the order of the     *)
(* calls, every waiting call waits for an open entry and every job of the   *)
(* microtask queue continues a restore of its own; whatever fails.          *)
THEOREM SoundAlways == Spec => []Sound
  <1>1. Init => Sound
    BY InitSound
  <1>2. Sound /\ [Next]_vars => Sound'
    <2> SUFFICES ASSUME Sound, [Next]_vars
                 PROVE  Sound'
      OBVIOUS
    <2>1. CASE Microtasks
      BY <2>1, RunPumpSound, SettleRestoreSound, ResumeSound DEF Microtasks
    <2>2. CASE Handler
      BY <2>2, ExecuteSound, RegisterSound, InvokeSound, SnapshotSound, SealSound,
         SealFailsSound, RestoreSound, InstallSound, RefuseSound, SessionRejectsSound
         DEF Handler
    <2>3. CASE \E c \in Calls : Call(c) \/ Submit(c)
      BY <2>3, CallSound, SubmitSound
    <2>4. CASE \E id \in Ids : Interrupt(id)
      BY <2>4, InterruptSound
    <2>5. CASE WorkerFails \/ Close
      BY <2>5, WorkerFailsSound, CloseSound
    <2>6. CASE UNCHANGED vars
      BY <2>6, IdleSound
    <2> QED BY <2>1, <2>2, <2>3, <2>4, <2>5, <2>6 DEF Next
  <1> QED BY <1>1, <1>2, PTL DEF Spec

-----------------------------------------------------------------------------
(* Admission order, and the receipt of a repeated id                       *)

LEMMA OwnersTurn ==
    ASSUME Queue, NEW id \in Ids, entries[id].state # "none"
    PROVE  OwnerTurn(id) \in Nat
  <1>1. PICK c \in Calls : c = entries[id].owner
    BY DEF Queue, Settlement, Followed, Submitted, Admitted
  <1>2. call[c].turn \in Nat
    BY SMT DEF Queue, QueueTyped, CallRecord
  <1> QED BY <1>1, <1>2 DEF OwnerTurn

LEMMA QueueIsOrdered ==
    ASSUME Queue
    PROVE  AdmissionOrder
  <1> DEFINE A == IF active = None THEN <<>> ELSE <<OwnerTurn(active)>>
             B == [i \in DOMAIN pending |-> OwnerTurn(pending[i])]
             C == [i \in DOMAIN line |-> Turn(line[i])]
             turns == (A \o B) \o C
  <1>1. PICK b \in Nat, n \in Nat :
           b = Len(pending) /\ DOMAIN pending = 1..b /\ n = Len(line) /\ DOMAIN line = 1..n
    BY DEF Queue, QueueTyped
  <1>2. PICK a \in {0, 1} : a = IF active = None THEN 0 ELSE 1
    OBVIOUS
  <1>3. /\ \A i \in 1..b : OwnerTurn(pending[i]) \in Nat
        /\ \A i \in 1..n : Turn(line[i]) \in Nat
        /\ active # None => OwnerTurn(active) \in Nat
    <2>1. ASSUME NEW i \in 1..b
          PROVE  OwnerTurn(pending[i]) \in Nat
      <3>1. pending[i] \in Ids /\ entries[pending[i]].state = "queued"
        BY <1>1 DEF Queue, QueueTyped, Settlement
      <3> QED BY <3>1, OwnersTurn
    <2>2. ASSUME NEW i \in 1..n
          PROVE  Turn(line[i]) \in Nat
      <3>1. PICK c \in Calls : c = line[i]
        BY <1>1 DEF Queue, QueueTyped
      <3>2. call[c].turn \in Nat
        BY SMT DEF Queue, QueueTyped, CallRecord
      <3> QED BY <3>1, <3>2 DEF Turn
    <2>3. active # None => OwnerTurn(active) \in Nat
      <3>1. active # None => active \in Ids /\ entries[active].state = "executing"
        BY DEF Queue, QueueTyped, MaybeId, Settlement
      <3> QED BY <3>1, OwnersTurn
    <2> QED BY <2>1, <2>2, <2>3
  <1>4. A \in Seq(Nat) /\ Len(A) = a /\ (a = 1 => A[1] = OwnerTurn(active))
    BY <1>2, <1>3
  <1>5. B \in Seq(Nat) /\ Len(B) = b /\ \A i \in 1..b : B[i] = OwnerTurn(pending[i])
    BY <1>1, <1>3
  <1>6. C \in Seq(Nat) /\ Len(C) = n /\ \A i \in 1..n : C[i] = Turn(line[i])
    BY <1>1, <1>3
  <1> HIDE DEF A, B, C
  <1>7. /\ A \o B \in Seq(Nat) /\ Len(A \o B) = a + b
        /\ \A i \in 1..(a + b) : (A \o B)[i] = IF i <= a THEN A[i] ELSE B[i - a]
    <2>1. /\ A \o B \in Seq(Nat) /\ Len(A \o B) = Len(A) + Len(B)
          /\ \A i \in 1..(Len(A) + Len(B)) : (A \o B)[i] = IF i <= Len(A) THEN A[i] ELSE B[i - Len(A)]
      BY <1>4, <1>5, ConcatProperties
    <2> QED BY <1>4, <1>5, <2>1
  <1> DEFINE D == A \o B
  <1>8. /\ turns \in Seq(Nat) /\ Len(turns) = (a + b) + n
        /\ \A i \in 1..((a + b) + n) : turns[i] = IF i <= a + b THEN D[i] ELSE C[i - (a + b)]
    <2>1. D \in Seq(Nat) /\ Len(D) = a + b
      BY <1>7
    <2> HIDE DEF D
    <2>2. /\ D \o C \in Seq(Nat) /\ Len(D \o C) = Len(D) + Len(C)
          /\ \A i \in 1..(Len(D) + Len(C)) : (D \o C)[i] = IF i <= Len(D) THEN D[i] ELSE C[i - Len(D)]
      BY <1>6, <2>1, ConcatProperties
    <2>3. turns = D \o C
      BY DEF D
    <2> HIDE DEF turns
    <2> QED BY <1>6, <2>1, <2>2, <2>3
  <1> HIDE DEF turns, D
  <1>9. /\ a = 1 => \A j \in 1..n : OwnerTurn(active) < Turn(line[j])
        /\ a = 1 => \A i \in 1..b : OwnerTurn(active) < OwnerTurn(pending[i])
        /\ \A i, j \in 1..b : i < j => OwnerTurn(pending[i]) < OwnerTurn(pending[j])
        /\ \A i \in 1..b, j \in 1..n : OwnerTurn(pending[i]) < Turn(line[j])
        /\ \A i, j \in 1..n : i < j => Turn(line[i]) < Turn(line[j])
    BY <1>1, <1>2 DEF Queue, InTurn
  \* Every turn is the active entry's, a pending one's or a waiting one's.
  <1>10. ASSUME NEW i \in 1..((a + b) + n)
         PROVE  \/ a = 1 /\ i = 1 /\ turns[i] = OwnerTurn(active)
                \/ i - a \in 1..b /\ turns[i] = OwnerTurn(pending[i - a])
                \/ i - (a + b) \in 1..n /\ turns[i] = Turn(line[i - (a + b)])
    <2>1. CASE i <= a
      <3>1. a = 1 /\ i = 1 /\ i <= a + b
        BY <1>1, <1>2, <2>1
      <3>2. turns[i] = D[i] /\ D[i] = A[i]
        <4>1. i \in 1..(a + b)
          BY <1>1, <1>2, <3>1
        <4> QED BY <1>7, <1>8, <2>1, <3>1, <4>1 DEF D
      <3> QED BY <1>4, <3>1, <3>2
    <2>2. CASE a < i /\ i <= a + b
      <3>1. i - a \in 1..b /\ i \in 1..(a + b) /\ ~(i <= a)
        BY <1>1, <1>2, <2>2
      <3>2. turns[i] = D[i] /\ D[i] = B[i - a]
        BY <1>7, <1>8, <2>2, <3>1 DEF D
      <3> QED BY <1>5, <3>1, <3>2
    <2>3. CASE a + b < i
      <3>1. i - (a + b) \in 1..n /\ ~(i <= a + b)
        BY <1>1, <1>2, <2>3
      <3>2. turns[i] = C[i - (a + b)]
        BY <1>8, <3>1
      <3> QED BY <1>6, <3>1, <3>2
    <2> QED BY <1>1, <1>2, <2>1, <2>2, <2>3
  <1>11. ASSUME NEW i \in 1..((a + b) + n), NEW j \in 1..((a + b) + n), i < j
         PROVE  turns[i] < turns[j]
    <2>1. CASE a = 1 /\ i = 1 /\ turns[i] = OwnerTurn(active)
      <3>1. ~(a = 1 /\ j = 1)
        BY <1>11, <2>1
      <3>2. \/ j - a \in 1..b /\ turns[j] = OwnerTurn(pending[j - a])
            \/ j - (a + b) \in 1..n /\ turns[j] = Turn(line[j - (a + b)])
        BY <1>10, <3>1
      <3> QED BY <1>9, <2>1, <3>2
    <2>2. CASE i - a \in 1..b /\ turns[i] = OwnerTurn(pending[i - a])
      <3>1. i - a < j - a /\ ~(a = 1 /\ j = 1)
        BY <1>1, <1>2, <1>11, <2>2
      <3>2. \/ j - a \in 1..b /\ turns[j] = OwnerTurn(pending[j - a])
            \/ j - (a + b) \in 1..n /\ turns[j] = Turn(line[j - (a + b)])
        BY <1>10, <3>1
      <3> QED BY <1>9, <2>2, <3>1, <3>2
    <2>3. CASE i - (a + b) \in 1..n /\ turns[i] = Turn(line[i - (a + b)])
      <3>1. /\ i - (a + b) < j - (a + b) /\ ~(a = 1 /\ j = 1) /\ j - a \notin 1..b
        BY <1>1, <1>2, <1>11, <2>3
      <3>2. j - (a + b) \in 1..n /\ turns[j] = Turn(line[j - (a + b)])
        BY <1>10, <3>1
      <3> QED BY <1>9, <2>3, <3>1, <3>2
    <2> QED BY <1>10, <2>1, <2>2, <2>3
  <1>12. DOMAIN turns = 1..((a + b) + n)
    BY <1>8
  <1>13. \A i, j \in DOMAIN turns : i < j => turns[i] < turns[j]
    BY <1>11, <1>12
  <1>14. turns = (IF active = None THEN <<>> ELSE <<call[entries[active].owner].turn>>)
                   \o [i \in DOMAIN pending |-> call[entries[pending[i]].owner].turn]
                   \o [i \in DOMAIN line |-> call[line[i]].turn]
    BY Zenon DEF turns, A, B, C, OwnerTurn, Turn
  <1> QED BY <1>13, <1>14, Zenon DEF AdmissionOrder

(* What executes was called before whatever is queued, and that before what *)
(* still waits for admission.                                               *)
THEOREM CallsKeepTheirOrder == Spec => []AdmissionOrder
  <1>1. Sound => AdmissionOrder
    BY QueueIsOrdered DEF Sound
  <1> QED BY <1>1, SoundAlways, PTL

(* Unless a restore is repeated, calls with the same id have one receipt.   *)
THEOREM SameIdGetsTheSameReceipt == OneRestorePerId /\ Spec => []SameIdSameReceipt
  <1>1. OneRestorePerId /\ Sound => SameIdSameReceipt
    <2> SUFFICES ASSUME OneRestorePerId, Sound, NEW c \in Calls, NEW d \in Calls,
                        CommandId(c) = CommandId(d),
                        call[c].stage = "returned", call[d].stage = "returned"
                 PROVE  call[c].receipt = call[d].receipt
      BY DEF SameIdSameReceipt
    <2>1. CASE Operation(c) = "restore" \/ Operation(d) = "restore"
      BY <2>1 DEF OneRestorePerId
    <2>2. CASE Operation(c) # "restore" /\ Operation(d) # "restore"
      <3>1. Waiting(c) /\ Waiting(d)
        BY DEF Sound, Queue, Settlement
      <3> QED BY <2>2, <3>1 DEF Waiting
    <2> QED BY <2>1, <2>2
  <1>2. OneRestorePerId /\ []Sound => []SameIdSameReceipt
    <2>1. OneRestorePerId => [](Sound => SameIdSameReceipt)
      <3> SUFFICES ASSUME OneRestorePerId PROVE [](Sound => SameIdSameReceipt)
        OBVIOUS
      <3>1. Sound => SameIdSameReceipt
        BY <1>1
      <3> QED BY <3>1, PTL
    <2> QED BY <2>1, PTL
  <1> QED BY <1>2, SoundAlways

-----------------------------------------------------------------------------
(* A client that keeps its restores apart                                  *)

LEMMA NotContinuing ==
    /\ jobs = <<>> => ~Continuing
    /\ jobs = <<Pump>> => ~Continuing
  BY DEF Continuing

LEMMA ContinuingCall ==
    ASSUME Sound, Continuing
    PROVE  \E c \in Calls : call[c].stage = "resuming" /\ Operation(c) = "restore"
  <1>1. PICK i \in DOMAIN jobs : jobs[i] # Pump
    BY DEF Continuing
  <1>2. jobs[i] \in Jobs
    BY DEF Sound, Queue, QueueTyped
  <1>3. PICK c \in Calls : Continues(jobs[i], c)
    BY <1>1, <1>2, JobKinds
  <1>4. call[c].stage = "resuming"
    BY <1>3 DEF Sound, Queue, Settlement
  <1> QED BY <1>4 DEF Sound, Queue, Settlement, Waiting

\* An outstanding restore is the only call outstanding: nothing else is queued.
LEMMA NothingPending ==
    ASSUME Sound, Alone, NEW c \in Outstanding, Operation(c) = "restore"
    PROVE  /\ \A i \in DOMAIN pending : pending[i] = CommandId(c) /\ call[c].stage = "subscribed"
           /\ active # None /\ Open(active) => active = CommandId(c) /\ call[c].stage = "subscribed"
  <1>1. ASSUME NEW id \in Ids, Open(id)
        PROVE  id = CommandId(c) /\ call[c].stage = "subscribed"
    <2>1. PICK d \in Calls : call[d].stage = "subscribed" /\ CommandId(d) = id
      BY <1>1, OpenOwner DEF Sound
    <2>2. d \in Outstanding
      BY <2>1 DEF Outstanding
    <2>3. d = c
      BY <2>2 DEF Alone
    <2> QED BY <2>1, <2>3
  <1>2. \A i \in DOMAIN pending : pending[i] \in Ids /\ Open(pending[i])
    <2> SUFFICES ASSUME NEW i \in DOMAIN pending PROVE pending[i] \in Ids /\ Open(pending[i])
      OBVIOUS
    <2>1. pending[i] \in Ids /\ entries[pending[i]].state = "queued"
      BY DEF Sound, Queue, QueueTyped, Settlement
    <2>2. entries[pending[i]].outcome = "pending"
      BY <2>1 DEF Sound, Queue, Settlement, Followed
    <2> QED BY <2>1, <2>2 DEF Open
  <1>3. active # None => active \in Ids
    BY DEF Sound, Queue, QueueTyped, MaybeId
  <1> QED BY <1>1, <1>2, <1>3

LEMMA EmptyPending ==
    ASSUME Sound, \A i \in DOMAIN pending : FALSE
    PROVE  pending = <<>>
  <1> SUFFICES ASSUME pending # <<>> PROVE FALSE
    OBVIOUS
  <1>1. pending \in Seq(Ids)
    BY DEF Sound, Queue, QueueTyped
  <1>2. 1 \in DOMAIN pending
    BY <1>1
  <1> QED BY <1>2

\* A restore that was answered continues with nothing else in the queue.
LEMMA FinishContinues ==
    ASSUME Sound, Alone, Task, active # None, NEW receipt, Finish(active, receipt),
           UNCHANGED pending
    PROVE  Continuing' => active' = None /\ pending' = <<>>
  <1> SUFFICES ASSUME Continuing' PROVE active' = None /\ pending = <<>>
    OBVIOUS
  <1>1. active' = None
    BY DEF Finish
  <1>2. entries[active].operation = "restore" /\ entries[active].outcome = "pending"
    <2> SUFFICES ASSUME ~(entries[active].operation = "restore" /\ entries[active].outcome = "pending")
                 PROVE  FALSE
      OBVIOUS
    <2>1. jobs' = <<Pump>>
      BY Zenon DEF Finish
    <2> QED BY <2>1 DEF Continuing
  <1>3. active \in Ids /\ entries[active].state = "executing"
    BY DEF Sound, Queue, QueueTyped, MaybeId, Settlement
  <1>4. PICK c \in Calls : /\ call[c].stage = "subscribed" /\ CommandId(c) = active
                           /\ Operation(c) = "restore"
    <2>1. Open(active)
      BY <1>2, <1>3 DEF Open
    <2> QED BY <1>2, <1>3, <2>1, OpenOwner DEF Sound
  <1>5. c \in Outstanding
    BY <1>4 DEF Outstanding
  <1>6. \A i \in DOMAIN pending : pending[i] = active
    BY <1>4, <1>5, NothingPending
  <1>7. \A i \in DOMAIN pending : FALSE
    <2> SUFFICES ASSUME NEW i \in DOMAIN pending PROVE FALSE
      OBVIOUS
    <2>1. entries[pending[i]].state = "queued"
      BY DEF Sound, Queue, Settlement
    <2> QED BY <1>3, <1>6, <2>1
  <1> QED BY <1>1, <1>7, EmptyPending

LEMMA ApartKept ==
    ASSUME Sound, ApartNow, CallsAge,
           Continuing' => active' = None /\ pending' = <<>>,
           UNCHANGED queueGeneration, kernel'.generation = kernel.generation,
           references'.generation = references.generation,
           worker'.invoked.registered = worker'.invoked.ran,
           Continuing' \/ \A ref \in references'.live : ref.image = worker'.image
    PROVE  ApartNow'
  <1>1. Alone'
    <2>1. \A c \in Calls : c \in Outstanding' => c \in Outstanding
      BY DEF CallsAge, Outstanding
    <2>2. \A c \in Outstanding' : c \in Calls
      BY DEF Outstanding
    <2> QED BY <2>1, <2>2 DEF ApartNow, Alone
  <1>2. OneGeneration'
    BY DEF ApartNow, OneGeneration
  <1>3. OneImage'
    BY DEF OneImage
  <1> QED BY <1>1, <1>2, <1>3 DEF ApartNow

\* Most steps leave the worker's image and the references as they are.
LEMMA ApartTask ==
    ASSUME Sound, ApartNow, CallsAge, Task,
           Continuing' => active' = None /\ pending' = <<>>,
           UNCHANGED <<queueGeneration, references>>, kernel'.generation = kernel.generation,
           worker'.invoked = worker.invoked, worker'.image = worker.image
    PROVE  ApartNow'
  <1>1. ~Continuing
    BY NotContinuing DEF Task
  <1>2. /\ worker.invoked.registered = worker.invoked.ran
        /\ \A ref \in references.live : ref.image = worker.image
    BY <1>1 DEF ApartNow, OneImage
  <1> QED BY <1>2, ApartKept

LEMMA ExecuteApart ==
    ASSUME Sound, ApartNow, Execute
    PROVE  ApartNow'
  <1>1. PICK version \in {kernel.version, kernel.version + 1} :
           /\ kernel' = [kernel EXCEPT !.version = version]
           /\ Finish(active, Receipt(version))
    BY Zenon DEF Execute
  <1>2. Task /\ active # None /\ UNCHANGED <<pending, queueGeneration, references, worker>>
    BY Zenon DEF Execute, Answers, Handling
  <1>3. Continuing' => active' = None /\ pending' = <<>>
    BY <1>1, <1>2, FinishContinues DEF ApartNow
  <1>4. kernel'.generation = kernel.generation
    BY <1>1, KernelTypes, SMT DEF Sound, KernelRecord
  <1> QED BY <1>2, <1>3, <1>4, ExecuteSound, ApartTask

LEMMA RegisterApart ==
    ASSUME Sound, ApartNow, RegisterApplication
    PROVE  ApartNow'
  <1> DEFINE ref == [name |-> active, generation |-> references.generation,
                     image |-> worker.image]
  <1>1. references' = [references EXCEPT !.live = @ \cup {ref}, !.issued = @ \cup {ref}]
    BY Zenon DEF RegisterApplication
  <1>2. /\ Task /\ active # None /\ Finish(active, Receipt(kernel.version))
        /\ UNCHANGED <<pending, queueGeneration, kernel, worker>>
    BY Zenon DEF RegisterApplication, Answers, Handling
  <1>3. Continuing' => active' = None /\ pending' = <<>>
    BY <1>2, FinishContinues DEF ApartNow
  <1>4. ref.image = worker.image
    OBVIOUS
  <1>5. ~Continuing
    BY <1>2, NotContinuing DEF Task
  <1>6. /\ worker.invoked.registered = worker.invoked.ran
        /\ \A r \in references.live : r.image = worker.image
    BY <1>5 DEF ApartNow, OneImage
  <1> HIDE DEF ref
  <1>7. /\ references'.generation = references.generation
        /\ references'.live = references.live \cup {ref}
    BY <1>1, KernelTypes DEF Sound
  <1>8. \A r \in references'.live : r.image = worker'.image
    BY <1>2, <1>4, <1>6, <1>7
  <1> QED BY <1>2, <1>3, <1>6, <1>7, <1>8, RegisterSound, ApartKept

LEMMA InvokeApart ==
    ASSUME Sound, ApartNow, InvokeApplication
    PROVE  ApartNow'
  <1> DEFINE ref == entries[active].input
  <1>1. Task /\ active # None /\ UNCHANGED <<pending, queueGeneration, kernel, references>>
    BY Zenon DEF InvokeApplication, Answers, Handling
  <1>2. ~Continuing
    BY <1>1, NotContinuing DEF Task
  <1>3. /\ worker.invoked.registered = worker.invoked.ran
        /\ \A r \in references.live : r.image = worker.image
    BY <1>2 DEF ApartNow, OneImage
  <1>4. CASE Resolvable(ref)
    <2>1. /\ worker' = [worker EXCEPT !.invoked = [registered |-> ref.image, ran |-> worker.image]]
          /\ Finish(active, Receipt(kernel.version))
      BY <1>4, Zenon DEF InvokeApplication
    <2>2. ref.image = worker.image
      BY <1>3, <1>4 DEF Resolvable
    <2>3. Continuing' => active' = None /\ pending' = <<>>
      BY <1>1, <2>1, FinishContinues DEF ApartNow
    <2>4. /\ worker'.invoked = [registered |-> ref.image, ran |-> worker.image]
          /\ worker'.image = worker.image
      <3>1. PICK w \in WorkerRecord : w = worker
        BY KernelTypes DEF Sound
      <3>2. PICK invoked : invoked = [registered |-> ref.image, ran |-> worker.image]
        OBVIOUS
      <3>3. [w EXCEPT !.invoked = invoked].invoked = invoked
            /\ [w EXCEPT !.invoked = invoked].image = w.image
        BY SMT DEF WorkerRecord
      <3> QED BY <2>1, <3>1, <3>2, <3>3
    <2>5. worker'.invoked.registered = worker'.invoked.ran
      BY <2>2, <2>4
    <2>6. \A r \in references'.live : r.image = worker'.image
      BY <1>1, <1>3, <2>4
    <2> QED BY <1>1, <2>3, <2>5, <2>6, InvokeSound, ApartKept
  <1>5. CASE ~Resolvable(ref)
    <2>1. Throw(active) /\ UNCHANGED worker
      BY <1>5, Zenon DEF InvokeApplication
    <2>2. ~Continuing'
      <3>1. jobs' = <<Pump>>
        BY <2>1, Zenon DEF Throw
      <3> QED BY <3>1 DEF Continuing
    <2> QED BY <1>1, <2>1, <2>2, InvokeSound, ApartTask
  <1> QED BY <1>4, <1>5

LEMMA SnapshotApart ==
    ASSUME Sound, ApartNow, Snapshot
    PROVE  ApartNow'
  <1>1. Task /\ UNCHANGED <<jobs, queueGeneration, references, kernel>>
    BY Zenon DEF Snapshot, Answers, Handling, queue
  <1>2. ~Continuing'
    BY <1>1 DEF Continuing, Task
  <1> QED BY <1>1, <1>2, SnapshotSound, ApartTask

LEMMA SealApart ==
    ASSUME Sound, ApartNow, Seal
    PROVE  ApartNow'
  <1>1. /\ Task /\ active # None /\ Finish(active, Receipt(kernel.version))
        /\ UNCHANGED <<pending, queueGeneration, references>>
        /\ kernel' = [kernel EXCEPT !.activeRef = active]
        /\ worker' = [worker EXCEPT !.taken = None]
    BY Zenon DEF Seal, Handling
  <1>2. Continuing' => active' = None /\ pending' = <<>>
    BY <1>1, FinishContinues DEF ApartNow
  <1>3. kernel'.generation = kernel.generation
    BY <1>1, KernelTypes, SMT DEF Sound, KernelRecord
  <1>4. PICK w \in WorkerRecord : w = worker
    BY KernelTypes DEF Sound
  <1>5. worker'.invoked = worker.invoked /\ worker'.image = worker.image
    BY <1>1, <1>4, UntakenWorker
  <1> QED BY <1>1, <1>2, <1>3, <1>5, SealSound, ApartTask

LEMMA SealFailsApart ==
    ASSUME Sound, ApartNow, SealFails
    PROVE  ApartNow'
  <1>1. /\ Task /\ Throw(active)
        /\ UNCHANGED <<queueGeneration, references, kernel>>
        /\ worker' = [worker EXCEPT !.taken = None]
    BY Zenon DEF SealFails, Handling
  <1>2. ~Continuing'
    <2>1. jobs' = <<Pump>>
      BY <1>1, Zenon DEF Throw
    <2> QED BY <2>1 DEF Continuing
  <1>3. PICK w \in WorkerRecord : w = worker
    BY KernelTypes DEF Sound
  <1>4. worker'.invoked = worker.invoked /\ worker'.image = worker.image
    BY <1>1, <1>3, UntakenWorker
  <1> QED BY <1>1, <1>2, <1>4, SealFailsSound, ApartTask

\* The calls of an answered restore continue, and they asked for its input.
LEMMA RestoreAnswered ==
    ASSUME Sound, Alone, Task, Answers("restore"), NEW receipt \in Receipts,
           Finish(active, receipt)
    PROVE  /\ Continuing'
           /\ \A i \in DOMAIN jobs' : \A c \in Calls :
                Continues(jobs'[i], c) => call'[c].input = entries[active].input
  <1>1. /\ active \in Ids /\ Open(active) /\ active # None
        /\ entries[active].operation = "restore"
    BY ActiveOpen DEF Answers, Handling
  <1>2. PICK o \in Calls : /\ call[o].stage = "subscribed"
                           /\ Operation(o) = "restore" /\ call[o].input = entries[active].input
    BY <1>1, ActiveOpen DEF Answers
  <1>3. PICK e \in EntryRecord : e = entries[active]
    BY <1>1 DEF Sound, Queue, QueueTyped
  <1>4. e.subscribers \in Seq(Calls)
    BY <1>3, SMT DEF EntryRecord
  <1>5. e.subscribers # <<>> /\ e.operation = "restore" /\ e.outcome = "pending"
    BY <1>1, <1>3 DEF Sound, Queue, Settlement, Followed, Open
  <1>6. jobs' = Append(SettleJobs(e.subscribers), Pump)
    BY <1>3, <1>5, Zenon DEF Finish
  <1>7. Continuing'
    <2> DEFINE n == Len(e.subscribers)
    <2>1. n \in Nat /\ DOMAIN e.subscribers = 1..n /\ 1 \in 1..n /\ e.subscribers[1] \in Calls
      BY <1>4, <1>5
    <2>2. SettleJobs(e.subscribers) = [i \in 1..n |-> Settle(e.subscribers[i])]
      BY <2>1 DEF SettleJobs
    <2> HIDE DEF n
    <2>3. /\ SettleJobs(e.subscribers) \in Seq(Jobs) /\ Len(SettleJobs(e.subscribers)) = n
          /\ SettleJobs(e.subscribers)[1] = Settle(e.subscribers[1])
      <3>1. \A i \in 1..n : Settle(e.subscribers[i]) \in Jobs
        BY <1>4, <2>1, JobKinds
      <3> QED BY <2>1, <2>2, <3>1
    <2>4. Pump \in Jobs
      BY JobKinds
    <2>5. 1 \in DOMAIN jobs' /\ jobs'[1] = Settle(e.subscribers[1])
      BY <1>6, <2>1, <2>3, <2>4
    <2>6. jobs'[1] # Pump
      BY <2>1, <2>5, JobKinds
    <2> QED BY <2>5, <2>6 DEF Continuing
  <1>8. JobsSound' /\ CallsAge
    BY <1>1, AnswerJobs, FinishAges DEF Sound
  <1>9. ASSUME NEW i \in DOMAIN jobs', NEW c \in Calls, Continues(jobs'[i], c)
        PROVE  call'[c].input = entries[active].input
    <2>1. call'[c].stage = "resuming"
      BY <1>8, <1>9 DEF JobsSound
    <2>2. call[c].stage \in {"admission", "subscribed", "resuming"}
      BY <1>8, <2>1 DEF CallsAge
    <2>3. c \in Outstanding /\ o \in Outstanding
      BY <1>2, <2>2 DEF Outstanding
    <2>4. c = o
      BY <1>2, <2>3 DEF Alone
    <2> QED BY <1>2, <1>8, <2>4 DEF CallsAge
  <1> QED BY <1>7, <1>9

LEMMA RestoreApart ==
    ASSUME Sound, ApartNow, Restore
    PROVE  ApartNow'
  <1>1. Task /\ active # None /\ Answers("restore") /\ UNCHANGED <<pending, queueGeneration, references>>
    BY Zenon DEF Restore, Answers, Handling
  <1>2. CASE Verified(entries[active].input)
    <2>1. /\ worker' = [worker EXCEPT !.at = [ref |-> entries[active].input,
                                             depth |-> checkpoints[entries[active].input].depth],
                                      !.image = @ + 1]
          /\ kernel' = [kernel EXCEPT !.version = @ + 1]
          /\ Finish(active, Receipt(kernel.version + 1))
      BY <1>2, Zenon DEF Restore
    <2>2. PICK receipt \in Receipts : receipt = Receipt(kernel.version + 1)
      BY KernelTypes, ReceiptTyped DEF Sound
    <2>3. Finish(active, receipt)
      BY <2>1, <2>2
    <2>4. Continuing'
      BY <1>1, <2>3, RestoreAnswered DEF ApartNow
    <2>5. active' = None /\ pending' = <<>>
      BY <1>1, <2>3, <2>4, FinishContinues DEF ApartNow
    <2>6. kernel'.generation = kernel.generation
      BY <2>1, KernelTypes, SMT DEF Sound, KernelRecord
    <2>7. worker'.invoked = worker.invoked
      <3>1. PICK w \in WorkerRecord : w = worker
        BY KernelTypes DEF Sound
      <3>2. PICK at : at = [ref |-> entries[active].input,
                            depth |-> checkpoints[entries[active].input].depth]
        OBVIOUS
      <3>3. [w EXCEPT !.at = at, !.image = @ + 1].invoked = w.invoked
        BY SMT DEF WorkerRecord
      <3> QED BY <2>1, <3>1, <3>2, <3>3
    <2>8. worker'.invoked.registered = worker'.invoked.ran
      BY <2>7 DEF ApartNow, OneImage
    <2>9. CallsAge /\ references'.generation = references.generation /\ UNCHANGED queueGeneration
      BY <1>1, RestoreSound
    <2> QED BY <2>4, <2>5, <2>6, <2>8, <2>9, ApartKept
  <1>3. CASE ~Verified(entries[active].input)
    <2>1. Throw(active) /\ UNCHANGED <<worker, kernel>>
      BY <1>3, Zenon DEF Restore
    <2>2. ~Continuing'
      <3>1. jobs' = <<Pump>>
        BY <2>1, Zenon DEF Throw
      <3> QED BY <3>1 DEF Continuing
    <2> QED BY <1>1, <2>1, <2>2, RestoreSound, ApartTask
  <1> QED BY <1>2, <1>3

LEMMA InstallApart ==
    ASSUME Sound, ApartNow, Install
    PROVE  ApartNow'
  <1>1. /\ Task /\ active # None /\ UNCHANGED <<pending, queueGeneration, references>>
        /\ kernel' = [kernel EXCEPT !.environment = @ + 1, !.activeRef = None, !.version = @ + 1]
        /\ worker' = [worker EXCEPT !.at = None]
        /\ Finish(active, Receipt(kernel.version + 1))
    BY Zenon DEF Install, Answers, Handling
  <1>2. Continuing' => active' = None /\ pending' = <<>>
    BY <1>1, FinishContinues DEF ApartNow
  <1>3. kernel'.generation = kernel.generation
    BY <1>1, KernelTypes, SMT DEF Sound, KernelRecord
  <1>4. PICK w \in WorkerRecord : w = worker
    BY KernelTypes DEF Sound
  <1>5. [w EXCEPT !.at = None].invoked = w.invoked /\ [w EXCEPT !.at = None].image = w.image
    BY SMT DEF WorkerRecord
  <1>6. worker'.invoked = worker.invoked /\ worker'.image = worker.image
    BY <1>1, <1>4, <1>5
  <1> QED BY <1>1, <1>2, <1>3, <1>6, InstallSound, ApartTask

LEMMA RefuseApart ==
    ASSUME Sound, ApartNow, Refuse
    PROVE  ApartNow'
  <1>1. Task /\ Throw(active) /\ UNCHANGED <<queueGeneration, references, kernel, worker>>
    BY Zenon DEF Refuse
  <1>2. jobs' = <<Pump>>
    BY <1>1, Zenon DEF Throw
  <1>3. ~Continuing'
    BY <1>2 DEF Continuing
  <1> QED BY <1>1, <1>3, RefuseSound, ApartTask

LEMMA SessionRejectsApart ==
    ASSUME Sound, ApartNow, SessionRejects
    PROVE  ApartNow'
  <1>1. /\ Task /\ UNCHANGED <<queueGeneration, references, kernel, worker>>
        /\ IF entries[active].operation = "execute"
           THEN Finish(active, [generation |-> kernel.generation, version |-> kernel.version])
           ELSE Throw(active)
    BY Zenon DEF SessionRejects
  <1>2. jobs' = <<Pump>>
    <2>1. CASE entries[active].operation = "execute"
      <3>1. /\ Finish(active, [generation |-> kernel.generation, version |-> kernel.version])
            /\ ~(entries[active].operation = "restore")
        BY <1>1, <2>1
      <3> QED BY <3>1, Zenon DEF Finish
    <2>2. CASE entries[active].operation # "execute"
      <3>1. Throw(active)
        BY <1>1, <2>2
      <3> QED BY <3>1, Zenon DEF Throw
    <2> QED BY <2>1, <2>2
  <1>3. ~Continuing'
    BY <1>2 DEF Continuing
  <1> QED BY <1>1, <1>3, SessionRejectsSound, ApartTask

LEMMA DeadWorker ==
    ASSUME WorldTyped
    PROVE  LET q == [worker EXCEPT !.alive = FALSE]
           IN  /\ q.invoked = worker.invoked /\ q.image = worker.image
               /\ q.at = worker.at /\ q.taken = worker.taken
  <1>1. PICK w \in WorkerRecord : w = worker
    BY KernelTypes
  <1>2. PICK u \in BOOLEAN : u = FALSE
    OBVIOUS
  <1>3. LET q == [w EXCEPT !.alive = u]
        IN  q.invoked = w.invoked /\ q.image = w.image /\ q.at = w.at /\ q.taken = w.taken
    BY SMT DEF WorkerRecord
  <1> QED BY <1>1, <1>2, <1>3, Zenon

\* Killing the worker leaves its image and the references as they are.
LEMMA FaultApart ==
    ASSUME Sound, ApartNow, Task, Fault, UNCHANGED <<jobs, references>>, CallsAge
    PROVE  ApartNow'
  <1>1. /\ worker' = [worker EXCEPT !.alive = FALSE]
        /\ kernel' = [kernel EXCEPT !.life = "terminated"] /\ UNCHANGED queueGeneration
    BY Zenon DEF Fault, Terminate
  <1>2. ~Continuing'
    BY DEF Continuing, Task
  <1>3. kernel'.generation = kernel.generation
    BY <1>1, KernelTypes, SMT DEF Sound, KernelRecord
  <1>4. worker'.invoked = worker.invoked /\ worker'.image = worker.image
    BY <1>1, DeadWorker DEF Sound
  <1> QED BY <1>1, <1>2, <1>3, <1>4, ApartTask

LEMMA WorkerFailsApart ==
    ASSUME Sound, ApartNow, WorkerFails
    PROVE  ApartNow'
  <1>1. Task /\ Fault /\ UNCHANGED <<jobs, references>>
    BY Zenon DEF WorkerFails
  <1> QED BY <1>1, WorkerFailsSound, FaultApart

LEMMA InterruptApart ==
    ASSUME Sound, ApartNow, NEW id \in Ids, Interrupt(id)
    PROVE  ApartNow'
  <1>1. Task /\ UNCHANGED <<jobs, references>> /\ CallsAge
    <2>1. CallsAge
      BY InterruptSound
    <2> QED BY <2>1, Zenon DEF Interrupt
  <1>2. ~Continuing'
    BY <1>1 DEF Continuing, Task
  <1>3. CASE Fault
    BY <1>1, <1>3, FaultApart
  <1>4. CASE UNCHANGED <<queueGeneration, kernel, worker>>
    BY <1>1, <1>2, <1>4, ApartTask
  <1>5. CASE kernel' = [kernel EXCEPT !.life = "interrupting"] /\ UNCHANGED <<queueGeneration, worker>>
    <2>1. kernel'.generation = kernel.generation
      BY <1>5, KernelTypes, SMT DEF Sound, KernelRecord
    <2> QED BY <1>1, <1>2, <1>5, <2>1, ApartTask
  <1> QED BY <1>3, <1>4, <1>5, Zenon DEF Interrupt, queue

LEMMA CloseApart ==
    ASSUME Sound, ApartNow, Close
    PROVE  ApartNow'
  <1>1. /\ Task /\ UNCHANGED jobs
        /\ kernel' = [kernel EXCEPT !.life = "closed"]
        /\ worker' = [worker EXCEPT !.alive = FALSE]
        /\ references' = [references EXCEPT !.live = {}]
    BY Zenon DEF Close
  <1>2. UNCHANGED queueGeneration
    BY Zenon DEF Close, Terminate, queue
  <1>3. ~Continuing /\ ~Continuing'
    BY <1>1 DEF Continuing, Task
  <1>4. kernel'.generation = kernel.generation
    BY <1>1, KernelTypes, SMT DEF Sound, KernelRecord
  <1>5. worker'.invoked = worker.invoked
    BY <1>1, DeadWorker DEF Sound
  <1>6. references'.generation = references.generation /\ references'.live = {}
    BY <1>1, KernelTypes DEF Sound
  <1>7. worker'.invoked.registered = worker'.invoked.ran
    BY <1>5 DEF ApartNow, OneImage
  <1> QED BY <1>2, <1>3, <1>4, <1>6, <1>7, CloseSound, ApartKept

\* The pump continues nothing.
LEMMA PumpContinues ==
    ASSUME Queue, jobs # <<>>, Head(jobs) = Pump, jobs' = Tail(jobs)
    PROVE  Continuing <=> Continuing'
  <1>1. /\ jobs \in Seq(Jobs) /\ jobs[1] = Pump
        /\ \A i \in DOMAIN Tail(jobs) : i + 1 \in DOMAIN jobs /\ Tail(jobs)[i] = jobs[i + 1]
    BY TailJobs DEF Queue, QueueTyped
  <1>2. ASSUME Continuing PROVE Continuing'
    <2>1. PICK i \in DOMAIN jobs : jobs[i] # Pump
      BY <1>2 DEF Continuing
    <2>2. i - 1 \in DOMAIN Tail(jobs) /\ (i - 1) + 1 = i
      BY <1>1, <2>1
    <2>3. Tail(jobs)[i - 1] = jobs[i]
      BY <1>1, <2>2
    <2> QED BY <2>1, <2>2, <2>3 DEF Continuing
  <1>3. ASSUME Continuing' PROVE Continuing
    BY <1>1, <1>3 DEF Continuing
  <1> QED BY <1>2, <1>3

LEMMA SettleContinues ==
    ASSUME Queue, NEW c \in Calls, jobs # <<>>, Head(jobs) = Settle(c),
           jobs' = Append(Tail(jobs), Resume(c))
    PROVE  Continuing /\ Continuing'
  <1>1. 1 \in DOMAIN jobs /\ jobs[1] # Pump /\ Tail(jobs) \in Seq(Jobs) /\ Resume(c) \in Jobs
        /\ Resume(c) # Pump
    BY TailJobs, JobKinds
  <1>2. /\ Len(Tail(jobs)) + 1 \in DOMAIN Append(Tail(jobs), Resume(c))
        /\ Append(Tail(jobs), Resume(c))[Len(Tail(jobs)) + 1] = Resume(c)
    BY <1>1
  <1>3. \E i \in DOMAIN jobs' : jobs'[i] = Resume(c)
    BY <1>2
  <1> QED BY <1>1, <1>3 DEF Continuing

\* Admission continues only a restore whose id has been answered already.
LEMMA SubmitContinues ==
    ASSUME Sound, NEW c \in Calls, Submit(c), Continuing'
    PROVE  /\ jobs' = <<Settle(c)>> /\ ~terminal /\ Operation(c) = "restore"
           /\ UNCHANGED pending
           /\ entries[CommandId(c)].state # "none"
  <1>1. Task
    BY Zenon DEF Submit
  <1>2. jobs' # jobs /\ jobs' # <<>> /\ jobs' # <<Pump>>
    BY <1>1 DEF Task, Continuing
  <1>3. /\ ~terminal
        /\ Admit(c, entries[CommandId(c)].state # "none")
    BY <1>2, Zenon DEF Submit
  <1>4. entries[CommandId(c)].state # "none"
    <2> SUFFICES ASSUME ~(entries[CommandId(c)].state # "none") PROVE FALSE
      OBVIOUS
    <2>1. jobs' = <<Pump>>
      BY <1>3, Zenon DEF Admit
    <2> QED BY <1>2, <2>1
  <1>5. /\ UNCHANGED pending
        /\ CASE entries[CommandId(c)].outcome = "pending" -> jobs' = jobs
             [] entries[CommandId(c)].outcome = "rejected" -> jobs' = jobs
             [] OTHER -> jobs' = IF Operation(c) = "restore" THEN <<Settle(c)>> ELSE <<>>
    <2> DEFINE r == entries[CommandId(c)].outcome
               s == [call EXCEPT ![c].stage = "subscribed"]
    <2>1. CASE r = "pending"
      <3>1. UNCHANGED pending /\ jobs' = jobs
        BY <1>3, <1>4, <2>1 DEF Admit
      <3> QED BY <2>1, <3>1
    <2>2. CASE r = "rejected"
      <3>1. UNCHANGED pending /\ jobs' = jobs
        BY <1>3, <1>4, <2>2 DEF Admit
      <3> QED BY <2>2, <3>1
    <2>3. CASE r # "pending" /\ r # "rejected"
      <3>1. UNCHANGED pending /\ jobs' = IF Operation(c) = "restore" THEN <<Settle(c)>> ELSE <<>>
        BY <1>3, <1>4, <2>3 DEF Admit
      <3> QED BY <2>3, <3>1
    <2> QED BY <2>1, <2>2, <2>3
  <1> QED BY <1>2, <1>3, <1>4, <1>5

LEMMA RunPumpApart ==
    ASSUME Sound, ApartNow, RunPump
    PROVE  ApartNow'
  <1>1. /\ jobs # <<>> /\ Head(jobs) = Pump /\ jobs' = Tail(jobs)
        /\ UNCHANGED <<call, queueGeneration, references, worker>>
    BY Zenon DEF RunPump, Microtask
  <1>2. kernel'.generation = kernel.generation
    <2>1. \E state : UNCHANGED kernel \/ Reports(state)
      BY Zenon DEF RunPump
    <2>2. ASSUME NEW state, Reports(state)
          PROVE  kernel'.generation = kernel.generation
      <3>1. PICK life : kernel' = [kernel EXCEPT !.life = life]
        BY <2>2 DEF Reports
      <3> QED BY <3>1, KernelTypes, SMT DEF Sound, KernelRecord
    <2> QED BY <2>1, <2>2
  <1>3. Continuing <=> Continuing'
    BY <1>1, PumpContinues DEF Sound
  <1>4. Continuing => active' = None /\ pending' = <<>>
    <2> SUFFICES ASSUME Continuing PROVE active' = None /\ pending' = <<>>
      OBVIOUS
    <2>1. active = None /\ pending = <<>>
      BY DEF ApartNow, Alone
    <2>2. UNCHANGED <<pending, active>>
      BY <2>1, Zenon DEF RunPump
    <2> QED BY <2>1, <2>2
  <1>5. worker'.invoked.registered = worker'.invoked.ran
    BY <1>1 DEF ApartNow, OneImage
  <1>6. Continuing' \/ \A ref \in references'.live : ref.image = worker'.image
    BY <1>1, <1>3 DEF ApartNow, OneImage
  <1>7. references'.generation = references.generation /\ UNCHANGED queueGeneration
    BY <1>1
  <1> QED BY <1>2, <1>3, <1>4, <1>5, <1>6, <1>7, RunPumpSound, ApartKept

LEMMA SettleRestoreApart ==
    ASSUME Sound, ApartNow, NEW c \in Calls, SettleRestore(c)
    PROVE  ApartNow'
  <1>1. /\ jobs # <<>> /\ Head(jobs) = Settle(c) /\ jobs' = Append(Tail(jobs), Resume(c))
        /\ UNCHANGED <<pending, active, queueGeneration, kernel, references, worker>>
    BY Zenon DEF SettleRestore, Microtask, queue
  <1>2. Continuing /\ Continuing'
    BY <1>1, SettleContinues DEF Sound
  <1>3. active' = None /\ pending' = <<>>
    BY <1>1, <1>2 DEF ApartNow, Alone
  <1>4. worker'.invoked.registered = worker'.invoked.ran
    BY <1>1 DEF ApartNow, OneImage
  <1> QED BY <1>1, <1>2, <1>3, <1>4, SettleRestoreSound, ApartKept

\* The three generations advance together: no command is active by now.
LEMMA ResumeApart ==
    ASSUME Sound, ApartNow, NEW c \in Calls, ResumeRestore(c)
    PROVE  ApartNow'
  <1>1. jobs # <<>> /\ Head(jobs) = Resume(c) /\ UNCHANGED <<active, worker>>
    BY Zenon DEF ResumeRestore, Microtask
  <1>2. active = None
    <2>1. Continuing
      BY <1>1, TailJobs, JobKinds DEF Sound, Continuing
    <2> QED BY <2>1 DEF ApartNow, Alone
  <1>3. /\ kernel' = [kernel EXCEPT !.generation = kernel.generation + 1,
                                    !.activeRef = call[c].input]
        /\ queueGeneration' = kernel.generation + 1
        /\ references' = [references EXCEPT !.generation = kernel.generation + 1, !.live = {}]
        /\ pending' = <<>>
    BY <1>2, Zenon DEF ResumeRestore
  <1>4. Alone'
    <2>1. \A d \in Calls : d \in Outstanding' => d \in Outstanding
      BY ResumeSound DEF CallsAge, Outstanding
    <2>2. \A d \in Outstanding' : d \in Calls
      BY DEF Outstanding
    <2> QED BY <1>1, <1>2, <1>3, <2>1, <2>2 DEF ApartNow, Alone
  <1>5. PICK next \in Nat : next = kernel.generation + 1
    BY KernelTypes DEF Sound
  <1>6. references'.generation = next /\ references'.live = {}
    BY <1>3, <1>5, KernelTypes DEF Sound
  <1>7. kernel'.generation = next
    <2>1. PICK input : input = call[c].input
      OBVIOUS
    <2>2. [kernel EXCEPT !.generation = next, !.activeRef = input].generation = next
      BY KernelTypes, SMT DEF Sound, KernelRecord
    <2> QED BY <1>3, <1>5, <2>1, <2>2
  <1>8. OneGeneration'
    BY <1>3, <1>5, <1>6, <1>7 DEF OneGeneration
  <1>9. OneImage'
    BY <1>1, <1>6 DEF ApartNow, OneImage
  <1> QED BY <1>4, <1>8, <1>9 DEF ApartNow

LEMMA SubmitApart ==
    ASSUME Sound, ApartNow, NEW c \in Calls, Submit(c)
    PROVE  ApartNow'
  <1>1. Task /\ line # <<>> /\ Head(line) = c
        /\ UNCHANGED <<active, terminal, queueGeneration, kernel, references, worker>>
    BY Zenon DEF Submit
  <1>2. CallsAge
    BY SubmitSound
  <1>3. ASSUME Continuing'
        PROVE  active' = None /\ pending' = <<>>
    <2>1. /\ jobs' = <<Settle(c)>> /\ ~terminal /\ Operation(c) = "restore"
          /\ UNCHANGED pending
      BY <1>1, <1>3, SubmitContinues
    <2>2. c \in Outstanding /\ call[c].stage # "subscribed"
      <3>1. line \in Seq(Calls) /\ \A i \in DOMAIN line : call[line[i]].stage = "admission"
        BY DEF Sound, Queue, QueueTyped, InTurn
      <3>2. 1 \in DOMAIN line /\ line[1] = c
        BY <1>1, <3>1
      <3> QED BY <3>1, <3>2 DEF Outstanding
    <2>3. pending = <<>>
      <3>1. \A i \in DOMAIN pending : FALSE
        BY <2>1, <2>2, NothingPending DEF ApartNow
      <3> QED BY <3>1, EmptyPending
    <2>4. active = None
      <3> SUFFICES ASSUME active # None PROVE FALSE
        OBVIOUS
      <3>1. worker.alive
        BY <2>1, Zenon DEF Sound
      <3>2. Open(active)
        BY <3>1, ActiveOpen
      <3> QED BY <2>1, <2>2, <3>2, NothingPending DEF ApartNow
    <2> QED BY <1>1, <2>1, <2>3, <2>4
  <1> QED BY <1>1, <1>2, <1>3, ApartTask

\* A client that keeps restores apart makes no call while one is outstanding,
\* and restores only when nothing is.
LEMMA CallApart ==
    ASSUME Sound, ApartNow, client.apart, NEW c \in Calls, Call(c)
    PROVE  ApartNow'
  <1>1. /\ Task /\ ~RestoreOutstanding /\ (Operation(c) = "restore" => Outstanding = {})
        /\ UNCHANGED <<jobs, pending, active, queueGeneration, kernel, references, worker>>
    BY Zenon DEF Call, queue
  <1>2. \A d \in Calls \ {c} : call'[d].stage = call[d].stage
    BY CallFields DEF Sound
  <1>3. ~Continuing /\ ~Continuing'
    BY <1>1 DEF Continuing, Task
  <1>4. Alone'
    <2>1. \A d \in Outstanding' : d \in Outstanding \/ d = c
      BY <1>2 DEF Outstanding
    <2>2. \A d \in Outstanding : Operation(d) # "restore"
      BY <1>1 DEF RestoreOutstanding
    <2> QED BY <1>1, <1>3, <2>1, <2>2 DEF Alone
  <1>5. OneGeneration'
    BY <1>1 DEF ApartNow, OneGeneration
  <1>6. OneImage'
    BY <1>1, <1>3 DEF ApartNow, OneImage
  <1> QED BY <1>4, <1>5, <1>6 DEF ApartNow

LEMMA IdleApart ==
    ASSUME ApartNow, UNCHANGED vars
    PROVE  ApartNow'
  <1>1. UNCHANGED <<call, jobs, pending, active, queueGeneration, kernel, references, worker>>
    BY Zenon DEF vars, queue
  <1>2. Alone'
    BY <1>1 DEF ApartNow, Alone, Outstanding, Continuing
  <1>3. OneGeneration'
    BY <1>1 DEF ApartNow, OneGeneration
  <1>4. OneImage'
    BY <1>1 DEF ApartNow, OneImage, Continuing
  <1> QED BY <1>2, <1>3, <1>4 DEF ApartNow

LEMMA InitApart ==
    ASSUME Init
    PROVE  ApartNow
  <1>1. /\ \A c \in Calls : call[c].stage = "idle"
        /\ jobs = <<>> /\ queueGeneration = 0
        /\ kernel.generation = 0 /\ references.generation = 0 /\ references.live = {}
        /\ worker.invoked.registered = worker.invoked.ran
    BY DEF Init
  <1>2. Alone
    BY <1>1 DEF Alone, Outstanding, Continuing
  <1> QED BY <1>1, <1>2 DEF ApartNow, OneGeneration, OneImage

\* The client program never changes.
LEMMA ClientKept ==
    ASSUME [Next]_vars
    PROVE  UNCHANGED client
  <1>1. CASE Microtasks
    BY <1>1, Zenon DEF Microtasks, RunPump, SettleRestore, ResumeRestore, world
  <1>2. CASE Handler
    BY <1>2, Zenon DEF Handler, Execute, RegisterApplication, InvokeApplication, Snapshot, Seal,
       SealFails, Restore, Install, Refuse, SessionRejects, world
  <1>3. CASE \E c \in Calls : Call(c) \/ Submit(c)
    BY <1>3, Zenon DEF Call, Submit, world
  <1>4. CASE \E id \in Ids : Interrupt(id)
    BY <1>4, Zenon DEF Interrupt, world
  <1>5. CASE WorkerFails \/ Close
    BY <1>5, Zenon DEF WorkerFails, Close, world
  <1>6. CASE UNCHANGED vars
    BY <1>6, Zenon DEF vars, world
  <1> QED BY <1>1, <1>2, <1>3, <1>4, <1>5, <1>6 DEF Next

LEMMA ApartStep ==
    ASSUME Sound, ApartNow, client.apart, [Next]_vars
    PROVE  ApartNow'
  <1>1. CASE Microtasks
    BY <1>1, RunPumpApart, SettleRestoreApart, ResumeApart DEF Microtasks
  <1>2. CASE Handler
    BY <1>2, ExecuteApart, RegisterApart, InvokeApart, SnapshotApart, SealApart, SealFailsApart,
       RestoreApart, InstallApart, RefuseApart, SessionRejectsApart DEF Handler
  <1>3. CASE \E c \in Calls : Call(c) \/ Submit(c)
    BY <1>3, CallApart, SubmitApart
  <1>4. CASE \E id \in Ids : Interrupt(id)
    BY <1>4, InterruptApart
  <1>5. CASE WorkerFails \/ Close
    BY <1>5, WorkerFailsApart, CloseApart
  <1>6. CASE UNCHANGED vars
    BY <1>6, IdleApart
  <1> QED BY <1>1, <1>2, <1>3, <1>4, <1>5, <1>6 DEF Next

LEMMA ApartAlways == Spec => [](client.apart => ApartNow)
  <1>1. Init => (client.apart => ApartNow)
    BY InitApart
  <1>2. Sound /\ (client.apart => ApartNow) /\ [Next]_vars => (client.apart => ApartNow)'
    BY ApartStep, ClientKept
  <1> QED BY <1>1, <1>2, SoundAlways, PTL DEF Spec

(* For a client that awaits every restore before its next call, the kernel, *)
(* its queue and its reference table agree on the generation whenever the   *)
(* event loop is at rest.                                                   *)
THEOREM GenerationsStayTogether == Spec => []GenerationsAgreeApart
  <1>1. (client.apart => ApartNow) => GenerationsAgreeApart
    BY DEF ApartNow, OneGeneration, GenerationsAgreeApart, GenerationsAgree
  <1> QED BY <1>1, ApartAlways, PTL

(* For such a client an application reference expires with a restore: the   *)
(* callable that ran was registered in the memory image it ran in.          *)
THEOREM ReferencesDoExpire == Spec => [](client.apart => ReferencesExpire)
  <1>1. (client.apart => ApartNow) => (client.apart => ReferencesExpire)
    BY DEF ApartNow, OneImage, ReferencesExpire
  <1> QED BY <1>1, ApartAlways, PTL

-----------------------------------------------------------------------------
(* What the worker's memory descends from                                  *)

LEMMA NothingContinues ==
    ASSUME ~Continuing, NEW i \in DOMAIN jobs, NEW c \in Calls
    PROVE  ~Continues(jobs[i], c)
  BY JobKinds DEF Continuing

\* Most tasks leave the memory, what was taken of it, the descriptors and the
\* kernel's checkpoint as they are, and answer nothing that continues.
LEMMA DescendsTask ==
    ASSUME Sound, Descends, Task, ~Continuing', UNCHANGED checkpoints,
           worker'.at = worker.at, worker'.taken = worker.taken,
           kernel'.activeRef = kernel.activeRef,
           worker.taken # None =>
             active' = active /\ entries'[active].operation = entries[active].operation
    PROVE  Descends'
  <1>1. ~Continuing
    BY NotContinuing DEF Task
  <1>2. \A i \in DOMAIN jobs' : \A c \in Calls : ~Continues(jobs'[i], c)
    BY JobKinds DEF Continuing
  <1>3. DeltaMatchesParent'
    BY DEF Descends, DeltaMatchesParent, Delta
  <1> QED BY <1>1, <1>2, <1>3 DEF Descends

\* Nothing is taken when the active command is not a checkpoint.
LEMMA NothingTaken ==
    ASSUME Descends, active # None => entries[active].operation # "checkpoint"
    PROVE  worker.taken = None
  BY DEF Descends

LEMMA FinishEndsQuietly ==
    ASSUME NEW id, NEW receipt, Finish(id, receipt), entries[id].operation # "restore"
    PROVE  ~Continuing'
  <1>1. ~(entries[id].operation = "restore")
    OBVIOUS
  <1>2. jobs' = <<Pump>>
    BY <1>1, Zenon DEF Finish
  <1> QED BY <1>2 DEF Continuing

LEMMA ThrowEndsQuietly ==
    ASSUME NEW id, Throw(id)
    PROVE  ~Continuing'
  <1>1. jobs' = <<Pump>>
    BY Zenon DEF Throw
  <1> QED BY <1>1 DEF Continuing

LEMMA ExecuteDescends ==
    ASSUME Sound, Descends, Execute
    PROVE  Descends'
  <1>1. PICK version \in {kernel.version, kernel.version + 1} :
           /\ kernel' = [kernel EXCEPT !.version = version]
           /\ Finish(active, Receipt(version))
    BY Zenon DEF Execute
  <1>2. Task /\ entries[active].operation = "execute" /\ UNCHANGED <<worker, checkpoints>>
    BY Zenon DEF Execute, Answers, Handling
  <1>3. ~Continuing'
    BY <1>1, <1>2, FinishEndsQuietly
  <1>4. kernel'.activeRef = kernel.activeRef
    BY <1>1, KernelTypes, SMT DEF Sound, KernelRecord
  <1> QED BY <1>2, <1>3, <1>4, NothingTaken, DescendsTask

LEMMA RegisterDescends ==
    ASSUME Sound, Descends, RegisterApplication
    PROVE  Descends'
  <1>1. /\ Task /\ entries[active].operation = "registerApplication"
        /\ Finish(active, Receipt(kernel.version)) /\ UNCHANGED <<worker, checkpoints, kernel>>
    BY Zenon DEF RegisterApplication, Answers, Handling
  <1> QED BY <1>1, FinishEndsQuietly, NothingTaken, DescendsTask

LEMMA InvokeDescends ==
    ASSUME Sound, Descends, InvokeApplication
    PROVE  Descends'
  <1>1. /\ Task /\ entries[active].operation = "invokeApplication"
        /\ UNCHANGED <<checkpoints, kernel>>
    BY Zenon DEF InvokeApplication, Answers, Handling
  <1>2. /\ ~Continuing'
        /\ \/ UNCHANGED worker
           \/ \E invoked : worker' = [worker EXCEPT !.invoked = invoked]
    <2>1. CASE Resolvable(entries[active].input)
      <3>1. /\ \E invoked : worker' = [worker EXCEPT !.invoked = invoked]
            /\ Finish(active, Receipt(kernel.version))
        BY <2>1, Zenon DEF InvokeApplication
      <3> QED BY <1>1, <3>1, FinishEndsQuietly
    <2>2. CASE ~Resolvable(entries[active].input)
      <3>1. Throw(active) /\ UNCHANGED worker
        BY <2>2, Zenon DEF InvokeApplication
      <3> QED BY <3>1, ThrowEndsQuietly
    <2> QED BY <2>1, <2>2
  <1>3. worker'.at = worker.at /\ worker'.taken = worker.taken
    BY <1>2, KernelTypes, SMT DEF Sound, WorkerRecord
  <1> QED BY <1>1, <1>2, <1>3, NothingTaken, DescendsTask

\* What is taken was compared with what the kernel's checkpoint names.
LEMMA SnapshotDescends ==
    ASSUME Sound, Descends, Snapshot
    PROVE  Descends'
  <1>1. /\ Task /\ active # None /\ entries[active].operation = "checkpoint" /\ worker.taken = None
        /\ UNCHANGED <<jobs, active, entries, kernel, checkpoints>>
    BY Zenon DEF Snapshot, Answers, Handling, queue
  <1>2. ~Continuing /\ ~Continuing'
    BY <1>1 DEF Continuing, Task
  <1>3. worker.at # None => worker.at.ref = kernel.activeRef
    BY <1>1, <1>2 DEF Descends
  <1>4. /\ worker'.taken # None /\ worker'.at.ref = active
        /\ worker'.taken.baseline = None \/ worker'.taken.baseline = worker.at
    BY SnapshotSound, NoneAssumption
  <1>5. \A i \in DOMAIN jobs' : \A c \in Calls : ~Continues(jobs'[i], c)
    BY <1>2, JobKinds DEF Continuing
  <1>6. DeltaMatchesParent'
    BY <1>1 DEF Descends, DeltaMatchesParent, Delta
  <1> QED BY <1>1, <1>3, <1>4, <1>5, <1>6 DEF Descends

LEMMA SealDescends ==
    ASSUME Sound, Descends, Seal
    PROVE  Descends'
  <1>1. /\ Task /\ active # None /\ entries[active].operation = "checkpoint" /\ worker.taken # None
        /\ kernel' = [kernel EXCEPT !.activeRef = active]
        /\ worker' = [worker EXCEPT !.taken = None]
        /\ Finish(active, Receipt(kernel.version))
    BY Zenon DEF Seal, Handling
  <1>2. checkpoints' = [r \in DOMAIN checkpoints \cup {active} |->
          IF r = active
          THEN [parent |-> kernel.activeRef,
                baseline |-> IF worker.taken.baseline = None THEN None
                             ELSE worker.taken.baseline.ref,
                depth |-> worker.taken.depth,
                environment |-> kernel.environment]
          ELSE checkpoints[r]]
    BY Zenon DEF Seal
  <1>3. ~Continuing'
    BY <1>1, FinishEndsQuietly
  <1>4. \A i \in DOMAIN jobs' : \A c \in Calls : ~Continues(jobs'[i], c)
    BY <1>3, JobKinds DEF Continuing
  <1>5. /\ worker.at.ref = active
        /\ worker.taken.baseline # None => worker.taken.baseline.ref = kernel.activeRef
    BY <1>1 DEF Descends
  <1>6. PICK w \in WorkerRecord : w = worker
    BY KernelTypes DEF Sound
  <1>7. worker'.at = worker.at /\ worker'.taken = None
    BY <1>1, <1>6, UntakenWorker
  <1>8. kernel'.activeRef = active
    <2>1. active \in AnyInput
      BY DEF Sound, Queue, QueueTyped, AnyInput
    <2> QED BY <1>1, <2>1, KernelTypes, SMT DEF Sound, KernelRecord
  <1>9. DeltaMatchesParent'
    <2> SUFFICES ASSUME NEW r \in DOMAIN checkpoints', checkpoints'[r].baseline # None
                 PROVE  checkpoints'[r].baseline = checkpoints'[r].parent
      BY DEF DeltaMatchesParent, Delta
    <2>1. CASE r = active
      <3>1. checkpoints'[r] =
                [parent |-> kernel.activeRef,
                 baseline |-> IF worker.taken.baseline = None THEN None
                              ELSE worker.taken.baseline.ref,
                 depth |-> worker.taken.depth,
                 environment |-> kernel.environment]
        BY <1>2, <2>1, Zenon
      <3> QED BY <1>5, <3>1
    <2>2. CASE r # active
      <3>1. checkpoints'[r] = checkpoints[r] /\ r \in DOMAIN checkpoints
        BY <1>2, <2>2
      <3> QED BY <3>1 DEF Descends, DeltaMatchesParent, Delta
    <2> QED BY <2>1, <2>2
  <1> QED BY <1>4, <1>5, <1>7, <1>8, <1>9 DEF Descends

\* A verified restore moves the memory to the checkpoint its calls asked for.
LEMMA RestoreDescends ==
    ASSUME Sound, Alone, Descends, Restore
    PROVE  Descends'
  <1>1. /\ Task /\ active # None /\ entries[active].operation = "restore" /\ Answers("restore")
        /\ UNCHANGED checkpoints
    BY Zenon DEF Restore, Answers, Handling
  <1>2. worker.taken = None
    BY <1>1, NothingTaken
  <1>3. DeltaMatchesParent'
    BY <1>1 DEF Descends, DeltaMatchesParent, Delta
  <1>4. CASE Verified(entries[active].input)
    <2>1. /\ worker' = [worker EXCEPT !.at = [ref |-> entries[active].input,
                                             depth |-> checkpoints[entries[active].input].depth],
                                      !.image = @ + 1]
          /\ Finish(active, Receipt(kernel.version + 1))
      BY <1>4, Zenon DEF Restore
    <2>2. PICK receipt \in Receipts : receipt = Receipt(kernel.version + 1)
      BY KernelTypes, ReceiptTyped DEF Sound
    <2>3. Finish(active, receipt)
      BY <2>1, <2>2
    <2>4. /\ Continuing'
          /\ \A i \in DOMAIN jobs' : \A c \in Calls :
               Continues(jobs'[i], c) => call'[c].input = entries[active].input
      BY <1>1, <2>3, RestoreAnswered
    <2>5. worker'.at.ref = entries[active].input /\ worker'.taken = None
      <3> DEFINE at == [ref |-> entries[active].input,
                        depth |-> checkpoints[entries[active].input].depth]
      <3>1. at.ref = entries[active].input
        OBVIOUS
      <3>2. worker' = [worker EXCEPT !.at = at, !.image = @ + 1]
        BY <2>1, Zenon
      <3> HIDE DEF at
      <3>3. worker'.at = at /\ worker'.taken = worker.taken
        BY <3>2, KernelTypes, SMT DEF Sound, WorkerRecord
      <3> QED BY <1>2, <3>1, <3>3
    <2> QED BY <1>3, <2>4, <2>5 DEF Descends
  <1>5. CASE ~Verified(entries[active].input)
    <2>1. Throw(active) /\ UNCHANGED <<worker, kernel>>
      BY <1>5, Zenon DEF Restore
    <2> QED BY <1>1, <1>2, <2>1, ThrowEndsQuietly, DescendsTask
  <1> QED BY <1>4, <1>5

LEMMA InstallDescends ==
    ASSUME Sound, Descends, Install
    PROVE  Descends'
  <1>1. /\ Task /\ entries[active].operation = "install" /\ active # None
        /\ worker' = [worker EXCEPT !.at = None]
        /\ Finish(active, Receipt(kernel.version + 1)) /\ UNCHANGED checkpoints
    BY Zenon DEF Install, Answers, Handling
  <1>2. ~Continuing'
    BY <1>1, FinishEndsQuietly
  <1>3. \A i \in DOMAIN jobs' : \A c \in Calls : ~Continues(jobs'[i], c)
    BY <1>2, JobKinds DEF Continuing
  <1>4. worker'.at = None /\ worker'.taken = worker.taken
    BY <1>1, KernelTypes, SMT DEF Sound, WorkerRecord
  <1>5. worker.taken = None
    BY <1>1, NothingTaken
  <1>6. DeltaMatchesParent'
    BY <1>1 DEF Descends, DeltaMatchesParent, Delta
  <1> QED BY <1>3, <1>4, <1>5, <1>6 DEF Descends

LEMMA RefuseDescends ==
    ASSUME Sound, Descends, Refuse
    PROVE  Descends'
  <1>1. /\ Task /\ Throw(active) /\ worker.taken = None
        /\ UNCHANGED <<worker, checkpoints, kernel>>
    BY Zenon DEF Refuse
  <1> QED BY <1>1, ThrowEndsQuietly, DescendsTask

LEMMA SessionRejectsDescends ==
    ASSUME Sound, Descends, SessionRejects
    PROVE  Descends'
  <1>1. /\ Task /\ worker.taken = None /\ UNCHANGED <<worker, checkpoints, kernel>>
        /\ IF entries[active].operation = "execute"
           THEN Finish(active, [generation |-> kernel.generation, version |-> kernel.version])
           ELSE Throw(active)
    BY Zenon DEF SessionRejects
  <1>2. ~Continuing'
    <2>1. CASE entries[active].operation = "execute"
      <3>1. /\ Finish(active, [generation |-> kernel.generation, version |-> kernel.version])
            /\ entries[active].operation # "restore"
        BY <1>1, <2>1
      <3> QED BY <3>1, FinishEndsQuietly
    <2>2. CASE entries[active].operation # "execute"
      BY <1>1, <2>2, ThrowEndsQuietly
    <2> QED BY <2>1, <2>2
  <1> QED BY <1>1, <1>2, DescendsTask

LEMMA TerminateKeeps ==
    ASSUME Queue, NEW dropped, NEW cs, Terminate(dropped, cs), NEW id \in Ids
    PROVE  active' = active /\ entries'[id].operation = entries[id].operation
  <1>1. active' = active
    BY Zenon DEF Terminate
  <1>2. PICK e \in EntryRecord : e = entries[id]
    BY DEF Queue, QueueTyped
  <1>3. entries'[id] = IF \E i \in DOMAIN pending : pending[i] = id
                       THEN [e EXCEPT !.state = "terminated", !.outcome = "rejected"]
                       ELSE IF id \in dropped THEN [e EXCEPT !.outcome = "rejected"] ELSE e
    BY <1>2 DEF Terminate
  <1>4. /\ [e EXCEPT !.state = "terminated", !.outcome = "rejected"].operation = e.operation
        /\ [e EXCEPT !.outcome = "rejected"].operation = e.operation
    BY SMT DEF EntryRecord
  <1> QED BY <1>1, <1>2, <1>3, <1>4

LEMMA FaultDescends ==
    ASSUME Sound, Descends, Task, Fault, UNCHANGED <<jobs, checkpoints>>
    PROVE  Descends'
  <1>1. /\ worker' = [worker EXCEPT !.alive = FALSE]
        /\ kernel' = [kernel EXCEPT !.life = "terminated"] /\ Terminate({}, {})
    BY Zenon DEF Fault
  <1>2. ~Continuing'
    BY DEF Continuing, Task
  <1>3. kernel'.activeRef = kernel.activeRef
    BY <1>1, KernelTypes, SMT DEF Sound, KernelRecord
  <1>4. worker'.at = worker.at /\ worker'.taken = worker.taken
    BY <1>1, DeadWorker DEF Sound
  <1>5. active # None => active' = active /\ entries'[active].operation = entries[active].operation
    <2>1. active # None => active \in Ids
      BY DEF Sound, Queue, QueueTyped, MaybeId
    <2> QED BY <1>1, <2>1, TerminateKeeps DEF Sound
  <1>6. worker.taken # None => active # None
    BY DEF Descends
  <1> QED BY <1>2, <1>3, <1>4, <1>5, <1>6, DescendsTask

LEMMA WorkerFailsDescends ==
    ASSUME Sound, Descends, WorkerFails
    PROVE  Descends'
  <1>1. Task /\ Fault /\ UNCHANGED <<jobs, checkpoints>>
    BY Zenon DEF WorkerFails
  <1> QED BY <1>1, FaultDescends

LEMMA InterruptDescends ==
    ASSUME Sound, Descends, NEW id \in Ids, Interrupt(id)
    PROVE  Descends'
  <1>1. Task /\ UNCHANGED <<jobs, checkpoints>>
    BY Zenon DEF Interrupt
  <1>2. ~Continuing'
    BY <1>1 DEF Continuing, Task
  <1>3. CASE Fault
    BY <1>1, <1>3, FaultDescends
  <1>4. CASE /\ entries[id].state = "queued"
             /\ entries' = [entries EXCEPT ![id].state = "cancelled", ![id].outcome = "rejected"]
             /\ UNCHANGED <<active, kernel, worker>>
    <2>1. active # None => active \in Ids /\ active # id
      BY <1>4 DEF Sound, Queue, QueueTyped, MaybeId, Settlement
    <2>2. active # None => entries'[active] = entries[active]
      BY <1>4, <2>1 DEF Sound, Queue, QueueTyped
    <2>3. worker.taken # None => active # None
      BY DEF Descends
    <2> QED BY <1>1, <1>2, <1>4, <2>2, <2>3, DescendsTask
  <1>5. CASE kernel' = [kernel EXCEPT !.life = "interrupting"] /\ UNCHANGED <<queue, worker>>
    <2>1. kernel'.activeRef = kernel.activeRef
      BY <1>5, KernelTypes, SMT DEF Sound, KernelRecord
    <2>2. UNCHANGED <<active, entries>>
      BY <1>5, Zenon DEF queue
    <2> QED BY <1>1, <1>2, <1>5, <2>1, <2>2, DescendsTask
  <1> QED BY <1>3, <1>4, <1>5, Zenon DEF Interrupt

LEMMA CloseDescends ==
    ASSUME Sound, Descends, Close
    PROVE  Descends'
  <1>1. /\ Task /\ UNCHANGED <<jobs, checkpoints>>
        /\ kernel' = [kernel EXCEPT !.life = "closed"]
        /\ worker' = [worker EXCEPT !.alive = FALSE]
    BY Zenon DEF Close
  <1>2. ~Continuing'
    BY <1>1 DEF Continuing, Task
  <1>3. kernel'.activeRef = kernel.activeRef
    BY <1>1, KernelTypes, SMT DEF Sound, KernelRecord
  <1>4. worker'.at = worker.at /\ worker'.taken = worker.taken
    BY <1>1, DeadWorker DEF Sound
  <1>5. active # None => active' = active /\ entries'[active].operation = entries[active].operation
    <2>1. active # None => active \in Ids
      BY DEF Sound, Queue, QueueTyped, MaybeId
    <2>2. CASE UNCHANGED queue
      BY <2>2, Zenon DEF queue
    <2>3. CASE Terminate({}, {}) \/ Terminate({active}, Followers(active))
      BY <2>1, <2>3, TerminateKeeps DEF Sound
    <2> QED BY <2>2, <2>3, Zenon DEF Close
  <1>6. worker.taken # None => active # None
    BY DEF Descends
  <1> QED BY <1>1, <1>2, <1>3, <1>4, <1>5, <1>6, DescendsTask

LEMMA RunPumpDescends ==
    ASSUME Sound, Descends, RunPump
    PROVE  Descends'
  <1>1. /\ jobs # <<>> /\ Head(jobs) = Pump /\ jobs' = Tail(jobs)
        /\ UNCHANGED <<call, worker, checkpoints>>
    BY Zenon DEF RunPump, Microtask
  <1>2. kernel'.activeRef = kernel.activeRef
    <2>1. \E state : UNCHANGED kernel \/ Reports(state)
      BY Zenon DEF RunPump
    <2>2. ASSUME NEW state, Reports(state)
          PROVE  kernel'.activeRef = kernel.activeRef
      <3>1. PICK life : kernel' = [kernel EXCEPT !.life = life]
        BY <2>2 DEF Reports
      <3> QED BY <3>1, KernelTypes, SMT DEF Sound, KernelRecord
    <2> QED BY <2>1, <2>2
  <1>3. Continuing <=> Continuing'
    BY <1>1, PumpContinues DEF Sound
  <1>4. \A i \in DOMAIN jobs' : \A c \in Calls :
          Continues(jobs'[i], c) => worker'.taken = None /\ worker'.at.ref = call'[c].input
    <2>1. \A i \in DOMAIN jobs' : i + 1 \in DOMAIN jobs /\ jobs'[i] = jobs[i + 1]
      BY <1>1, TailJobs DEF Sound
    <2> QED BY <1>1, <2>1 DEF Descends
  <1>5. worker.taken # None => /\ active' = active /\ active # None
                               /\ entries' = entries
    <2>1. active # None => UNCHANGED <<entries, active>>
      BY Zenon DEF RunPump
    <2> QED BY <2>1 DEF Descends
  <1>6. DeltaMatchesParent'
    BY <1>1 DEF Descends, DeltaMatchesParent, Delta
  <1> QED BY <1>1, <1>2, <1>3, <1>4, <1>5, <1>6 DEF Descends

LEMMA SettleRestoreDescends ==
    ASSUME Sound, Descends, NEW c \in Calls, SettleRestore(c)
    PROVE  Descends'
  <1>1. /\ jobs # <<>> /\ Head(jobs) = Settle(c) /\ jobs' = Append(Tail(jobs), Resume(c))
        /\ UNCHANGED <<call, kernel, worker, checkpoints>>
    BY Zenon DEF SettleRestore, Microtask, queue
  <1>2. Continuing'
    BY <1>1, SettleContinues DEF Sound
  <1>3. 1 \in DOMAIN jobs /\ jobs[1] = Settle(c)
    BY <1>1, TailJobs DEF Sound
  <1>4. worker.taken = None /\ worker.at.ref = call[c].input
    BY <1>3 DEF Descends, Continues
  <1>5. ASSUME NEW i \in DOMAIN jobs', NEW d \in Calls, Continues(jobs'[i], d)
        PROVE  worker.at.ref = call[d].input
    <2>1. /\ Tail(jobs) \in Seq(Jobs) /\ Resume(c) \in Jobs
          /\ \A k \in DOMAIN Tail(jobs) : k + 1 \in DOMAIN jobs /\ Tail(jobs)[k] = jobs[k + 1]
      BY <1>1, TailJobs, JobKinds DEF Sound
    <2>2. CASE jobs'[i] = Resume(c)
      <3>1. d = c
        BY <1>5, <2>2, JobKinds
      <3> QED BY <1>4, <3>1
    <2>3. CASE jobs'[i] # Resume(c)
      <3>1. i \in DOMAIN Tail(jobs) /\ jobs'[i] = Tail(jobs)[i]
        BY <1>1, <2>1, <2>3
      <3>2. i + 1 \in DOMAIN jobs /\ jobs[i + 1] = jobs'[i]
        BY <2>1, <3>1
      <3> QED BY <1>5, <3>2 DEF Descends
    <2> QED BY <2>2, <2>3
  <1>6. DeltaMatchesParent'
    BY <1>1 DEF Descends, DeltaMatchesParent, Delta
  <1> QED BY <1>1, <1>2, <1>4, <1>5, <1>6 DEF Descends

\* The kernel's checkpoint becomes the one the memory was restored to.
LEMMA ResumeDescends ==
    ASSUME Sound, Alone, Descends, NEW c \in Calls, ResumeRestore(c)
    PROVE  Descends'
  <1>1. /\ jobs # <<>> /\ Head(jobs) = Resume(c) /\ jobs' = Tail(jobs)
        /\ UNCHANGED <<worker, checkpoints>>
    BY Zenon DEF ResumeRestore, Microtask
  <1>2. /\ 1 \in DOMAIN jobs /\ jobs[1] = Resume(c)
        /\ \A i \in DOMAIN jobs' : i + 1 \in DOMAIN jobs /\ jobs'[i] = jobs[i + 1]
    BY <1>1, TailJobs DEF Sound
  <1>3. worker.taken = None /\ worker.at.ref = call[c].input
    BY <1>2 DEF Descends, Continues
  <1>4. active = None
    BY <1>2, JobKinds DEF Alone, Continuing
  <1>5. kernel'.activeRef = call[c].input
    <2>1. PICK next \in Nat : next = kernel.generation + 1
      BY KernelTypes DEF Sound
    <2>2. PICK input \in AnyInput : input = call[c].input
      <3>1. PICK q \in CallRecord : q = call[c]
        BY DEF Sound, Queue, QueueTyped
      <3>2. q.input \in AnyInput
        BY SMT DEF CallRecord
      <3> QED BY <3>1, <3>2
    <2>3. kernel' = [kernel EXCEPT !.generation = next, !.activeRef = input]
      BY <1>4, <2>1, <2>2, Zenon DEF ResumeRestore
    <2> QED BY <2>2, <2>3, KernelTypes, SMT DEF Sound, KernelRecord
  <1>6. \A d \in Calls : call'[d].input = call[d].input
    BY ResumeSound DEF CallsAge
  <1>7. DeltaMatchesParent'
    BY <1>1 DEF Descends, DeltaMatchesParent, Delta
  <1> QED BY <1>1, <1>2, <1>3, <1>5, <1>6, <1>7 DEF Descends

LEMMA SubmitKeeps ==
    ASSUME Sound, NEW c \in Calls, Submit(c), active # None
    PROVE  entries'[active].operation = entries[active].operation
  <1>1. active \in Ids /\ entries[active].state = "executing"
    BY DEF Sound, Queue, QueueTyped, MaybeId, Settlement
  <1>2. PICK id \in Ids : id = CommandId(c)
    BY DEF Ids
  <1>3. PICK e \in EntryRecord : e = entries[id]
    BY DEF Sound, Queue, QueueTyped
  <1>4. entries \in [Ids -> EntryRecord]
    BY DEF Sound, Queue, QueueTyped
  <1>5. CASE UNCHANGED entries
    BY <1>5
  <1>6. CASE entries[id].state = "none" /\ entries' = [entries EXCEPT ![id] = Entry(c)]
    BY <1>1, <1>4, <1>6
  <1>7. CASE entries' = [entries EXCEPT ![id].subscribers = Append(@, c)]
    <2> DEFINE q == [e EXCEPT !.subscribers = Append(@, c)]
    <2>1. q.operation = e.operation
      BY SubscriberFields
    <2>2. entries' = [entries EXCEPT ![id] = q]
      BY <1>3, <1>7
    <2> HIDE DEF q
    <2> QED BY <1>1, <1>3, <1>4, <2>1, <2>2
  <1> QED BY <1>2, <1>5, <1>6, <1>7, Zenon DEF Submit, Admit

LEMMA SubmitDescends ==
    ASSUME OneRestorePerId, Sound, Descends, NEW c \in Calls, Submit(c)
    PROVE  Descends'
  <1>1. /\ Task /\ line # <<>> /\ Head(line) = c
        /\ UNCHANGED <<active, kernel, worker, checkpoints>>
    BY Zenon DEF Submit
  <1>2. ~Continuing'
    <2> SUFFICES ASSUME Continuing' PROVE FALSE
      OBVIOUS
    <2>1. Operation(c) = "restore" /\ entries[CommandId(c)].state # "none"
      BY SubmitContinues
    <2>2. call[c].stage = "admission"
      <3>1. line \in Seq(Calls) /\ \A i \in DOMAIN line : call[line[i]].stage = "admission"
        BY DEF Sound, Queue, QueueTyped, InTurn
      <3>2. 1 \in DOMAIN line /\ line[1] = c
        BY <1>1, <3>1
      <3> QED BY <3>1, <3>2
    <2>3. PICK o \in Calls : call[o].stage # "admission" /\ CommandId(o) = CommandId(c)
      <3>1. CommandId(c) \in Ids
        BY DEF Ids
      <3> QED BY <2>1, <3>1 DEF Sound, Queue, Settlement, Followed, Submitted, Admitted
    <2> QED BY <2>1, <2>2, <2>3 DEF OneRestorePerId
  <1>3. active # None => entries'[active].operation = entries[active].operation
    BY SubmitKeeps
  <1>4. worker.taken # None => active # None
    BY DEF Descends
  <1> QED BY <1>1, <1>2, <1>3, <1>4, DescendsTask

LEMMA CallDescends ==
    ASSUME Sound, Descends, NEW c \in Calls, Call(c)
    PROVE  Descends'
  <1>1. Task /\ UNCHANGED <<jobs, active, entries, kernel, worker, checkpoints>>
    BY Zenon DEF Call, queue
  <1>2. ~Continuing'
    BY <1>1 DEF Continuing, Task
  <1> QED BY <1>1, <1>2, DescendsTask

LEMMA IdleDescends ==
    ASSUME Descends, UNCHANGED vars
    PROVE  Descends'
  <1>1. UNCHANGED <<call, jobs, active, entries, kernel, worker, checkpoints>>
    BY Zenon DEF vars, queue
  <1> QED BY <1>1 DEF Descends, DeltaMatchesParent, Delta, Continuing

LEMMA InitDescends ==
    ASSUME Init
    PROVE  Descends
  <1>1. jobs = <<>> /\ worker.taken = None /\ worker.at = None /\ checkpoints = [r \in {} |-> None]
    BY DEF Init
  <1> QED BY <1>1 DEF Descends, DeltaMatchesParent

\* Nothing takes back a checkpoint that failed to be sealed.
LEMMA UnsealedStays ==
    ASSUME Sound, [Next]_vars, unsealed' = 0
    PROVE  unsealed = 0 /\ ~SealFails
  <1>1. CASE SealFails
    <2>1. unsealed' = unsealed + 1 /\ unsealed \in Nat
      BY <1>1 DEF SealFails, Sound, WorldTyped
    <2> QED BY <2>1
  <1>2. CASE ~SealFails
    <2>1. UNCHANGED unsealed
      <3>1. CASE Microtasks
        BY <3>1, Zenon DEF Microtasks, RunPump, SettleRestore, ResumeRestore, world
      <3>2. CASE Handler
        BY <1>2, <3>2, Zenon DEF Handler, Execute, RegisterApplication, InvokeApplication,
           Snapshot, Seal, Restore, Install, Refuse, SessionRejects, world
      <3>3. CASE \E c \in Calls : Call(c) \/ Submit(c)
        BY <3>3, Zenon DEF Call, Submit, world
      <3>4. CASE \E id \in Ids : Interrupt(id)
        BY <3>4, Zenon DEF Interrupt, world
      <3>5. CASE WorkerFails \/ Close
        BY <3>5, Zenon DEF WorkerFails, Close, world
      <3>6. CASE UNCHANGED vars
        BY <3>6, Zenon DEF vars, world
      <3> QED BY <3>1, <3>2, <3>3, <3>4, <3>5, <3>6 DEF Next
    <2> QED BY <1>2, <2>1
  <1> QED BY <1>1, <1>2

LEMMA DescendsStep ==
    ASSUME OneRestorePerId, Sound, ApartNow, Descends, [Next]_vars, ~SealFails
    PROVE  Descends'
  <1>1. CASE Microtasks
    BY <1>1, RunPumpDescends, SettleRestoreDescends, ResumeDescends DEF Microtasks, ApartNow
  <1>2. CASE Handler
    BY <1>2, ExecuteDescends, RegisterDescends, InvokeDescends, SnapshotDescends, SealDescends,
       RestoreDescends, InstallDescends, RefuseDescends, SessionRejectsDescends
       DEF Handler, ApartNow
  <1>3. CASE \E c \in Calls : Call(c) \/ Submit(c)
    BY <1>3, CallDescends, SubmitDescends
  <1>4. CASE \E id \in Ids : Interrupt(id)
    BY <1>4, InterruptDescends
  <1>5. CASE WorkerFails \/ Close
    BY <1>5, WorkerFailsDescends, CloseDescends
  <1>6. CASE UNCHANGED vars
    BY <1>6, IdleDescends
  <1> QED BY <1>1, <1>2, <1>3, <1>4, <1>5, <1>6 DEF Next

LEMMA LineageAlways == Spec => []Lineage
  <1>1. Init => Lineage
    BY InitDescends DEF Lineage
  <1>2. Sound /\ (client.apart => ApartNow) /\ Lineage /\ [Next]_vars => Lineage'
    <2> SUFFICES ASSUME Sound, client.apart => ApartNow, Lineage, [Next]_vars,
                        client'.apart, OneRestorePerId, unsealed' = 0
                 PROVE  Descends'
      BY DEF Lineage
    <2>1. ApartNow /\ Descends /\ ~SealFails
      BY ClientKept, UnsealedStays DEF Lineage
    <2> QED BY <2>1, DescendsStep
  <1> QED BY <1>1, <1>2, SoundAlways, ApartAlways, PTL DEF Spec

(* While no checkpoint failed to be sealed, the pages of every delta were   *)
(* compared with the very checkpoint its descriptor names as the parent,    *)
(* for a client that awaits its restores and never repeats one's id.        *)
THEOREM DeltasMatchTheirParents ==
    OneRestorePerId /\ Spec => [](client.apart => SealedDeltaMatchesParent)
  <1>1. OneRestorePerId => [](Lineage => (client.apart => SealedDeltaMatchesParent))
    <2> SUFFICES ASSUME OneRestorePerId
                 PROVE  [](Lineage => (client.apart => SealedDeltaMatchesParent))
      OBVIOUS
    <2>1. Lineage => (client.apart => SealedDeltaMatchesParent)
      BY DEF Lineage, Descends, SealedDeltaMatchesParent
    <2> QED BY <2>1, PTL
  <1> QED BY <1>1, LineageAlways, PTL

=============================================================================
