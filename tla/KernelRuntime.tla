--------------------------- MODULE KernelRuntime ---------------------------
(***************************************************************************)
(* The worker-backed Python kernel: serialized command admission, receipts *)
(* that survive a repeated command id, restore with its generation fence,  *)
(* application references and the checkpoint lineage.                      *)
(*                                                                         *)
(*   src/src/runtime/kernel/cpythonWasiKernel.js     the facade            *)
(*   src/src/runtime/kernel/kernelCommandQueue.js    the queue             *)
(*   src/src/runtime/kernel/applicationReference.js  the reference table   *)
(*                                                                         *)
(* Everything runs on one event loop.  `jobs` is its microtask queue, in   *)
(* order; a task (a client's call, a digest that is ready, a message of    *)
(* the worker) runs only when no microtask is left.  The order of the      *)
(* microtasks after a restore is what this module is about.                *)
(***************************************************************************)
EXTENDS Naturals, Sequences, FiniteSets

CONSTANTS
    Calls,          \* the calls clients make, each at most once
    CommandId(_),   \* the command id a call carries; calls may share one
    Operation(_),   \* the operation a call asks for
    None,
    Clients         \* the client programs: the calls one makes, whether it
                    \* keeps a restore apart from its other calls, and the
                    \* bounds on refusals and failures that befall it

Ids == {CommandId(c) : c \in Calls}

Operations == {"execute", "registerApplication", "invokeApplication",
               "checkpoint", "restore", "install"}

ASSUME OperationAssumption ==
    \A c \in Calls : Operation(c) \in Operations
ASSUME ClientAssumption ==
    Clients \subseteq [calls : SUBSET Calls, apart : BOOLEAN,
                       maxFailures : Nat, maxSealFailures : Nat]

\* What the worker has captured and not yet sealed; None is nothing of the kind.
Base == [ref : Ids, depth : Nat]
Capture == [baseline : Base \cup {None}, depth : Nat]
ASSUME NoneAssumption == None \notin Capture

VARIABLES
    client,         \* the program that runs
    call,           \* what each call waits for and what it got
    line,           \* #admissionTail: calls waiting to be admitted, in order
    jobs,           \* the microtask queue
    entries,        \* the queue's entries, one per command id seen
    pending, active, terminal,      \* ... its pending ids, active id, end
    queueGeneration,
    kernel,         \* the facade's own fields
    checkpoints,    \* the descriptors it sealed
    references,     \* the application reference table
    worker,         \* the Python worker: its memory's ancestry
    refused, unsealed               \* how often the environment failed

world == <<client, refused, unsealed>>
queue == <<entries, pending, active, terminal, queueGeneration>>
vars == <<call, line, jobs, queue, kernel, checkpoints, references, worker,
          world>>

Unknown == [state |-> "none", owner |-> None, operation |-> None,
            input |-> None, subscribers |-> <<>>, outcome |-> "pending",
            receipt |-> None]

Entry(c) == [state |-> "queued", owner |-> c, operation |-> Operation(c),
             input |-> call[c].input, subscribers |-> <<c>>,
             outcome |-> "pending", receipt |-> None]

Pump == [job |-> "pump"]
Settle(c) == [job |-> "settle", call |-> c]
Resume(c) == [job |-> "resume", call |-> c]

Task == jobs = <<>>                     \* the microtask queue is drained
Microtask(j) == jobs # <<>> /\ Head(jobs) = j

Outstanding == {c \in Calls : call[c].stage \in
                  {"admission", "subscribed", "resuming"}}
RestoreOutstanding == \E c \in Outstanding : Operation(c) = "restore"

-----------------------------------------------------------------------------
(* Settling an entry's promise                                             *)

\* Calls whose promise follows the entry's; a restore still has work to do.
Followers(id) == {c \in Calls : /\ call[c].stage = "subscribed"
                                /\ CommandId(c) = id}

Reject(cs) == [c \in Calls |-> IF c \in cs
                 THEN [call[c] EXCEPT !.stage = "rejected"] ELSE call[c]]

Resolve(cs, receipt) ==
    [c \in Calls |->
       IF c \in cs
       THEN IF Operation(c) = "restore"
            THEN [call[c] EXCEPT !.stage = "resuming", !.receipt = receipt]
            ELSE [call[c] EXCEPT !.stage = "returned", !.receipt = receipt]
       ELSE call[c]]

SettleJobs(cs) == [i \in DOMAIN cs |-> Settle(cs[i])]

\* pump() after its handler: resolve or reject, active = null, pump again.
Finish(id, receipt) ==
    /\ entries' = [entries EXCEPT
                     ![id].state = "completed",
                     ![id].outcome = IF @ = "pending" THEN "resolved" ELSE @,
                     ![id].receipt = receipt]
    /\ call' = Resolve(Followers(id), receipt)
    /\ jobs' = IF /\ entries[id].operation = "restore"
                  /\ entries[id].outcome = "pending"
               THEN Append(SettleJobs(entries[id].subscribers), Pump)
               ELSE <<Pump>>
    /\ active' = None

Throw(id) ==
    /\ entries' = [entries EXCEPT
                     ![id].state = "failed",
                     ![id].outcome = IF @ = "pending" THEN "rejected" ELSE @]
    /\ call' = Reject(Followers(id))
    /\ jobs' = <<Pump>>
    /\ active' = None

-----------------------------------------------------------------------------
(* #submit(): admission in invocation order, then KernelCommandQueue.submit *)

\* The command's generation is read when its turn comes, before its digest.
TakesTurn(f, l) ==
    IF l = <<>> THEN f
    ELSE [f EXCEPT ![Head(l)].generation =
                      IF @ = None THEN kernel.generation ELSE @]

Inputs(c) == IF Operation(c) = "restore" THEN DOMAIN checkpoints
             ELSE IF Operation(c) = "invokeApplication"
                  THEN references.issued
                  ELSE {None}

Call(c) ==
    /\ Task
    /\ call[c].stage = "idle"
    /\ c \in client.calls
    /\ client.apart => /\ ~RestoreOutstanding
                       /\ Operation(c) = "restore" => Outstanding = {}
    /\ \E input \in Inputs(c), named \in {None} \cup 0..kernel.generation :
          IF kernel.life \in {"closed", "terminated"}
          THEN /\ call' = [call EXCEPT ![c].stage = "rejected"]
               /\ UNCHANGED line
          ELSE LET called == [call EXCEPT
                     ![c].stage = "admission", ![c].input = input,
                     ![c].generation = named,
                     ![c].turn = 1 + Cardinality(
                                   {d \in Calls : call[d].stage # "idle"})]
               IN  /\ call' = IF line = <<>> THEN TakesTurn(called, <<c>>)
                                             ELSE called
                   /\ line' = Append(line, c)
    /\ UNCHANGED <<jobs, queue, kernel, checkpoints, references, worker, world>>

Admit(c, known) ==      \* accepted, or answered by the entry of the same id
    LET id == CommandId(c)
        subscribed == [call EXCEPT ![c].stage = "subscribed"]
    IN  IF ~known
        THEN /\ entries' = [entries EXCEPT ![id] = Entry(c)]
             /\ pending' = Append(pending, id)
             /\ jobs' = <<Pump>>
             /\ call' = TakesTurn(subscribed, Tail(line))
        ELSE /\ entries' = [entries EXCEPT ![id].subscribers = Append(@, c)]
             /\ UNCHANGED pending
             /\ CASE entries[id].outcome = "pending" ->
                        jobs' = jobs /\ call' = TakesTurn(subscribed, Tail(line))
                  [] entries[id].outcome = "rejected" ->
                        jobs' = jobs /\ call' = TakesTurn(Reject({c}), Tail(line))
                  [] OTHER ->
                        /\ jobs' = IF Operation(c) = "restore"
                                   THEN <<Settle(c)>> ELSE <<>>
                        /\ call' = TakesTurn(Resolve({c}, entries[id].receipt),
                                             Tail(line))

\* Mutants: admission does not wait for the previous call; a known id is not
\* looked up.
SubmitUnordered(c) ==
    /\ Task
    /\ \E i \in DOMAIN line : line[i] = c
    /\ line' = SelectSeq(line, LAMBDA d : d # c)
    /\ ~terminal /\ entries[CommandId(c)].state = "none"
    /\ entries' = [entries EXCEPT ![CommandId(c)] = Entry(c)]
    /\ pending' = Append(pending, CommandId(c))
    /\ jobs' = <<Pump>>
    /\ call' = [call EXCEPT ![c].stage = "subscribed"]
    /\ UNCHANGED <<active, terminal, queueGeneration, kernel, checkpoints,
                   references, worker, world>>

SubmitWithoutLookup(c) ==
    /\ Task
    /\ line # <<>> /\ Head(line) = c
    /\ line' = Tail(line)
    /\ ~terminal /\ call[c].generation = queueGeneration
    /\ Admit(c, FALSE)
    /\ UNCHANGED <<active, terminal, queueGeneration, kernel, checkpoints,
                   references, worker, world>>

Submit(c) ==            \* the digest of the call at the head is ready
    LET id == CommandId(c)
        known == entries[id].state # "none"
    IN  /\ Task
        /\ line # <<>> /\ Head(line) = c
        /\ line' = Tail(line)
        /\ IF \/ terminal
              \/ call[c].generation # queueGeneration
              \/ known /\ <<entries[id].operation, entries[id].input>>
                              # <<Operation(c), call[c].input>>
           THEN /\ call' = TakesTurn(Reject({c}), Tail(line))
                /\ UNCHANGED <<jobs, entries, pending>>
           ELSE Admit(c, known)
        /\ UNCHANGED <<active, terminal, queueGeneration, kernel, checkpoints,
                       references, worker, world>>

-----------------------------------------------------------------------------
(* Microtasks                                                              *)

Reports(state) ==       \* onState
    kernel' = [kernel EXCEPT
                 !.life = IF @ \in {"closed", "terminated", "interrupting"}
                          THEN @ ELSE state]

RunPump ==              \* pump() up to the handler's first await
    /\ Microtask(Pump)
    /\ jobs' = Tail(jobs)
    /\ IF active # None \/ terminal
       THEN UNCHANGED <<entries, pending, active, kernel>>
       ELSE IF pending = <<>>
       THEN Reports("ready") /\ UNCHANGED <<entries, pending, active>>
       ELSE /\ active' = Head(pending)
            /\ pending' = Tail(pending)
            /\ entries' = [entries EXCEPT ![Head(pending)].state = "executing"]
            /\ Reports("executing")
    /\ UNCHANGED <<call, line, terminal, queueGeneration, checkpoints,
                   references, worker, world>>

SettleRestore(c) ==     \* the promise of #submit() follows the entry's
    /\ Microtask(Settle(c))
    /\ jobs' = Append(Tail(jobs), Resume(c))
    /\ UNCHANGED <<call, line, queue, kernel, checkpoints, references, worker,
                   world>>

\* Mutant: the reference table keeps its generation and its references.
ResumeWithoutReferences(c) ==
    /\ Microtask(Resume(c))
    /\ jobs' = Tail(jobs)
    /\ kernel' = [kernel EXCEPT !.generation = @ + 1,
                                !.activeRef = call[c].input]
    /\ queueGeneration' = kernel.generation + 1
    /\ call' = [call EXCEPT ![c].stage = "returned"]
    /\ UNCHANGED <<line, entries, pending, active, terminal, checkpoints,
                   references, worker, world>>

(* restore() after `await this.#submit(...)`: the generation advances, the  *)
(* queue's with it unless a command is active by now, then the table's.     *)
ResumeRestore(c) ==
    LET next == kernel.generation + 1
        stale == {d \in Calls : \E i \in DOMAIN pending :
                     d \in Followers(pending[i])}
    IN  /\ Microtask(Resume(c))
        /\ jobs' = Tail(jobs)
        /\ IF active # None
           THEN /\ kernel' = [kernel EXCEPT !.generation = next]
                /\ call' = Reject({c})
                /\ UNCHANGED <<entries, pending, queueGeneration, references>>
           ELSE /\ kernel' = [kernel EXCEPT !.generation = next,
                                            !.activeRef = call[c].input]
                /\ queueGeneration' = next
                /\ entries' = [id \in Ids |->
                     IF \E i \in DOMAIN pending : pending[i] = id
                     THEN [entries[id] EXCEPT !.state = "failed",
                                              !.outcome = "rejected"]
                     ELSE entries[id]]
                /\ pending' = <<>>
                /\ references' = [references EXCEPT !.generation = next,
                                                    !.live = {}]
                /\ call' = [Reject(stale) EXCEPT
                              ![c].stage = "returned",
                              ![c].receipt = [@ EXCEPT !.generation = next]]
        /\ UNCHANGED <<line, active, terminal, checkpoints, worker, world>>

-----------------------------------------------------------------------------
(* The handlers, from the worker's answer to the receipt                   *)

Handling(operation) ==
    /\ Task
    /\ active # None
    /\ entries[active].operation = operation

Answers(operation) == Handling(operation) /\ worker.alive

Receipt(version) == [generation |-> kernel.generation, version |-> version]

(* Also setValue.  An exception in Python gives a receipt too, but leaves   *)
(* the state version as it was.                                            *)
Execute ==
    /\ Answers("execute")
    /\ \E version \in {kernel.version, kernel.version + 1} :
          /\ kernel' = [kernel EXCEPT !.version = version]
          /\ Finish(active, Receipt(version))
    /\ UNCHANGED <<line, pending, terminal, queueGeneration, checkpoints,
                   references, worker, world>>

RegisterApplication ==
    LET ref == [name |-> active, generation |-> references.generation,
                image |-> worker.image]
    IN  /\ Answers("registerApplication")
        /\ references' = [references EXCEPT !.live = @ \cup {ref},
                                            !.issued = @ \cup {ref}]
        /\ Finish(active, Receipt(kernel.version))
        /\ UNCHANGED <<line, pending, terminal, queueGeneration, kernel,
                       checkpoints, worker, world>>

\* Mutant: a reference is looked up by its name only.
ResolvableByName(ref) == \E r \in references.issued : r.name = ref.name

Resolvable(ref) ==
    ref.generation = references.generation /\ ref \in references.live

\* The callable is looked up by name in the worker's present memory.
InvokeApplication ==
    LET ref == entries[active].input
    IN  /\ Answers("invokeApplication")
        /\ IF Resolvable(ref)
           THEN /\ worker' = [worker EXCEPT !.invoked =
                                 [registered |-> ref.image, ran |-> worker.image]]
                /\ Finish(active, Receipt(kernel.version))
           ELSE Throw(active) /\ UNCHANGED worker
        /\ UNCHANGED <<line, pending, terminal, queueGeneration, kernel,
                       checkpoints, references, world>>

(* session.checkpoint(): the worker takes a page delta against its active   *)
(* snapshot, or a full image after memory growth, and makes it active.      *)
Snapshot ==
    /\ Answers("checkpoint")
    /\ worker.taken = None
    /\ \E base \in {None, worker.at} :
          LET depth == IF base = None THEN 0 ELSE base.depth + 1
          IN  worker' = [worker EXCEPT
                !.at = [ref |-> active, depth |-> depth],
                !.taken = [baseline |-> base, depth |-> depth]]
    /\ UNCHANGED <<call, line, jobs, queue, kernel, checkpoints, references,
                   world>>

Seal ==                 \* sealKernelCheckpoint() and the rest of checkpoint()
    /\ Handling("checkpoint")
    /\ worker.taken # None
    /\ checkpoints' = [r \in DOMAIN checkpoints \cup {active} |->
          IF r = active
          THEN [parent |-> kernel.activeRef,
                baseline |-> IF worker.taken.baseline = None THEN None
                             ELSE worker.taken.baseline.ref,
                depth |-> worker.taken.depth,
                environment |-> kernel.environment]
          ELSE checkpoints[r]]
    /\ kernel' = [kernel EXCEPT !.activeRef = active]
    /\ worker' = [worker EXCEPT !.taken = None]
    /\ Finish(active, Receipt(kernel.version))
    /\ UNCHANGED <<line, pending, terminal, queueGeneration, references, world>>

SealFails ==            \* artifactStore.put() throws
    /\ Handling("checkpoint")
    /\ worker.taken # None
    /\ unsealed < client.maxSealFailures
    /\ unsealed' = unsealed + 1
    /\ worker' = [worker EXCEPT !.taken = None]
    /\ Throw(active)
    /\ UNCHANGED <<line, pending, terminal, queueGeneration, kernel,
                   checkpoints, references, client, refused>>

Delta(ref) == checkpoints[ref].baseline # None

(* verifyKernelCheckpointDescriptor(): the environment of every descriptor  *)
(* of the chain, and the depth of every delta over its recorded parent.     *)
Verified(ref) ==
    LET ok[r \in DOMAIN checkpoints] ==
          /\ checkpoints[r].environment = kernel.environment
          /\ Delta(r) =>
               /\ checkpoints[r].parent # None
               /\ checkpoints[r].depth =
                     checkpoints[checkpoints[r].parent].depth + 1
               /\ ok[checkpoints[r].parent]
    IN  ok[ref]

Restore ==              \* timeTravel() has answered
    LET ref == entries[active].input
    IN  /\ Answers("restore")
        /\ IF Verified(ref)
           THEN /\ worker' = [worker EXCEPT
                                !.at = [ref |-> ref,
                                        depth |-> checkpoints[ref].depth],
                                !.image = @ + 1]
                /\ kernel' = [kernel EXCEPT !.version = @ + 1]
                /\ Finish(active, Receipt(kernel.version + 1))
           ELSE Throw(active) /\ UNCHANGED <<worker, kernel>>
        /\ UNCHANGED <<line, pending, terminal, queueGeneration, checkpoints,
                       references, world>>

\* Mutant: the worker's checkpoint lineage is not reset.
InstallKeepsLineage ==
    /\ Answers("install")
    /\ kernel' = [kernel EXCEPT !.environment = @ + 1, !.activeRef = None,
                                !.version = @ + 1]
    /\ Finish(active, Receipt(kernel.version + 1))
    /\ UNCHANGED <<line, pending, terminal, queueGeneration, checkpoints,
                   references, worker, world>>

Install ==              \* a new environment starts a new lineage
    /\ Answers("install")
    /\ kernel' = [kernel EXCEPT !.environment = @ + 1, !.activeRef = None,
                                !.version = @ + 1]
    /\ worker' = [worker EXCEPT !.at = None]
    /\ Finish(active, Receipt(kernel.version + 1))
    /\ UNCHANGED <<line, pending, terminal, queueGeneration, checkpoints,
                   references, world>>

(* The deadline, the expected state digest, the input or the checkpoint     *)
(* boundary forbids the command; it is refused before the worker is asked.  *)
Refuse ==
    /\ Task
    /\ active # None
    /\ worker.taken = None
    /\ refused < client.maxFailures
    /\ refused' = refused + 1
    /\ Throw(active)
    /\ UNCHANGED <<line, pending, terminal, queueGeneration, kernel,
                   checkpoints, references, worker, client, unsealed>>

\* The session of a dead worker rejects; execute() makes a receipt of it.
SessionRejects ==
    /\ Task
    /\ active # None
    /\ ~worker.alive /\ worker.taken = None
    /\ IF entries[active].operation = "execute"
       THEN Finish(active, [generation |-> kernel.generation,
                            version |-> kernel.version])
       ELSE Throw(active)
    /\ UNCHANGED <<line, pending, terminal, queueGeneration, kernel,
                   checkpoints, references, worker, world>>

-----------------------------------------------------------------------------
(* terminate(), interrupt(), close()                                       *)

\* Mutant: the pending commands are dropped without an answer.
TerminateSilently(dropped, cs) ==
    /\ terminal' = TRUE
    /\ pending' = <<>>
    /\ entries' = entries
    /\ call' = Reject(cs)
    /\ UNCHANGED <<active, queueGeneration>>

Terminate(dropped, cs) ==
    /\ terminal' = TRUE
    /\ pending' = <<>>
    /\ entries' = [id \in Ids |->
         IF \E i \in DOMAIN pending : pending[i] = id
         THEN [entries[id] EXCEPT !.state = "terminated", !.outcome = "rejected"]
         ELSE IF id \in dropped
              THEN [entries[id] EXCEPT !.outcome = "rejected"]
              ELSE entries[id]]
    /\ call' = Reject(cs \cup {c \in Calls : \E i \in DOMAIN pending :
                                 c \in Followers(pending[i])})
    /\ UNCHANGED <<active, queueGeneration>>

Fault ==                \* #fault(): pending commands go, the active one ends
    /\ worker' = [worker EXCEPT !.alive = FALSE]
    /\ kernel' = [kernel EXCEPT !.life = "terminated"]
    /\ Terminate({}, {})

WorkerFails ==
    /\ Task
    /\ worker.alive
    /\ refused < client.maxFailures
    /\ refused' = refused + 1
    /\ Fault
    /\ UNCHANGED <<line, jobs, checkpoints, references, client, unsealed>>

\* The pending ids without the one at i.
Without(s, i) == [j \in 1..(Len(s) - 1) |-> IF j < i THEN s[j] ELSE s[j + 1]]

Interrupt(id) ==
    /\ Task
    /\ \/ /\ entries[id].state = "queued"           \* cancel()
          /\ entries' = [entries EXCEPT ![id].state = "cancelled",
                                        ![id].outcome = "rejected"]
          /\ \E i \in DOMAIN pending :
                /\ pending[i] = id
                /\ pending' = Without(pending, i)
          /\ call' = Reject(Followers(id))
          /\ UNCHANGED <<active, terminal, queueGeneration, kernel, worker>>
       \/ /\ entries[id].state = "executing"        \* session.terminate()
          /\ worker.alive
          /\ Fault
       \/ /\ entries[id].state = "executing"
          /\ ~worker.alive
          /\ kernel' = [kernel EXCEPT !.life = "interrupting"]
          /\ UNCHANGED <<call, queue, worker>>
    /\ UNCHANGED <<line, jobs, checkpoints, references, world>>

Close ==
    /\ Task
    /\ kernel.life # "closed"
    /\ kernel' = [kernel EXCEPT !.life = "closed"]
    /\ worker' = [worker EXCEPT !.alive = FALSE]
    /\ references' = [references EXCEPT !.live = {}]
    /\ IF terminal
       THEN UNCHANGED <<call, queue>>
       ELSE IF active = None THEN Terminate({}, {})
            ELSE Terminate({active}, Followers(active))
    /\ UNCHANGED <<line, jobs, checkpoints, world>>

-----------------------------------------------------------------------------
Init ==
    /\ client \in Clients
    /\ call = [c \in Calls |-> [stage |-> "idle", turn |-> 0,
                                generation |-> None, input |-> None,
                                receipt |-> None]]
    /\ line = <<>>
    /\ jobs = <<>>
    /\ entries = [id \in Ids |-> Unknown]
    /\ pending = <<>>
    /\ active = None
    /\ terminal = FALSE
    /\ queueGeneration = 0
    /\ kernel = [life |-> "ready", generation |-> 0, version |-> 0,
                 environment |-> 0, activeRef |-> None]
    /\ checkpoints = [r \in {} |-> None]
    /\ references = [generation |-> 0, live |-> {}, issued |-> {}]
    /\ worker = [alive |-> TRUE, at |-> None, taken |-> None, image |-> 0,
                 invoked |-> [registered |-> 0, ran |-> 0]]
    /\ refused = 0
    /\ unsealed = 0

Microtasks ==
    RunPump \/ \E c \in Calls : SettleRestore(c) \/ ResumeRestore(c)

Handler ==
    \/ Execute \/ RegisterApplication \/ InvokeApplication
    \/ Snapshot \/ Seal \/ SealFails \/ Restore \/ Install
    \/ Refuse \/ SessionRejects

Next ==
    \/ Microtasks \/ Handler
    \/ \E c \in Calls : Call(c) \/ Submit(c)
    \/ \E id \in Ids : Interrupt(id)
    \/ WorkerFails \/ Close

Spec == Init /\ [][Next]_vars

(* The event loop runs its microtasks, WebCrypto delivers digests, and the  *)
(* worker answers or fails: Python code that loops forever is interrupted.  *)
Fairness ==
    /\ WF_vars(Microtasks)
    /\ WF_vars(Handler)
    /\ WF_vars(\E c \in Calls : Submit(c))

FairSpec == Spec /\ Fairness

-----------------------------------------------------------------------------
(* Calls are admitted in invocation order although digests are computed     *)
(* asynchronously: what executes was called before whatever is queued, and  *)
(* that before whatever still waits for admission.                          *)
AdmissionOrder ==
    LET turns == (IF active = None THEN <<>>
                  ELSE <<call[entries[active].owner].turn>>)
                 \o [i \in DOMAIN pending |->
                       call[entries[pending[i]].owner].turn]
                 \o [i \in DOMAIN line |-> call[line[i]].turn]
    IN  \A i, j \in DOMAIN turns : i < j => turns[i] < turns[j]

(* Reusing a command id with the same operation and input returns the same  *)
(* sealed receipt without running the effect again.                         *)
SameIdSameReceipt ==
    \A c, d \in Calls :
        /\ CommandId(c) = CommandId(d)
        /\ call[c].stage = "returned" /\ call[d].stage = "returned"
        => call[c].receipt = call[d].receipt

(* A restored kernel rejects commands that name an older generation and     *)
(* accepts those that name its own: whenever the event loop is at rest the  *)
(* kernel, its queue and its reference table agree on the generation.       *)
GenerationsAgree ==
    Task => /\ queueGeneration = kernel.generation
            /\ references.generation = kernel.generation

(* The same for a client that awaits every restore before its next call.    *)
GenerationsAgreeApart == client.apart => GenerationsAgree

(* Application references expire with a restore: the callable that ran was  *)
(* registered in the memory image it ran in.                                *)
ReferencesExpire == worker.invoked.registered = worker.invoked.ran

(* A delta checkpoint matches its parent: its pages were compared with the  *)
(* very checkpoint its descriptor names, so materializing it gives the      *)
(* memory that was captured.                                                *)
DeltaMatchesParent ==
    \A r \in DOMAIN checkpoints :
        Delta(r) => checkpoints[r].baseline = checkpoints[r].parent

(* The same while no checkpoint failed to be sealed.                        *)
SealedDeltaMatchesParent == unsealed = 0 => DeltaMatchesParent

(* Whatever happens to the worker, every call settles: again and again no   *)
(* call is outstanding.                                                     *)
CallsSettle == []<>(Outstanding = {})
=============================================================================
