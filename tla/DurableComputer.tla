-------------------------- MODULE DurableComputer --------------------------
(***************************************************************************)
(* One durable computer: several guests, a facade with a life cycle, the   *)
(* durable generations of its group.                                       *)
(*                                                                         *)
(*   src/src/machine/composition/durableWebComputer.js (the facade)        *)
(*   src/src/machine/composition/createWebComputer.js (the guests of one   *)
(*       computer), host/machineHandle.js, host/commandQueue.js            *)
(*   src/src/machine/persistence/machineCommitCoordinator.js and           *)
(*       pausedCapture.js (capture and restore)                            *)
(*                                                                         *)
(* Nothing in the facade excludes two operations from each other, so every *)
(* call is a process of its own: `at` is the await it stands at, and each  *)
(* action is what it does from one await to the next.  A guest has a queue *)
(* of commands and runs one at a time; its state may change between the    *)
(* moment a call looks at it and the moment the call's command runs.  The  *)
(* owner coordinator and the store appear as what OwnerCoordinator and     *)
(* MachineStore show of them: a lock, an owner record, a HEAD that moves   *)
(* by compare-and-swap under the owner's epoch.                            *)
(***************************************************************************)
EXTENDS Naturals, Sequences, FiniteSets

CONSTANTS
    GuestCount,         \* guests of a computer; pauseRunning takes them in order
    Kinds,              \* the operations the clients of this instance call
    MaxCalls,           \* bound on the calls made
    MaxContexts,        \* bound on the computers made (one more per import)
    Workers,            \* the guests that do something while they run
    MaxWork,            \* bound on what a guest does
    MaxFaults           \* bound on the faults

ASSUME BoundAssumption ==
    /\ {GuestCount, MaxCalls, MaxContexts} \subseteq Nat \ {0}
    /\ {MaxWork, MaxFaults} \subseteq Nat
    /\ Workers \subseteq 1..GuestCount
ASSUME KindAssumption ==
    Kinds \subseteq {"initialize", "save", "suspend", "retrySuspendCleanup",
                     "exportImage", "importImage", "dispose"}

Guests == 1..GuestCount
CallIds == 1..MaxCalls
Contexts == 1..MaxContexts

VARIABLES
    facade,     \* the closure variables of the facade, and the active computer
    guest,      \* the guests of every computer: state, memory, commands
    call,       \* the calls, each with the await it stands at
    store,      \* HEAD, the generations, the owner record, the damaged ones
    coord,      \* the owner coordinators, one per initialize
    faults,     \* the faults so far
    apart,      \* history: no call was made while another was in flight
    inTurn      \* history: none that wakes or closes was made while another of these was

vars == <<facade, guest, call, store, coord, faults, apart, inTurn>>

NoMemory == [g \in Guests |-> 0]

NoCall == [kind |-> "none", at |-> "idle", ctx |-> 1, ids |-> {}, todo |-> {},
           asked |-> {}, failed |-> FALSE, error |-> FALSE, aborted |-> FALSE,
           head |-> 0, token |-> 0, mem |-> NoMemory, disk |-> NoMemory,
           gen |-> 0, cand |-> 0, stops |-> 0, first |-> FALSE]

InFlight(k) == call[k].at \notin {"idle", "done"}

Init ==
    /\ facade = [life |-> "registered", initialized |-> FALSE, token |-> 0,
                 disposed |-> FALSE, saved |-> "clean",
                 cleanupPending |-> FALSE, suspended |-> 0, active |-> 1]
    /\ guest = [c \in Contexts |-> [g \in Guests |->
                   [state |-> IF c = 1 THEN "created" ELSE "absent",
                    mem |-> 0, queue |-> <<>>]]]
    /\ call = [k \in CallIds |-> NoCall]
    /\ store = [head |-> 0, gens |-> <<>>, epoch |-> 0, owned |-> FALSE,
                damaged |-> {}]
    /\ coord = [current |-> 0, lock |-> 0,
                state |-> [k \in CallIds |-> "idle"],
                epoch |-> [k \in CallIds |-> 0]]
    /\ faults = {}
    /\ apart = TRUE /\ inTurn = TRUE

(***************************************************************************)
(* A fault is named once; the properties tell apart what went wrong.       *)
(***************************************************************************)
MayFail == Cardinality(faults) < MaxFaults

Fault(what) ==
    /\ MayFail
    /\ what \notin faults
    /\ faults' = faults \union {what}

\* It fails because it must, or because of a fault.
Fails(must, what) == IF must THEN UNCHANGED faults ELSE Fault(what)

(***************************************************************************)
(* Guests.  A call asks guests for a command and waits: `asked` are those  *)
(* that have not answered, `todo` those not done.  The answer goes to the  *)
(* call only while it still stands at the await that asked.                *)
(***************************************************************************)
In(c, states) == {g \in Guests : guest[c][g].state \in states}

NotStopped(c) == Guests \ In(c, {"stopped"})

\* The awaits whose commands are given the caller's control (its signal).
Controlled == {"pausing", "capturing", "rollback", "stopping", "retiring",
               "restoring", "booting", "resumingAll"}

Queued(c, gs, do, k, place, arg) ==
    [guest EXCEPT ![c] = [g \in Guests |->
        IF g \in gs
        THEN [guest[c][g] EXCEPT !.queue = Append(@,
                 [do |-> do, by |-> k, place |-> place, arg |-> arg[g],
                  unknown |-> FALSE, void |-> FALSE])]
        ELSE guest[c][g]]]

\* The call goes to `place` and waits there for `gs`, of which it has asked
\* `now`.  With an aborted signal a command is refused and never queued.
Wait(k, r, c, gs, now, do, place, arg) ==
    IF r.aborted /\ place \in Controlled
    THEN /\ call' = [call EXCEPT ![k] =
                [r EXCEPT !.at = place, !.todo = gs, !.asked = {},
                          !.failed = now # {}]]
         /\ UNCHANGED guest
    ELSE /\ call' = [call EXCEPT ![k] =
                [r EXCEPT !.at = place, !.todo = gs, !.asked = now,
                          !.failed = FALSE]]
         /\ guest' = Queued(c, now, do, k, place, arg)

Ask(k, r, c, gs, do, place) == Wait(k, r, c, gs, gs, do, place, NoMemory)

\* One guest after the other, in their order.
AskNext(k, r, c, gs, do, place, arg) ==
    \/ gs = {} /\ Wait(k, r, c, gs, {}, do, place, arg)
    \/ \E g \in gs : /\ \A h \in gs : g <= h
                     /\ Wait(k, r, c, gs, {g}, do, place, arg)

Answered(k, place) == call[k].at = place /\ call[k].asked = {}

Go(k, r, place) == call' = [call EXCEPT ![k] = [r EXCEPT !.at = place]]

Finish(k, r, error) ==
    call' = [call EXCEPT ![k] = [NoCall EXCEPT
                !.kind = r.kind, !.at = "done", !.error = error,
                !.aborted = r.aborted, !.gen = r.gen]]

\* Mutant: a running guest may be snapshotted.
AllowedSnapshotAnytime ==
    [boot |-> {"created", "stopped"}, pause |-> {"running"},
     resume |-> {"paused"}, snapshot |-> {"paused", "running"},
     restore |-> {"created", "paused", "stopped"},
     shutdown |-> {"created", "running", "paused", "failed"}]

\* MachineHandle: where each command is allowed, and the state it leaves.
Allowed == [boot |-> {"created", "stopped"}, pause |-> {"running"},
            resume |-> {"paused"}, snapshot |-> {"paused"},
            restore |-> {"created", "paused", "stopped"},
            shutdown |-> {"created", "running", "paused", "failed"}]

After == [boot |-> "running", pause |-> "paused", resume |-> "running",
          snapshot |-> "paused", restore |-> "paused", shutdown |-> "stopped"]

\* What the call learns.  Promise.all and a sequential loop stop at the first
\* rejection, Promise.allSettled (boot and its cleanup) hears everyone.
Settled == {"booting", "unbooting"}

\* Mutant: a rejection is lost.
AnswerOnlyResults(cmd, c, g, ok) ==
    LET r == call[cmd.by]
    IN IF r.at # cmd.place \/ g \notin r.asked \/ ~ok THEN UNCHANGED call
       ELSE call' = [call EXCEPT ![cmd.by] =
                [r EXCEPT !.asked = @ \ {g}, !.todo = @ \ {g}]]

Answer(cmd, c, g, ok) ==
    LET r == call[cmd.by]
    IN IF r.at # cmd.place \/ g \notin r.asked THEN UNCHANGED call
       ELSE call' = [call EXCEPT ![cmd.by] =
           IF ok THEN [r EXCEPT !.asked = @ \ {g}, !.todo = @ \ {g},
                                !.mem = IF cmd.do = "snapshot"
                                        THEN [@ EXCEPT ![g] = guest[c][g].mem]
                                        ELSE @]
           ELSE [r EXCEPT !.failed = TRUE,
                          !.asked = IF r.at \in Settled THEN @ \ {g} ELSE {}]]

\* A command whose signal fired before its turn is skipped.
SkipCommand(c, g) ==
    /\ guest[c][g].queue # <<>>
    /\ Head(guest[c][g].queue).void
    /\ guest' = [guest EXCEPT ![c][g].queue = Tail(@)]
    /\ UNCHANGED <<facade, call, store, coord, faults, apart, inTurn>>

RunCommand(c, g) ==
    LET m == guest[c][g]
        cmd == Head(m.queue)
        next == [m EXCEPT !.queue = Tail(@)]
    IN /\ m.queue # <<>>
       /\ ~cmd.void
       /\ \/ /\ m.state \in Allowed[cmd.do]
             /\ guest' = [guest EXCEPT ![c][g] =
                    [next EXCEPT !.state = After[cmd.do],
                                 !.mem = IF cmd.do = "restore" THEN cmd.arg
                                         ELSE @]]
             /\ Answer(cmd, c, g, ~cmd.unknown)
             /\ UNCHANGED faults
          \/ /\ m.state \notin Allowed[cmd.do]
             /\ guest' = [guest EXCEPT ![c][g] = next]
             /\ Answer(cmd, c, g, FALSE)
             /\ UNCHANGED faults
          \/ /\ m.state \in Allowed[cmd.do]
             /\ Fault(cmd.do)           \* the adapter throws
             /\ guest' = [guest EXCEPT ![c][g] =
                    [next EXCEPT !.state = IF cmd.do = "boot" THEN "failed"
                                           ELSE @]]
             /\ Answer(cmd, c, g, FALSE)
       /\ UNCHANGED <<facade, store, coord, apart, inTurn>>

Work(c, g) ==
    /\ g \in Workers
    /\ guest[c][g].state = "running"
    /\ guest[c][g].mem < MaxWork
    /\ guest' = [guest EXCEPT ![c][g].mem = @ + 1]
    /\ UNCHANGED <<facade, call, store, coord, faults, apart, inTurn>>

\* A command that runs while the owner changes is reported as unknown.
Refenced(c) ==
    [guest EXCEPT ![c] = [g \in Guests |->
        IF guest[c][g].queue # <<>> /\ Head(guest[c][g].queue).do # "shutdown"
        THEN [guest[c][g] EXCEPT !.queue[1].unknown = TRUE]
        ELSE guest[c][g]]]

\* The signal of a call fires.  A command that runs goes on, unheard; one that
\* is queued is skipped when its turn comes.
Abort(k) ==
    /\ InFlight(k)
    /\ ~call[k].aborted
    /\ Fault("abort")
    /\ LET r == [call[k] EXCEPT !.aborted = TRUE]
           Mine(cmd) == cmd.by = k /\ cmd.place = r.at /\ r.at \in Controlled
           Voided(q) == [i \in DOMAIN q |->
                           IF i # 1 /\ Mine(q[i])
                           THEN [q[i] EXCEPT !.void = TRUE] ELSE q[i]]
       IN /\ call' = [call EXCEPT ![k] =
                IF r.at \in Controlled /\ r.asked # {}
                THEN [r EXCEPT !.asked = {}, !.failed = TRUE] ELSE r]
          /\ guest' = [c \in Contexts |-> [g \in Guests |->
                [guest[c][g] EXCEPT !.queue = Voided(@)]]]
    /\ UNCHANGED <<facade, store, coord, apart, inTurn>>

(***************************************************************************)
(* stop() of the facade's current owner coordinator.  At once the machines *)
(* lose the owner; the record and the lock are released later.  A call     *)
(* that finds the coordinator stopping only waits.                         *)
(***************************************************************************)
Stop(k, r, f, co, place) ==
    LET i == co.current
        state == IF i = 0 THEN "idle" ELSE co.state[i]
    IN /\ Go(k, [r EXCEPT !.stops = i,
                          !.first = state \in {"owned", "failed"}], place)
       /\ coord' = CASE state = "owned" ->
                          [co EXCEPT !.state[i] = "stopping"]
                     [] state = "waiting" ->
                          [co EXCEPT !.state[i] = "stopped"]
                     [] OTHER -> co
       /\ IF state = "owned"
          THEN guest' = Refenced(facade.active)
               /\ facade' = [f EXCEPT !.token = 0]
          ELSE facade' = f /\ UNCHANGED guest

LetGo(i, state, owned) ==
    /\ coord' = [coord EXCEPT !.state[i] = state, !.lock = IF @ = i THEN 0 ELSE @]
    /\ store' = [store EXCEPT !.owned = owned]

Inactive(i) == store.owned /\ store.epoch # coord.epoch[i]

StopReturns(r) ==
    IF r.first THEN LetGo(r.stops, "stopped", Inactive(r.stops))
    ELSE /\ r.stops # 0 => coord.state[r.stops] # "stopping"
         /\ UNCHANGED <<coord, store>>

\* The release throws: the lock is free, the record may still be active.
StopThrows(r) ==
    /\ r.first
    /\ Fault("release")
    /\ \E owned \in {store.owned, Inactive(r.stops)} :
           LetGo(r.stops, "failed", owned)

(***************************************************************************)
(* Calls.  Those that the life cycle refuses at once change nothing.       *)
(***************************************************************************)
\* The operations that wake a computer or close it.
LifeCycle == {"initialize", "suspend", "retrySuspendCleanup", "dispose"}

Begin(k, kind) ==
    /\ kind \in Kinds
    /\ call[k].at = "idle"
    /\ \A j \in 1..(k - 1) : call[j].at # "idle"
    /\ ~facade.disposed
    /\ apart' = (apart /\ \A j \in CallIds : ~InFlight(j))
    /\ inTurn' = (inTurn /\ (kind \in LifeCycle =>
                    \A j \in CallIds : InFlight(j) => call[j].kind \notin LifeCycle))

IsHot == facade.initialized /\ facade.token # 0 /\ facade.life = "hot"

\* pauseRunning of the active computer begins.
BeginPausing(k, kind) ==
    LET ids == In(facade.active, {"running"})
        r == [NoCall EXCEPT !.kind = kind, !.ctx = facade.active, !.ids = ids]
    IN AskNext(k, r, r.ctx, ids, "pause", "pausing", NoMemory)

Save(k) ==
    /\ Begin(k, "save") /\ IsHot
    /\ BeginPausing(k, "save")
    /\ UNCHANGED <<facade, store, coord, faults>>

ExportImage(k) ==
    /\ Begin(k, "exportImage") /\ IsHot
    /\ BeginPausing(k, "exportImage")
    /\ UNCHANGED <<facade, store, coord, faults>>

Suspend(k) ==
    /\ Begin(k, "suspend") /\ IsHot
    /\ BeginPausing(k, "suspend")
    /\ facade' = [facade EXCEPT !.life = "draining"]
    /\ UNCHANGED <<store, coord, faults>>

ImportImage(k) ==
    /\ Begin(k, "importImage") /\ IsHot
    /\ Cardinality({j \in CallIds : call[j].kind = "importImage"})
           < MaxContexts - 1
    /\ Go(k, [NoCall EXCEPT !.kind = "importImage"], "readingArchive")
    /\ UNCHANGED <<facade, guest, store, coord, faults>>

ArchiveRead(k) ==
    /\ call[k].at = "readingArchive"
    /\ \/ /\ ~call[k].aborted
          /\ BeginPausing(k, "importImage")
          /\ UNCHANGED faults
       \/ /\ Fails(call[k].aborted, "archive")
          /\ Finish(k, call[k], TRUE)
          /\ UNCHANGED guest
    /\ UNCHANGED <<facade, store, coord, apart, inTurn>>

(***************************************************************************)
(* withPaused and the paused commit.                                       *)
(***************************************************************************)
ResumeIds(k, r, place) ==
    Ask(k, r, r.ctx, r.ids \cap In(r.ctx, {"paused"}), "resume", place)

\* The operation on the paused computer throws.
OperationFails(k, r) ==
    IF r.kind = "suspend"
    THEN /\ facade' = [facade EXCEPT !.saved = "unsaved", !.life = "hot"]
         /\ ResumeIds(k, [r EXCEPT !.error = TRUE], "rollback")
    ELSE /\ ResumeIds(k, [r EXCEPT !.error = TRUE], "resuming")
         /\ UNCHANGED facade

\* assertPausedComputer, and the start of the capture.
StartCapture(k, r) ==
    IF r.aborted \/ In(r.ctx, {"paused"}) # Guests
    THEN OperationFails(k, r)
    ELSE Go(k, r, "flushing") /\ UNCHANGED <<facade, guest>>

PauseNext(k) ==
    /\ Answered(k, "pausing") /\ ~call[k].failed /\ call[k].todo # {}
    /\ AskNext(k, call[k], call[k].ctx, call[k].todo, "pause", "pausing",
               NoMemory)
    /\ UNCHANGED <<facade, store, coord, faults, apart, inTurn>>

PausedAll(k) ==
    LET r == call[k]
    IN /\ Answered(k, "pausing") /\ ~r.failed /\ r.todo = {}
       /\ CASE r.kind = "exportImage" -> StartCapture(k, r)
            [] r.kind = "importImage" ->
                 Go(k, r, "staging") /\ UNCHANGED <<facade, guest>>
            [] r.kind = "save" ->
                 Go(k, r, "readingHead") /\ UNCHANGED <<facade, guest>>
            [] r.kind = "suspend" ->
                 /\ Go(k, r, "readingHead")
                 /\ facade' = [facade EXCEPT !.life = "committing"]
                 /\ UNCHANGED guest
       /\ UNCHANGED <<store, coord, faults, apart, inTurn>>

\* Mutant: the guests already paused stay paused.
PauseFailedStaysPaused(k) ==
    LET r == call[k]
    IN /\ Answered(k, "pausing") /\ r.failed
       /\ Ask(k, r, r.ctx, {}, "resume", "unpausing")
       /\ UNCHANGED <<facade, store, coord, faults, apart, inTurn>>

\* pauseRunning resumes those it paused, then throws.
PauseFailed(k) ==
    LET r == call[k]
    IN /\ Answered(k, "pausing") /\ r.failed
       /\ Ask(k, r, r.ctx, (r.ids \ r.todo) \cap In(r.ctx, {"paused"}),
              "resume", "unpausing")
       /\ UNCHANGED <<facade, store, coord, faults, apart, inTurn>>

Unpaused(k) ==
    LET r == call[k]
    IN /\ Answered(k, "unpausing")
       /\ CASE r.kind \in {"save", "exportImage"} ->
                 /\ ResumeIds(k, [r EXCEPT !.error = TRUE], "resuming")
                 /\ UNCHANGED facade
            [] r.kind = "suspend" ->
                 /\ facade' = [facade EXCEPT !.life = "hot"]
                 /\ Finish(k, r, TRUE)
                 /\ UNCHANGED guest
            [] r.kind = "importImage" ->
                 Finish(k, r, TRUE) /\ UNCHANGED <<facade, guest>>
       /\ UNCHANGED <<store, coord, faults, apart, inTurn>>

ReadHead(k) ==
    LET r == [call[k] EXCEPT !.head = store.head, !.token = facade.token]
    IN /\ call[k].at = "readingHead"
       /\ IF r.token = 0 THEN OperationFails(k, r) ELSE StartCapture(k, r)
       /\ UNCHANGED <<store, coord, faults, apart, inTurn>>

\* The devices are flushed; their snapshots and those of the guests begin.
Flushed(k) ==
    LET r == call[k]
    IN /\ r.at = "flushing"
       /\ \/ /\ ~r.aborted
             /\ Ask(k, [r EXCEPT !.disk = [g \in Guests |->
                                              guest[r.ctx][g].mem]],
                    r.ctx, Guests, "snapshot", "capturing")
             /\ UNCHANGED <<facade, faults>>
          \/ /\ Fails(r.aborted, "flush")
             /\ OperationFails(k, r)
       /\ UNCHANGED <<store, coord, apart, inTurn>>

Captured(k) ==
    LET r == call[k]
    IN /\ Answered(k, "capturing")
       /\ IF r.failed \/ r.aborted THEN OperationFails(k, r)
          ELSE IF r.kind = "exportImage"
          THEN ResumeIds(k, r, "resuming") /\ UNCHANGED facade
          ELSE Go(k, r, "committing") /\ UNCHANGED <<facade, guest>>
       /\ UNCHANGED <<store, coord, faults, apart, inTurn>>

\* commitGeneration: one transaction of the store.
Accepted(r) ==
    /\ ~r.aborted
    /\ store.head = r.head
    /\ store.owned /\ store.epoch = r.token

Generation(r, ctx) == [parent |-> r.head, ctx |-> ctx, mem |-> r.mem,
                       disk |-> r.disk]

Publish(g) == store' = [store EXCEPT !.gens = Append(@, g),
                                     !.head = Len(store.gens) + 1]

Commit(k) ==
    LET r == call[k]
        done == [r EXCEPT !.gen = Len(store.gens) + 1]
    IN /\ r.at = "committing"
       /\ \/ /\ Accepted(r)
             /\ Publish(Generation(r, r.ctx))
             /\ IF r.kind = "suspend"
                THEN Go(k, done, "verifying") /\ UNCHANGED guest
                ELSE ResumeIds(k, done, "resuming")
             /\ UNCHANGED <<facade, faults>>
          \/ /\ Fails(~Accepted(r), "commit")
             /\ OperationFails(k, r)
             /\ UNCHANGED store
       /\ UNCHANGED <<coord, apart, inTurn>>

Resumed(k) ==
    LET r == call[k]
        error == r.error \/ r.failed
    IN /\ Answered(k, "resuming")
       /\ IF r.kind = "save"
          THEN IF error
               THEN /\ facade' = [facade EXCEPT !.saved = "unsaved"]
                    /\ Finish(k, r, TRUE)
               ELSE Go(k, r, "pruning") /\ UNCHANGED facade
          ELSE Finish(k, r, error) /\ UNCHANGED facade
       /\ UNCHANGED <<guest, store, coord, faults, apart, inTurn>>

(***************************************************************************)
(* pruneRecoveryWindow: its failure is only noted.                         *)
(***************************************************************************)
Pruned(k) ==
    LET r == call[k]
        refused == r.aborted \/ ~store.owned \/ facade.token # store.epoch
        Noted(pending) == [facade EXCEPT !.cleanupPending = pending]
    IN /\ r.at = "pruning"
       /\ \E pending \in BOOLEAN :
          /\ refused => pending
          /\ IF pending /\ ~refused THEN Fault("prune") ELSE UNCHANGED faults
          /\ CASE r.kind = "save" ->
                    /\ facade' = [Noted(pending) EXCEPT !.saved = "clean"]
                    /\ Finish(k, r, FALSE) /\ UNCHANGED guest
               [] r.kind = "importImage" ->
                    /\ facade' = Noted(pending)
                    /\ Finish(k, r, FALSE) /\ UNCHANGED guest
               [] r.kind = "initialize" ->
                    /\ facade' = [Noted(pending) EXCEPT !.life = "hot"]
                    /\ Finish(k, r, FALSE) /\ UNCHANGED guest
               [] r.kind = "suspend" ->
                    /\ facade' = [Noted(pending) EXCEPT !.life = "stopping"]
                    /\ Ask(k, r, r.ctx, NotStopped(r.ctx), "shutdown",
                           "stopping")
       /\ UNCHANGED <<store, coord, apart, inTurn>>

(***************************************************************************)
(* suspend, its retry, and dispose.                                        *)
(***************************************************************************)
Verified(k) ==
    LET r == call[k]
    IN /\ r.at = "verifying"
       /\ \/ /\ store.head = r.gen
             /\ Go(k, r, "pruning")
             /\ UNCHANGED <<facade, guest, faults>>
          \/ /\ Fails(store.head # r.gen, "read")
             /\ OperationFails(k, r)
       /\ UNCHANGED <<store, coord, apart, inTurn>>

RolledBack(k) ==
    /\ Answered(k, "rollback")
    /\ facade' = IF call[k].failed THEN [facade EXCEPT !.life = "failed"]
                 ELSE facade
    /\ Finish(k, call[k], TRUE)
    /\ UNCHANGED <<guest, store, coord, faults, apart, inTurn>>

BeginStopping(k, kind) ==
    LET c == facade.active
    IN Ask(k, [NoCall EXCEPT !.kind = kind, !.ctx = c,
                             !.gen = facade.suspended],
           c, NotStopped(c), "shutdown", "stopping")

RetrySuspendCleanup(k) ==
    /\ Begin(k, "retrySuspendCleanup")
    /\ facade.life = "cleanupIncomplete"
    /\ BeginStopping(k, "retrySuspendCleanup")
    /\ UNCHANGED <<facade, store, coord, faults>>

Dispose(k) ==
    /\ Begin(k, "dispose")
    /\ facade' = [facade EXCEPT !.disposed = TRUE]
    /\ BeginStopping(k, "dispose")
    /\ UNCHANGED <<store, coord, faults>>

\* What the closing call leaves behind.
Closed(r) ==
    CASE r.kind = "dispose" ->
            [facade EXCEPT !.token = 0, !.initialized = FALSE,
                           !.life = "disposed"]
      [] r.kind = "suspend" ->
            [facade EXCEPT !.token = 0, !.initialized = FALSE, !.life = "cold",
                           !.saved = "clean", !.suspended = r.gen]
      [] r.kind = "retrySuspendCleanup" ->
            [facade EXCEPT !.token = 0, !.initialized = FALSE, !.life = "cold",
                           !.saved = "clean", !.cleanupPending = FALSE]

\* The clean-up fails.  The retry leaves the life to whoever set it.
Incomplete(r) ==
    IF r.kind = "suspend"
    THEN [facade EXCEPT !.cleanupPending = TRUE, !.life = "cleanupIncomplete",
                        !.suspended = r.gen]
    ELSE [facade EXCEPT !.cleanupPending = TRUE]

\* Mutant: a guest that does not shut down is not noticed.
StoppedAnyway(k) ==
    /\ Answered(k, "stopping")
    /\ Stop(k, call[k], facade, coord, "releasing")
    /\ UNCHANGED <<store, faults, apart, inTurn>>

Stopped(k) ==
    LET r == call[k]
    IN /\ Answered(k, "stopping")
       /\ IF r.failed /\ r.kind # "dispose"
          THEN facade' = Incomplete(r) /\ Finish(k, r, TRUE)
               /\ UNCHANGED <<guest, coord>>
          ELSE Stop(k, [r EXCEPT !.error = r.failed], facade, coord,
                    "releasing")
       /\ UNCHANGED <<store, faults, apart, inTurn>>

Release(k) ==
    LET r == call[k]
    IN /\ r.at = "releasing"
       /\ \/ /\ StopReturns(r)
             /\ facade' = Closed(r)
             /\ Finish(k, r, r.error)
             /\ UNCHANGED faults
          \/ /\ StopThrows(r)
             /\ facade' = IF r.kind = "dispose" THEN Closed(r)
                          ELSE Incomplete(r)
             /\ Finish(k, r, TRUE)
       /\ UNCHANGED <<guest, apart, inTurn>>

(***************************************************************************)
(* importImage.  Nobody else sees the candidate before it is adopted, so   *)
(* its guests change state with the step of the call that waits for them.  *)
(***************************************************************************)
Candidate(c, state) ==
    [guest EXCEPT ![c] = [g \in Guests |-> [@[g] EXCEPT !.state = state]]]

Staged(k) ==
    LET r == call[k]
    IN /\ r.at = "staging"
       /\ \/ /\ ~r.aborted
             /\ \E c \in Contexts :
                   /\ guest[c][1].state = "absent"
                   /\ guest' = Candidate(c, "running")
                   /\ Go(k, [r EXCEPT !.cand = c], "pausingCandidate")
             /\ UNCHANGED faults
          \/ /\ Fails(r.aborted, "stage")
             /\ Go(k, r, "unstaging")
             /\ UNCHANGED guest
       /\ UNCHANGED <<facade, store, coord, apart, inTurn>>

CandidateFails(k, r) ==
    /\ Go(k, r, "unstaging")
    /\ guest' = Candidate(r.cand, "stopped")

\* Mutant: the candidate is adopted without being saved.
CandidateUnsaved(k) ==
    /\ call[k].at = "pausingCandidate"
    /\ Go(k, call[k], "adopting")
    /\ UNCHANGED <<facade, guest, store, coord, faults, apart, inTurn>>

\* The candidate is paused and HEAD is read for its commit.
CandidatePaused(k) ==
    /\ call[k].at = "pausingCandidate"
    /\ LET mem == [g \in Guests |-> guest[call[k].cand][g].mem]
           r == [call[k] EXCEPT !.head = store.head, !.token = facade.token,
                                !.mem = mem, !.disk = mem]
       IN IF r.aborted \/ r.token = 0 THEN CandidateFails(k, r)
          ELSE /\ Go(k, r, "publishing")
               /\ guest' = Candidate(r.cand, "paused")
    /\ UNCHANGED <<facade, store, coord, faults, apart, inTurn>>

CandidateCommit(k) ==
    LET r == call[k]
    IN /\ r.at = "publishing"
       /\ \/ /\ Accepted(r)
             /\ Publish(Generation(r, r.cand))
             /\ Go(k, [r EXCEPT !.gen = Len(store.gens) + 1], "adopting")
             /\ UNCHANGED <<guest, faults>>
          \/ /\ Fails(~Accepted(r), "commit")
             /\ CandidateFails(k, r)
             /\ UNCHANGED store
       /\ UNCHANGED <<facade, coord, apart, inTurn>>

\* The candidate runs again and becomes the active computer; the old one is
\* shut down.
Adopt(k) ==
    LET r == call[k]
        running == Candidate(r.cand, "running")
        old == Queued(r.ctx, NotStopped(r.ctx), "shutdown", k, "retiring",
                      NoMemory)
    IN /\ r.at = "adopting"
       /\ \/ /\ facade' = [facade EXCEPT !.active = r.cand, !.saved = "clean"]
             /\ guest' = [running EXCEPT ![r.ctx] =
                             IF r.aborted THEN @ ELSE old[r.ctx]]
             /\ call' = [call EXCEPT ![k] = [r EXCEPT
                    !.at = "retiring", !.failed = r.aborted,
                    !.asked = IF r.aborted THEN {} ELSE NotStopped(r.ctx)]]
             /\ UNCHANGED faults
          \/ /\ Fault("resume")
             /\ CandidateFails(k, r)
             /\ UNCHANGED facade
       /\ UNCHANGED <<store, coord, apart, inTurn>>

Retired(k) ==
    /\ Answered(k, "retiring")
    /\ Go(k, call[k], "pruning")
    /\ UNCHANGED <<facade, guest, store, coord, faults, apart, inTurn>>

Unstaged(k) ==
    /\ call[k].at = "unstaging"
    /\ ResumeIds(k, [call[k] EXCEPT !.error = TRUE], "resuming")
    /\ UNCHANGED <<facade, store, coord, faults, apart, inTurn>>

(***************************************************************************)
(* initialize, which is also resume().                                     *)
(***************************************************************************)
Initialize(k) ==
    /\ Begin(k, "initialize")
    /\ ~facade.initialized
    /\ facade.life # "cleanupIncomplete"
    /\ facade' = [facade EXCEPT !.life = "waking"]
    /\ coord' = [coord EXCEPT !.current = k, !.state[k] = "waiting"]
    /\ Go(k, [NoCall EXCEPT !.kind = "initialize"], "owning")
    /\ UNCHANGED <<guest, store, faults>>

\* The catch block.
InitFails(k, co) ==
    Stop(k, call[k], [facade EXCEPT !.initialized = FALSE, !.token = 0,
                                    !.life = "failed"], co, "givingUp")

\* The lock is granted, the epoch claimed, the machines adopt it.
Own(k) ==
    /\ call[k].at = "owning"
    /\ coord.state[k] = "waiting"
    /\ coord.lock = 0
    /\ ~call[k].aborted
    /\ coord' = [coord EXCEPT !.state[k] = "owned", !.lock = k,
                              !.epoch[k] = store.epoch + 1]
    /\ store' = [store EXCEPT !.epoch = @ + 1, !.owned = TRUE]
    /\ facade' = [facade EXCEPT !.token = store.epoch + 1,
                                !.initialized = TRUE]
    /\ guest' = Refenced(facade.active)
    /\ Go(k, call[k], "reading")
    /\ UNCHANGED <<faults, apart, inTurn>>

\* The wait is given up, by its signal, by stop() or by a failing claim.
OwnFails(k) ==
    /\ call[k].at = "owning"
    /\ Fails(call[k].aborted \/ coord.state[k] # "waiting", "claim")
    /\ InitFails(k, [coord EXCEPT !.state[k] = "stopped"])
    /\ UNCHANGED <<store, apart, inTurn>>

Readable == {n \in 1..Len(store.gens) : n \notin store.damaged}

\* restoreLatest takes HEAD, or else the generation before it.
Source == IF store.head \in Readable THEN store.head
          ELSE store.gens[store.head].parent

\* The devices are restored, then the guests one after the other.
Wake(k) ==
    LET r == [call[k] EXCEPT !.ctx = facade.active]
    IN /\ r.at = "reading"
       /\ IF store.head = 0
          THEN /\ Ask(k, r, r.ctx, Guests, "boot", "booting")
               /\ UNCHANGED <<facade, coord>>
          ELSE IF r.aborted \/ Source \notin Readable
          THEN InitFails(k, coord)
          ELSE /\ AskNext(k, [r EXCEPT !.gen = Source], r.ctx, Guests,
                          "restore", "restoring", store.gens[Source].mem)
               /\ UNCHANGED <<facade, coord>>
       /\ UNCHANGED <<store, faults, apart, inTurn>>

RestoreNext(k) ==
    LET r == call[k]
    IN /\ Answered(k, "restoring") /\ ~r.failed
       /\ IF r.todo # {}
          THEN AskNext(k, r, r.ctx, r.todo, "restore", "restoring",
                       store.gens[r.gen].mem)
          ELSE Ask(k, r, r.ctx, In(r.ctx, {"paused"}), "resume",
                   "resumingAll")
       /\ UNCHANGED <<facade, store, coord, faults, apart, inTurn>>

ResumedAll(k) ==
    /\ Answered(k, "resumingAll") /\ ~call[k].failed
    /\ Go(k, call[k], "pruning")
    /\ UNCHANGED <<facade, guest, store, coord, faults, apart, inTurn>>

RestoreFailed(k) ==
    /\ Answered(k, "restoring") \/ Answered(k, "resumingAll")
    /\ call[k].failed
    /\ InitFails(k, coord)
    /\ UNCHANGED <<store, faults, apart, inTurn>>

\* bootAll: a failing boot shuts the others down.
Booted(k) ==
    LET r == call[k]
    IN /\ Answered(k, "booting")
       /\ IF r.failed
          THEN /\ Ask(k, r, r.ctx, NotStopped(r.ctx), "shutdown", "unbooting")
               /\ UNCHANGED facade
          ELSE /\ facade' = [facade EXCEPT !.life = "hot"]
               /\ Finish(k, r, FALSE)
               /\ UNCHANGED guest
       /\ UNCHANGED <<store, coord, faults, apart, inTurn>>

Unbooted(k) ==
    /\ Answered(k, "unbooting")
    /\ InitFails(k, coord)
    /\ UNCHANGED <<store, faults, apart, inTurn>>

GiveUp(k) ==
    /\ call[k].at = "givingUp"
    /\ \/ StopReturns(call[k]) /\ UNCHANGED faults
       \/ StopThrows(call[k])
    /\ Finish(k, call[k], TRUE)
    /\ UNCHANGED <<facade, guest, apart, inTurn>>

Damage ==
    /\ store.head # 0
    /\ Fault("damage")
    /\ store' = [store EXCEPT !.damaged = @ \union {store.head}]
    /\ UNCHANGED <<facade, guest, call, coord, apart, inTurn>>

(***************************************************************************)
Requests(k) ==
    \/ Initialize(k) \/ Save(k) \/ Suspend(k) \/ RetrySuspendCleanup(k)
    \/ ExportImage(k) \/ ImportImage(k) \/ Dispose(k)

Capturing(k) ==
    \/ PauseNext(k) \/ PausedAll(k) \/ PauseFailed(k) \/ Unpaused(k)
    \/ ReadHead(k) \/ Flushed(k) \/ Captured(k) \/ Commit(k) \/ Resumed(k)
    \/ Pruned(k)

Suspending(k) ==
    \/ Verified(k) \/ RolledBack(k) \/ Stopped(k) \/ Release(k)

Importing(k) ==
    \/ ArchiveRead(k) \/ Staged(k) \/ CandidatePaused(k) \/ CandidateCommit(k)
    \/ Adopt(k) \/ Retired(k) \/ Unstaged(k)

Waking(k) ==
    \/ Own(k) \/ OwnFails(k) \/ Wake(k) \/ RestoreNext(k) \/ ResumedAll(k)
    \/ RestoreFailed(k) \/ Booted(k) \/ Unbooted(k) \/ GiveUp(k)

Continue(k) == Capturing(k) \/ Suspending(k) \/ Importing(k) \/ Waking(k)

Next ==
    \/ \E k \in CallIds : Requests(k) \/ Continue(k) \/ Abort(k)
    \/ \E c \in Contexts, g \in Guests :
          RunCommand(c, g) \/ SkipCommand(c, g) \/ Work(c, g)
    \/ Damage

\* The guests answer and the code behind each await goes on.
Fairness ==
    /\ \A k \in CallIds : WF_vars(Continue(k))
    /\ \A c \in Contexts, g \in Guests :
          WF_vars(RunCommand(c, g) \/ SkipCommand(c, g))

Spec == Init /\ [][Next]_vars /\ Fairness

(***************************************************************************)
(* Properties                                                              *)
(***************************************************************************)
Quiet ==
    /\ \A k \in CallIds : ~InFlight(k)
    /\ \A c \in Contexts, g \in Guests : guest[c][g].queue = <<>>

\* machine-fleet.md:206: a generation commits all guest snapshots and block
\* devices together.  Every generation holds guests and devices as of one
\* moment: no guest has run between the snapshot of its devices and its own.
OneMoment ==
    \A n \in 1..Len(store.gens) : store.gens[n].mem = store.gens[n].disk

\* Operations that do not overlap commit generations of one moment, whatever
\* failed or was aborted before (capturePaused).  Where three overlap, a guest
\* that the second resumes while the first flushes its devices, and the third
\* pauses again, is committed with a disk older than its memory.
GenerationsAreOneMoment == apart => OneMoment

\* A suspend that returns (or is completed by its retry) has lost nothing: the
\* guests are stopped, HEAD holds them as they were when they stopped, nobody
\* owns the group.  For operations that do not overlap.
ColdIsDurable ==
    apart /\ facade.life = "cold" =>
        /\ \A g \in Guests :
              /\ guest[facade.active][g].state = "stopped"
              /\ guest[facade.active][g].mem = store.gens[store.head].mem[g]
        /\ facade.token = 0 /\ coord.lock = 0

\* An operation that needs the guests paused gives them back: in a hot computer
\* with nothing under way they all run, whatever saves, exports and imports overlapped
\* one another and the operation that wakes or closes the computer, and whatever failed,
\* but for signals and for guests that did not resume.  Where two of those that wake or
\* close overlap, one can set the life to hot over the other's clean-up that failed.
GuestsComeBack ==
    Quiet /\ IsHot /\ inTurn /\ faults \cap {"abort", "resume"} = {} =>
        \A g \in Guests : guest[facade.active][g].state = "running"

\* An import replaces the computer and HEAD together, or neither.  For
\* operations that do not overlap, and but for a candidate that did not resume
\* after its commit.
ImportIsAtomic ==
    /\ apart
    /\ \A k \in CallIds : call[k].kind = "importImage" =>
           call[k].at = "done" /\ (call[k].error => call[k].gen = 0)
    /\ store.head # 0
    => store.gens[store.head].ctx = facade.active

\* machine-fleet.md:295: a pause or commit failure of a suspend resumes the
\* guests that were running.
FailedSuspendResumes ==
    Quiet /\ apart /\ "resume" \notin faults
          /\ (\E k \in CallIds : call[k].kind = "suspend" /\ call[k].error)
          /\ facade.life \in {"hot", "failed"}
    => In(facade.active, {"paused"}) = {}

\* Every call returns, whatever overlaps, fails or is aborted.  An initialize
\* that overlapped another one may wait for a lock this computer holds itself.
CallsReturn ==
    []<>(\A k \in CallIds : InFlight(k) => call[k].at = "owning")
=============================================================================
