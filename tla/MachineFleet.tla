---------------------------- MODULE MachineFleet ----------------------------
(***************************************************************************)
(* The fleet: a bounded number of durable computers stay resident, a       *)
(* computer is lent to one lease at a time, and only computers whose last  *)
(* lease ended safely are suspended to make room.                          *)
(*                                                                         *)
(*   src/src/machine/composition/machineFleet.js                           *)
(*                                                                         *)
(* acquire, suspend, retryCleanup, setHotLimit and dispose run one after   *)
(* the other (mutate); `op` is the one that runs, with the place where it  *)
(* awaits a computer.  use and release do not wait for it: they interleave *)
(* with every such await.  A mutation that waits in the chain has done     *)
(* nothing yet, so it may as well be called when its turn comes, with any  *)
(* lease that was ever issued.  The durable computers are external: they   *)
(* answer as durableWebComputer.js may.  The candidate order is any order, *)
(* which covers the default (least recently used) and every chooseCandidate. *)
(***************************************************************************)
EXTENDS Naturals, FiniteSets

CONSTANTS
    Machines,
    Pinned,             \* machines registered with pinned: true
    InitialLimit,       \* hotLimit of createMachineFleet
    Limits,             \* limits setHotLimit may be asked for
    None,
    MaxLeases,          \* bound on the leases issued per machine
    MaxWakes,           \* bound on the computers started per machine
    MaxFailures,        \* bound on the failing answers of computers
    MaxCommands         \* bound on the commands that run at one time

ASSUME LimitAssumption ==
    InitialLimit \in Nat \ {0} /\ Limits \subseteq Nat \ {0}
ASSUME PinnedAssumption == Pinned \subseteq Machines /\ None \notin Machines
ASSUME FiniteAssumption == IsFiniteSet(Machines)
ASSUME BoundAssumption ==
    {MaxLeases, MaxWakes, MaxFailures, MaxCommands} \subseteq Nat

VARIABLES
    record,         \* the fleet's record of each machine
    op,             \* the mutation that runs, or Idle
    hotLimit,
    disposed,
    leases,         \* every lease object handed out, kept by the clients
    commands,       \* operations that run inside use()
    ownerEpoch,     \* durable: owner epochs claimed for the machine so far
    reported,       \* history: the last terminal accepted, or a suspension
    failures        \* failing answers so far

vars == <<record, op, hotLimit, disposed, leases, commands, ownerEpoch,
          reported, failures>>

\* op.kind is the mutation, op.await where it stands: "" = it goes on.
Idle == [kind |-> "idle", machine |-> None, await |-> "", limit |-> 0,
         todo |-> {}]

Registered == [state |-> "registered", computer |-> FALSE,
               computerEpoch |-> 0, leaseEpoch |-> 0, leaseActive |-> FALSE,
               activeCommands |-> 0, safe |-> FALSE, prior |-> "none"]

Absent == [Registered EXCEPT !.state = "absent"]

Hot == {m \in Machines : record[m].computer}        \* hotRecords()

MayFail == failures < MaxFailures
Fails == failures' = failures + 1

Init ==
    /\ record = [m \in Machines |-> Absent]
    /\ op = Idle
    /\ hotLimit = InitialLimit
    /\ disposed = FALSE
    /\ leases = {}
    /\ commands = {}
    /\ ownerEpoch = [m \in Machines |-> 0]
    /\ reported = [m \in Machines |-> "nothing"]
    /\ failures = 0

Register(m) ==
    /\ ~disposed
    /\ record[m].state = "absent"
    /\ record' = [record EXCEPT ![m] = Registered]
    /\ UNCHANGED <<op, hotLimit, disposed, leases, commands, ownerEpoch,
                   reported, failures>>

-----------------------------------------------------------------------------
(* Leases                                                                  *)

Valid(l, active) ==
    LET r == record[l.machine] IN
    /\ l.epoch = r.leaseEpoch
    /\ r.leaseActive = active
    /\ r.computer => l.ownerEpoch = r.computerEpoch

\* Mutant: a safe terminal is enough, the pin is forgotten.
EligibleEvenPinned(m) ==
    /\ record[m].state = "hot"
    /\ ~record[m].leaseActive
    /\ record[m].activeCommands = 0 /\ record[m].safe

Eligible(m) ==
    /\ record[m].state = "hot"
    /\ ~record[m].leaseActive
    /\ m \notin Pinned
    /\ record[m].activeCommands = 0 /\ record[m].safe

Lent(m, rs) ==
    [rs EXCEPT ![m].leaseEpoch = @ + 1, ![m].leaseActive = TRUE]

Grant(m, rs) ==
    /\ record' = Lent(m, rs)
    /\ leases' = leases \cup {[machine |-> m, epoch |-> rs[m].leaseEpoch + 1,
                               ownerEpoch |-> rs[m].computerEpoch]}

Use(l) ==
    /\ ~disposed
    /\ Valid(l, TRUE)
    /\ record[l.machine].state = "hot"
    /\ Cardinality(commands) < MaxCommands
    /\ \E n \in 1..MaxCommands :
          /\ \A c \in commands : c.n # n
          /\ commands' = commands \cup {[lease |-> l, n |-> n]}
    /\ record' = [record EXCEPT ![l.machine].activeCommands = @ + 1]
    /\ UNCHANGED <<op, hotLimit, disposed, leases, ownerEpoch, reported,
                   failures>>

UseEnds(c) ==               \* with a result or an exception
    /\ commands' = commands \ {c}
    /\ record' = [record EXCEPT ![c.lease.machine].activeCommands = @ - 1]
    /\ UNCHANGED <<op, hotLimit, disposed, leases, ownerEpoch, reported,
                   failures>>

\* What a client reports; malformed is a terminal whose counters are no counts.
Reports == {"safe", "unsafe", "malformed"}

\* Mutant: a release does not wait for the commands it still runs.
ReleaseEarly(l, report) ==
    /\ ~disposed
    /\ Valid(l, TRUE)
    /\ record' = [record EXCEPT ![l.machine].leaseActive = FALSE,
                                ![l.machine].safe = (report = "safe")]
    /\ reported' = [reported EXCEPT ![l.machine] = report]
    /\ UNCHANGED <<op, hotLimit, disposed, leases, commands, ownerEpoch,
                   failures>>

(* An omitted terminal is the unsafe one.  A malformed one throws in        *)
(* normalizeSafety(), after leaseActive was cleared: the lease has ended    *)
(* and the report before it stays in force.                                 *)
Release(l, report) ==
    /\ ~disposed
    /\ Valid(l, TRUE)
    /\ record[l.machine].activeCommands = 0
    /\ record' = [record EXCEPT
                    ![l.machine].leaseActive = FALSE,
                    ![l.machine].safe = IF report = "malformed" THEN @
                                        ELSE report = "safe"]
    /\ reported' = IF report = "malformed" THEN reported
                   ELSE [reported EXCEPT ![l.machine] = report]
    /\ UNCHANGED <<op, hotLimit, disposed, leases, commands, ownerEpoch,
                   failures>>

-----------------------------------------------------------------------------
(* The mutations, up to their first await                                  *)

StartAcquire(m) ==
    /\ op = Idle /\ ~disposed
    /\ ~record[m].leaseActive
    /\ record[m].leaseEpoch < MaxLeases
    /\ \/ /\ record[m].state \in {"registered", "cold"}
          /\ ownerEpoch[m] < MaxWakes
          /\ op' = [Idle EXCEPT !.kind = "acquire", !.machine = m]
          /\ UNCHANGED <<record, leases>>
       \/ /\ record[m].state = "hot"
          /\ Grant(m, record)
          /\ UNCHANGED op
    /\ UNCHANGED <<hotLimit, disposed, commands, ownerEpoch, reported, failures>>

BeginSuspend(m, next) ==    \* suspendRecord() up to computer.suspend()
    /\ record' = [record EXCEPT ![m].state = "draining"]
    /\ op' = [next EXCEPT !.await = "suspend"]

Draining == CHOOSE m \in Machines : record[m].state = "draining"

StartSuspend(l) ==
    /\ op = Idle /\ ~disposed
    /\ Valid(l, FALSE)
    /\ Eligible(l.machine)
    /\ BeginSuspend(l.machine, [Idle EXCEPT !.kind = "suspend"])
    /\ UNCHANGED <<hotLimit, disposed, leases, commands, ownerEpoch, reported,
                   failures>>

StartRetryCleanup(m) ==
    /\ op = Idle /\ ~disposed
    /\ record[m].state = "cleanupIncomplete"
    /\ ~record[m].leaseActive /\ record[m].computer
    /\ op' = [Idle EXCEPT !.kind = "retryCleanup", !.machine = m,
                          !.await = "cleanup"]
    /\ UNCHANGED <<record, hotLimit, disposed, leases, commands, ownerEpoch,
                   reported, failures>>

StartSetHotLimit(limit) ==
    /\ op = Idle /\ ~disposed
    /\ op' = [Idle EXCEPT !.kind = "setHotLimit", !.limit = limit]
    /\ UNCHANGED <<record, hotLimit, disposed, leases, commands, ownerEpoch,
                   reported, failures>>

StartDispose ==             \* refused while any resident machine is unsafe
    /\ op = Idle /\ ~disposed
    /\ \A m \in Hot : Eligible(m)
    /\ op' = [Idle EXCEPT !.kind = "dispose", !.todo = Hot]
    /\ UNCHANGED <<record, hotLimit, disposed, leases, commands, ownerEpoch,
                   reported, failures>>

-----------------------------------------------------------------------------
(* Between awaits: the loops of ensureCapacity(), setHotLimit(), dispose() *)

Goes(kind) == op.kind = kind /\ op.await = ""

HasRoom == Cardinality(Hot) < hotLimit

Candidates == {m \in Machines : m # op.machine /\ Eligible(m)}

EnsureCapacity ==
    /\ Goes("acquire")
    /\ IF HasRoom
       THEN /\ record' = [record EXCEPT ![op.machine].state = "waking",
                                        ![op.machine].prior = record[op.machine].state]
            /\ op' = [op EXCEPT !.await = "create"]
       ELSE \/ \E m \in Candidates : BeginSuspend(m, op)
            \/ /\ Cardinality(Candidates) # 1   \* none, or an invalid choice
               /\ op' = Idle /\ UNCHANGED record
    /\ UNCHANGED <<hotLimit, disposed, leases, commands, ownerEpoch, reported,
                   failures>>

\* Mutant: the lower limit is in force although the machines are resident.
LowerLimitAtOnce ==
    /\ Goes("setHotLimit")
    /\ hotLimit' = op.limit /\ op' = Idle
    /\ UNCHANGED <<record, disposed, leases, commands, ownerEpoch, reported,
                   failures>>

LowerLimit ==
    /\ Goes("setHotLimit")
    /\ IF Cardinality(Hot) <= op.limit
       THEN hotLimit' = op.limit /\ op' = Idle /\ UNCHANGED record
       ELSE /\ UNCHANGED hotLimit
            /\ \/ \E m \in {k \in Machines : Eligible(k)} : BeginSuspend(m, op)
               \/ /\ Cardinality({k \in Machines : Eligible(k)}) # 1
                  /\ op' = Idle /\ UNCHANGED record
    /\ UNCHANGED <<disposed, leases, commands, ownerEpoch, reported, failures>>

DisposeNext ==
    /\ Goes("dispose")
    /\ IF op.todo = {}
       THEN disposed' = TRUE /\ op' = Idle /\ UNCHANGED record
       ELSE /\ UNCHANGED disposed
            /\ \E m \in op.todo :
                  IF Eligible(m)
                  THEN BeginSuspend(m, [op EXCEPT !.todo = @ \ {m}])
                  ELSE op' = Idle /\ UNCHANGED record
    /\ UNCHANGED <<hotLimit, leases, commands, ownerEpoch, reported, failures>>

-----------------------------------------------------------------------------
(* The answers of the computer                                             *)

Awaits(what) == op.await = what

Cold(r) == [r EXCEPT !.state = "cold", !.computer = FALSE,
                     !.computerEpoch = 0, !.safe = TRUE]

Suspended ==                \* the receipt of a verified generation
    /\ Awaits("suspend")
    /\ record' = [record EXCEPT ![Draining] = Cold(@)]
    /\ reported' = [reported EXCEPT ![Draining] = "suspended"]
    /\ op' = IF op.kind = "suspend" THEN Idle ELSE [op EXCEPT !.await = ""]
    /\ UNCHANGED <<hotLimit, disposed, leases, commands, ownerEpoch, failures>>

\* Mutants: a computer that kept running keeps the terminal it had; another
\* candidate is tried after a failure.
SuspendFailsForgotten(lifecycle) ==
    /\ Awaits("suspend")
    /\ MayFail /\ Fails
    /\ record' = [record EXCEPT ![Draining].state = lifecycle]
    /\ reported' = [reported EXCEPT ![Draining] = "suspendFailed"]
    /\ op' = Idle
    /\ UNCHANGED <<hotLimit, disposed, leases, commands, ownerEpoch>>

SuspendFailsRetries(lifecycle) ==
    /\ Awaits("suspend")
    /\ record' = [record EXCEPT ![Draining].state = "hot"]
    /\ op' = [op EXCEPT !.await = ""]
    /\ UNCHANGED <<hotLimit, disposed, leases, commands, ownerEpoch, reported,
                   failures>>

(* Rolled back and hot again, cleanup incomplete, or neither (rollback      *)
(* failed, or a receipt that does not match the record).                    *)
SuspendFails(lifecycle) ==
    /\ Awaits("suspend")
    /\ MayFail /\ Fails
    /\ record' = [record EXCEPT
                    ![Draining].state = lifecycle,
                    ![Draining].safe = IF lifecycle = "cleanupIncomplete"
                                       THEN @ ELSE FALSE]
    /\ reported' = [reported EXCEPT ![Draining] = "suspendFailed"]
    /\ op' = Idle
    /\ UNCHANGED <<hotLimit, disposed, leases, commands, ownerEpoch>>

CleanedUp ==
    /\ Awaits("cleanup")
    /\ record' = [record EXCEPT ![op.machine] = Cold(@)]
    /\ reported' = [reported EXCEPT ![op.machine] = "suspended"]
    /\ op' = Idle
    /\ UNCHANGED <<hotLimit, disposed, leases, commands, ownerEpoch, failures>>

CleanupFails ==             \* as often as it is retried
    /\ Awaits("cleanup")
    /\ op' = Idle
    /\ UNCHANGED <<record, hotLimit, disposed, leases, commands, ownerEpoch,
                   reported, failures>>

Created ==                  \* record.computer is set before initialize()
    /\ Awaits("create")
    /\ record' = [record EXCEPT ![op.machine].computer = TRUE]
    /\ op' = [op EXCEPT !.await = "initialize"]
    /\ UNCHANGED <<hotLimit, disposed, leases, commands, ownerEpoch, reported,
                   failures>>

CreateFails ==
    /\ Awaits("create")
    /\ MayFail /\ Fails
    /\ record' = [record EXCEPT ![op.machine].state = record[op.machine].prior]
    /\ op' = Idle
    /\ UNCHANGED <<hotLimit, disposed, leases, commands, ownerEpoch, reported>>

(* A newer owner epoch was claimed.  Then the lease, unless idFactory()     *)
(* gives no id: the computer is hot without one.                            *)
Initialized ==
    LET epoch == ownerEpoch[op.machine] + 1
        woken == [record EXCEPT ![op.machine].state = "hot",
                                ![op.machine].computerEpoch = epoch]
    IN  /\ Awaits("initialize")
        /\ ownerEpoch' = [ownerEpoch EXCEPT ![op.machine] = epoch]
        /\ op' = Idle
        /\ \/ Grant(op.machine, woken) /\ UNCHANGED failures
           \/ /\ MayFail /\ Fails
              /\ record' = woken /\ UNCHANGED leases
        /\ UNCHANGED <<hotLimit, disposed, commands, reported>>

InitializeFails ==
    /\ Awaits("initialize")
    /\ MayFail /\ Fails
    /\ op' = [op EXCEPT !.await = "dispose"]
    /\ UNCHANGED <<record, hotLimit, disposed, leases, commands, ownerEpoch,
                   reported>>

Unwoken(r) == [r EXCEPT !.state = r.prior, !.computer = FALSE,
                        !.computerEpoch = 0]

WakeDisposed ==             \* also when dispose() rejects: that is swallowed
    /\ Awaits("dispose")
    /\ record' = [record EXCEPT ![op.machine] = Unwoken(@)]
    /\ op' = Idle
    /\ UNCHANGED <<hotLimit, disposed, leases, commands, ownerEpoch, reported,
                   failures>>

-----------------------------------------------------------------------------
Mutations ==
    \/ \E m \in Machines : StartAcquire(m) \/ StartRetryCleanup(m)
    \/ \E l \in leases : StartSuspend(l)
    \/ \E limit \in Limits : StartSetHotLimit(limit)
    \/ StartDispose

Lifecycles == {"hot", "cleanupIncomplete", "failed"}

Answers ==
    \/ Suspended \/ (\E lifecycle \in Lifecycles : SuspendFails(lifecycle))
    \/ CleanedUp \/ CleanupFails \/ Created \/ CreateFails
    \/ Initialized \/ InitializeFails \/ WakeDisposed

Continues == EnsureCapacity \/ LowerLimit \/ DisposeNext

Clients ==
    \/ \E m \in Machines : Register(m)
    \/ \E l \in leases : Use(l) \/ \E report \in Reports : Release(l, report)
    \/ \E c \in commands : UseEnds(c)

Next == Mutations \/ Answers \/ Continues \/ Clients

Spec == Init /\ [][Next]_vars

(* Every computer answers (the durable computer's awaits are bounded by its *)
(* controls) and a mutation that goes on does go on.  Nothing is assumed of *)
(* the clients.                                                             *)
FairSpec == Spec /\ WF_vars(Answers) /\ WF_vars(Continues)
-----------------------------------------------------------------------------
States == {"absent", "registered", "waking", "hot", "draining", "cold",
           "cleanupIncomplete", "failed"}

Leases == [machine : Machines, epoch : Nat, ownerEpoch : Nat]

Records == [state : States, computer : BOOLEAN, computerEpoch : Nat,
            leaseEpoch : Nat, leaseActive : BOOLEAN, activeCommands : Nat,
            safe : BOOLEAN, prior : {"none", "registered", "cold"}]

Ops == [kind : {"idle", "acquire", "suspend", "retryCleanup", "setHotLimit",
                "dispose"},
        machine : Machines \cup {None},
        await : {"", "suspend", "cleanup", "create", "initialize", "dispose"},
        limit : Nat, todo : SUBSET Machines]

TypeOK ==
    /\ record \in [Machines -> Records]
    /\ op \in Ops
    /\ hotLimit \in Nat \ {0}
    /\ disposed \in BOOLEAN
    /\ leases \subseteq Leases
    /\ commands \subseteq [lease : Leases, n : Nat]
    /\ ownerEpoch \in [Machines -> Nat]
    /\ reported \in [Machines -> {"nothing", "safe", "unsafe",
                                  "suspended", "suspendFailed"}]
    /\ failures \in Nat

(* The machines that keep a live computer never exceed the limit in force,  *)
(* while wakes, suspensions and changes of the limit await their computers. *)
HotBudget == Cardinality(Hot) <= hotLimit

(* Whatever runs inside use() runs under the one lease that is active for   *)
(* its machine, on the computer that lease was granted on, and the machine  *)
(* is not being suspended.                                                  *)
CommandsUnderLease ==
    \A c \in commands :
        Valid(c.lease, TRUE) /\ record[c.lease.machine].state = "hot"

(* A machine is suspended only when the last terminal it accepted was a     *)
(* safe one, or it has accepted none since it was last suspended, and no    *)
(* suspension has failed since: a reported unsaved or unresolved effect is  *)
(* never given up to make room.  A malformed terminal is not accepted, so   *)
(* it leaves the machine as suspendable as it was.                          *)
OnlySafeSuspended ==
    \A m \in Machines :
        record[m].state = "draining" => reported[m] \in {"safe", "suspended"}

\* Refinement mapping: what the pool sees of a record.
SlotOf(r) == IF ~r.computer THEN "out"
             ELSE IF r.state = "waking" THEN "loading"
             ELSE IF r.leaseActive THEN "lent" ELSE "in"

Slots == [m \in Machines |-> SlotOf(record[m])]

Pool == INSTANCE HotPool WITH slot <- Slots, limit <- hotLimit

(* The fleet is a bounded pool that lends each machine to one lease and     *)
(* takes out only machines that are neither lent nor pinned.                *)
ImplementsPool == Pool!Spec

(* Every mutation comes to an end, so the ones behind it get their turn.    *)
MutationSettles == op # Idle ~> op = Idle
=============================================================================
