------------------------- MODULE MachineFleet_proofs -------------------------
(***************************************************************************)
(* What MachineFleet guarantees for any number of machines, any limits and *)
(* any leases: the bound on resident machines, what runs under a lease,    *)
(* what may be suspended, and that the fleet implements HotPool.           *)
(*                                                                         *)
(* Every action changes at most one record. The lemmas of the first part   *)
(* say what such a change leaves alone; then each action has a lemma that  *)
(* names its machine m, its new record r, and carries the invariant over.  *)
(***************************************************************************)
EXTENDS MachineFleet, FiniteSetTheorems, TLAPS

CommandsOn(m) == {c \in commands : c.lease.machine = m}

\* use() counts what it starts: the guard of release() is about these commands.
Counted ==
    /\ IsFiniteSet(commands)
    /\ \A m \in Machines : record[m].activeCommands = Cardinality(CommandsOn(m))

\* The fields of a record r of machine m fit together, and fit what it reported.
Fits(m, r, told) ==
    /\ r.leaseActive => r.state = "hot"
    /\ r.state \in {"hot", "draining", "cleanupIncomplete"} => r.computer
    /\ r.state \in {"absent", "registered", "cold"} => ~r.computer
    /\ r.state \in {"draining", "cleanupIncomplete"} => m \notin Pinned
    /\ r.state = "draining" => r.safe
    /\ r.state = "waking" => r.prior \in {"registered", "cold"}
    /\ r.safe /\ r.state # "cleanupIncomplete" => told \in {"safe", "suspended"}

RecordsOK == \A m \in Machines : Fits(m, record[m], reported[m])

\* At most one machine is being suspended, and only while a mutation awaits it.
OneDraining ==
    /\ op.await = "suspend" => \E m \in Machines : record[m].state = "draining"
    /\ \A m \in Machines : record[m].state = "draining" => op.await = "suspend"
    /\ \A m, n \in Machines :
          record[m].state = "draining" /\ record[n].state = "draining" => m = n

\* The mutation that awaits a computer finds its machine as it left it.
MachineWaits ==
    /\ op.kind = "acquire" /\ op.await \in {"", "suspend"}
         => op.machine \in Machines /\ record[op.machine].state \in {"registered", "cold"}
    /\ op.await \in {"create", "initialize", "dispose"}
         => op.machine \in Machines /\ record[op.machine].state = "waking"
    /\ op.await = "create" => ~record[op.machine].computer
    /\ op.await \in {"initialize", "dispose"} => record[op.machine].computer
    /\ op.await = "cleanup"
         => op.machine \in Machines /\ record[op.machine].state = "cleanupIncomplete"

OpOK ==
    /\ OneDraining
    /\ MachineWaits
    /\ op.kind = "setHotLimit" => op.limit \in Nat \ {0}

\* A computer that is about to exist already has its place.
Reserved ==
    /\ Cardinality(Hot) <= hotLimit
    /\ op.await = "create" => Cardinality(Hot) < hotLimit

IInv == TypeOK /\ Counted /\ RecordsOK /\ OpOK /\ Reserved /\ CommandsUnderLease

-----------------------------------------------------------------------------
(* What a change of one record leaves alone.                               *)

LEMMA IdleType == Idle \in Ops
BY DEF Idle, Ops

LEMMA AbsentType ==
    /\ Registered \in Records
    /\ Absent \in Records
<1>1. Registered \in Records
  BY DEF Registered, Records, States
<1>2. QED
  BY <1>1 DEF Absent, Records, States

LEMMA DrainingIsThere ==
    ASSUME OpOK, op.await = "suspend"
    PROVE  /\ Draining \in Machines
           /\ record[Draining].state = "draining"
           /\ \A m \in Machines : record[m].state = "draining" => m = Draining
BY DEF OpOK, OneDraining, Draining

LEMMA LeaseType ==
    ASSUME TypeOK, NEW l \in leases
    PROVE  l \in Leases /\ l.machine \in Machines
BY DEF TypeOK, Leases

LEMMA CommandType ==
    ASSUME TypeOK, NEW c \in commands
    PROVE  c.lease \in Leases /\ c.lease.machine \in Machines
BY DEF TypeOK, Leases

LEMMA HotIsFinite == IsFiniteSet(Hot) /\ Cardinality(Hot) \in Nat
BY FiniteAssumption, FS_Subset, FS_CardinalityType DEF Hot

LEMMA RecordChange ==
    ASSUME TypeOK, NEW m \in Machines, NEW r \in Records,
           record' = [record EXCEPT ![m] = r]
    PROVE  /\ record' \in [Machines -> Records]
           /\ record'[m] = r
           /\ \A n \in Machines \ {m} : record'[n] = record[n]
BY DEF TypeOK

\* The record of a machine that is lent anew.
Lend(q) == [q EXCEPT !.leaseEpoch = @ + 1, !.leaseActive = TRUE]

LEMMA LentRecord ==
    ASSUME NEW f \in [Machines -> Records], NEW m \in Machines
    PROVE  Lent(m, f) = [f EXCEPT ![m] = Lend(f[m])]
BY DEF Lent, Lend

LEMMA LendFields ==
    ASSUME NEW q \in Records
    PROVE  /\ Lend(q) \in Records
           /\ Lend(q).state = q.state /\ Lend(q).computer = q.computer
           /\ Lend(q).safe = q.safe /\ Lend(q).prior = q.prior
           /\ Lend(q).activeCommands = q.activeCommands
           /\ Lend(q).leaseActive
<1> DEFINE e == q.leaseEpoch + 1
<1>1. e \in Nat
  BY DEF Records
<1>2. Lend(q) = [q EXCEPT !.leaseEpoch = e, !.leaseActive = TRUE]
  BY DEF Lend
<1> HIDE DEF e
<1>3. QED
  BY <1>1, <1>2 DEF Records

LEMMA RecordsStay ==
    ASSUME TypeOK, RecordsOK, NEW m \in Machines, NEW r \in Records,
           record' = [record EXCEPT ![m] = r],
           \A n \in Machines \ {m} : reported'[n] = reported[n],
           Fits(m, r, reported'[m])
    PROVE  RecordsOK'
BY RecordChange, ZenonT(60) DEF RecordsOK, Fits

\* No command runs on a machine that is not lent, not hot, or counts none.
LEMMA QuietMachine ==
    ASSUME IInv, NEW m \in Machines,
           \/ record[m].activeCommands = 0
           \/ ~record[m].leaseActive
           \/ record[m].state # "hot"
    PROVE  CommandsOn(m) = {}
<1>1. CASE record[m].activeCommands = 0
  <2>1. IsFiniteSet(CommandsOn(m))
    BY FS_Subset DEF IInv, Counted, CommandsOn
  <2>2. QED
    BY <1>1, <2>1, FS_EmptySet DEF IInv, Counted
<1>2. CASE ~record[m].leaseActive \/ record[m].state # "hot"
  BY <1>2 DEF IInv, CommandsUnderLease, CommandsOn, Valid, TypeOK, Records
<1>3. QED
  BY <1>1, <1>2

\* Commands stay where they are counted, and under their lease.
LEMMA CommandsStay ==
    ASSUME IInv, NEW m \in Machines, NEW r \in Records,
           record' = [record EXCEPT ![m] = r], commands' = commands,
           r.activeCommands = record[m].activeCommands,
           \/ CommandsOn(m) = {}
           \/ /\ r.leaseEpoch = record[m].leaseEpoch
              /\ r.leaseActive = record[m].leaseActive
              /\ r.computer = record[m].computer
              /\ r.computerEpoch = record[m].computerEpoch
              /\ r.state = record[m].state
    PROVE  Counted' /\ CommandsUnderLease'
<1>1. /\ record'[m] = r
      /\ \A n \in Machines \ {m} : record'[n] = record[n]
  BY RecordChange DEF IInv
<1>2. Counted'
  BY <1>1 DEF IInv, Counted, CommandsOn
<1>3. ASSUME NEW c \in commands
      PROVE  Valid(c.lease, TRUE)' /\ record'[c.lease.machine].state = "hot"
  <2>1. c.lease.machine \in Machines
    BY CommandType DEF IInv
  <2>2. Valid(c.lease, TRUE) /\ record[c.lease.machine].state = "hot"
    BY DEF IInv, CommandsUnderLease
  <2>3. CASE c.lease.machine # m
    BY <1>1, <2>1, <2>2, <2>3 DEF Valid
  <2>4. CASE c.lease.machine = m
    BY <1>1, <2>2, <2>4 DEF Valid, CommandsOn
  <2>5. QED
    BY <2>3, <2>4
<1>4. QED
  BY <1>2, <1>3 DEF CommandsUnderLease

LEMMA HotStays ==
    ASSUME TypeOK, NEW m \in Machines, NEW r \in Records,
           record' = [record EXCEPT ![m] = r]
    PROVE  /\ r.computer = record[m].computer => Hot' = Hot
           /\ r.computer => Hot' = Hot \cup {m}
           /\ ~r.computer => Hot' = Hot \ {m}
BY RecordChange DEF Hot

\* When no record changes, only the mutation is left to look at.
LEMMA RecordsUnchanged ==
    ASSUME IInv, UNCHANGED <<record, commands, reported>>
    PROVE  Counted' /\ RecordsOK' /\ CommandsUnderLease' /\ Hot' = Hot
BY DEF IInv, Counted, CommandsOn, RecordsOK, Fits, CommandsUnderLease, Valid, Hot

\* The mutation goes on waiting when another record changes, or another field.
LEMMA OpStays ==
    ASSUME TypeOK, OpOK, NEW m \in Machines, NEW r \in Records,
           record' = [record EXCEPT ![m] = r], op' = op,
           \/ r.state = record[m].state /\ r.computer = record[m].computer
           \/ record[m].state = "absent" /\ r.state = "registered"
    PROVE  OpOK'
<1>1. record'[m] = r /\ \A n \in Machines \ {m} : record'[n] = record[n]
  BY RecordChange
<1>2. \A n \in Machines : record'[n].state = "draining" <=> record[n].state = "draining"
  BY <1>1
<1>3. OneDraining'
  BY <1>2 DEF OpOK, OneDraining
<1>4. MachineWaits'
  BY <1>1 DEF OpOK, MachineWaits
<1>5. QED
  BY <1>3, <1>4 DEF OpOK

-----------------------------------------------------------------------------
(* The pool the fleet implements sees one slot per record.                 *)

PoolStep == Pool!Next \/ UNCHANGED Pool!vars

LEMMA PoolStays ==
    ASSUME TypeOK, NEW m \in Machines, NEW r \in Records,
           record' = [record EXCEPT ![m] = r], UNCHANGED hotLimit,
           SlotOf(r) = SlotOf(record[m])
    PROVE  PoolStep
<1>1. \A n \in Machines : SlotOf(record'[n]) = SlotOf(record[n])
  BY RecordChange
<1>2. Slots' = Slots
  BY <1>1, Zenon DEF Slots
<1>3. QED
  BY <1>2 DEF PoolStep, Pool!vars

LEMMA PoolUntouched ==
    ASSUME UNCHANGED <<record, hotLimit>>
    PROVE  PoolStep
BY DEF PoolStep, Pool!vars, Slots

LEMMA ResidentIsHot == Pool!Resident = Hot
<1>1. \A m \in Machines : (SlotOf(record[m]) # "out") <=> record[m].computer
  BY DEF SlotOf
<1>2. \A m \in Machines : Slots[m] = SlotOf(record[m])
  BY DEF Slots
<1>3. QED
  BY <1>1, <1>2 DEF Pool!Resident, Hot

LEMMA PoolMoves ==
    ASSUME TypeOK, NEW m \in Machines, NEW r \in Records,
           record' = [record EXCEPT ![m] = r], UNCHANGED hotLimit
    PROVE  Pool!Move(m, SlotOf(record[m]), SlotOf(r))
<1>1. record'[m] = r /\ \A n \in Machines \ {m} : record'[n] = record[n]
  BY RecordChange
<1>2. \A n \in Machines : SlotOf(record'[n]) = IF n = m THEN SlotOf(r) ELSE Slots[n]
  BY <1>1 DEF Slots
<1>3. Slots' = [n \in Machines |-> SlotOf(record'[n])]
  BY DEF Slots
<1>4. Slots' = [n \in Machines |-> IF n = m THEN SlotOf(r) ELSE Slots[n]]
  BY <1>2, <1>3, Zenon
<1>5. Slots' = [Slots EXCEPT ![m] = SlotOf(r)]
  BY <1>4 DEF Slots
<1>6. Slots[m] = SlotOf(record[m])
  BY DEF Slots
<1>7. QED
  BY <1>5, <1>6 DEF Pool!Move

LEMMA SameCardinality == \A T : Pool!Cardinality(T) = Cardinality(T)
BY DEF Pool!Cardinality, Cardinality

\* A machine is loaded into a free place, or leaves it unpinned.
LEMMA PoolChanges ==
    ASSUME TypeOK, NEW m \in Machines, NEW r \in Records,
           record' = [record EXCEPT ![m] = r], UNCHANGED hotLimit,
           \/ /\ SlotOf(record[m]) = "out" /\ SlotOf(r) = "loading"
              /\ Cardinality(Hot) < hotLimit
           \/ SlotOf(record[m]) = "loading" /\ SlotOf(r) \in {"out", "in", "lent"}
           \/ SlotOf(record[m]) = "in" /\ SlotOf(r) = "out" /\ m \notin Pinned
    PROVE  PoolStep
<1>1. Pool!Move(m, SlotOf(record[m]), SlotOf(r))
  BY PoolMoves
<1>2. Pool!Cardinality(Pool!Resident) = Cardinality(Hot)
  BY ResidentIsHot, SameCardinality
<1>3. Pool!Load(m) \/ Pool!LoadFails(m) \/ Pool!Loaded(m) \/ Pool!TakeOut(m)
  BY <1>1, <1>2 DEF Pool!Load, Pool!LoadFails, Pool!Loaded, Pool!TakeOut
<1>4. QED
  BY <1>3 DEF PoolStep, Pool!Next

-----------------------------------------------------------------------------
(* The clients: register, use, the end of a use, release.                  *)

LEMMA RegisterStep ==
    ASSUME IInv, NEW m \in Machines, Register(m)
    PROVE  IInv' /\ PoolStep
<1> DEFINE r == Registered
<1>1. r \in Records /\ record' = [record EXCEPT ![m] = r]
  BY AbsentType DEF Register
<1>2. /\ r.state = "registered" /\ ~r.computer /\ ~r.leaseActive /\ ~r.safe
      /\ r.activeCommands = 0
  BY DEF Registered
<1> HIDE DEF r
<1>3. TypeOK'
  BY <1>1, RecordChange DEF Register, TypeOK, IInv
<1>4. CommandsOn(m) = {}
  BY QuietMachine DEF Register
<1>5. record[m].activeCommands = 0
  BY <1>4, FS_EmptySet DEF IInv, Counted
<1>6. Counted' /\ CommandsUnderLease'
  BY <1>1, <1>2, <1>4, <1>5, CommandsStay DEF Register
<1>7. RecordsOK'
  BY <1>1, <1>2, RecordsStay DEF Register, IInv, Fits
<1>8. OpOK'
  BY <1>1, <1>2, OpStays DEF Register, IInv
<1>9. Reserved'
  <2>1. Hot' \subseteq Hot
    BY <1>1, <1>2, HotStays DEF IInv
  <2>2. Cardinality(Hot') <= Cardinality(Hot) /\ Cardinality(Hot') \in Nat
    BY <2>1, HotIsFinite, FS_Subset, FS_CardinalityType
  <2>3. QED
    BY <2>2, HotIsFinite DEF Register, IInv, Reserved, TypeOK
<1>10. PoolStep
  BY <1>1, <1>2, PoolStays DEF Register, IInv, RecordsOK, Fits, SlotOf
<1>11. QED
  BY <1>3, <1>6, <1>7, <1>8, <1>9, <1>10 DEF IInv

LEMMA UseStep ==
    ASSUME IInv, NEW l \in leases, Use(l)
    PROVE  IInv' /\ PoolStep
<1> DEFINE m == l.machine
           r == [record[m] EXCEPT !.activeCommands = @ + 1]
<1>1. m \in Machines /\ l \in Leases /\ record[m] \in Records
  BY LeaseType DEF IInv, TypeOK
<1>2. /\ r \in Records
      /\ r.activeCommands = record[m].activeCommands + 1
      /\ r.state = record[m].state /\ r.computer = record[m].computer
      /\ r.leaseActive = record[m].leaseActive /\ r.leaseEpoch = record[m].leaseEpoch
      /\ r.computerEpoch = record[m].computerEpoch /\ r.safe = record[m].safe
      /\ r.prior = record[m].prior
  BY <1>1 DEF Records
<1>3. record' = [record EXCEPT ![m] = r]
  BY <1>1 DEF Use, IInv, TypeOK
<1>4. PICK n \in 1..MaxCommands :
         /\ \A c \in commands : c.n # n
         /\ commands' = commands \cup {[lease |-> l, n |-> n]}
  BY DEF Use
<1> HIDE DEF r
<1>5. /\ record' \in [Machines -> Records] /\ record'[m] = r
      /\ \A k \in Machines \ {m} : record'[k] = record[k]
  BY <1>1, <1>2, <1>3, RecordChange DEF IInv
<1>6. TypeOK'
  <2>1. commands' \subseteq [lease : Leases, n : Nat]
    BY <1>1, <1>4, BoundAssumption DEF IInv, TypeOK
  <2>2. QED
    BY <1>5, <2>1 DEF Use, IInv, TypeOK
<1>7. Counted'
  <2> DEFINE c == [lease |-> l, n |-> n]
  <2>1. c \notin commands /\ c.lease = l
    BY <1>4
  <2>2. IsFiniteSet(commands')
    BY <1>4, FS_AddElement DEF IInv, Counted
  <2>3. IsFiniteSet(CommandsOn(m)) /\ c \notin CommandsOn(m)
    BY <2>1, FS_Subset DEF IInv, Counted, CommandsOn
  <2>4. CommandsOn(m)' = CommandsOn(m) \cup {c}
    BY <1>4, <2>1 DEF CommandsOn
  <2>5. Cardinality(CommandsOn(m)') = Cardinality(CommandsOn(m)) + 1
    BY <2>3, <2>4, FS_AddElement
  <2>6. \A k \in Machines \ {m} : CommandsOn(k)' = CommandsOn(k)
    BY <1>4, <2>1 DEF CommandsOn
  <2>7. QED
    BY <1>1, <1>2, <1>5, <2>2, <2>5, <2>6 DEF IInv, Counted
<1>8. CommandsUnderLease'
  <2>1. \A k \in Machines :
           /\ record'[k].state = record[k].state
           /\ record'[k].computer = record[k].computer
           /\ record'[k].leaseActive = record[k].leaseActive
           /\ record'[k].leaseEpoch = record[k].leaseEpoch
           /\ record'[k].computerEpoch = record[k].computerEpoch
    BY <1>2, <1>5
  <2>2. \A c \in commands' : /\ c.lease.machine \in Machines
                             /\ Valid(c.lease, TRUE)
                             /\ record[c.lease.machine].state = "hot"
    <3>1. \A c \in commands : /\ c.lease.machine \in Machines
                              /\ Valid(c.lease, TRUE)
                              /\ record[c.lease.machine].state = "hot"
      BY CommandType DEF IInv, CommandsUnderLease
    <3>2. Valid(l, TRUE) /\ record[m].state = "hot"
      BY DEF Use
    <3>3. \A c \in commands' : c \in commands \/ c.lease = l
      BY <1>4
    <3>4. QED
      BY <1>1, <3>1, <3>2, <3>3
  <2>3. QED
    BY <2>1, <2>2 DEF CommandsUnderLease, Valid
<1>9. RecordsOK'
  BY <1>1, <1>2, <1>3, RecordsStay DEF Use, IInv, RecordsOK, Fits
<1>10. OpOK'
  BY <1>1, <1>2, <1>3, OpStays DEF Use, IInv
<1>11. Reserved'
  BY <1>1, <1>2, <1>3, HotStays DEF Use, IInv, Reserved
<1>12. PoolStep
  <2>1. SlotOf(r) = SlotOf(record[m])
    BY <1>2 DEF SlotOf
  <2>2. QED
    BY <1>1, <1>2, <1>3, <2>1, PoolStays DEF Use, IInv
<1>13. QED
  BY <1>6, <1>7, <1>8, <1>9, <1>10, <1>11, <1>12 DEF IInv

LEMMA UseEndsStep ==
    ASSUME IInv, NEW c \in commands, UseEnds(c)
    PROVE  IInv' /\ PoolStep
<1> DEFINE m == c.lease.machine
           r == [record[m] EXCEPT !.activeCommands = @ - 1]
<1>1. m \in Machines /\ record[m] \in Records
  BY CommandType DEF IInv, TypeOK
<1>2. IsFiniteSet(CommandsOn(m)) /\ c \in CommandsOn(m)
  BY FS_Subset DEF IInv, Counted, CommandsOn
<1>3. record[m].activeCommands - 1 \in Nat
  BY <1>1, <1>2, FS_CardinalityType, FS_EmptySet DEF IInv, Counted
<1>4. /\ r \in Records
      /\ r.activeCommands = record[m].activeCommands - 1
      /\ r.state = record[m].state /\ r.computer = record[m].computer
      /\ r.leaseActive = record[m].leaseActive /\ r.leaseEpoch = record[m].leaseEpoch
      /\ r.computerEpoch = record[m].computerEpoch /\ r.safe = record[m].safe
      /\ r.prior = record[m].prior
  BY <1>1, <1>3 DEF Records
<1>5. record' = [record EXCEPT ![m] = r]
  BY <1>1 DEF UseEnds, IInv, TypeOK
<1> HIDE DEF r
<1>6. /\ record' \in [Machines -> Records] /\ record'[m] = r
      /\ \A k \in Machines \ {m} : record'[k] = record[k]
  BY <1>1, <1>4, <1>5, RecordChange DEF IInv
<1>7. TypeOK'
  BY <1>6 DEF UseEnds, IInv, TypeOK
<1>8. Counted'
  <2>1. IsFiniteSet(commands')
    BY FS_RemoveElement DEF UseEnds, IInv, Counted
  <2>2. CommandsOn(m)' = CommandsOn(m) \ {c}
    BY DEF UseEnds, CommandsOn
  <2>3. Cardinality(CommandsOn(m)') = Cardinality(CommandsOn(m)) - 1
    BY <1>2, <2>2, FS_RemoveElement
  <2>4. \A k \in Machines \ {m} : CommandsOn(k)' = CommandsOn(k)
    BY DEF UseEnds, CommandsOn
  <2>5. QED
    BY <1>1, <1>4, <1>6, <2>1, <2>3, <2>4 DEF IInv, Counted
<1>9. CommandsUnderLease'
  <2>1. \A k \in Machines :
           /\ record'[k].state = record[k].state
           /\ record'[k].computer = record[k].computer
           /\ record'[k].leaseActive = record[k].leaseActive
           /\ record'[k].leaseEpoch = record[k].leaseEpoch
           /\ record'[k].computerEpoch = record[k].computerEpoch
    BY <1>4, <1>6
  <2>2. \A d \in commands' : /\ d.lease.machine \in Machines
                             /\ Valid(d.lease, TRUE)
                             /\ record[d.lease.machine].state = "hot"
    BY CommandType DEF UseEnds, IInv, CommandsUnderLease
  <2>3. QED
    BY <2>1, <2>2 DEF CommandsUnderLease, Valid
<1>10. RecordsOK'
  <2>1. Fits(m, record[m], reported[m])
    BY <1>1 DEF IInv, RecordsOK
  <2>2. Fits(m, r, reported[m])
    BY <1>4, <2>1 DEF Fits
  <2>3. reported' = reported
    BY DEF UseEnds
  <2>4. QED
    BY <1>6, <2>2, <2>3 DEF IInv, RecordsOK, Fits
<1>11. OpOK'
  BY <1>1, <1>4, <1>5, OpStays DEF UseEnds, IInv
<1>12. Reserved'
  BY <1>1, <1>4, <1>5, HotStays DEF UseEnds, IInv, Reserved
<1>13. PoolStep
  BY <1>1, <1>4, <1>5, PoolStays DEF UseEnds, IInv, SlotOf
<1>14. QED
  BY <1>7, <1>8, <1>9, <1>10, <1>11, <1>12, <1>13 DEF IInv

LEMMA ReleaseStep ==
    ASSUME IInv, NEW l \in leases, NEW report \in Reports, Release(l, report)
    PROVE  IInv' /\ PoolStep
<1> DEFINE m == l.machine
           safer == IF report = "malformed" THEN record[m].safe ELSE report = "safe"
           r == [record[m] EXCEPT !.leaseActive = FALSE, !.safe = safer]
<1>1. m \in Machines /\ record[m] \in Records
  BY LeaseType DEF IInv, TypeOK
<1>2. safer \in BOOLEAN
  BY <1>1 DEF Records
<1>3. record' = [record EXCEPT ![m] = r]
  BY <1>1 DEF Release, IInv, TypeOK
<1>4. reported' \in [Machines -> {"nothing", "safe", "unsafe", "suspended", "suspendFailed"}]
  <2>1. report # "malformed" => report \in {"safe", "unsafe"}
    BY DEF Reports
  <2>2. QED
    BY <1>1, <2>1 DEF Release, IInv, TypeOK
<1>5. /\ \A n \in Machines \ {m} : reported'[n] = reported[n]
      /\ report = "malformed" => reported'[m] = reported[m]
      /\ report # "malformed" => reported'[m] = report
  BY <1>1 DEF Release, IInv, TypeOK
<1>6. safer => \/ report = "safe"
               \/ report = "malformed" /\ record[m].safe
  OBVIOUS
<1> HIDE DEF safer
<1>7. /\ r \in Records
      /\ r.activeCommands = record[m].activeCommands
      /\ r.state = record[m].state /\ r.computer = record[m].computer
      /\ ~r.leaseActive /\ r.safe = safer /\ r.prior = record[m].prior
  BY <1>1, <1>2 DEF Records
<1> HIDE DEF r
<1>8. /\ record' \in [Machines -> Records] /\ record'[m] = r
      /\ \A k \in Machines \ {m} : record'[k] = record[k]
  BY <1>1, <1>3, <1>7, RecordChange DEF IInv
<1>9. TypeOK'
  BY <1>4, <1>8 DEF Release, IInv, TypeOK
<1>10. Counted' /\ CommandsUnderLease'
  BY <1>1, <1>3, <1>7, QuietMachine, CommandsStay DEF Release
<1>11. RecordsOK'
  <2>2. record[m].leaseActive
    BY DEF Release, Valid
  <2>3. Fits(m, r, reported'[m])
    BY <1>1, <1>5, <1>6, <1>7, <2>2 DEF IInv, RecordsOK, Fits
  <2>4. QED
    BY <1>1, <1>3, <1>5, <1>7, <2>3, RecordsStay DEF IInv
<1>12. OpOK'
  BY <1>1, <1>3, <1>7, OpStays DEF Release, IInv
<1>13. Reserved'
  BY <1>1, <1>3, <1>7, HotStays DEF Release, IInv, Reserved
<1>14. PoolStep
  <2>1. record[m].leaseActive
    BY DEF Release, Valid
  <2>2. SlotOf(record[m]) = "lent" /\ SlotOf(r) = "in"
    BY <1>1, <1>7, <2>1 DEF IInv, RecordsOK, Fits, SlotOf
  <2>3. Pool!Return(m)
    BY <1>1, <1>3, <1>7, <2>2, PoolMoves DEF Release, IInv, Pool!Return
  <2>4. QED
    BY <1>1, <2>3 DEF PoolStep, Pool!Next
<1>15. QED
  BY <1>9, <1>10, <1>11, <1>12, <1>13, <1>14 DEF IInv

-----------------------------------------------------------------------------
(* The mutations, up to their first await.                                 *)

\* A new mutation, or the end of one: no record changes.
LEMMA OpChanges ==
    ASSUME IInv, UNCHANGED <<record, commands, reported, hotLimit, leases,
                             ownerEpoch>>,
           disposed' \in BOOLEAN, failures' \in Nat, op' \in Ops,
           OpOK', op'.await = "create" => op.await = "create"
    PROVE  IInv' /\ PoolStep
<1>1. Counted' /\ RecordsOK' /\ CommandsUnderLease' /\ Hot' = Hot
  BY RecordsUnchanged DEF IInv
<1>2. TypeOK'
  BY DEF IInv, TypeOK
<1>3. Reserved'
  BY <1>1 DEF IInv, Reserved
<1>4. QED
  BY <1>1, <1>2, <1>3, PoolUntouched DEF IInv

\* A mutation that ends while it awaits no suspension leaves nothing draining.
LEMMA Ends ==
    ASSUME IInv, op.await # "suspend", op' = Idle,
           UNCHANGED <<record, commands, reported, hotLimit, leases, ownerEpoch,
                       disposed>>, failures' \in Nat
    PROVE  IInv' /\ PoolStep
<1>1. OpOK'
  BY DEF IInv, OpOK, OneDraining, MachineWaits, Idle
<1>2. op'.await = ""
  BY DEF Idle
<1>3. QED
  BY <1>1, <1>2, IdleType, OpChanges DEF IInv, TypeOK

LEMMA StartRetryCleanupStep ==
    ASSUME IInv, NEW m \in Machines, StartRetryCleanup(m)
    PROVE  IInv' /\ PoolStep
<1>1. op' = [kind |-> "retryCleanup", machine |-> m, await |-> "cleanup",
             limit |-> 0, todo |-> {}]
  BY DEF StartRetryCleanup, Idle
<1>2. op' \in Ops
  BY <1>1 DEF Ops
<1>3. OpOK'
  BY <1>1 DEF StartRetryCleanup, IInv, OpOK, OneDraining, MachineWaits, Idle
<1>4. QED
  BY <1>1, <1>2, <1>3, OpChanges DEF StartRetryCleanup, IInv, TypeOK

LEMMA StartSetHotLimitStep ==
    ASSUME IInv, NEW limit \in Limits, StartSetHotLimit(limit)
    PROVE  IInv' /\ PoolStep
<1>1. op' = [kind |-> "setHotLimit", machine |-> None, await |-> "",
             limit |-> limit, todo |-> {}]
  BY DEF StartSetHotLimit, Idle
<1>2. op' \in Ops
  BY <1>1, LimitAssumption DEF Ops
<1>3. OpOK'
  BY <1>1, LimitAssumption
     DEF StartSetHotLimit, IInv, OpOK, OneDraining, MachineWaits, Idle
<1>4. QED
  BY <1>1, <1>2, <1>3, OpChanges DEF StartSetHotLimit, IInv, TypeOK

LEMMA StartDisposeStep ==
    ASSUME IInv, StartDispose
    PROVE  IInv' /\ PoolStep
<1>1. op' = [kind |-> "dispose", machine |-> None, await |-> "", limit |-> 0,
             todo |-> Hot]
  BY DEF StartDispose, Idle
<1>2. op' \in Ops
  BY <1>1 DEF Ops, Hot
<1>3. OpOK'
  BY <1>1 DEF StartDispose, IInv, OpOK, OneDraining, MachineWaits, Idle
<1>4. QED
  BY <1>1, <1>2, <1>3, OpChanges DEF StartDispose, IInv, TypeOK

LEMMA StartAcquireStep ==
    ASSUME IInv, NEW m \in Machines, StartAcquire(m)
    PROVE  IInv' /\ PoolStep
<1>1. op = Idle /\ op.await = "" /\ op.kind = "idle" /\ ~record[m].leaseActive
  BY DEF StartAcquire, Idle
<1>2. CASE /\ record[m].state \in {"registered", "cold"}
           /\ op' = [Idle EXCEPT !.kind = "acquire", !.machine = m]
           /\ UNCHANGED <<record, leases>>
  <2>1. op' = [kind |-> "acquire", machine |-> m, await |-> "", limit |-> 0,
               todo |-> {}]
    BY <1>2 DEF Idle
  <2>2. op' \in Ops
    BY <2>1 DEF Ops
  <2>3. OpOK'
    BY <1>1, <1>2, <2>1 DEF IInv, OpOK, OneDraining, MachineWaits
  <2>4. QED
    BY <1>2, <2>1, <2>2, <2>3, OpChanges DEF StartAcquire, IInv, TypeOK
<1>3. CASE /\ record[m].state = "hot"
           /\ Grant(m, record)
           /\ UNCHANGED op
  <2> DEFINE r == Lend(record[m])
  <2>1. record[m] \in Records
    BY DEF IInv, TypeOK
  <2>2. record' = [record EXCEPT ![m] = r]
    BY <1>3, LentRecord DEF Grant, IInv, TypeOK
  <2>3. /\ r \in Records
        /\ r.activeCommands = record[m].activeCommands
        /\ r.state = "hot" /\ r.computer = record[m].computer
        /\ r.safe = record[m].safe /\ r.prior = record[m].prior
        /\ r.leaseActive
    BY <1>3, <2>1, LendFields
  <2> HIDE DEF r
  <2>4. record' \in [Machines -> Records]
    BY <2>2, <2>3, RecordChange DEF IInv
  <2>5. leases' \subseteq Leases
    BY <1>3, <2>1 DEF Grant, IInv, TypeOK, Records, Leases
  <2>6. TypeOK'
    BY <1>3, <2>4, <2>5 DEF StartAcquire, IInv, TypeOK
  <2>7. Counted' /\ CommandsUnderLease'
    BY <1>1, <2>2, <2>3, QuietMachine, CommandsStay DEF StartAcquire
  <2>8. RecordsOK'
    <3>1. Fits(m, r, reported[m])
      BY <1>3, <2>3 DEF IInv, RecordsOK, Fits
    <3>2. QED
      BY <2>2, <2>3, <3>1, RecordsStay DEF StartAcquire, IInv
  <2>9. OpOK'
    BY <1>3, <2>2, <2>3, OpStays DEF IInv
  <2>10. Reserved'
    BY <1>3, <2>2, <2>3, HotStays DEF StartAcquire, IInv, Reserved
  <2>11. PoolStep
    <3>1. ~record[m].leaseActive /\ r.leaseActive
      BY <1>1, <2>3
    <3>2. SlotOf(record[m]) = "in" /\ SlotOf(r) = "lent"
      BY <1>3, <2>3, <3>1 DEF IInv, RecordsOK, Fits, SlotOf
    <3>3. Pool!Lend(m)
      BY <2>2, <2>3, <3>2, PoolMoves DEF StartAcquire, IInv, Pool!Lend
    <3>4. QED
      BY <3>3 DEF PoolStep, Pool!Next
  <2>12. QED
    BY <2>6, <2>7, <2>8, <2>9, <2>10, <2>11 DEF IInv
<1>4. QED
  BY <1>2, <1>3 DEF StartAcquire

\* suspendRecord() up to computer.suspend(), from every mutation that calls it.
LEMMA BeginSuspendStep ==
    ASSUME IInv, NEW m \in Machines, NEW next \in Ops, Eligible(m),
           BeginSuspend(m, next), op.await = "",
           next.kind = "acquire" =>
              /\ next.machine \in Machines \ {m}
              /\ record[next.machine].state \in {"registered", "cold"},
           next.kind = "setHotLimit" => next.limit \in Nat \ {0},
           UNCHANGED <<hotLimit, disposed, leases, commands, ownerEpoch,
                       reported, failures>>
    PROVE  IInv' /\ PoolStep
<1> DEFINE r == [record[m] EXCEPT !.state = "draining"]
<1>1. record[m] \in Records
  BY DEF IInv, TypeOK
<1>2. record' = [record EXCEPT ![m] = r]
  BY <1>1 DEF BeginSuspend, IInv, TypeOK
<1>3. /\ r \in Records /\ r.state = "draining"
      /\ r.activeCommands = record[m].activeCommands
      /\ r.computer = record[m].computer /\ r.leaseActive = record[m].leaseActive
      /\ r.safe = record[m].safe /\ r.prior = record[m].prior
  BY <1>1 DEF Records, States
<1> HIDE DEF r
<1>4. /\ record' \in [Machines -> Records] /\ record'[m] = r
      /\ \A k \in Machines \ {m} : record'[k] = record[k]
  BY <1>2, <1>3, RecordChange DEF IInv
<1>5. op' \in Ops /\ op'.await = "suspend" /\ op'.kind = next.kind
      /\ op'.machine = next.machine /\ op'.limit = next.limit
  BY DEF BeginSuspend, Ops
<1>6. TypeOK'
  BY <1>4, <1>5 DEF IInv, TypeOK
<1>7. Counted' /\ CommandsUnderLease'
  BY <1>2, <1>3, QuietMachine, CommandsStay DEF Eligible
<1>8. RecordsOK'
  <2>1. Fits(m, r, reported[m])
    BY <1>3 DEF Eligible, IInv, RecordsOK, Fits
  <2>2. QED
    BY <1>2, <1>3, <2>1, RecordsStay DEF IInv
<1>9. OpOK'
  <2>1. \A k \in Machines : record[k].state # "draining"
    BY DEF IInv, OpOK, OneDraining
  <2>2. OneDraining'
    BY <1>3, <1>4, <1>5, <2>1 DEF OneDraining
  <2>3. MachineWaits'
    BY <1>3, <1>4, <1>5 DEF MachineWaits
  <2>4. QED
    BY <1>5, <2>2, <2>3 DEF OpOK
<1>10. Reserved'
  BY <1>2, <1>3, <1>5, HotStays DEF IInv, Reserved
<1>11. PoolStep
  BY <1>2, <1>3, PoolStays DEF Eligible, IInv, SlotOf
<1>12. QED
  BY <1>6, <1>7, <1>8, <1>9, <1>10, <1>11 DEF IInv

LEMMA StartSuspendStep ==
    ASSUME IInv, NEW l \in leases, StartSuspend(l)
    PROVE  IInv' /\ PoolStep
<1> DEFINE next == [Idle EXCEPT !.kind = "suspend"]
<1>1. l.machine \in Machines /\ op.await = ""
  BY LeaseType DEF StartSuspend, Idle, IInv
<1>2. next \in Ops /\ next.kind = "suspend"
  BY DEF Idle, Ops
<1>3. QED
  BY <1>1, <1>2, BeginSuspendStep DEF StartSuspend

-----------------------------------------------------------------------------
(* Between awaits.                                                         *)

LEMMA EnsureCapacityStep ==
    ASSUME IInv, EnsureCapacity
    PROVE  IInv' /\ PoolStep
<1> DEFINE m == op.machine
<1>1. op.kind = "acquire" /\ op.await = "" /\ op \in Ops
  BY DEF EnsureCapacity, Goes, IInv, TypeOK
<1>2. m \in Machines /\ record[m].state \in {"registered", "cold"} /\ record[m] \in Records
  BY <1>1 DEF IInv, OpOK, MachineWaits, TypeOK
<1>3. CASE HasRoom
  <2> DEFINE r == [record[m] EXCEPT !.state = "waking", !.prior = record[m].state]
  <2>1. record' = [record EXCEPT ![m] = r] /\ op' = [op EXCEPT !.await = "create"]
    BY <1>2, <1>3 DEF EnsureCapacity, IInv, TypeOK
  <2>2. /\ r \in Records /\ r.state = "waking" /\ r.prior \in {"registered", "cold"}
        /\ r.activeCommands = record[m].activeCommands
        /\ r.computer = record[m].computer /\ r.leaseActive = record[m].leaseActive
        /\ r.safe = record[m].safe
    BY <1>2 DEF Records, States
  <2> HIDE DEF r
  <2>3. /\ record' \in [Machines -> Records] /\ record'[m] = r
        /\ \A k \in Machines \ {m} : record'[k] = record[k]
    BY <1>2, <2>1, <2>2, RecordChange DEF IInv
  <2>4. op' \in Ops /\ op'.await = "create" /\ op'.kind = "acquire" /\ op'.machine = m
    BY <1>1, <2>1 DEF Ops
  <2>5. TypeOK'
    BY <2>3, <2>4 DEF EnsureCapacity, IInv, TypeOK
  <2>6. Counted' /\ CommandsUnderLease'
    BY <1>2, <2>1, <2>2, QuietMachine, CommandsStay DEF EnsureCapacity
  <2>7. RecordsOK'
    <3>1. Fits(m, r, reported[m])
      BY <1>2, <2>2 DEF IInv, RecordsOK, Fits
    <3>2. QED
      BY <1>2, <2>1, <2>2, <3>1, RecordsStay DEF EnsureCapacity, IInv
  <2>8. OpOK'
    <3>1. OneDraining'
      BY <1>1, <2>2, <2>3, <2>4 DEF IInv, OpOK, OneDraining
    <3>2. ~record[m].computer
      BY <1>2 DEF IInv, RecordsOK, Fits
    <3>3. MachineWaits'
      BY <1>2, <2>2, <2>3, <2>4, <3>2 DEF MachineWaits
    <3>4. QED
      BY <2>4, <3>1, <3>3 DEF OpOK
  <2>9. Reserved'
    BY <1>2, <1>3, <2>1, <2>2, HotStays DEF EnsureCapacity, HasRoom, IInv, Reserved
  <2>10. PoolStep
    <3>1. ~record[m].computer
      BY <1>2 DEF IInv, RecordsOK, Fits
    <3>2. QED
      BY <1>2, <2>1, <2>2, <3>1, PoolStays DEF EnsureCapacity, IInv, SlotOf
  <2>11. QED
    BY <2>5, <2>6, <2>7, <2>8, <2>9, <2>10 DEF IInv
<1>4. ASSUME NEW k \in Candidates, BeginSuspend(k, op)
      PROVE  IInv' /\ PoolStep
  BY <1>1, <1>2, <1>4, BeginSuspendStep DEF EnsureCapacity, Candidates
<1>5. CASE op' = Idle /\ UNCHANGED record
  BY <1>1, <1>5, Ends DEF EnsureCapacity, IInv, TypeOK
<1>6. QED
  BY <1>3, <1>4, <1>5 DEF EnsureCapacity

LEMMA LowerLimitStep ==
    ASSUME IInv, LowerLimit
    PROVE  IInv' /\ PoolStep
<1>1. op.kind = "setHotLimit" /\ op.await = "" /\ op \in Ops /\ op.limit \in Nat \ {0}
  BY DEF LowerLimit, Goes, IInv, TypeOK, OpOK
<1>2. CASE Cardinality(Hot) <= op.limit
  <2>1. hotLimit' = op.limit /\ op' = Idle /\ UNCHANGED record
    BY <1>2 DEF LowerLimit
  <2>2. Counted' /\ RecordsOK' /\ CommandsUnderLease' /\ Hot' = Hot
    BY <2>1, RecordsUnchanged DEF LowerLimit
  <2>3. TypeOK'
    BY <1>1, <2>1, IdleType DEF LowerLimit, IInv, TypeOK
  <2>4. OpOK'
    BY <1>1, <2>1 DEF LowerLimit, IInv, OpOK, OneDraining, MachineWaits, Idle
  <2>5. Reserved'
    BY <1>2, <2>1, <2>2 DEF Reserved, Idle
  <2>6. PoolStep
    <3>1. UNCHANGED Slots
      BY <2>1 DEF Slots
    <3>2. Pool!Resize
      BY <1>1, <1>2, <2>1, <3>1, ResidentIsHot, SameCardinality DEF Pool!Resize
    <3>3. QED
      BY <3>2 DEF PoolStep, Pool!Next
  <2>7. QED
    BY <2>2, <2>3, <2>4, <2>5, <2>6 DEF IInv
<1>3. ASSUME NEW k \in {n \in Machines : Eligible(n)}, BeginSuspend(k, op),
             UNCHANGED hotLimit
      PROVE  IInv' /\ PoolStep
  BY <1>1, <1>3, BeginSuspendStep DEF LowerLimit
<1>4. CASE op' = Idle /\ UNCHANGED <<record, hotLimit>>
  BY <1>1, <1>4, Ends DEF LowerLimit, IInv, TypeOK
<1>5. QED
  BY <1>2, <1>3, <1>4 DEF LowerLimit

LEMMA DisposeNextStep ==
    ASSUME IInv, DisposeNext
    PROVE  IInv' /\ PoolStep
<1>1. op.kind = "dispose" /\ op.await = "" /\ op \in Ops
  BY DEF DisposeNext, Goes, IInv, TypeOK
<1>2. CASE op' = Idle /\ UNCHANGED record
  <2>1. OpOK'
    BY <1>1, <1>2 DEF IInv, OpOK, OneDraining, MachineWaits, Idle
  <2>2. op'.await = ""
    BY <1>2 DEF Idle
  <2>3. disposed' \in BOOLEAN
    BY DEF DisposeNext, IInv, TypeOK
  <2>4. QED
    BY <1>2, <2>1, <2>2, <2>3, IdleType, OpChanges DEF DisposeNext, IInv, TypeOK
<1>3. ASSUME NEW k \in op.todo, Eligible(k), UNCHANGED disposed,
             BeginSuspend(k, [op EXCEPT !.todo = @ \ {k}])
      PROVE  IInv' /\ PoolStep
  <2> DEFINE next == [op EXCEPT !.todo = @ \ {k}]
  <2>1. k \in Machines /\ next \in Ops /\ next.kind = "dispose"
    BY <1>1 DEF Ops
  <2>2. QED
    BY <1>1, <1>3, <2>1, BeginSuspendStep DEF DisposeNext
<1>4. QED
  BY <1>2, <1>3 DEF DisposeNext

-----------------------------------------------------------------------------
(* The answers of the computer.                                            *)

LEMMA ColdRecord ==
    ASSUME NEW q \in Records
    PROVE  /\ Cold(q) \in Records
           /\ Cold(q).state = "cold" /\ ~Cold(q).computer /\ Cold(q).safe
           /\ Cold(q).leaseActive = q.leaseActive
           /\ Cold(q).activeCommands = q.activeCommands
BY DEF Cold, Records, States

\* A computer is gone: its place is free, and nothing ran on it.
LEMMA Leaves ==
    ASSUME IInv, NEW m \in Machines, NEW r \in Records,
           record[m].state # "hot", ~r.computer,
           r.activeCommands = record[m].activeCommands,
           record' = [record EXCEPT ![m] = r],
           op'.await # "create",
           UNCHANGED <<hotLimit, commands>>
    PROVE  Counted' /\ CommandsUnderLease' /\ Reserved'
<1>1. Counted' /\ CommandsUnderLease'
  BY QuietMachine, CommandsStay
<1>2. Hot' = Hot \ {m}
  BY HotStays DEF IInv
<1>3. Cardinality(Hot') <= Cardinality(Hot) /\ Cardinality(Hot') \in Nat
  BY <1>2, HotIsFinite, FS_Subset, FS_CardinalityType
<1>4. QED
  BY <1>1, <1>3, HotIsFinite DEF IInv, Reserved, TypeOK

LEMMA SuspendedStep ==
    ASSUME IInv, Suspended
    PROVE  IInv' /\ PoolStep
<1> DEFINE m == Draining
           r == Cold(record[m])
<1>1. /\ m \in Machines /\ record[m].state = "draining" /\ record[m] \in Records
      /\ \A k \in Machines : record[k].state = "draining" => k = m
  BY DrainingIsThere DEF Suspended, Awaits, IInv, TypeOK
<1>2. record' = [record EXCEPT ![m] = r] /\ reported' = [reported EXCEPT ![m] = "suspended"]
  BY <1>1 DEF Suspended, IInv, TypeOK
<1>3. /\ r \in Records /\ r.state = "cold" /\ ~r.computer /\ r.safe
      /\ r.leaseActive = record[m].leaseActive
      /\ r.activeCommands = record[m].activeCommands
  BY <1>1, ColdRecord
<1> HIDE DEF r, m
<1>4. /\ record' \in [Machines -> Records] /\ record'[m] = r
      /\ \A k \in Machines \ {m} : record'[k] = record[k]
  BY <1>1, <1>2, <1>3, RecordChange DEF IInv
<1>5. reported'[m] = "suspended" /\ \A k \in Machines \ {m} : reported'[k] = reported[k]
  BY <1>1, <1>2 DEF IInv, TypeOK
<1>6. /\ op' \in Ops /\ op'.await = ""
      /\ op'.kind = "idle" \/ (/\ op'.kind = op.kind /\ op'.machine = op.machine
                               /\ op'.limit = op.limit)
  BY IdleType DEF Suspended, IInv, TypeOK, Ops, Idle
<1>7. TypeOK'
  BY <1>1, <1>2, <1>4, <1>6 DEF Suspended, IInv, TypeOK
<1>8. Counted' /\ CommandsUnderLease' /\ Reserved'
  BY <1>1, <1>2, <1>3, <1>6, Leaves DEF Suspended
<1>9. RecordsOK'
  <2>1. Fits(m, r, reported'[m])
    BY <1>1, <1>3, <1>5 DEF IInv, RecordsOK, Fits
  <2>2. QED
    BY <1>1, <1>2, <1>3, <1>5, <2>1, RecordsStay DEF IInv
<1>10. OpOK'
  <2>1. OneDraining'
    BY <1>1, <1>3, <1>4, <1>6 DEF OneDraining
  <2>2. MachineWaits'
    BY <1>1, <1>4, <1>6 DEF Suspended, Awaits, IInv, OpOK, MachineWaits
  <2>3. QED
    BY <1>6, <2>1, <2>2 DEF IInv, OpOK
<1>11. PoolStep
  <2>1. SlotOf(record[m]) = "in" /\ SlotOf(r) = "out" /\ m \notin Pinned
    BY <1>1, <1>3 DEF IInv, RecordsOK, Fits, SlotOf
  <2>2. QED
    BY <1>1, <1>2, <1>3, <2>1, PoolChanges DEF Suspended, IInv
<1>12. QED
  BY <1>7, <1>8, <1>9, <1>10, <1>11 DEF IInv

LEMMA SuspendFailsStep ==
    ASSUME IInv, NEW lifecycle \in Lifecycles, SuspendFails(lifecycle)
    PROVE  IInv' /\ PoolStep
<1> DEFINE m == Draining
           safer == IF lifecycle = "cleanupIncomplete" THEN record[m].safe ELSE FALSE
           r == [record[m] EXCEPT !.state = lifecycle, !.safe = safer]
<1>1. /\ m \in Machines /\ record[m].state = "draining" /\ record[m] \in Records
      /\ \A k \in Machines : record[k].state = "draining" => k = m
  BY DrainingIsThere DEF SuspendFails, Awaits, IInv, TypeOK
<1>2. /\ record' = [record EXCEPT ![m] = r]
      /\ reported' = [reported EXCEPT ![m] = "suspendFailed"]
  BY <1>1 DEF SuspendFails, IInv, TypeOK
<1>3. /\ safer \in BOOLEAN
      /\ lifecycle # "cleanupIncomplete" => ~safer
  BY <1>1 DEF Records
<1> HIDE DEF safer
<1>4. /\ r \in Records /\ r.state = lifecycle /\ r.safe = safer
      /\ r.computer = record[m].computer
      /\ r.leaseActive = record[m].leaseActive
      /\ r.activeCommands = record[m].activeCommands
  BY <1>1, <1>3 DEF Records, States, Lifecycles
<1> HIDE DEF r, m
<1>5. /\ record' \in [Machines -> Records] /\ record'[m] = r
      /\ \A k \in Machines \ {m} : record'[k] = record[k]
  BY <1>1, <1>2, <1>4, RecordChange DEF IInv
<1>6. reported'[m] = "suspendFailed" /\ \A k \in Machines \ {m} : reported'[k] = reported[k]
  BY <1>1, <1>2 DEF IInv, TypeOK
<1>7. op' = Idle /\ op'.await = "" /\ op'.kind = "idle" /\ op' \in Ops
  BY IdleType DEF SuspendFails, Idle
<1>8. TypeOK'
  <2>1. failures' \in Nat
    BY DEF SuspendFails, Fails, IInv, TypeOK
  <2>2. QED
    BY <1>1, <1>2, <1>5, <1>7, <2>1 DEF SuspendFails, IInv, TypeOK
<1>9. Counted' /\ CommandsUnderLease'
  BY <1>1, <1>2, <1>4, QuietMachine, CommandsStay DEF SuspendFails
<1>10. Reserved'
  BY <1>1, <1>2, <1>4, <1>7, HotStays DEF SuspendFails, IInv, Reserved
<1>11. RecordsOK'
  <2>1. Fits(m, r, reported'[m])
    BY <1>1, <1>3, <1>4, <1>6 DEF IInv, RecordsOK, Fits, Lifecycles
  <2>2. QED
    BY <1>1, <1>2, <1>4, <1>6, <2>1, RecordsStay DEF IInv
<1>12. OpOK'
  <2>1. lifecycle # "draining"
    BY DEF Lifecycles
  <2>2. OneDraining'
    BY <1>1, <1>4, <1>5, <1>7, <2>1 DEF OneDraining
  <2>3. MachineWaits'
    BY <1>7 DEF MachineWaits
  <2>4. QED
    BY <1>7, <2>2, <2>3 DEF OpOK
<1>13. PoolStep
  <2>1. SlotOf(r) = SlotOf(record[m])
    BY <1>1, <1>4 DEF Lifecycles, SlotOf
  <2>2. QED
    BY <1>1, <1>2, <1>4, <2>1, PoolStays DEF SuspendFails, IInv
<1>14. QED
  BY <1>8, <1>9, <1>10, <1>11, <1>12, <1>13 DEF IInv

LEMMA CleanedUpStep ==
    ASSUME IInv, CleanedUp
    PROVE  IInv' /\ PoolStep
<1> DEFINE m == op.machine
           r == Cold(record[m])
<1>1. m \in Machines /\ record[m].state = "cleanupIncomplete" /\ record[m] \in Records
  BY DEF CleanedUp, Awaits, IInv, OpOK, MachineWaits, TypeOK
<1>2. record' = [record EXCEPT ![m] = r] /\ reported' = [reported EXCEPT ![m] = "suspended"]
  BY <1>1 DEF CleanedUp, IInv, TypeOK
<1>3. /\ r \in Records /\ r.state = "cold" /\ ~r.computer /\ r.safe
      /\ r.leaseActive = record[m].leaseActive
      /\ r.activeCommands = record[m].activeCommands
  BY <1>1, ColdRecord
<1> HIDE DEF r
<1>4. /\ record' \in [Machines -> Records] /\ record'[m] = r
      /\ \A k \in Machines \ {m} : record'[k] = record[k]
  BY <1>1, <1>2, <1>3, RecordChange DEF IInv
<1>5. reported'[m] = "suspended" /\ \A k \in Machines \ {m} : reported'[k] = reported[k]
  BY <1>1, <1>2 DEF IInv, TypeOK
<1>6. op' \in Ops /\ op'.await = "" /\ op'.kind = "idle"
  BY IdleType DEF CleanedUp, Idle
<1>7. TypeOK'
  BY <1>1, <1>2, <1>4, <1>6 DEF CleanedUp, IInv, TypeOK
<1>8. Counted' /\ CommandsUnderLease' /\ Reserved'
  BY <1>1, <1>2, <1>3, <1>6, Leaves DEF CleanedUp
<1>9. RecordsOK'
  <2>1. Fits(m, r, reported'[m])
    BY <1>1, <1>3, <1>5 DEF IInv, RecordsOK, Fits
  <2>2. QED
    BY <1>1, <1>2, <1>3, <1>5, <2>1, RecordsStay DEF IInv
<1>10. OpOK'
  <2>1. \A k \in Machines : record[k].state # "draining"
    BY DEF CleanedUp, Awaits, IInv, OpOK, OneDraining
  <2>2. OneDraining'
    BY <1>3, <1>4, <1>6, <2>1 DEF OneDraining
  <2>3. QED
    BY <1>6, <2>2 DEF OpOK, MachineWaits
<1>11. PoolStep
  <2>1. SlotOf(record[m]) = "in" /\ SlotOf(r) = "out" /\ m \notin Pinned
    BY <1>1, <1>3 DEF IInv, RecordsOK, Fits, SlotOf
  <2>2. QED
    BY <1>1, <1>2, <1>3, <2>1, PoolChanges DEF CleanedUp, IInv
<1>12. QED
  BY <1>7, <1>8, <1>9, <1>10, <1>11 DEF IInv

LEMMA CleanupFailsStep ==
    ASSUME IInv, CleanupFails
    PROVE  IInv' /\ PoolStep
BY Ends DEF CleanupFails, Awaits, IInv, TypeOK

LEMMA CreatedStep ==
    ASSUME IInv, Created
    PROVE  IInv' /\ PoolStep
<1> DEFINE m == op.machine
           r == [record[m] EXCEPT !.computer = TRUE]
<1>1. m \in Machines /\ record[m].state = "waking" /\ record[m] \in Records
      /\ op \in Ops /\ op.await = "create"
  BY DEF Created, Awaits, IInv, OpOK, MachineWaits, TypeOK
<1>2. record' = [record EXCEPT ![m] = r]
  BY <1>1 DEF Created, IInv, TypeOK
<1>3. /\ r \in Records /\ r.state = "waking" /\ r.computer
      /\ r.leaseActive = record[m].leaseActive /\ r.safe = record[m].safe
      /\ r.prior = record[m].prior /\ r.activeCommands = record[m].activeCommands
  BY <1>1 DEF Records
<1> HIDE DEF r
<1>4. /\ record' \in [Machines -> Records] /\ record'[m] = r
      /\ \A k \in Machines \ {m} : record'[k] = record[k]
  BY <1>1, <1>2, <1>3, RecordChange DEF IInv
<1>5. /\ op' \in Ops /\ op'.await = "initialize" /\ op'.machine = m
      /\ op'.kind = op.kind /\ op'.limit = op.limit
  BY <1>1 DEF Created, Ops
<1>6. TypeOK'
  BY <1>4, <1>5 DEF Created, IInv, TypeOK
<1>7. Counted' /\ CommandsUnderLease'
  BY <1>1, <1>2, <1>3, QuietMachine, CommandsStay DEF Created
<1>8. RecordsOK'
  <2>1. Fits(m, r, reported[m])
    BY <1>1, <1>3 DEF IInv, RecordsOK, Fits
  <2>2. QED
    BY <1>1, <1>2, <1>3, <2>1, RecordsStay DEF Created, IInv
<1>9. OpOK'
  <2>1. OneDraining'
    BY <1>1, <1>3, <1>4, <1>5 DEF IInv, OpOK, OneDraining
  <2>2. MachineWaits'
    BY <1>1, <1>3, <1>4, <1>5 DEF MachineWaits
  <2>3. QED
    BY <1>5, <2>1, <2>2 DEF IInv, OpOK
<1>10. Reserved'
  <2>1. Hot' = Hot \cup {m}
    BY <1>1, <1>2, <1>3, HotStays DEF IInv
  <2>2. Cardinality(Hot') <= Cardinality(Hot) + 1 /\ Cardinality(Hot') \in Nat
    BY <2>1, HotIsFinite, FS_AddElement
  <2>3. Cardinality(Hot) < hotLimit /\ hotLimit \in Nat
    BY <1>1 DEF IInv, Reserved, TypeOK
  <2>4. QED
    BY <1>5, <2>2, <2>3, HotIsFinite DEF Created, Reserved
<1>11. PoolStep
  <2>1. ~record[m].computer
    BY <1>1 DEF IInv, OpOK, MachineWaits
  <2>2. SlotOf(record[m]) = "out" /\ SlotOf(r) = "loading"
    BY <1>3, <2>1 DEF SlotOf
  <2>3. Cardinality(Hot) < hotLimit
    BY <1>1 DEF IInv, Reserved
  <2>4. QED
    BY <1>1, <1>2, <1>3, <2>2, <2>3, PoolChanges DEF Created, IInv
<1>12. QED
  BY <1>6, <1>7, <1>8, <1>9, <1>10, <1>11 DEF IInv

\* A wake ends without a computer: the machine is what it was before.
LEMMA Unwakes ==
    ASSUME IInv, NEW r \in Records, op.await \in {"create", "dispose"},
           r.state = record[op.machine].prior, ~r.computer,
           r.leaseActive = record[op.machine].leaseActive,
           r.safe = record[op.machine].safe,
           r.activeCommands = record[op.machine].activeCommands,
           record' = [record EXCEPT ![op.machine] = r], op' = Idle,
           UNCHANGED <<hotLimit, disposed, leases, commands, ownerEpoch, reported>>,
           failures' \in Nat
    PROVE  IInv' /\ PoolStep
<1> DEFINE m == op.machine
<1>1. m \in Machines /\ record[m].state = "waking"
  BY DEF IInv, OpOK, MachineWaits
<1>2. r.state \in {"registered", "cold"}
  BY <1>1 DEF IInv, RecordsOK, Fits
<1>3. /\ record' \in [Machines -> Records] /\ record'[m] = r
      /\ \A k \in Machines \ {m} : record'[k] = record[k]
  BY <1>1, RecordChange DEF IInv
<1>4. op' \in Ops /\ op'.await = "" /\ op'.kind = "idle"
  BY IdleType DEF Idle
<1>5. TypeOK'
  BY <1>3, <1>4 DEF IInv, TypeOK
<1>6. Counted' /\ CommandsUnderLease' /\ Reserved'
  BY <1>1, <1>4, Leaves
<1>7. RecordsOK'
  <2>1. Fits(m, r, reported[m])
    BY <1>1, <1>2 DEF IInv, RecordsOK, Fits
  <2>2. QED
    BY <1>1, <2>1, RecordsStay DEF IInv
<1>8. OpOK'
  <2>1. \A k \in Machines : record[k].state # "draining"
    BY DEF IInv, OpOK, OneDraining
  <2>2. OneDraining'
    BY <1>2, <1>3, <1>4, <2>1 DEF OneDraining
  <2>3. QED
    BY <1>4, <2>2 DEF OpOK, MachineWaits
<1>9. PoolStep
  <2>1. SlotOf(r) = "out" /\ SlotOf(record[m]) \in {"out", "loading"}
    BY <1>1 DEF SlotOf
  <2>2. CASE SlotOf(record[m]) = "out"
    BY <1>1, <2>1, <2>2, PoolStays DEF IInv
  <2>3. CASE SlotOf(record[m]) = "loading"
    BY <1>1, <2>1, <2>3, PoolChanges DEF IInv
  <2>4. QED
    BY <2>1, <2>2, <2>3
<1>10. QED
  BY <1>5, <1>6, <1>7, <1>8, <1>9 DEF IInv

LEMMA CreateFailsStep ==
    ASSUME IInv, CreateFails
    PROVE  IInv' /\ PoolStep
<1> DEFINE m == op.machine
           r == [record[m] EXCEPT !.state = record[m].prior]
<1>1. /\ m \in Machines /\ record[m].state = "waking" /\ record[m] \in Records
      /\ ~record[m].computer
  BY DEF CreateFails, Awaits, IInv, OpOK, MachineWaits, TypeOK
<1>2. record[m].prior \in {"registered", "cold"}
  BY <1>1 DEF IInv, RecordsOK, Fits
<1>3. record' = [record EXCEPT ![m] = r]
  BY <1>1 DEF CreateFails, IInv, TypeOK
<1>4. /\ r \in Records /\ r.state = record[m].prior /\ ~r.computer
      /\ r.leaseActive = record[m].leaseActive /\ r.safe = record[m].safe
      /\ r.activeCommands = record[m].activeCommands
  BY <1>1, <1>2 DEF Records, States
<1>5. failures' \in Nat
  BY DEF CreateFails, Fails, IInv, TypeOK
<1> HIDE DEF r
<1>6. QED
  BY <1>3, <1>4, <1>5, Unwakes DEF CreateFails, Awaits

LEMMA InitializedStep ==
    ASSUME IInv, Initialized
    PROVE  IInv' /\ PoolStep
<1> DEFINE m == op.machine
           epoch == ownerEpoch[m] + 1
           woken == [record EXCEPT ![m].state = "hot", ![m].computerEpoch = epoch]
           q == [record[m] EXCEPT !.state = "hot", !.computerEpoch = epoch]
           lent == Lend(q)
<1>1. /\ m \in Machines /\ record[m].state = "waking" /\ record[m] \in Records
      /\ record[m].computer
  BY DEF Initialized, Awaits, IInv, OpOK, MachineWaits, TypeOK
<1>2. epoch \in Nat
  BY <1>1 DEF IInv, TypeOK
<1>3. woken = [record EXCEPT ![m] = q] /\ woken[m] = q
  BY <1>1 DEF IInv, TypeOK
<1>4. /\ q \in Records /\ q.state = "hot" /\ q.computer /\ q.computerEpoch = epoch
      /\ q.leaseActive = record[m].leaseActive /\ q.safe = record[m].safe
      /\ q.activeCommands = record[m].activeCommands
  BY <1>1, <1>2 DEF Records, States
<1> HIDE DEF q
<1>5. /\ lent \in Records /\ lent.state = "hot" /\ lent.computer
      /\ lent.safe = record[m].safe
      /\ lent.activeCommands = record[m].activeCommands
  BY <1>4, LendFields
<1> HIDE DEF lent
<1>6. \E r \in {q, lent} : record' = [record EXCEPT ![m] = r]
  <2>1. CASE Grant(m, woken)
    <3>1. woken \in [Machines -> Records]
      BY <1>1, <1>3, <1>4 DEF IInv, TypeOK
    <3>2. record' = Lent(m, woken)
      BY <2>1 DEF Grant
    <3>3. record' = [woken EXCEPT ![m] = lent]
      BY <1>1, <1>3, <3>1, <3>2, LentRecord DEF lent
    <3>4. QED
      BY <1>1, <1>3, <3>3 DEF IInv, TypeOK
  <2>2. CASE record' = woken
    BY <1>3, <2>2
  <2>3. QED
    BY <2>1, <2>2 DEF Initialized
<1>7. leases' \subseteq Leases /\ failures' \in Nat
  <2>1. CASE Grant(m, woken) /\ UNCHANGED failures
    <3>1. woken[m].leaseEpoch + 1 \in Nat /\ woken[m].computerEpoch \in Nat
      BY <1>3, <1>4 DEF Records
    <3>2. QED
      BY <1>1, <2>1, <3>1 DEF Grant, Leases, IInv, TypeOK
  <2>2. CASE MayFail /\ Fails /\ record' = woken /\ UNCHANGED leases
    BY <2>2 DEF Fails, IInv, TypeOK
  <2>3. QED
    BY <2>1, <2>2 DEF Initialized
<1>8. ownerEpoch' \in [Machines -> Nat]
  BY <1>1, <1>2 DEF Initialized, IInv, TypeOK
<1> HIDE DEF woken, epoch
<1>9. PICK r \in {q, lent} : record' = [record EXCEPT ![m] = r]
  BY <1>6
<1>10. /\ r \in Records /\ r.state = "hot" /\ r.computer /\ r.safe = record[m].safe
       /\ r.activeCommands = record[m].activeCommands
  BY <1>4, <1>5, <1>9
<1>11. /\ record' \in [Machines -> Records] /\ record'[m] = r
       /\ \A k \in Machines \ {m} : record'[k] = record[k]
  BY <1>1, <1>9, <1>10, RecordChange DEF IInv
<1>12. /\ op' \in Ops /\ op'.await = "" /\ op'.kind = "idle"
       /\ UNCHANGED <<hotLimit, disposed, commands, reported>>
  BY IdleType DEF Initialized, Idle
<1>13. TypeOK'
  BY <1>7, <1>8, <1>11, <1>12 DEF IInv, TypeOK
<1>14. Counted' /\ CommandsUnderLease'
  BY <1>1, <1>9, <1>10, <1>12, QuietMachine, CommandsStay
<1>15. RecordsOK'
  <2>1. Fits(m, r, reported[m])
    BY <1>1, <1>10 DEF IInv, RecordsOK, Fits
  <2>2. QED
    BY <1>1, <1>9, <1>10, <1>12, <2>1, RecordsStay DEF IInv
<1>16. OpOK'
  <2>1. \A k \in Machines : record[k].state # "draining"
    BY DEF Initialized, Awaits, IInv, OpOK, OneDraining
  <2>2. OneDraining'
    BY <1>10, <1>11, <1>12, <2>1 DEF OneDraining
  <2>3. QED
    BY <1>12, <2>2 DEF OpOK, MachineWaits
<1>17. Reserved'
  <2>1. Hot' = Hot
    BY <1>1, <1>9, <1>10, HotStays DEF IInv, TypeOK, Records
  <2>2. QED
    BY <1>12, <2>1 DEF IInv, Reserved
<1>18. PoolStep
  <2>1. SlotOf(record[m]) = "loading" /\ SlotOf(r) \in {"in", "lent"}
    BY <1>1, <1>10 DEF SlotOf
  <2>2. QED
    BY <1>1, <1>9, <1>10, <1>12, <2>1, PoolChanges DEF IInv
<1>19. QED
  BY <1>13, <1>14, <1>15, <1>16, <1>17, <1>18 DEF IInv

LEMMA InitializeFailsStep ==
    ASSUME IInv, InitializeFails
    PROVE  IInv' /\ PoolStep
<1>1. /\ op' \in Ops /\ op'.await = "dispose" /\ op'.machine = op.machine
      /\ op'.kind = op.kind /\ op'.limit = op.limit
  BY DEF InitializeFails, IInv, TypeOK, Ops
<1>2. OpOK'
  BY <1>1 DEF InitializeFails, Awaits, IInv, OpOK, OneDraining, MachineWaits
<1>3. failures' \in Nat
  BY DEF InitializeFails, Fails, IInv, TypeOK
<1>4. QED
  BY <1>1, <1>2, <1>3, OpChanges DEF InitializeFails, IInv, TypeOK

LEMMA WakeDisposedStep ==
    ASSUME IInv, WakeDisposed
    PROVE  IInv' /\ PoolStep
<1> DEFINE m == op.machine
           r == Unwoken(record[m])
<1>1. m \in Machines /\ record[m].state = "waking" /\ record[m] \in Records
  BY DEF WakeDisposed, Awaits, IInv, OpOK, MachineWaits, TypeOK
<1>2. record[m].prior \in {"registered", "cold"}
  BY <1>1 DEF IInv, RecordsOK, Fits
<1>3. record' = [record EXCEPT ![m] = r]
  BY <1>1 DEF WakeDisposed, IInv, TypeOK
<1>4. /\ r \in Records /\ r.state = record[m].prior /\ ~r.computer
      /\ r.leaseActive = record[m].leaseActive /\ r.safe = record[m].safe
      /\ r.activeCommands = record[m].activeCommands
  BY <1>1, <1>2 DEF Unwoken, Records, States
<1>5. failures' \in Nat
  BY DEF WakeDisposed, IInv, TypeOK
<1> HIDE DEF r
<1>6. QED
  BY <1>3, <1>4, <1>5, Unwakes DEF WakeDisposed, Awaits

-----------------------------------------------------------------------------
(* The inductive invariant, and the properties of the runs it implies.     *)

LEMMA InitRecords ==
    ASSUME Init, NEW m \in Machines
    PROVE  /\ record[m].state = "absent" /\ ~record[m].computer /\ ~record[m].safe
           /\ ~record[m].leaseActive /\ record[m].activeCommands = 0
<1>1. Absent = [Registered EXCEPT !.state = "absent"] /\ Registered \in Records
  BY AbsentType DEF Absent
<1>2. /\ ~Registered.computer /\ ~Registered.safe
      /\ ~Registered.leaseActive /\ Registered.activeCommands = 0
  BY DEF Registered
<1>3. /\ Absent.state = "absent" /\ ~Absent.computer /\ ~Absent.safe
      /\ ~Absent.leaseActive /\ Absent.activeCommands = 0
  BY <1>1, <1>2 DEF Records
<1>4. QED
  BY <1>3 DEF Init

LEMMA InvInit == Init => IInv
<1> SUFFICES ASSUME Init
             PROVE  IInv
  OBVIOUS
<1>1. TypeOK
  <2>1. record \in [Machines -> Records] /\ op \in Ops
    BY AbsentType, IdleType DEF Init
  <2>2. ownerEpoch \in [Machines -> Nat]
        /\ reported \in [Machines -> {"nothing", "safe", "unsafe", "suspended",
                                      "suspendFailed"}]
    BY DEF Init
  <2>3. hotLimit \in Nat \ {0} /\ disposed \in BOOLEAN /\ leases = {}
        /\ commands = {} /\ failures = 0
    BY LimitAssumption DEF Init
  <2>4. QED
    BY <2>1, <2>2, <2>3 DEF TypeOK
<1>2. \A m \in Machines :
         /\ record[m].state = "absent" /\ ~record[m].computer /\ ~record[m].safe
         /\ ~record[m].leaseActive /\ record[m].activeCommands = 0
  BY InitRecords
<1>3. Counted
  BY <1>2, FS_EmptySet DEF Init, Counted, CommandsOn
<1>4. RecordsOK
  BY <1>2 DEF RecordsOK, Fits
<1>5. OpOK
  BY <1>2 DEF Init, OpOK, OneDraining, MachineWaits, Idle
<1>6. Reserved
  <2>1. Hot = {}
    BY <1>2 DEF Hot
  <2>2. Cardinality(Hot) = 0
    BY <2>1, FS_EmptySet
  <2>3. op.await # "create"
    BY DEF Init, Idle
  <2>4. hotLimit \in Nat /\ 0 <= hotLimit
    BY <1>1 DEF TypeOK
  <2>5. Cardinality(Hot) <= hotLimit
    BY <2>2, <2>4, Zenon
  <2>6. QED
    BY <2>3, <2>5, Zenon DEF Reserved
<1>7. CommandsUnderLease
  BY DEF Init, CommandsUnderLease
<1>8. QED
  BY <1>1, <1>3, <1>4, <1>5, <1>6, <1>7 DEF IInv

LEMMA InvStutter ==
    ASSUME IInv, UNCHANGED vars
    PROVE  IInv' /\ PoolStep
<1>1. Counted' /\ RecordsOK' /\ CommandsUnderLease' /\ Hot' = Hot
  BY RecordsUnchanged DEF vars
<1>2. TypeOK' /\ OpOK' /\ Reserved'
  BY <1>1 DEF vars, IInv, TypeOK, OpOK, OneDraining, MachineWaits, Reserved
<1>3. PoolStep
  BY PoolUntouched DEF vars
<1>4. QED
  BY <1>1, <1>2, <1>3 DEF IInv

LEMMA InvStep == IInv /\ [Next]_vars => IInv' /\ PoolStep
<1> SUFFICES ASSUME IInv, [Next]_vars
             PROVE  IInv' /\ PoolStep
  OBVIOUS
<1>1. CASE Mutations
  BY <1>1, StartAcquireStep, StartRetryCleanupStep, StartSuspendStep,
     StartSetHotLimitStep, StartDisposeStep DEF Mutations
<1>2. CASE Answers
  BY <1>2, SuspendedStep, SuspendFailsStep, CleanedUpStep, CleanupFailsStep,
     CreatedStep, CreateFailsStep, InitializedStep, InitializeFailsStep,
     WakeDisposedStep DEF Answers
<1>3. CASE Continues
  BY <1>3, EnsureCapacityStep, LowerLimitStep, DisposeNextStep DEF Continues
<1>4. CASE Clients
  BY <1>4, RegisterStep, UseStep, UseEndsStep, ReleaseStep DEF Clients
<1>5. CASE UNCHANGED vars
  BY <1>5, InvStutter
<1>6. QED
  BY <1>1, <1>2, <1>3, <1>4, <1>5 DEF Next

LEMMA Invariant == Spec => []IInv
BY InvInit, InvStep, PTL DEF Spec

(* Every reachable state of the fleet is well typed; in particular the count *)
(* of running commands never falls below zero.                               *)
THEOREM TypeCorrect == Spec => []TypeOK
<1>1. IInv => TypeOK
  BY DEF IInv
<1>2. QED
  BY <1>1, Invariant, PTL

(* ensureCapacity and setHotLimit keep the number of live computers within   *)
(* the limit in force, although a wake takes several awaits.                 *)
THEOREM HotBudgetKept == Spec => []HotBudget
<1>1. IInv => HotBudget
  BY DEF IInv, Reserved, HotBudget
<1>2. QED
  BY <1>1, Invariant, PTL

(* release(), acquire() and suspendRecord() never take a lease or a computer *)
(* from under a command of use().                                            *)
THEOREM CommandsAreUnderLease == Spec => []CommandsUnderLease
<1>1. IInv => CommandsUnderLease
  BY DEF IInv
<1>2. QED
  BY <1>1, Invariant, PTL

(* suspendRecord() is only reached by a machine whose last accepted terminal *)
(* was safe.                                                                 *)
THEOREM OnlySafeAreSuspended == Spec => []OnlySafeSuspended
<1>1. IInv => OnlySafeSuspended
  BY DEF IInv, RecordsOK, Fits, OnlySafeSuspended
<1>2. QED
  BY <1>1, Invariant, PTL

(* Every step of the fleet is a step of the bounded pool, or none: it never  *)
(* loads a machine beyond the limit, lends one twice, or takes out one that  *)
(* is lent or pinned.                                                        *)
THEOREM FleetIsPool == Spec => ImplementsPool
<1>1. Init => Pool!Init
  <2> SUFFICES ASSUME Init
               PROVE  Pool!Init
    OBVIOUS
  <2>1. \A m \in Machines : ~record[m].computer
    <3>1. \A m \in Machines : record[m].state = "absent"
      BY InitRecords
    <3>2. QED
      BY <3>1, InvInit DEF IInv, RecordsOK, Fits
  <2>2. QED
    BY <2>1 DEF Init, Pool!Init, Slots, SlotOf
<1>2. IInv /\ [Next]_vars => [Pool!Next]_(Pool!vars)
  BY InvStep DEF PoolStep
<1>3. QED
  BY <1>1, <1>2, Invariant, PTL DEF Spec, ImplementsPool, Pool!Spec

=============================================================================
