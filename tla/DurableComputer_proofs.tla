----------------------- MODULE DurableComputer_proofs -----------------------
(***************************************************************************)
(* Proofs about DurableComputer.                                           *)
(*                                                                         *)
(* The inductive invariant has two halves.  AlwaysInv holds however the    *)
(* operations overlap: what stands in a guest's queue was asked for by a   *)
(* call that is where it should be.  ApartInv holds of operations apart    *)
(* from one another, whatever earlier ones left in the queues when they    *)
(* failed or were aborted: what the one operation in flight may count on   *)
(* at each of its awaits, and what a computer at rest may count on.        *)
(***************************************************************************)
EXTENDS DurableComputer, TLAPS

-----------------------------------------------------------------------------
(* Types *)

Capturers == {"save", "exportImage", "suspend", "importImage"}
Closers == {"suspend", "retrySuspendCleanup"}

\* Which operation stands at which await.
Fits(kind, at) ==
    \/ kind = "none" /\ at = "idle"
    \/ kind # "none" /\ at = "done"
    \/ kind \in Capturers /\ at \in {"pausing", "unpausing"}
    \/ kind \in {"save", "exportImage", "suspend"} /\ at \in {"flushing", "capturing"}
    \/ kind \in {"save", "suspend"} /\ at \in {"readingHead", "committing"}
    \/ kind \in {"save", "exportImage", "importImage"} /\ at = "resuming"
    \/ kind \in {"save", "importImage"} /\ at = "pruning"
    \/ kind = "suspend" /\ at \in {"rollback", "verifying", "pruning"}
    \/ kind \in Closers \union {"dispose"} /\ at \in {"stopping", "releasing"}
    \/ kind = "initialize" /\ at \in {"owning", "reading", "booting", "unbooting",
                                      "restoring", "resumingAll", "pruning", "givingUp"}
    \/ kind = "importImage" /\ at \in {"readingArchive", "staging", "pausingCandidate",
                                       "publishing", "adopting", "retiring", "unstaging"}

\* Which command is asked for at which await.
Asks(place, do) ==
    \/ do = "pause" /\ place = "pausing"
    \/ do = "resume" /\ place \in {"unpausing", "resuming", "rollback", "resumingAll"}
    \/ do = "snapshot" /\ place = "capturing"
    \/ do = "boot" /\ place = "booting"
    \/ do = "restore" /\ place = "restoring"
    \/ do = "shutdown" /\ place \in {"unbooting", "stopping", "retiring"}

Awaits == {"idle", "done", "pausing", "unpausing", "readingHead", "flushing", "capturing",
           "committing", "resuming", "rollback", "verifying", "pruning", "stopping",
           "releasing", "givingUp", "owning", "reading", "booting", "unbooting",
           "restoring", "resumingAll", "readingArchive", "staging", "pausingCandidate",
           "publishing", "adopting", "retiring", "unstaging"}
AnyKind == {"none", "initialize", "save", "suspend", "retrySuspendCleanup",
            "exportImage", "importImage", "dispose"}
AnyLife == {"registered", "waking", "hot", "draining", "committing", "stopping",
            "cold", "cleanupIncomplete", "failed", "disposed"}
AnyCommand == {"boot", "pause", "resume", "snapshot", "restore", "shutdown"}

Command == [do : AnyCommand,
            by : CallIds, place : Awaits, arg : Nat, unknown : BOOLEAN, void : BOOLEAN]

Memory == [Guests -> Nat]

GuestType == [state : {"absent", "created", "running", "paused", "failed", "stopped"},
              mem : Nat, queue : Seq(Command)]

CallType == [kind : AnyKind, at : Awaits, ctx : Contexts,
             ids : SUBSET Guests, todo : SUBSET Guests, asked : SUBSET Guests,
             failed : BOOLEAN, error : BOOLEAN, aborted : BOOLEAN,
             head : Nat, token : Nat, mem : Memory, disk : Memory,
             gen : Nat, cand : Nat, stops : 0..MaxCalls, first : BOOLEAN]

Record == [parent : Nat, ctx : Contexts, mem : Memory, disk : Memory]

FacadeType == [life : AnyLife, initialized : BOOLEAN, token : Nat, disposed : BOOLEAN,
               saved : {"clean", "unsaved"}, cleanupPending : BOOLEAN,
               suspended : Nat, active : Contexts]

TypeOK ==
    /\ facade \in FacadeType
    /\ guest \in [Contexts -> [Guests -> GuestType]]
    /\ call \in [CallIds -> CallType]
    /\ store \in [head : Nat, gens : Seq(Record), epoch : Nat, owned : BOOLEAN, damaged : SUBSET Nat]
    /\ store.head \in 0..Len(store.gens)
    /\ coord \in [current : 0..MaxCalls, lock : 0..MaxCalls,
                  state : [CallIds -> {"idle", "waiting", "owned", "stopping", "stopped", "failed"}],
                  epoch : [CallIds -> Nat]]
    /\ apart \in BOOLEAN

-----------------------------------------------------------------------------
Queue(c, g) == guest[c][g].queue
NoCommandsYet == {"idle", "owning", "reading", "readingArchive"}
At(k, places) == call[k].at \in places
Here(k, g) == guest[call[k].ctx][g]

PlacesFit ==
    \A k \in CallIds :
       /\ Fits(call[k].kind, call[k].at)
       /\ At(k, {"pausingCandidate", "publishing", "adopting"}) => call[k].cand \in Contexts
       /\ At(k, {"restoring"}) => call[k].gen \in 1..Len(store.gens)

\* Every queued command is one its call asked for, in the computer it works on.
CommandsFit ==
    \A c \in Contexts, g \in Guests : \A i \in 1..Len(Queue(c, g)) :
       LET cmd == Queue(c, g)[i] IN
       /\ Asks(cmd.place, cmd.do)
       /\ ~At(cmd.by, NoCommandsYet)
       /\ InFlight(cmd.by) => call[cmd.by].ctx = c
       /\ At(cmd.by, {"pausing", "readingHead", "flushing"}) => cmd.place = "pausing"

\* The commands a call gives guest after guest, each awaited before the next.
Turn(cmd) == cmd.do \in {"pause", "restore"}

\* A command of that kind that is not skipped is one its call waits for.
TurnAwaited ==
    \A c \in Contexts, g \in Guests : \A i \in 1..Len(Queue(c, g)) :
       LET cmd == Queue(c, g)[i] IN
       Turn(cmd) =>
         /\ i > 1 /\ ~cmd.void =>
               call[cmd.by].at = cmd.place /\ g \in call[cmd.by].asked
         /\ At(cmd.by, {"pausing", "restoring"}) /\ ~call[cmd.by].failed =>
               g \notin call[cmd.by].todo \ call[cmd.by].asked

OneTurnEach ==
    \A c \in Contexts, g \in Guests : \A i, j \in 1..Len(Queue(c, g)) :
       /\ Turn(Queue(c, g)[i]) /\ Turn(Queue(c, g)[j])
       /\ Queue(c, g)[i].by = Queue(c, g)[j].by
       => i = j

AskedInTurn ==
    \A k \in CallIds : At(k, {"pausing", "restoring"}) =>
       /\ call[k].asked \subseteq call[k].todo
       /\ \A g, h \in call[k].asked : g = h

TurnsTaken == TurnAwaited /\ OneTurnEach /\ AskedInTurn

AlwaysInv == TypeOK /\ PlacesFit /\ CommandsFit /\ TurnsTaken

-----------------------------------------------------------------------------
(* Operations apart from one another: what holds of the one in flight *)

Sole == \A j, k \in CallIds : InFlight(j) /\ InFlight(k) => j = k

LifeFits(k) ==
    /\ call[k].kind \in {"save", "exportImage", "importImage"} => facade.life = "hot"
    /\ call[k].kind = "suspend" => facade.life \in {"draining", "committing", "stopping", "hot"}
    /\ call[k].kind = "initialize" => facade.life \in {"waking", "failed"}
    /\ call[k].kind = "retrySuspendCleanup" => facade.life = "cleanupIncomplete"

\* It works on the active computer, until that is replaced.
OnActive(k) ==
    \/ At(k, {"owning", "reading", "readingArchive", "givingUp", "retiring"})
    \/ call[k].kind = "importImage" /\ At(k, {"pruning"})
    \/ call[k].ctx = facade.active

NoRestore(c, g) ==
    \A i \in 1..Len(Queue(c, g)) :
       Queue(c, g)[i].do = "restore" => Queue(c, g)[i].void

NoRestores == \A g \in Guests : NoRestore(facade.active, g)

RestoresFit(k) ==
    /\ call[k].kind = "suspend" => NoRestores
    /\ At(k, {"booting", "resumingAll"}) => NoRestores
    /\ call[k].kind = "initialize" /\ At(k, {"pruning"}) => NoRestores
    /\ At(k, {"restoring"}) =>
          /\ store.head # 0
          /\ ~call[k].failed =>
                \A g \in Guests \ call[k].todo : NoRestore(facade.active, g)

PausesWaited(k) ==
    \A g \in Guests : \A i \in 1..Len(Here(k, g).queue) :
       LET cmd == Here(k, g).queue[i] IN
       cmd.do = "pause" /\ ~cmd.void => i = 1 /\ Here(k, g).state = "paused"

Snaps(cmd, k) == cmd.by = k /\ cmd.place = "capturing"

\* Its snapshot is the last command of a guest that was asked.
SnapshotLast(q, k) ==
    /\ Len(q) > 0
    /\ ~q[Len(q)].void
    /\ \A i \in 1..Len(q) : Snaps(q[i], k) <=> i = Len(q)

Still(m, memory) == m.state = "paused" /\ Len(m.queue) = 0 /\ m.mem = memory

CaptureFits(k) ==
    \A g \in Guests :
       /\ Here(k, g).state = "paused" => Here(k, g).mem = call[k].disk[g]
       /\ ~call[k].failed =>
             /\ g \in call[k].asked => SnapshotLast(Here(k, g).queue, k)
             /\ g \notin call[k].asked => Still(Here(k, g), call[k].mem[g])

Committed(k) ==
    At(k, {"verifying"}) \/ (call[k].kind = "suspend" /\ At(k, {"pruning"}))

CapturesFit(k) ==
    /\ At(k, {"flushing", "capturing"}) => PausesWaited(k)
    /\ At(k, {"capturing"}) => CaptureFits(k)
    /\ At(k, {"committing"}) \/ Committed(k) =>
          /\ call[k].mem = call[k].disk
          /\ \A g \in Guests : Still(Here(k, g), call[k].mem[g])
    /\ Committed(k) => store.head # 0 /\ store.gens[store.head].mem = call[k].mem
    /\ At(k, {"publishing"}) => call[k].mem = call[k].disk

Resting(m, memory) ==
    /\ m.state \in {"paused", "stopped"}
    /\ m.mem = memory
    /\ \A i \in 1..Len(m.queue) : m.queue[i].do = "shutdown"

\* The active guests rest as HEAD holds them, and nothing will wake them.
AtRest ==
    /\ store.head # 0
    /\ \A g \in Guests : Resting(guest[facade.active][g], store.gens[store.head].mem[g])

ClosingFits(k) ==
    call[k].kind \in Closers =>
       /\ At(k, {"stopping", "releasing"}) => AtRest
       /\ At(k, {"stopping"}) /\ ~call[k].failed =>
             \A g \in Guests \ call[k].asked : Here(k, g).state = "stopped"
       /\ At(k, {"releasing"}) => \A g \in Guests : Here(k, g).state = "stopped"

Stopper(k) ==
    /\ At(k, {"releasing", "givingUp"})
    /\ call[k].first /\ call[k].stops = coord.lock

LockFits(k) ==
    /\ At(k, {"releasing", "givingUp"}) => coord.lock = 0 \/ Stopper(k)
    /\ At(k, {"owning"}) => coord.current = k /\ coord.lock = 0

HeadFits(k) ==
    At(k, {"adopting"}) =>
       /\ call[k].gen # 0
       /\ store.head # 0 /\ store.gens[store.head].ctx = call[k].cand

Phase(k) ==
    /\ LifeFits(k) /\ OnActive(k) /\ RestoresFit(k) /\ CapturesFit(k)
    /\ ClosingFits(k) /\ LockFits(k) /\ HeadFits(k)

-----------------------------------------------------------------------------
(* ... and of the computer *)

RestoresDone ==
    \A c \in Contexts, g \in Guests :
       c # facade.active \/ store.head = 0 \/ facade.life = "hot" => NoRestore(c, g)

ClosedKept ==
    /\ facade.life \in {"cold", "cleanupIncomplete"} => AtRest
    /\ facade.life = "cold" =>
          /\ facade.token = 0 /\ coord.lock = 0
          /\ \A g \in Guests : guest[facade.active][g].state = "stopped"

LockKept ==
    /\ coord.lock # 0 =>
          /\ coord.lock = coord.current
          /\ \/ coord.state[coord.lock] = "owned"
             \/ \E k \in CallIds : Stopper(k)
    /\ ~facade.initialized => coord.lock = 0 \/ \E k \in CallIds : Stopper(k)

\* An import that failed after its candidate was committed.
LeftBehind(k) ==
    /\ call[k].kind = "importImage" /\ call[k].gen # 0
    /\ \/ At(k, {"adopting", "unstaging"})
       \/ At(k, {"resuming", "done"}) /\ call[k].error

HeadKept ==
    store.head # 0 => \/ store.gens[store.head].ctx = facade.active
                      \/ \E k \in CallIds : LeftBehind(k)

ApartInv ==
    /\ Sole
    /\ \A k \in CallIds : InFlight(k) => Phase(k)
    /\ RestoresDone /\ OneMoment /\ ClosedKept /\ LockKept /\ HeadKept

IInv == AlwaysInv /\ (apart => ApartInv)

-----------------------------------------------------------------------------
(* The primitives a step is made of *)

\* Only the call k changes.
Moved(k) ==
    /\ call' \in [CallIds -> CallType]
    /\ \A j \in CallIds : j # k => call'[j] = call[j]

\* It goes to `place` with what r carries.
Carries(k, r, place) ==
    /\ call'[k].at = place
    /\ call'[k].kind = r.kind /\ call'[k].ctx = r.ctx /\ call'[k].ids = r.ids
    /\ call'[k].error = r.error /\ call'[k].aborted = r.aborted
    /\ call'[k].head = r.head /\ call'[k].token = r.token
    /\ call'[k].mem = r.mem /\ call'[k].disk = r.disk
    /\ call'[k].gen = r.gen /\ call'[k].cand = r.cand
    /\ call'[k].stops = r.stops /\ call'[k].first = r.first

SameCommand(cmd, old) ==
    /\ cmd.do = old.do /\ cmd.by = old.by
    /\ cmd.place = old.place /\ cmd.void = old.void

\* The guests `now` of computer c get one more command each.
Posted(k, c, now, do, place) ==
    \A d \in Contexts, g \in Guests :
       /\ \A i \in 1..Len(Queue(d, g)) : SameCommand(guest'[d][g].queue[i], Queue(d, g)[i])
       /\ d = c /\ g \in now =>
             LET n == Len(Queue(d, g)) + 1 IN
             /\ Len(guest'[d][g].queue) = n
             /\ guest'[d][g].queue[n].do = do /\ guest'[d][g].queue[n].by = k
             /\ guest'[d][g].queue[n].place = place /\ ~guest'[d][g].queue[n].void
       /\ ~(d = c /\ g \in now) => Len(guest'[d][g].queue) = Len(Queue(d, g))

StatesKept ==
    \A d \in Contexts, g \in Guests :
       guest'[d][g].state = guest[d][g].state /\ guest'[d][g].mem = guest[d][g].mem

GuestsTyped == guest' \in [Contexts -> [Guests -> GuestType]]

LEMMA Constants_ ==
    /\ GuestCount \in Nat \ {0} /\ MaxCalls \in Nat \ {0} /\ MaxContexts \in Nat \ {0}
    /\ 1 \in Guests /\ 1 \in Contexts /\ CallIds \subseteq Nat \ {0}
    /\ NoCall \in CallType
  <1>1. /\ GuestCount \in Nat \ {0} /\ MaxCalls \in Nat \ {0} /\ MaxContexts \in Nat \ {0}
        /\ 1 \in Guests /\ 1 \in Contexts /\ CallIds \subseteq Nat \ {0}
    BY BoundAssumption DEF Guests, Contexts, CallIds
  <1>2. NoMemory \in Memory
    BY DEF NoMemory, Memory
  <1>3. PICK no \in BOOLEAN : no = FALSE
    OBVIOUS
  <1>4. NoCall = [kind |-> "none", at |-> "idle", ctx |-> 1, ids |-> {}, todo |-> {},
                  asked |-> {}, failed |-> no, error |-> no, aborted |-> no,
                  head |-> 0, token |-> 0, mem |-> NoMemory, disk |-> NoMemory,
                  gen |-> 0, cand |-> 0, stops |-> 0, first |-> no]
    BY <1>3 DEF NoCall
  <1>5. NoCall \in CallType
    BY <1>1, <1>2, <1>4 DEF CallType, Awaits, AnyKind
  <1>. QED
    BY <1>1, <1>5

\* The names the source's strings stand for.
LEMMA Names ==
    /\ {"pausing", "unpausing", "flushing", "capturing", "committing", "resuming",
        "rollback", "verifying", "pruning", "stopping", "releasing", "owning", "reading",
        "booting", "unbooting", "restoring", "resumingAll", "staging", "publishing",
        "adopting", "retiring", "unstaging"} \subseteq Awaits
    /\ {"idle", "done", "readingHead", "givingUp", "readingArchive",
        "pausingCandidate"} \subseteq Awaits
    /\ {"boot", "pause", "resume", "snapshot", "restore", "shutdown"} = AnyCommand
  BY DEF Awaits, AnyCommand

LEMMA GoMoves ==
    ASSUME TypeOK, NEW k \in CallIds, NEW r \in CallType, NEW place \in Awaits,
           Go(k, r, place)
    PROVE  /\ Moved(k) /\ Carries(k, r, place)
           /\ call'[k].todo = r.todo /\ call'[k].asked = r.asked /\ call'[k].failed = r.failed
  <1>1. call \in [CallIds -> CallType]
    BY DEF TypeOK
  <1>2. [r EXCEPT !.at = place] \in CallType
    BY DEF CallType
  <1>3. Moved(k)
    BY <1>1, <1>2 DEF Go, Moved
  <1>4. call'[k] = [r EXCEPT !.at = place]
    BY <1>1 DEF Go
  <1>. QED
    BY <1>3, <1>4 DEF Carries, CallType

LEMMA FinishMoves ==
    ASSUME TypeOK, NEW k \in CallIds, NEW r \in CallType, NEW error \in BOOLEAN,
           Finish(k, r, error)
    PROVE  /\ Moved(k)
           /\ call'[k].at = "done" /\ call'[k].kind = r.kind /\ call'[k].gen = r.gen
           /\ call'[k].error = error /\ call'[k].asked = {}
  <1>1. call \in [CallIds -> CallType]
    BY DEF TypeOK
  <1>. DEFINE s == [NoCall EXCEPT !.kind = r.kind, !.at = "done", !.error = error,
                                  !.aborted = r.aborted, !.gen = r.gen]
  <1>2. s \in CallType
    <2>1. NoCall \in CallType
      BY Constants_
    <2>. HIDE DEF NoCall
    <2>. QED
      BY <2>1, Names DEF CallType
  <1>3. /\ s.at = "done" /\ s.kind = r.kind /\ s.gen = r.gen
        /\ s.error = error /\ s.asked = {}
    BY DEF NoCall
  <1>4. call' = [call EXCEPT ![k] = s]
    BY DEF Finish
  <1>. HIDE DEF s
  <1>5. Moved(k)
    BY <1>1, <1>2, <1>4 DEF Moved
  <1>6. call'[k] = s
    BY <1>1, <1>4
  <1>. QED
    BY <1>3, <1>5, <1>6

\* A command put at the end of a queue.
LEMMA AppendedCommand ==
    ASSUME NEW q \in Seq(Command), NEW cmd \in Command
    PROVE  /\ Append(q, cmd) \in Seq(Command)
           /\ Len(Append(q, cmd)) = Len(q) + 1
           /\ Append(q, cmd)[Len(q) + 1] = cmd
           /\ \A i \in 1..Len(q) : Append(q, cmd)[i] = q[i]
  OBVIOUS

LEMMA QueuedPosts ==
    ASSUME TypeOK, NEW k \in CallIds, NEW c \in Contexts, NEW gs \in SUBSET Guests,
           NEW do \in AnyCommand, NEW place \in Awaits, NEW arg \in Memory,
           guest' = Queued(c, gs, do, k, place, arg)
    PROVE  GuestsTyped /\ StatesKept /\ Posted(k, c, gs, do, place)
  <1>. DEFINE cmd(g) == [do |-> do, by |-> k, place |-> place, arg |-> arg[g],
                         unknown |-> FALSE, void |-> FALSE]
              m(g) == IF g \in gs THEN [guest[c][g] EXCEPT !.queue = Append(@, cmd(g))]
                      ELSE guest[c][g]
  <1>1. guest \in [Contexts -> [Guests -> GuestType]]
    BY DEF TypeOK
  <1>2. \A g \in Guests : cmd(g) \in Command
    BY DEF Command, AnyCommand, Memory
  <1>3. \A g \in Guests : cmd(g).do = do /\ cmd(g).by = k /\ cmd(g).place = place /\ ~cmd(g).void
    OBVIOUS
  <1>4. guest' = [guest EXCEPT ![c] = [g \in Guests |-> m(g)]]
    BY DEF Queued
  <1>. HIDE DEF cmd
  <1>5. ASSUME NEW g \in Guests
        PROVE  /\ m(g) \in GuestType
               /\ m(g).state = guest[c][g].state /\ m(g).mem = guest[c][g].mem
               /\ m(g).queue = IF g \in gs THEN Append(Queue(c, g), cmd(g)) ELSE Queue(c, g)
    <2>1. guest[c][g] \in GuestType /\ Queue(c, g) \in Seq(Command)
      BY <1>1, <1>5 DEF GuestType, Queue
    <2>2. CASE g \in gs
      <3>. DEFINE q == Append(Queue(c, g), cmd(g))
      <3>1. q \in Seq(Command)
        BY <1>2, <1>5, <2>1, AppendedCommand
      <3>2. m(g) = [guest[c][g] EXCEPT !.queue = q]
        BY <2>1, <2>2 DEF Queue, GuestType
      <3>. HIDE DEF q, m
      <3>3. [guest[c][g] EXCEPT !.queue = q] \in GuestType
        BY <2>1, <3>1 DEF GuestType
      <3>4. /\ [guest[c][g] EXCEPT !.queue = q].state = guest[c][g].state
            /\ [guest[c][g] EXCEPT !.queue = q].mem = guest[c][g].mem
            /\ [guest[c][g] EXCEPT !.queue = q].queue = q
        BY <2>1 DEF GuestType
      <3>. QED
        BY <2>2, <3>2, <3>3, <3>4 DEF q
    <2>3. CASE g \notin gs
      BY <2>1, <2>3 DEF Queue
    <2>. QED
      BY <2>2, <2>3
  <1>. HIDE DEF m
  <1>6. GuestsTyped
    BY <1>1, <1>4, <1>5 DEF GuestsTyped
  <1>7. \A d \in Contexts, g \in Guests : guest'[d][g] = IF d = c THEN m(g) ELSE guest[d][g]
    BY <1>1, <1>4
  <1>8. StatesKept
    BY <1>5, <1>7 DEF StatesKept
  <1>9. \A d \in Contexts, g \in Guests : Queue(d, g) \in Seq(Command)
    BY <1>1 DEF GuestType, Queue
  <1>10. ASSUME NEW d \in Contexts, NEW g \in Guests
         PROVE  /\ \A i \in 1..Len(Queue(d, g)) : guest'[d][g].queue[i] = Queue(d, g)[i]
                /\ d = c /\ g \in gs =>
                      /\ Len(guest'[d][g].queue) = Len(Queue(d, g)) + 1
                      /\ guest'[d][g].queue[Len(Queue(d, g)) + 1] = cmd(g)
                /\ ~(d = c /\ g \in gs) => Len(guest'[d][g].queue) = Len(Queue(d, g))
    <2>1. CASE d = c /\ g \in gs
      <3>1. guest'[d][g].queue = Append(Queue(d, g), cmd(g))
        BY <1>5, <1>7, <2>1
      <3>. QED
        BY <1>2, <1>9, <2>1, <3>1, AppendedCommand
    <2>2. CASE ~(d = c /\ g \in gs)
      BY <1>5, <1>7, <2>2 DEF Queue
    <2>. QED
      BY <2>1, <2>2
  <1>11. Posted(k, c, gs, do, place)
    BY <1>3, <1>10 DEF Posted, SameCommand
  <1>. QED
    BY <1>6, <1>8, <1>11

LEMMA UnpostedGuests ==
    ASSUME TypeOK, NEW k, NEW c, NEW do, NEW place, UNCHANGED guest
    PROVE  GuestsTyped /\ StatesKept /\ Posted(k, c, {}, do, place)
  BY DEF TypeOK, GuestsTyped, StatesKept, Posted, SameCommand, Queue

\* The call waits at `place`, having asked `asked`, unless its signal fired.
LEMMA WaitPosts ==
    ASSUME TypeOK, NEW k \in CallIds, NEW r \in CallType, NEW c \in Contexts,
           NEW gs \in SUBSET Guests, NEW now \in SUBSET gs,
           NEW do \in AnyCommand, NEW place \in Awaits, NEW arg \in Memory,
           Wait(k, r, c, gs, now, do, place, arg)
    PROVE  /\ GuestsTyped /\ StatesKept
           /\ Posted(k, c, call'[k].asked, do, place)
           /\ Moved(k) /\ Carries(k, r, place)
           /\ call'[k].todo = gs
           /\ \/ call'[k].asked = now /\ ~call'[k].failed
              \/ call'[k].asked = {} /\ (call'[k].failed <=> now # {})
  <1>1. call \in [CallIds -> CallType]
    BY DEF TypeOK
  <1>2. CASE r.aborted /\ place \in Controlled
    <2>. DEFINE s == [r EXCEPT !.at = place, !.todo = gs, !.asked = {}, !.failed = now # {}]
    <2>1. call' = [call EXCEPT ![k] = s] /\ UNCHANGED guest
      BY <1>2 DEF Wait
    <2>2. s \in CallType /\ s.todo = gs /\ s.asked = {}
      BY DEF CallType
    <2>3. s.failed <=> now # {}
      BY DEF CallType
    <2>4. /\ s.at = place
          /\ s.kind = r.kind /\ s.ctx = r.ctx /\ s.ids = r.ids
          /\ s.error = r.error /\ s.aborted = r.aborted
          /\ s.head = r.head /\ s.token = r.token
          /\ s.mem = r.mem /\ s.disk = r.disk
          /\ s.gen = r.gen /\ s.cand = r.cand
          /\ s.stops = r.stops /\ s.first = r.first
      BY DEF CallType
    <2>. HIDE DEF s
    <2>5. call'[k] = s /\ Moved(k)
      BY <1>1, <2>1, <2>2 DEF Moved
    <2>6. Carries(k, r, place)
      BY <2>4, <2>5 DEF Carries
    <2>7. GuestsTyped /\ StatesKept /\ Posted(k, c, {}, do, place)
      BY <2>1, UnpostedGuests
    <2>. QED
      BY <2>2, <2>3, <2>5, <2>6, <2>7
  <1>3. CASE ~(r.aborted /\ place \in Controlled)
    <2>. DEFINE s == [r EXCEPT !.at = place, !.todo = gs, !.asked = now, !.failed = FALSE]
    <2>1. call' = [call EXCEPT ![k] = s] /\ guest' = Queued(c, now, do, k, place, arg)
      BY <1>3 DEF Wait
    <2>2. s \in CallType /\ s.todo = gs /\ s.asked = now
      BY DEF CallType
    <2>3. ~s.failed
      BY DEF CallType
    <2>4. /\ s.at = place
          /\ s.kind = r.kind /\ s.ctx = r.ctx /\ s.ids = r.ids
          /\ s.error = r.error /\ s.aborted = r.aborted
          /\ s.head = r.head /\ s.token = r.token
          /\ s.mem = r.mem /\ s.disk = r.disk
          /\ s.gen = r.gen /\ s.cand = r.cand
          /\ s.stops = r.stops /\ s.first = r.first
      BY DEF CallType
    <2>. HIDE DEF s
    <2>5. call'[k] = s /\ Moved(k)
      BY <1>1, <2>1, <2>2 DEF Moved
    <2>6. Carries(k, r, place)
      BY <2>4, <2>5 DEF Carries
    <2>7. GuestsTyped /\ StatesKept /\ Posted(k, c, now, do, place)
      BY <2>1, QueuedPosts
    <2>. QED
      BY <2>2, <2>3, <2>5, <2>6, <2>7
  <1>. QED
    BY <1>2, <1>3

LEMMA AskPosts ==
    ASSUME TypeOK, NEW k \in CallIds, NEW r \in CallType, NEW c \in Contexts,
           NEW gs \in SUBSET Guests, NEW do \in AnyCommand, NEW place \in Awaits,
           Ask(k, r, c, gs, do, place)
    PROVE  /\ GuestsTyped /\ StatesKept
           /\ Posted(k, c, call'[k].asked, do, place)
           /\ Moved(k) /\ Carries(k, r, place)
           /\ call'[k].todo = gs
           /\ \/ call'[k].asked = gs /\ ~call'[k].failed
              \/ call'[k].asked = {} /\ (call'[k].failed <=> gs # {})
  <1>1. NoMemory \in Memory
    BY DEF NoMemory, Memory
  <1>. QED
    BY <1>1, WaitPosts DEF Ask

LEMMA AskNextPosts ==
    ASSUME TypeOK, NEW k \in CallIds, NEW r \in CallType, NEW c \in Contexts,
           NEW gs \in SUBSET Guests, NEW do \in AnyCommand, NEW place \in Awaits,
           NEW arg \in Memory, AskNext(k, r, c, gs, do, place, arg)
    PROVE  /\ GuestsTyped /\ StatesKept
           /\ Posted(k, c, call'[k].asked, do, place)
           /\ Moved(k) /\ Carries(k, r, place)
           /\ call'[k].todo = gs /\ call'[k].asked \subseteq gs
           /\ \A g, h \in call'[k].asked : g = h
           /\ ~call'[k].failed /\ call'[k].asked = {} => gs = {}
  <1>1. \E now \in SUBSET gs : /\ now = {} => gs = {}
                               /\ \A g, h \in now : g = h
                               /\ Wait(k, r, c, gs, now, do, place, arg)
    <2>1. CASE gs = {} /\ Wait(k, r, c, gs, {}, do, place, arg)
      BY <2>1
    <2>2. CASE \E g \in gs : Wait(k, r, c, gs, {g}, do, place, arg)
      <3>1. PICK g \in gs : Wait(k, r, c, gs, {g}, do, place, arg)
        BY <2>2
      <3>2. {g} \in SUBSET gs /\ {g} # {} /\ \A x, y \in {g} : x = y
        OBVIOUS
      <3>. QED
        BY <3>1, <3>2
    <2>. QED
      BY <2>1, <2>2 DEF AskNext
  <1>2. PICK now \in SUBSET gs : /\ now = {} => gs = {}
                                 /\ \A g, h \in now : g = h
                                 /\ Wait(k, r, c, gs, now, do, place, arg)
    BY <1>1
  <1>3. /\ GuestsTyped /\ StatesKept
        /\ Posted(k, c, call'[k].asked, do, place)
        /\ Moved(k) /\ Carries(k, r, place)
        /\ call'[k].todo = gs
        /\ \/ call'[k].asked = now /\ ~call'[k].failed
           \/ call'[k].asked = {} /\ (call'[k].failed <=> now # {})
    BY <1>2, WaitPosts
  <1>. QED
    BY <1>2, <1>3

-----------------------------------------------------------------------------
(* A step of a call, however the operations overlap *)

\* The step k makes: it may ask the guests in call'[k].asked for `do`.
CallStep(k, now, do) ==
    /\ Moved(k)
    /\ GuestsTyped
    /\ Posted(k, call'[k].ctx, now, do, call'[k].at)
    /\ now # {} => now \subseteq call'[k].asked /\ Asks(call'[k].at, do)

\* What makes it a step the code can take from where the call stands.
Legal(k, now) ==
    /\ Fits(call'[k].kind, call'[k].at) /\ call'[k].at # "idle" /\ ~At(k, {"done"})
    /\ call'[k].at \in {"pausingCandidate", "publishing", "adopting"} => call'[k].cand \in Contexts
    /\ call'[k].at = "restoring" => call'[k].gen \in 1..Len(store'.gens)
    /\ Len(store.gens) <= Len(store'.gens)
    /\ call'[k].at \in NoCommandsYet => At(k, NoCommandsYet) /\ now = {}
    /\ \/ At(k, NoCommandsYet) \/ call'[k].at = "done"
       \/ call'[k].ctx = call[k].ctx
    /\ call'[k].at \in {"pausing", "readingHead", "flushing"} =>
          At(k, NoCommandsYet \union {"pausing", "readingHead"})
    /\ At(k, {"pausing", "restoring"}) => call[k].asked = {}
    /\ call'[k].at \in {"pausing", "restoring"} =>
          /\ call'[k].asked \subseteq call'[k].todo
          /\ \A g, h \in call'[k].asked : g = h
          /\ now = call'[k].asked
          /\ \/ At(k, NoCommandsYet)
             \/ call'[k].at = call[k].at /\ ~call[k].failed /\ call'[k].todo = call[k].todo

LEMMA QueueTyped ==
    ASSUME TypeOK
    PROVE  \A c \in Contexts, g \in Guests :
              /\ Queue(c, g) \in Seq(Command) /\ Len(Queue(c, g)) \in Nat
              /\ \A i \in 1..Len(Queue(c, g)) :
                    /\ Queue(c, g)[i] \in Command /\ Queue(c, g)[i].by \in CallIds
                    /\ Queue(c, g)[i].do \in AnyCommand /\ Queue(c, g)[i].place \in Awaits
                    /\ Queue(c, g)[i].void \in BOOLEAN
  <1>1. \A c \in Contexts, g \in Guests : guest[c][g] \in GuestType
    BY DEF TypeOK
  <1>2. \A c \in Contexts, g \in Guests : Queue(c, g) \in Seq(Command)
    BY <1>1 DEF GuestType, Queue
  <1>3. \A c \in Contexts, g \in Guests : \A i \in 1..Len(Queue(c, g)) : Queue(c, g)[i] \in Command
    BY <1>2
  <1>4. \A cmd \in Command : /\ cmd.by \in CallIds /\ cmd.do \in AnyCommand
                             /\ cmd.place \in Awaits /\ cmd.void \in BOOLEAN
    BY DEF Command
  <1>. QED
    BY <1>2, <1>3, <1>4

\* Every command of a queue was there before, or is the one just asked for.
LEMMA PostedCommands ==
    ASSUME TypeOK, NEW k \in CallIds, NEW now, NEW do, CallStep(k, now, do),
           NEW c \in Contexts, NEW g \in Guests, NEW i \in 1..Len(Queue(c, g)')
    PROVE  \/ /\ i \in 1..Len(Queue(c, g)) /\ SameCommand(Queue(c, g)'[i], Queue(c, g)[i])
           \/ /\ i = Len(Queue(c, g)) + 1 /\ c = call'[k].ctx /\ g \in now
              /\ Queue(c, g)'[i].do = do /\ Queue(c, g)'[i].by = k
              /\ Queue(c, g)'[i].place = call'[k].at /\ ~Queue(c, g)'[i].void
  <1>1. Queue(c, g)' = guest'[c][g].queue /\ Len(Queue(c, g)) \in Nat
    BY QueueTyped DEF Queue
  <1>2. Posted(k, call'[k].ctx, now, do, call'[k].at)
    BY DEF CallStep
  <1>3. CASE c = call'[k].ctx /\ g \in now
    BY <1>1, <1>2, <1>3 DEF Posted
  <1>4. CASE ~(c = call'[k].ctx /\ g \in now)
    BY <1>1, <1>2, <1>4 DEF Posted
  <1>. QED
    BY <1>3, <1>4

LEMMA CommandsStep ==
    ASSUME AlwaysInv, NEW k \in CallIds, NEW now \in SUBSET Guests, NEW do,
           CallStep(k, now, do), Legal(k, now)
    PROVE  CommandsFit'
  <1>. SUFFICES ASSUME NEW c \in Contexts, NEW g \in Guests, NEW i \in 1..Len(Queue(c, g)')
                PROVE  LET cmd == Queue(c, g)'[i] IN
                       /\ Asks(cmd.place, cmd.do)
                       /\ call'[cmd.by].at \notin NoCommandsYet
                       /\ call'[cmd.by].at \notin {"idle", "done"} => call'[cmd.by].ctx = c
                       /\ call'[cmd.by].at \in {"pausing", "readingHead", "flushing"} =>
                             cmd.place = "pausing"
    BY DEF CommandsFit, At, InFlight
  <1>1. TypeOK /\ CommandsFit
    BY DEF AlwaysInv
  <1>2. CASE /\ i = Len(Queue(c, g)) + 1 /\ c = call'[k].ctx /\ g \in now
             /\ Queue(c, g)'[i].do = do /\ Queue(c, g)'[i].by = k
             /\ Queue(c, g)'[i].place = call'[k].at
    <2>1. Asks(call'[k].at, do)
      BY <1>2 DEF CallStep
    <2>2. call'[k].at \notin {"idle", "readingHead", "flushing"} \union NoCommandsYet
      BY <2>1 DEF Asks, NoCommandsYet
    <2>. QED
      BY <1>2, <2>1, <2>2
  <1>3. CASE i \in 1..Len(Queue(c, g)) /\ SameCommand(Queue(c, g)'[i], Queue(c, g)[i])
    <2>. DEFINE cmd == Queue(c, g)[i]
    <2>1. /\ Queue(c, g)'[i].do = cmd.do /\ Queue(c, g)'[i].by = cmd.by
          /\ Queue(c, g)'[i].place = cmd.place /\ cmd.by \in CallIds
      BY <1>1, <1>3, QueueTyped DEF SameCommand
    <2>2. /\ Asks(cmd.place, cmd.do)
          /\ call[cmd.by].at \notin NoCommandsYet
          /\ call[cmd.by].at \notin {"idle", "done"} => call[cmd.by].ctx = c
          /\ call[cmd.by].at \in {"pausing", "readingHead", "flushing"} => cmd.place = "pausing"
      BY <1>1, <1>3 DEF CommandsFit, At, InFlight
    <2>. HIDE DEF cmd
    <2>3. CASE cmd.by # k
      BY <2>1, <2>2, <2>3 DEF CallStep, Moved
    <2>4. CASE cmd.by = k
      <3>1. /\ call[k].at \notin NoCommandsYet /\ call[k].at # "done"
            /\ call[k].at # "idle" => call[k].ctx = c
        BY <2>2, <2>4 DEF Legal, At
      <3>2. call[k].at # "idle"
        BY <3>1 DEF NoCommandsYet
      <3>3. call'[k].at \notin NoCommandsYet
        BY <3>1 DEF Legal, At
      <3>4. call'[k].at # "done" => call'[k].ctx = c
        BY <3>1, <3>2 DEF Legal, At
      <3>5. call'[k].at \in {"pausing", "readingHead", "flushing"} => cmd.place = "pausing"
        BY <2>2, <2>4, <3>1 DEF Legal, At
      <3>. QED
        BY <2>1, <2>2, <2>4, <3>3, <3>4, <3>5
    <2>. QED
      BY <2>3, <2>4
  <1>4. \/ /\ i \in 1..Len(Queue(c, g)) /\ SameCommand(Queue(c, g)'[i], Queue(c, g)[i])
        \/ /\ i = Len(Queue(c, g)) + 1 /\ c = call'[k].ctx /\ g \in now
           /\ Queue(c, g)'[i].do = do /\ Queue(c, g)'[i].by = k
           /\ Queue(c, g)'[i].place = call'[k].at /\ ~Queue(c, g)'[i].void
    BY <1>1, PostedCommands
  <1>. QED
    BY <1>2, <1>3, <1>4

LEMMA TurnsStep ==
    ASSUME AlwaysInv, NEW k \in CallIds, NEW now \in SUBSET Guests, NEW do,
           CallStep(k, now, do), Legal(k, now)
    PROVE  TurnsTaken'
  <1>1. TypeOK /\ CommandsFit /\ TurnAwaited /\ OneTurnEach /\ AskedInTurn
    BY DEF AlwaysInv, TurnsTaken
  <1>2. \A j \in CallIds : j # k => call'[j] = call[j]
    BY DEF CallStep, Moved
  <1>3. ASSUME NEW c \in Contexts, NEW g \in Guests, NEW i \in 1..Len(Queue(c, g)),
               Turn(Queue(c, g)[i]), Queue(c, g)[i].by = k
        PROVE  /\ ~At(k, NoCommandsYet) 
               /\ i > 1 => Queue(c, g)[i].void
               /\ call'[k].at \in {"pausing", "restoring"} =>
                     /\ g \notin call[k].todo /\ call[k].todo = call'[k].todo
                     /\ At(k, {"pausing", "restoring"}) /\ ~call[k].failed
    <2>. DEFINE cmd == Queue(c, g)[i]
    <2>1. /\ Asks(cmd.place, cmd.do) /\ ~At(k, NoCommandsYet)
          /\ i > 1 /\ ~cmd.void => call[k].at = cmd.place /\ g \in call[k].asked
          /\ At(k, {"pausing", "restoring"}) /\ ~call[k].failed => g \notin call[k].todo \ call[k].asked
      BY <1>1, <1>3 DEF CommandsFit, TurnAwaited
    <2>2. cmd.place \in {"pausing", "restoring"}
      BY <1>3, <2>1 DEF Asks, Turn
    <2>3. i > 1 => cmd.void
      BY <2>1, <2>2 DEF Legal, At
    <2>. QED
      BY <2>1, <2>3 DEF Legal, At
  <1>4. ASSUME NEW c \in Contexts, NEW g \in Guests, NEW i \in 1..Len(Queue(c, g)'),
               Turn(Queue(c, g)'[i])
        PROVE  LET cmd == Queue(c, g)'[i] IN
               /\ i > 1 /\ ~cmd.void =>
                     call'[cmd.by].at = cmd.place /\ g \in call'[cmd.by].asked
               /\ call'[cmd.by].at \in {"pausing", "restoring"} /\ ~call'[cmd.by].failed =>
                     g \notin call'[cmd.by].todo \ call'[cmd.by].asked
    <2>1. CASE /\ i = Len(Queue(c, g)) + 1 /\ c = call'[k].ctx /\ g \in now
               /\ Queue(c, g)'[i].by = k /\ Queue(c, g)'[i].place = call'[k].at
      BY <2>1 DEF CallStep
    <2>2. CASE i \in 1..Len(Queue(c, g)) /\ SameCommand(Queue(c, g)'[i], Queue(c, g)[i])
      <3>. DEFINE cmd == Queue(c, g)[i]
      <3>1. /\ Queue(c, g)'[i].do = cmd.do /\ Queue(c, g)'[i].by = cmd.by
            /\ Queue(c, g)'[i].place = cmd.place /\ cmd.by \in CallIds
            /\ Queue(c, g)'[i].void = cmd.void
        BY <1>1, <2>2, QueueTyped DEF SameCommand
      <3>2. Turn(cmd)
        BY <1>4, <3>1 DEF Turn
      <3>3. CASE cmd.by = k
        BY <1>3, <2>2, <3>1, <3>2, <3>3
      <3>4. CASE cmd.by # k
        <4>1. call'[cmd.by] = call[cmd.by]
          BY <1>2, <3>1, <3>4
        <4>2. /\ i > 1 /\ ~cmd.void =>
                     call[cmd.by].at = cmd.place /\ g \in call[cmd.by].asked
              /\ At(cmd.by, {"pausing", "restoring"}) /\ ~call[cmd.by].failed =>
                     g \notin call[cmd.by].todo \ call[cmd.by].asked
          BY <1>1, <2>2, <3>2 DEF TurnAwaited
        <4>. HIDE DEF cmd
        <4>. QED
          BY <3>1, <4>1, <4>2 DEF At
      <3>. QED
        BY <3>3, <3>4
    <2>. QED
      BY <1>1, <2>1, <2>2, PostedCommands
  <1>5. ASSUME NEW c \in Contexts, NEW g \in Guests, NEW i \in 1..Len(Queue(c, g)'),
               NEW j \in 1..Len(Queue(c, g)'),
               Turn(Queue(c, g)'[i]), Turn(Queue(c, g)'[j]),
               Queue(c, g)'[i].by = Queue(c, g)'[j].by, i # j
        PROVE  FALSE
    <2>. DEFINE New(n) == /\ n = Len(Queue(c, g)) + 1 /\ c = call'[k].ctx /\ g \in now
                          /\ Queue(c, g)'[n].do = do /\ Queue(c, g)'[n].by = k
                          /\ Queue(c, g)'[n].place = call'[k].at /\ ~Queue(c, g)'[n].void
                Old(n) == /\ n \in 1..Len(Queue(c, g))
                          /\ Turn(Queue(c, g)[n]) /\ Queue(c, g)[n].by = Queue(c, g)'[n].by
    <2>1. ASSUME NEW n \in {i, j} PROVE New(n) \/ Old(n)
      BY <1>1, <1>5, PostedCommands DEF SameCommand, Turn
    <2>2. ~(New(i) /\ New(j))
      BY <1>5
    <2>3. ~(Old(i) /\ Old(j))
      BY <1>1, <1>5 DEF OneTurnEach
    <2>4. ASSUME NEW n \in {i, j}, NEW m \in {i, j}, New(n), Old(m)
          PROVE  FALSE
      <3>1. Queue(c, g)[m].by = k /\ Turn(Queue(c, g)'[n])
        BY <1>5, <2>4
      <3>2. Asks(call'[k].at, do) /\ now \subseteq call'[k].asked
        BY <2>4 DEF CallStep
      <3>3. call'[k].at \in {"pausing", "restoring"}
        BY <2>4, <3>1, <3>2 DEF Turn, Asks
      <3>4. g \notin call[k].todo /\ call[k].todo = call'[k].todo
        BY <1>3, <2>4, <3>1, <3>3
      <3>5. g \in call'[k].todo
        BY <2>4, <3>3 DEF Legal
      <3>. QED
        BY <3>4, <3>5
    <2>. QED
      BY <2>1, <2>2, <2>3, <2>4
  <1>6. \A j \in CallIds : call'[j].at \in {"pausing", "restoring"} =>
           /\ call'[j].asked \subseteq call'[j].todo
           /\ \A g, h \in call'[j].asked : g = h
    <2>1. ASSUME NEW j \in CallIds, j # k, call'[j].at \in {"pausing", "restoring"}
          PROVE  /\ call'[j].asked \subseteq call'[j].todo
                 /\ \A g, h \in call'[j].asked : g = h
      BY <1>1, <1>2, <2>1 DEF AskedInTurn, At
    <2>. QED
      BY <2>1 DEF Legal
  <1>7. TurnAwaited'
    BY <1>4 DEF TurnAwaited, At
  <1>8. OneTurnEach'
    BY <1>5 DEF OneTurnEach
  <1>9. AskedInTurn'
    BY <1>6 DEF AskedInTurn, At
  <1>. QED
    BY <1>7, <1>8, <1>9 DEF TurnsTaken

LEMMA StoreTyped ==
    ASSUME TypeOK
    PROVE  /\ store.gens \in Seq(Record) /\ Len(store.gens) \in Nat
           /\ store.head \in 0..Len(store.gens)
           /\ store.head # 0 => store.gens[store.head] \in Record
           /\ \A n \in 1..Len(store.gens) : store.gens[n] \in Record
  <1>1. store.gens \in Seq(Record) /\ store.head \in 0..Len(store.gens)
    BY DEF TypeOK
  <1>. QED
    BY <1>1

LEMMA PlacesStep ==
    ASSUME AlwaysInv, NEW k \in CallIds, NEW now \in SUBSET Guests, NEW do,
           CallStep(k, now, do), Legal(k, now), TypeOK'
    PROVE  PlacesFit'
  <1>1. \A j \in CallIds : j # k => call'[j] = call[j]
    BY DEF CallStep, Moved
  <1>2. Len(store.gens) \in Nat /\ Len(store'.gens) \in Nat /\ Len(store.gens) <= Len(store'.gens)
    <2>1. TypeOK
      BY DEF AlwaysInv
    <2>2. Len(store.gens) \in Nat
      BY <2>1, StoreTyped
    <2>3. store'.gens \in Seq(Record)
      BY DEF TypeOK
    <2>4. Len(store'.gens) \in Nat
      BY <2>3
    <2>5. Len(store.gens) <= Len(store'.gens)
      BY DEF Legal
    <2>. QED
      BY <2>2, <2>4, <2>5
  <1>3. PlacesFit
    BY DEF AlwaysInv
  <1>4. ASSUME NEW j \in CallIds
        PROVE  /\ Fits(call'[j].kind, call'[j].at)
               /\ call'[j].at \in {"pausingCandidate", "publishing", "adopting"} =>
                     call'[j].cand \in Contexts
               /\ call'[j].at = "restoring" => call'[j].gen \in 1..Len(store'.gens)
    <2>1. CASE j = k
      BY <2>1 DEF Legal
    <2>2. CASE j # k
      <3>1. call'[j] = call[j]
        BY <1>1, <2>2
      <3>2. /\ Fits(call[j].kind, call[j].at)
            /\ call[j].at \in {"pausingCandidate", "publishing", "adopting"} => call[j].cand \in Contexts
            /\ call[j].at = "restoring" => call[j].gen \in 1..Len(store.gens)
        BY <1>3 DEF PlacesFit, At
      <3>3. \A n \in 1..Len(store.gens) : n \in 1..Len(store'.gens)
        BY <1>2
      <3>4. call[j].at = "restoring" => call[j].gen \in 1..Len(store'.gens)
        BY <3>2, <3>3
      <3>. QED
        BY <3>1, <3>2, <3>4
    <2>. QED
      BY <2>1, <2>2
  <1>. QED
    BY <1>4 DEF PlacesFit, At

LEMMA AlwaysStep ==
    ASSUME AlwaysInv, NEW k \in CallIds, NEW now \in SUBSET Guests, NEW do,
           CallStep(k, now, do), Legal(k, now), TypeOK'
    PROVE  AlwaysInv'
  BY CommandsStep, TurnsStep, PlacesStep DEF AlwaysInv

-----------------------------------------------------------------------------
(* The steps of the guests: a command runs or is skipped *)

Popped(c, g) ==
    /\ GuestsTyped /\ Len(Queue(c, g)) > 0
    /\ \A d \in Contexts, h \in Guests :
          ~(d = c /\ h = g) => guest'[d][h] = guest[d][h]
    /\ Len(guest'[c][g].queue) = Len(Queue(c, g)) - 1
    /\ \A i \in 1..(Len(Queue(c, g)) - 1) : guest'[c][g].queue[i] = Queue(c, g)[i + 1]

\* What the first command of its queue does to the guest m.
Becomes(m, state, mem) ==
    LET cmd == m.queue[1] IN
    \/ state = m.state /\ mem = m.mem
    \/ /\ ~cmd.void
       /\ \/ /\ cmd.do = "boot" /\ m.state \in {"created", "stopped"}
             /\ state \in {"running", "failed"} /\ mem = m.mem
          \/ cmd.do = "pause" /\ m.state = "running" /\ state = "paused" /\ mem = m.mem
          \/ cmd.do = "resume" /\ m.state = "paused" /\ state = "running" /\ mem = m.mem
          \/ cmd.do = "restore" /\ state = "paused"
          \/ cmd.do = "shutdown" /\ state = "stopped" /\ mem = m.mem

\* What does not change of the calls when a guest answers, or a signal fires.
CallsStay ==
    /\ call' \in [CallIds -> CallType]
    /\ \A k \in CallIds :
          /\ call'[k].kind = call[k].kind /\ call'[k].at = call[k].at
          /\ call'[k].ctx = call[k].ctx /\ call'[k].ids = call[k].ids
          /\ call'[k].error = call[k].error
          /\ call'[k].head = call[k].head /\ call'[k].token = call[k].token
          /\ call'[k].disk = call[k].disk /\ call'[k].gen = call[k].gen
          /\ call'[k].cand = call[k].cand /\ call'[k].stops = call[k].stops
          /\ call'[k].first = call[k].first

Waits(cmd, g) == ~cmd.void /\ call[cmd.by].at = cmd.place /\ g \in call[cmd.by].asked

\* What the call that asked hears, if it still waits.
Hears(cmd, c, g) ==
    LET old == call[cmd.by]
        new == call'[cmd.by]
    IN /\ Waits(cmd, g)
       /\ \A j \in CallIds : j # cmd.by => call'[j] = call[j]
       /\ \/ /\ new.asked = old.asked \ {g} /\ new.todo = old.todo \ {g}
             /\ new.failed = old.failed
             /\ \A h \in Guests :
                   new.mem[h] = IF cmd.do = "snapshot" /\ h = g THEN guest[c][g].mem
                                ELSE old.mem[h]
             /\ guest'[c][g].state = After[cmd.do]
          \/ /\ new.asked \subseteq old.asked /\ new.todo = old.todo
             /\ new.failed /\ new.mem = old.mem

Turned(c, g) ==
    /\ Popped(c, g)
    /\ Becomes(guest[c][g], guest'[c][g].state, guest'[c][g].mem)
    /\ CallsStay
    /\ \/ ~Waits(Queue(c, g)[1], g) /\ call' = call
       \/ Hears(Queue(c, g)[1], c, g)

LEMMA TailOf ==
    ASSUME NEW q \in Seq(Command), q # <<>>
    PROVE  /\ Tail(q) \in Seq(Command) /\ Len(Tail(q)) = Len(q) - 1
           /\ Len(q) \in Nat /\ Len(q) > 0 /\ Head(q) = q[1] /\ q[1] \in Command
           /\ \A i \in 1..(Len(q) - 1) : Tail(q)[i] = q[i + 1]
  OBVIOUS

\* A guest whose queue loses its first command, and that becomes m.
LEMMA PopPops ==
    ASSUME TypeOK, NEW c \in Contexts, NEW g \in Guests, Queue(c, g) # <<>>,
           NEW m, m \in GuestType, m.queue = Tail(Queue(c, g)),
           guest' = [guest EXCEPT ![c][g] = m]
    PROVE  Popped(c, g) /\ guest'[c][g] = m
  <1>1. guest \in [Contexts -> [Guests -> GuestType]] /\ Queue(c, g) \in Seq(Command)
    BY QueueTyped DEF TypeOK
  <1>2. guest'[c][g] = m /\ GuestsTyped
    BY <1>1 DEF GuestsTyped
  <1>3. \A d \in Contexts, h \in Guests : ~(d = c /\ h = g) => guest'[d][h] = guest[d][h]
    BY <1>1
  <1>4. /\ Len(Tail(Queue(c, g))) = Len(Queue(c, g)) - 1 /\ Len(Queue(c, g)) > 0
        /\ \A i \in 1..(Len(Queue(c, g)) - 1) : Tail(Queue(c, g))[i] = Queue(c, g)[i + 1]
    BY <1>1, TailOf
  <1>. QED
    BY <1>2, <1>3, <1>4 DEF Popped

LEMMA SkipTurns ==
    ASSUME TypeOK, NEW c \in Contexts, NEW g \in Guests, SkipCommand(c, g)
    PROVE  Turned(c, g) /\ UNCHANGED <<facade, store, coord, apart>>
  <1>. DEFINE m == [guest[c][g] EXCEPT !.queue = Tail(@)]
              q == Queue(c, g)
  <1>1. /\ guest \in [Contexts -> [Guests -> GuestType]] /\ q \in Seq(Command)
        /\ call \in [CallIds -> CallType] /\ guest[c][g] \in GuestType
    BY QueueTyped DEF TypeOK
  <1>2. q # <<>> /\ Head(q).void /\ call' = call /\ UNCHANGED <<facade, store, coord, apart>>
    BY DEF SkipCommand, Queue
  <1>3. Tail(q) \in Seq(Command) /\ q[1].void
    BY <1>1, <1>2, TailOf
  <1>4. /\ m \in GuestType /\ m.queue = Tail(q)
        /\ m.state = guest[c][g].state /\ m.mem = guest[c][g].mem
    BY <1>1, <1>3 DEF GuestType, Queue
  <1>5. guest' = [guest EXCEPT ![c][g] = m]
    BY <1>1 DEF SkipCommand
  <1>. HIDE DEF m
  <1>6. Popped(c, g) /\ guest'[c][g] = m
    BY <1>2, <1>4, <1>5, PopPops
  <1>7. Becomes(guest[c][g], guest'[c][g].state, guest'[c][g].mem)
    BY <1>4, <1>6 DEF Becomes
  <1>8. CallsStay
    BY <1>1, <1>2 DEF CallsStay
  <1>9. ~Waits(q[1], g)
    BY <1>3 DEF Waits
  <1>. QED
    BY <1>2, <1>6, <1>7, <1>8, <1>9 DEF Turned

LEMMA AnswerHears ==
    ASSUME TypeOK, NEW c \in Contexts, NEW g \in Guests, NEW cmd \in Command,
           NEW ok \in BOOLEAN, Answer(cmd, c, g, ok), ~cmd.void,
           ok => guest'[c][g].state = After[cmd.do]
    PROVE  /\ CallsStay
           /\ \/ ~Waits(cmd, g) /\ call' = call
              \/ Hears(cmd, c, g)
  <1>. DEFINE b == cmd.by
              r == call[b]
  <1>1. /\ call \in [CallIds -> CallType] /\ b \in CallIds /\ r \in CallType
        /\ guest[c][g].mem \in Nat
    BY DEF TypeOK, Command, GuestType
  <1>2. CASE r.at # cmd.place \/ g \notin r.asked
    <2>1. call' = call
      BY <1>2 DEF Answer
    <2>. QED
      BY <1>1, <1>2, <2>1 DEF Waits, CallsStay
  <1>3. CASE r.at = cmd.place /\ g \in r.asked /\ ok
    <2>. DEFINE mem == IF cmd.do = "snapshot" THEN [r.mem EXCEPT ![g] = guest[c][g].mem] ELSE r.mem
                s == [r EXCEPT !.asked = @ \ {g}, !.todo = @ \ {g},
                               !.mem = IF cmd.do = "snapshot"
                                       THEN [@ EXCEPT ![g] = guest[c][g].mem] ELSE @]
    <2>1. call' = [call EXCEPT ![b] = s]
      BY <1>3 DEF Answer
    <2>2. r.mem \in Memory
      BY <1>1 DEF CallType
    <2>3. /\ mem \in Memory
          /\ \A h \in Guests : mem[h] = IF cmd.do = "snapshot" /\ h = g THEN guest[c][g].mem
                                        ELSE r.mem[h]
      BY <1>1, <2>2 DEF Memory
    <2>4. s = [r EXCEPT !.asked = r.asked \ {g}, !.todo = r.todo \ {g}, !.mem = mem]
      BY <1>1 DEF CallType
    <2>. HIDE DEF mem, s
    <2>5. /\ s \in CallType
          /\ s.asked = r.asked \ {g} /\ s.todo = r.todo \ {g} /\ s.mem = mem
          /\ s.failed = r.failed
      BY <1>1, <2>3, <2>4 DEF CallType
    <2>6. /\ s.kind = r.kind /\ s.at = r.at /\ s.ctx = r.ctx /\ s.ids = r.ids
          /\ s.error = r.error /\ s.head = r.head /\ s.token = r.token
          /\ s.disk = r.disk /\ s.gen = r.gen
          /\ s.cand = r.cand /\ s.stops = r.stops /\ s.first = r.first
      BY <1>1, <2>4 DEF CallType
    <2>. HIDE DEF b, r
    <2>7. /\ call'[b] = s /\ call' \in [CallIds -> CallType]
          /\ \A j \in CallIds : j # b => call'[j] = call[j]
      BY <1>1, <2>1, <2>5
    <2>8. CallsStay
      BY <2>6, <2>7 DEF CallsStay, r
    <2>9. Hears(cmd, c, g)
      BY <1>3, <2>3, <2>5, <2>7 DEF Hears, Waits, b, r
    <2>. QED
      BY <2>8, <2>9
  <1>4. CASE r.at = cmd.place /\ g \in r.asked /\ ~ok
    <2>. DEFINE s == [r EXCEPT !.failed = TRUE,
                               !.asked = IF r.at \in Settled THEN @ \ {g} ELSE {}]
    <2>1. call' = [call EXCEPT ![b] = s]
      BY <1>4 DEF Answer
    <2>2. /\ s \in CallType /\ s.asked \subseteq r.asked /\ s.todo = r.todo /\ s.mem = r.mem
      BY <1>1 DEF CallType
    <2>3. s.failed
      BY <1>1 DEF CallType
    <2>4. /\ s.kind = r.kind /\ s.at = r.at /\ s.ctx = r.ctx /\ s.ids = r.ids
          /\ s.error = r.error /\ s.head = r.head /\ s.token = r.token
          /\ s.disk = r.disk /\ s.gen = r.gen
          /\ s.cand = r.cand /\ s.stops = r.stops /\ s.first = r.first
      BY <1>1 DEF CallType
    <2>. HIDE DEF s, b, r
    <2>5. /\ call'[b] = s /\ call' \in [CallIds -> CallType]
          /\ \A j \in CallIds : j # b => call'[j] = call[j]
      BY <1>1, <2>1, <2>2
    <2>6. CallsStay
      BY <2>4, <2>5 DEF CallsStay, r
    <2>7. Hears(cmd, c, g)
      BY <1>4, <2>2, <2>3, <2>5 DEF Hears, Waits, b, r
    <2>. QED
      BY <2>6, <2>7
  <1>. QED
    BY <1>2, <1>3, <1>4

LEMMA RunTurns ==
    ASSUME TypeOK, NEW c \in Contexts, NEW g \in Guests, RunCommand(c, g)
    PROVE  Turned(c, g) /\ UNCHANGED <<facade, store, coord, apart>>
  <1>. DEFINE old == guest[c][g]
              q == Queue(c, g)
              cmd == q[1]
              next == [old EXCEPT !.queue = Tail(@)]
  <1>1. /\ guest \in [Contexts -> [Guests -> GuestType]] /\ q \in Seq(Command)
        /\ old \in GuestType /\ old.queue = q
    BY QueueTyped DEF TypeOK, Queue
  <1>2. q # <<>> /\ Head(old.queue) = cmd /\ ~cmd.void /\ UNCHANGED <<facade, store, coord, apart>>
    <2>1. q # <<>> /\ ~Head(q).void /\ UNCHANGED <<facade, store, coord, apart>>
      BY DEF RunCommand, Queue
    <2>. QED
      BY <1>1, <2>1, TailOf
  <1>3. /\ cmd \in Command /\ Tail(q) \in Seq(Command)
        /\ cmd.arg \in Nat /\ cmd.unknown \in BOOLEAN /\ cmd.do \in AnyCommand
    BY <1>1, <1>2, TailOf DEF Command
  <1>4. /\ next \in GuestType /\ next.queue = Tail(q)
        /\ next.state = old.state /\ next.mem = old.mem
    BY <1>1, <1>3 DEF GuestType
  <1>5. \/ /\ old.state \in Allowed[cmd.do]
           /\ guest' = [guest EXCEPT ![c][g] =
                    [next EXCEPT !.state = After[cmd.do],
                                 !.mem = IF cmd.do = "restore" THEN cmd.arg ELSE @]]
           /\ Answer(cmd, c, g, ~cmd.unknown)
        \/ /\ old.state \notin Allowed[cmd.do]
           /\ guest' = [guest EXCEPT ![c][g] = next]
           /\ Answer(cmd, c, g, FALSE)
        \/ /\ old.state \in Allowed[cmd.do]
           /\ guest' = [guest EXCEPT ![c][g] =
                    [next EXCEPT !.state = IF cmd.do = "boot" THEN "failed" ELSE @]]
           /\ Answer(cmd, c, g, FALSE)
    BY <1>2 DEF RunCommand
  <1>6. \E m \in GuestType :
           /\ guest' = [guest EXCEPT ![c][g] = m] /\ m.queue = Tail(q)
           /\ Becomes(old, m.state, m.mem)
           /\ \/ Answer(cmd, c, g, TRUE) /\ m.state = After[cmd.do]
              \/ Answer(cmd, c, g, FALSE)
    <2>1. CASE /\ old.state \in Allowed[cmd.do]
               /\ guest' = [guest EXCEPT ![c][g] =
                    [next EXCEPT !.state = After[cmd.do],
                                 !.mem = IF cmd.do = "restore" THEN cmd.arg ELSE @]]
               /\ Answer(cmd, c, g, ~cmd.unknown)
      <3>. DEFINE m == [next EXCEPT !.state = After[cmd.do],
                                    !.mem = IF cmd.do = "restore" THEN cmd.arg ELSE @]
      <3>1. After[cmd.do] \in {"running", "paused", "stopped"}
        BY <1>3 DEF After, AnyCommand
      <3>. HIDE DEF next, cmd
      <3>2. /\ m \in GuestType /\ m.queue = Tail(q) /\ m.state = After[cmd.do]
            /\ m.mem = IF cmd.do = "restore" THEN cmd.arg ELSE old.mem
        BY <1>3, <1>4, <3>1 DEF GuestType
      <3>. HIDE DEF m
      <3>3. Becomes(old, m.state, m.mem)
        BY <1>1, <1>2, <1>3, <2>1, <3>2 DEF Becomes, After, Allowed, AnyCommand, cmd
      <3>4. guest' = [guest EXCEPT ![c][g] = m]
        BY <2>1 DEF m
      <3>5. CASE cmd.unknown
        <4>1. (~cmd.unknown) = FALSE
          BY <3>5
        <4>2. Answer(cmd, c, g, FALSE)
          BY <2>1, <4>1, Zenon
        <4>. QED
          BY <3>2, <3>3, <3>4, <4>2
      <3>6. CASE ~cmd.unknown
        <4>1. (~cmd.unknown) = TRUE
          BY <3>6
        <4>2. Answer(cmd, c, g, TRUE)
          BY <2>1, <4>1, Zenon
        <4>. QED
          BY <3>2, <3>3, <3>4, <4>2
      <3>. QED
        BY <3>5, <3>6
    <2>2. CASE /\ guest' = [guest EXCEPT ![c][g] = next] /\ Answer(cmd, c, g, FALSE)
      <3>1. Becomes(old, next.state, next.mem)
        BY <1>4 DEF Becomes
      <3>. QED
        BY <1>4, <2>2, <3>1
    <2>3. CASE /\ old.state \in Allowed[cmd.do]
               /\ guest' = [guest EXCEPT ![c][g] =
                    [next EXCEPT !.state = IF cmd.do = "boot" THEN "failed" ELSE @]]
               /\ Answer(cmd, c, g, FALSE)
      <3>. DEFINE m == [next EXCEPT !.state = IF cmd.do = "boot" THEN "failed" ELSE @]
      <3>. HIDE DEF next, cmd
      <3>1. /\ m \in GuestType /\ m.queue = Tail(q) /\ m.mem = old.mem
            /\ m.state = IF cmd.do = "boot" THEN "failed" ELSE old.state
        BY <1>4 DEF GuestType
      <3>. HIDE DEF m
      <3>2. Becomes(old, m.state, m.mem)
        BY <1>1, <1>2, <2>3, <3>1 DEF Becomes, Allowed, cmd
      <3>3. guest' = [guest EXCEPT ![c][g] = m]
        BY <2>3 DEF m
      <3>. QED
        BY <2>3, <3>1, <3>2, <3>3
    <2>. QED
      BY <1>5, <2>1, <2>2, <2>3
  <1>7. PICK m \in GuestType :
           /\ guest' = [guest EXCEPT ![c][g] = m] /\ m.queue = Tail(q)
           /\ Becomes(old, m.state, m.mem)
           /\ \/ Answer(cmd, c, g, TRUE) /\ m.state = After[cmd.do]
              \/ Answer(cmd, c, g, FALSE)
    BY <1>6
  <1>8. Popped(c, g) /\ guest'[c][g] = m
    BY <1>2, <1>7, PopPops
  <1>. HIDE DEF cmd
  <1>9. CallsStay /\ ((~Waits(cmd, g) /\ call' = call) \/ Hears(cmd, c, g))
    <2>1. CASE Answer(cmd, c, g, TRUE) /\ m.state = After[cmd.do]
      BY <1>2, <1>3, <1>8, <2>1, AnswerHears
    <2>2. CASE Answer(cmd, c, g, FALSE)
      BY <1>2, <1>3, <2>2, AnswerHears
    <2>. QED
      BY <1>7, <2>1, <2>2
  <1>. QED
    BY <1>2, <1>7, <1>8, <1>9 DEF Turned, cmd

LEMMA StayPlaces ==
    ASSUME PlacesFit, CallsStay, store'.gens = store.gens
    PROVE  PlacesFit'
  BY DEF PlacesFit, CallsStay, At

\* Where a command stood that stands in a queue after the first one has left.
LEMMA LeftCommands ==
    ASSUME TypeOK, NEW c \in Contexts, NEW g \in Guests, Popped(c, g),
           NEW d \in Contexts, NEW h \in Guests, NEW i \in 1..Len(Queue(d, h)')
    PROVE  \E j \in 1..Len(Queue(d, h)) :
              /\ Queue(d, h)'[i] = Queue(d, h)[j]
              /\ j = IF d = c /\ h = g THEN i + 1 ELSE i
  <1>1. Queue(d, h)' = guest'[d][h].queue /\ Len(Queue(d, h)) \in Nat
    BY QueueTyped DEF Queue
  <1>2. CASE d = c /\ h = g
    <2>1. Len(Queue(d, h)') = Len(Queue(d, h)) - 1
      BY <1>1, <1>2 DEF Popped
    <2>2. i + 1 \in 1..Len(Queue(d, h)) /\ Queue(d, h)'[i] = Queue(d, h)[i + 1]
      BY <1>1, <1>2, <2>1 DEF Popped
    <2>. QED
      BY <1>2, <2>2
  <1>3. CASE ~(d = c /\ h = g)
    BY <1>1, <1>3 DEF Popped, Queue
  <1>. QED
    BY <1>2, <1>3

LEMMA TurnedAlways ==
    ASSUME AlwaysInv, NEW c \in Contexts, NEW g \in Guests, Turned(c, g),
           UNCHANGED <<facade, store, coord, apart>>
    PROVE  AlwaysInv'
  <1>1. /\ TypeOK /\ PlacesFit /\ CommandsFit
        /\ TurnAwaited /\ OneTurnEach /\ AskedInTurn
    BY DEF AlwaysInv, TurnsTaken
  <1>2. Popped(c, g) /\ CallsStay
    BY DEF Turned
  <1>. DEFINE head == Queue(c, g)[1]
  <1>3. /\ head.by \in CallIds /\ 1 \in 1..Len(Queue(c, g))
        /\ Asks(head.place, head.do)
    <2>1. Len(Queue(c, g)) \in Nat /\ Len(Queue(c, g)) > 0
      BY <1>1, <1>2, QueueTyped DEF Popped
    <2>2. 1 \in 1..Len(Queue(c, g))
      BY <2>1
    <2>. QED
      BY <1>1, <2>2, QueueTyped DEF CommandsFit
  <1>4. TypeOK'
    BY <1>1, <1>2 DEF TypeOK, Popped, GuestsTyped, CallsStay
  <1>5. PlacesFit'
    BY <1>1, <1>2, StayPlaces
  <1>6. CommandsFit'
    <2>1. ASSUME NEW d \in Contexts, NEW h \in Guests, NEW i \in 1..Len(Queue(d, h)')
          PROVE  LET cmd == Queue(d, h)'[i] IN
                 /\ Asks(cmd.place, cmd.do)
                 /\ call'[cmd.by].at \notin NoCommandsYet
                 /\ call'[cmd.by].at \notin {"idle", "done"} => call'[cmd.by].ctx = d
                 /\ call'[cmd.by].at \in {"pausing", "readingHead", "flushing"} =>
                       cmd.place = "pausing"
      <3>1. PICK j \in 1..Len(Queue(d, h)) : Queue(d, h)'[i] = Queue(d, h)[j]
        BY <1>1, <1>2, <2>1, LeftCommands
      <3>. DEFINE cmd == Queue(d, h)[j]
      <3>2. /\ cmd.by \in CallIds /\ Asks(cmd.place, cmd.do)
            /\ call[cmd.by].at \notin NoCommandsYet
            /\ call[cmd.by].at \notin {"idle", "done"} => call[cmd.by].ctx = d
            /\ call[cmd.by].at \in {"pausing", "readingHead", "flushing"} =>
                  cmd.place = "pausing"
        BY <1>1, QueueTyped DEF CommandsFit, At, InFlight
      <3>. HIDE DEF cmd
      <3>3. call'[cmd.by].at = call[cmd.by].at /\ call'[cmd.by].ctx = call[cmd.by].ctx
        BY <1>2, <3>2 DEF CallsStay
      <3>4. Queue(d, h)'[i] = cmd
        BY <3>1 DEF cmd
      <3>. QED
        BY <3>2, <3>3, <3>4
    <2>. QED
      BY <2>1 DEF CommandsFit, At, InFlight
  <1>7. TurnAwaited'
    <2>1. ASSUME NEW d \in Contexts, NEW h \in Guests, NEW i \in 1..Len(Queue(d, h)'),
                 Turn(Queue(d, h)'[i])
          PROVE  LET cmd == Queue(d, h)'[i] IN
                 /\ i > 1 /\ ~cmd.void =>
                       call'[cmd.by].at = cmd.place /\ h \in call'[cmd.by].asked
                 /\ call'[cmd.by].at \in {"pausing", "restoring"} /\ ~call'[cmd.by].failed =>
                       h \notin call'[cmd.by].todo \ call'[cmd.by].asked
      <3>1. PICK j \in 1..Len(Queue(d, h)) :
                    /\ Queue(d, h)'[i] = Queue(d, h)[j]
                    /\ j = IF d = c /\ h = g THEN i + 1 ELSE i
        BY <1>1, <1>2, <2>1, LeftCommands
      <3>. DEFINE cmd == Queue(d, h)[j]
                  b == cmd.by
      <3>2. /\ b \in CallIds /\ Turn(cmd)
            /\ j > 1 /\ ~cmd.void => call[b].at = cmd.place /\ h \in call[b].asked
            /\ At(b, {"pausing", "restoring"}) /\ ~call[b].failed => h \notin call[b].todo \ call[b].asked
            /\ Asks(cmd.place, cmd.do)
            /\ call[b].at \notin {"idle", "done"} => call[b].ctx = d
        <4>1. b \in CallIds
          BY <1>1, QueueTyped
        <4>2. Turn(cmd)
          BY <2>1, <3>1
        <4>3. /\ j > 1 /\ ~cmd.void => call[b].at = cmd.place /\ h \in call[b].asked
              /\ At(b, {"pausing", "restoring"}) /\ ~call[b].failed =>
                    h \notin call[b].todo \ call[b].asked
          BY <1>1, <4>2 DEF TurnAwaited
        <4>4. /\ Asks(cmd.place, cmd.do)
              /\ call[b].at \notin {"idle", "done"} => call[b].ctx = d
          BY <1>1 DEF CommandsFit, InFlight
        <4>. QED
          BY <4>1, <4>2, <4>3, <4>4
      <3>3. Queue(d, h)'[i] = cmd /\ (i > 1 => j > 1)
        <4>1. i \in Nat
          BY <2>1
        <4>. QED
          BY <3>1, <4>1 DEF cmd
      <3>. HIDE DEF cmd, b
      <3>4. call'[b].at = call[b].at
        BY <1>2, <3>2 DEF CallsStay
      <3>5. CASE call'[b] = call[b]
        BY <3>2, <3>3, <3>5 DEF At, b
      <3>6. CASE Hears(head, c, g) /\ head.by = b
        <4>1. /\ call[b].at = head.place /\ g \in call[b].asked
              /\ \/ call'[b].asked = call[b].asked \ {g} /\ call'[b].todo = call[b].todo \ {g}
                 \/ call'[b].failed
              /\ call'[b].failed = call[b].failed \/ call'[b].failed
          BY <3>6 DEF Hears, Waits
        <4>2. call'[b].at \in {"pausing", "restoring"} /\ ~call'[b].failed =>
                  h \notin call'[b].todo \ call'[b].asked
          BY <3>2, <3>4, <4>1 DEF At
        <4>3. ASSUME i > 1, ~cmd.void PROVE call'[b].at = cmd.place /\ h \in call'[b].asked
          <5>1. call[b].at = cmd.place /\ h \in call[b].asked /\ j > 1
            BY <3>2, <3>3, <4>3
          <5>2. cmd.place \in {"pausing", "restoring"}
            BY <3>2 DEF Turn, Asks
          <5>3. h = g
            BY <1>1, <3>2, <4>1, <5>1, <5>2 DEF AskedInTurn, At
          <5>4. call[b].ctx = d /\ call[b].ctx = c
            <6>1. call[b].at \notin {"idle", "done"}
              BY <5>1, <5>2
            <6>2. InFlight(head.by) => call[head.by].ctx = c
              BY <1>1, <1>3 DEF CommandsFit
            <6>. QED
              BY <3>2, <3>6, <6>1, <6>2 DEF InFlight
          <5>5. Turn(head)
            <6>1. head.place \in {"pausing", "restoring"}
              BY <4>1, <5>1, <5>2
            <6>. QED
              BY <1>3, <6>1 DEF Turn, Asks
          <5>6. j = 1
            BY <1>1, <1>3, <3>1, <3>2, <3>6, <5>3, <5>4, <5>5 DEF OneTurnEach, cmd, b
          <5>. QED
            BY <5>1, <5>6
        <4>. QED
          BY <3>3, <4>2, <4>3 DEF b
      <3>7. call'[b] = call[b] \/ (Hears(head, c, g) /\ head.by = b)
        BY <3>2 DEF Turned, Hears
      <3>. QED
        BY <3>5, <3>6, <3>7
    <2>. QED
      BY <2>1 DEF TurnAwaited, At
  <1>8. OneTurnEach'
    <2>1. ASSUME NEW d \in Contexts, NEW h \in Guests,
                 NEW i \in 1..Len(Queue(d, h)'), NEW j \in 1..Len(Queue(d, h)'),
                 Turn(Queue(d, h)'[i]), Turn(Queue(d, h)'[j]),
                 Queue(d, h)'[i].by = Queue(d, h)'[j].by
          PROVE  i = j
      <3>1. PICK n \in 1..Len(Queue(d, h)) :
                    /\ Queue(d, h)'[i] = Queue(d, h)[n]
                    /\ n = IF d = c /\ h = g THEN i + 1 ELSE i
        BY <1>1, <1>2, <2>1, LeftCommands
      <3>2. PICK m \in 1..Len(Queue(d, h)) :
                    /\ Queue(d, h)'[j] = Queue(d, h)[m]
                    /\ m = IF d = c /\ h = g THEN j + 1 ELSE j
        BY <1>1, <1>2, <2>1, LeftCommands
      <3>3. n = m
        BY <1>1, <2>1, <3>1, <3>2 DEF OneTurnEach
      <3>4. i \in Nat /\ j \in Nat
        BY <2>1
      <3>. QED
        BY <3>1, <3>2, <3>3, <3>4
    <2>. QED
      BY <2>1 DEF OneTurnEach
  <1>9. AskedInTurn'
    <2>1. ASSUME NEW k \in CallIds, call'[k].at \in {"pausing", "restoring"}
          PROVE  /\ call'[k].asked \subseteq call'[k].todo
                 /\ \A x, y \in call'[k].asked : x = y
      <3>1. At(k, {"pausing", "restoring"})
        BY <1>2, <2>1 DEF CallsStay, At
      <3>2. \/ call'[k] = call[k]
            \/ call'[k].asked = call[k].asked \ {g} /\ call'[k].todo = call[k].todo \ {g}
            \/ call'[k].asked \subseteq call[k].asked /\ call'[k].todo = call[k].todo
        <4>1. CASE call' = call
          BY <4>1
        <4>2. CASE Hears(head, c, g)
          BY <4>2 DEF Hears
        <4>. QED
          BY <4>1, <4>2 DEF Turned
      <3>. QED
        BY <1>1, <3>1, <3>2 DEF AskedInTurn
    <2>. QED
      BY <2>1 DEF AskedInTurn, At
  <1>. QED
    BY <1>4, <1>5, <1>6, <1>7, <1>8, <1>9 DEF AlwaysInv, TurnsTaken

-----------------------------------------------------------------------------
(* The steps of the signals, of the guests at work, and of the disk *)

Voids(k, i, cmd) == i # 1 /\ cmd.by = k /\ cmd.place = call[k].at /\ call[k].at \in Controlled

Aborted(k) ==
    /\ InFlight(k)
    /\ GuestsTyped /\ StatesKept /\ CallsStay
    /\ \A d \in Contexts, h \in Guests :
          /\ Len(guest'[d][h].queue) = Len(Queue(d, h))
          /\ \A i \in 1..Len(Queue(d, h)) :
                LET cmd == Queue(d, h)[i]
                    new == guest'[d][h].queue[i]
                IN /\ new.do = cmd.do /\ new.by = cmd.by /\ new.place = cmd.place
                   /\ new.void <=> cmd.void \/ Voids(k, i, cmd)
    /\ \A j \in CallIds : j # k => call'[j] = call[j]
    /\ call'[k].todo = call[k].todo /\ call'[k].mem = call[k].mem
    /\ \/ call'[k].asked = {} /\ call'[k].failed
       \/ /\ call'[k].asked = call[k].asked /\ call'[k].failed = call[k].failed
          /\ call[k].at \in Controlled => call[k].asked = {}

LEMMA MappedSeq ==
    ASSUME NEW q \in Seq(Command), NEW f, f \in [1..Len(q) -> Command]
    PROVE  f \in Seq(Command) /\ Len(f) = Len(q)
  <1>1. Len(q) \in Nat
    OBVIOUS
  <1>. QED
    BY <1>1

LEMMA AbortAborts ==
    ASSUME TypeOK, NEW k \in CallIds, Abort(k)
    PROVE  Aborted(k) /\ UNCHANGED <<facade, store, coord, apart>>
  <1>. DEFINE r == [call[k] EXCEPT !.aborted = TRUE]
              s == IF r.at \in Controlled /\ r.asked # {}
                   THEN [r EXCEPT !.asked = {}, !.failed = TRUE] ELSE r
              mine(cmd) == cmd.by = k /\ cmd.place = r.at /\ r.at \in Controlled
              voided(q) == [i \in DOMAIN q |->
                              IF i # 1 /\ mine(q[i]) THEN [q[i] EXCEPT !.void = TRUE] ELSE q[i]]
  <1>1. /\ call \in [CallIds -> CallType] /\ call[k] \in CallType
        /\ guest \in [Contexts -> [Guests -> GuestType]]
    BY DEF TypeOK
  <1>2. /\ call' = [call EXCEPT ![k] = s]
        /\ guest' = [c \in Contexts |-> [g \in Guests |->
                        [guest[c][g] EXCEPT !.queue = voided(@)]]]
        /\ UNCHANGED <<facade, store, coord, apart>> /\ InFlight(k)
    BY DEF Abort
  <1>3. r \in CallType /\ r.at = call[k].at /\ r.asked = call[k].asked
    BY <1>1 DEF CallType
  <1>4. s \in CallType
    BY <1>3 DEF CallType
  <1>5. /\ s.kind = call[k].kind /\ s.at = call[k].at /\ s.ctx = call[k].ctx
        /\ s.ids = call[k].ids /\ s.error = call[k].error
        /\ s.head = call[k].head /\ s.token = call[k].token
        /\ s.disk = call[k].disk /\ s.gen = call[k].gen /\ s.cand = call[k].cand
        /\ s.stops = call[k].stops /\ s.first = call[k].first
        /\ s.todo = call[k].todo /\ s.mem = call[k].mem
    BY <1>1 DEF CallType
  <1>6. \/ s.asked = {} /\ s.failed
        \/ /\ s.asked = call[k].asked /\ s.failed = call[k].failed
           /\ call[k].at \in Controlled => call[k].asked = {}
    <2>1. CASE r.at \in Controlled /\ r.asked # {}
      <3>1. s = [r EXCEPT !.asked = {}, !.failed = TRUE]
        BY <2>1
      <3>2. s.asked = {}
        BY <1>3, <3>1 DEF CallType
      <3>3. s.failed
        BY <1>3, <3>1 DEF CallType
      <3>. QED
        BY <3>2, <3>3
    <2>2. CASE ~(r.at \in Controlled /\ r.asked # {})
      BY <1>1, <1>3, <2>2 DEF CallType
    <2>. QED
      BY <2>1, <2>2
  <1>. HIDE DEF s
  <1>7. /\ call'[k] = s /\ call' \in [CallIds -> CallType]
        /\ \A j \in CallIds : j # k => call'[j] = call[j]
    BY <1>1, <1>2, <1>4
  <1>8. CallsStay
    BY <1>5, <1>7 DEF CallsStay
  <1>9. ASSUME NEW d \in Contexts, NEW h \in Guests
        PROVE  /\ guest'[d][h] \in GuestType
               /\ guest'[d][h].state = guest[d][h].state /\ guest'[d][h].mem = guest[d][h].mem
               /\ Len(guest'[d][h].queue) = Len(Queue(d, h))
               /\ \A i \in 1..Len(Queue(d, h)) :
                     LET cmd == Queue(d, h)[i]
                         new == guest'[d][h].queue[i]
                     IN /\ new.do = cmd.do /\ new.by = cmd.by /\ new.place = cmd.place
                        /\ new.void <=> cmd.void \/ Voids(k, i, cmd)
    <2>. DEFINE q == Queue(d, h)
                new(i) == IF i # 1 /\ mine(q[i]) THEN [q[i] EXCEPT !.void = TRUE] ELSE q[i]
                v == voided(q)
    <2>1. q \in Seq(Command) /\ guest[d][h] \in GuestType /\ guest[d][h].queue = q
      BY <1>1, QueueTyped DEF Queue
    <2>2. guest'[d][h] = [guest[d][h] EXCEPT !.queue = v]
      BY <1>2, <2>1
    <2>3. DOMAIN q = 1..Len(q) /\ Len(q) \in Nat /\ \A i \in 1..Len(q) : q[i] \in Command
      BY <2>1
    <2>4. ASSUME NEW i \in 1..Len(q)
          PROVE  /\ new(i) \in Command
                 /\ new(i).do = q[i].do /\ new(i).by = q[i].by /\ new(i).place = q[i].place
      BY <2>3 DEF Command
    <2>5. ASSUME NEW i \in 1..Len(q)
          PROVE  new(i).void <=> q[i].void \/ Voids(k, i, q[i])
      <3>1. q[i] \in Command
        BY <2>3
      <3>2. CASE i # 1 /\ mine(q[i])
        <4>1. Voids(k, i, q[i])
          BY <1>3, <3>2 DEF Voids
        <4>2. [q[i] EXCEPT !.void = TRUE].void
          BY <3>1 DEF Command
        <4>. QED
          BY <3>2, <4>1, <4>2
      <3>3. CASE ~(i # 1 /\ mine(q[i]))
        <4>1. ~Voids(k, i, q[i]) /\ new(i) = q[i]
          BY <1>3, <3>3 DEF Voids
        <4>. QED
          BY <4>1
      <3>. QED
        BY <3>2, <3>3
    <2>6. v = [i \in 1..Len(q) |-> new(i)]
      BY <2>3
    <2>. HIDE DEF new
    <2>7. v \in [1..Len(q) -> Command] /\ \A i \in 1..Len(q) : v[i] = new(i)
      BY <2>4, <2>6
    <2>. HIDE DEF v
    <2>8. v \in Seq(Command) /\ Len(v) = Len(q)
      BY <2>1, <2>7, MappedSeq
    <2>9. /\ guest'[d][h] \in GuestType /\ guest'[d][h].queue = v
          /\ guest'[d][h].state = guest[d][h].state /\ guest'[d][h].mem = guest[d][h].mem
      BY <2>1, <2>2, <2>8 DEF GuestType
    <2>. QED
      BY <2>4, <2>5, <2>7, <2>8, <2>9
  <1>10. GuestsTyped
    <2>. DEFINE m(c, g) == [guest[c][g] EXCEPT !.queue = voided(@)]
    <2>1. \A c \in Contexts, g \in Guests : guest'[c][g] = m(c, g)
      BY <1>2
    <2>2. guest' = [c \in Contexts |-> [g \in Guests |-> m(c, g)]]
      BY <1>2
    <2>. HIDE DEF m
    <2>3. \A c \in Contexts, g \in Guests : m(c, g) \in GuestType
      BY <1>9, <2>1
    <2>. QED
      BY <2>2, <2>3 DEF GuestsTyped
  <1>11. StatesKept
    BY <1>9 DEF StatesKept
  <1>. QED
    BY <1>2, <1>5, <1>6, <1>7, <1>8, <1>9, <1>10, <1>11 DEF Aborted

LEMMA AbortAlways ==
    ASSUME AlwaysInv, NEW k \in CallIds, Aborted(k),
           UNCHANGED <<facade, store, coord, apart>>
    PROVE  AlwaysInv'
  <1>1. /\ TypeOK /\ PlacesFit /\ CommandsFit
        /\ TurnAwaited /\ OneTurnEach /\ AskedInTurn
    BY DEF AlwaysInv, TurnsTaken
  <1>2. CallsStay
    BY DEF Aborted
  <1>3. TypeOK'
    BY <1>1 DEF TypeOK, Aborted, GuestsTyped, CallsStay
  <1>4. PlacesFit'
    BY <1>1, <1>2, StayPlaces
  <1>5. ASSUME NEW d \in Contexts, NEW h \in Guests, NEW i \in 1..Len(Queue(d, h)')
        PROVE  /\ i \in 1..Len(Queue(d, h)) /\ Queue(d, h)[i].by \in CallIds
               /\ Queue(d, h)'[i].do = Queue(d, h)[i].do
               /\ Queue(d, h)'[i].by = Queue(d, h)[i].by
               /\ Queue(d, h)'[i].place = Queue(d, h)[i].place
               /\ Queue(d, h)'[i].void <=> Queue(d, h)[i].void \/ Voids(k, i, Queue(d, h)[i])
    <2>1. Len(Queue(d, h)') = Len(Queue(d, h)) /\ Queue(d, h)' = guest'[d][h].queue
      BY DEF Aborted, Queue
    <2>. QED
      BY <1>1, <2>1, QueueTyped DEF Aborted
  <1>6. CommandsFit'
    <2>1. ASSUME NEW d \in Contexts, NEW h \in Guests, NEW i \in 1..Len(Queue(d, h)')
          PROVE  LET cmd == Queue(d, h)'[i] IN
                 /\ Asks(cmd.place, cmd.do)
                 /\ call'[cmd.by].at \notin NoCommandsYet
                 /\ call'[cmd.by].at \notin {"idle", "done"} => call'[cmd.by].ctx = d
                 /\ call'[cmd.by].at \in {"pausing", "readingHead", "flushing"} =>
                       cmd.place = "pausing"
      <3>. DEFINE cmd == Queue(d, h)[i]
      <3>1. cmd.by \in CallIds /\ i \in 1..Len(Queue(d, h))
        BY <1>5
      <3>2. /\ Asks(cmd.place, cmd.do)
            /\ call[cmd.by].at \notin NoCommandsYet
            /\ call[cmd.by].at \notin {"idle", "done"} => call[cmd.by].ctx = d
            /\ call[cmd.by].at \in {"pausing", "readingHead", "flushing"} =>
                  cmd.place = "pausing"
        BY <1>1, <3>1 DEF CommandsFit, At, InFlight
      <3>3. /\ Queue(d, h)'[i].do = cmd.do /\ Queue(d, h)'[i].by = cmd.by
            /\ Queue(d, h)'[i].place = cmd.place
        BY <1>5
      <3>. HIDE DEF cmd
      <3>4. call'[cmd.by].at = call[cmd.by].at /\ call'[cmd.by].ctx = call[cmd.by].ctx
        BY <1>2, <3>1 DEF CallsStay
      <3>. QED
        BY <3>2, <3>3, <3>4
    <2>. QED
      BY <2>1 DEF CommandsFit, At, InFlight
  <1>7. TurnAwaited'
    <2>1. ASSUME NEW d \in Contexts, NEW h \in Guests, NEW i \in 1..Len(Queue(d, h)'),
                 Turn(Queue(d, h)'[i])
          PROVE  LET cmd == Queue(d, h)'[i] IN
                 /\ i > 1 /\ ~cmd.void =>
                       call'[cmd.by].at = cmd.place /\ h \in call'[cmd.by].asked
                 /\ call'[cmd.by].at \in {"pausing", "restoring"} /\ ~call'[cmd.by].failed =>
                       h \notin call'[cmd.by].todo \ call'[cmd.by].asked
      <3>. DEFINE cmd == Queue(d, h)[i]
                  new == Queue(d, h)'[i]
                  b == cmd.by
      <3>1. /\ b \in CallIds /\ i \in 1..Len(Queue(d, h))
            /\ new.do = cmd.do /\ new.by = b /\ new.place = cmd.place
            /\ new.void <=> cmd.void \/ Voids(k, i, cmd)
        BY <1>5
      <3>2. Turn(cmd)
        BY <2>1, <3>1 DEF Turn
      <3>3. /\ i > 1 /\ ~cmd.void => call[b].at = cmd.place /\ h \in call[b].asked
            /\ At(b, {"pausing", "restoring"}) /\ ~call[b].failed => h \notin call[b].todo \ call[b].asked
        BY <1>1, <3>1, <3>2 DEF TurnAwaited
      <3>4. Asks(cmd.place, cmd.do)
        BY <1>1, <3>1 DEF CommandsFit
      <3>. HIDE DEF cmd, new, b
      <3>5. cmd.place \in {"pausing", "restoring"}
        BY <3>2, <3>4 DEF Turn, Asks
      <3>6. CASE b # k
        <4>1. call'[b] = call[b]
          BY <3>1, <3>6 DEF Aborted
        <4>. QED
          BY <3>1, <3>3, <4>1 DEF At, new
      <3>7. CASE b = k
        <4>1. i > 1 => new.void
          <5>1. ASSUME i > 1, ~cmd.void PROVE Voids(k, i, cmd)
            BY <3>1, <3>3, <3>5, <3>7, <5>1 DEF Voids, Controlled, b
          <5>. QED
            BY <3>1, <5>1
        <4>2. /\ call'[b].at = call[b].at /\ call'[b].todo = call[b].todo
              /\ \/ call'[b].failed
                 \/ call'[b].asked = call[b].asked /\ call'[b].failed = call[b].failed
          BY <3>1, <3>7, <1>2 DEF Aborted, CallsStay
        <4>. QED
          BY <3>1, <3>3, <4>1, <4>2 DEF At, new
      <3>. QED
        BY <3>6, <3>7
    <2>. QED
      BY <2>1 DEF TurnAwaited, At
  <1>8. OneTurnEach'
    <2>1. ASSUME NEW d \in Contexts, NEW h \in Guests,
                 NEW i \in 1..Len(Queue(d, h)'), NEW j \in 1..Len(Queue(d, h)'),
                 Turn(Queue(d, h)'[i]), Turn(Queue(d, h)'[j]),
                 Queue(d, h)'[i].by = Queue(d, h)'[j].by
          PROVE  i = j
      <3>1. /\ i \in 1..Len(Queue(d, h)) /\ j \in 1..Len(Queue(d, h))
            /\ Turn(Queue(d, h)[i]) /\ Turn(Queue(d, h)[j])
            /\ Queue(d, h)[i].by = Queue(d, h)[j].by
        BY <1>5, <2>1 DEF Turn
      <3>. QED
        BY <1>1, <3>1 DEF OneTurnEach
    <2>. QED
      BY <2>1 DEF OneTurnEach
  <1>9. AskedInTurn'
    <2>1. ASSUME NEW j \in CallIds, call'[j].at \in {"pausing", "restoring"}
          PROVE  /\ call'[j].asked \subseteq call'[j].todo
                 /\ \A x, y \in call'[j].asked : x = y
      <3>1. At(j, {"pausing", "restoring"})
        BY <1>2, <2>1 DEF CallsStay, At
      <3>2. /\ call[j].asked \subseteq call[j].todo
            /\ \A x, y \in call[j].asked : x = y
        BY <1>1, <3>1 DEF AskedInTurn
      <3>3. call'[j].todo = call[j].todo /\ (call'[j].asked = {} \/ call'[j].asked = call[j].asked)
        BY DEF Aborted
      <3>. QED
        BY <3>2, <3>3
    <2>. QED
      BY <2>1 DEF AskedInTurn, At
  <1>. QED
    BY <1>3, <1>4, <1>6, <1>7, <1>8, <1>9 DEF AlwaysInv, TurnsTaken

\* A guest at work changes its memory, and nothing else.
Worked(c, g) ==
    /\ guest[c][g].state = "running"
    /\ GuestsTyped
    /\ \A d \in Contexts, h \in Guests :
          /\ guest'[d][h].state = guest[d][h].state
          /\ guest'[d][h].queue = guest[d][h].queue
          /\ ~(d = c /\ h = g) => guest'[d][h].mem = guest[d][h].mem

LEMMA WorkWorks ==
    ASSUME TypeOK, NEW c \in Contexts, NEW g \in Guests, Work(c, g)
    PROVE  Worked(c, g) /\ UNCHANGED <<facade, call, store, coord, apart>>
  <1>1. guest \in [Contexts -> [Guests -> GuestType]] /\ guest[c][g] \in GuestType
    BY DEF TypeOK
  <1>. DEFINE m == [guest[c][g] EXCEPT !.mem = @ + 1]
  <1>2. m \in GuestType /\ m.state = guest[c][g].state /\ m.queue = guest[c][g].queue
    <2>1. guest[c][g].mem \in Nat /\ guest[c][g].mem + 1 \in Nat
      BY <1>1 DEF GuestType
    <2>2. m = [guest[c][g] EXCEPT !.mem = guest[c][g].mem + 1]
      BY <1>1 DEF GuestType
    <2>. DEFINE n == guest[c][g].mem + 1
    <2>. HIDE DEF n, m
    <2>3. m = [guest[c][g] EXCEPT !.mem = n] /\ n \in Nat
      BY <2>1, <2>2 DEF n
    <2>. QED
      BY <1>1, <2>3 DEF GuestType
  <1>3. /\ guest' = [guest EXCEPT ![c][g] = m] /\ guest[c][g].state = "running"
        /\ UNCHANGED <<facade, call, store, coord, apart>>
    BY <1>1 DEF Work
  <1>. HIDE DEF m
  <1>4. GuestsTyped
    BY <1>1, <1>2, <1>3 DEF GuestsTyped
  <1>5. \A d \in Contexts, h \in Guests :
           guest'[d][h] = IF d = c /\ h = g THEN m ELSE guest[d][h]
    BY <1>1, <1>3
  <1>. QED
    BY <1>2, <1>3, <1>4, <1>5 DEF Worked

\* Nothing changes that AlwaysInv is about.
LEMMA SameQueuesAlways ==
    ASSUME AlwaysInv, TypeOK', UNCHANGED <<call, store.gens>>,
           \A d \in Contexts, h \in Guests : guest'[d][h].queue = guest[d][h].queue
    PROVE  AlwaysInv'
  <1>1. \A d \in Contexts, h \in Guests : Queue(d, h)' = Queue(d, h)
    BY DEF Queue
  <1>2. PlacesFit'
    BY DEF AlwaysInv, PlacesFit, At
  <1>3. CommandsFit'
    <2>1. ASSUME NEW d \in Contexts, NEW h \in Guests, NEW i \in 1..Len(Queue(d, h)')
          PROVE  LET cmd == Queue(d, h)'[i] IN
                 /\ Asks(cmd.place, cmd.do)
                 /\ call'[cmd.by].at \notin NoCommandsYet
                 /\ call'[cmd.by].at \notin {"idle", "done"} => call'[cmd.by].ctx = d
                 /\ call'[cmd.by].at \in {"pausing", "readingHead", "flushing"} =>
                       cmd.place = "pausing"
      <3>1. CommandsFit /\ Queue(d, h)' = Queue(d, h)
        BY <1>1 DEF AlwaysInv
      <3>. QED
        BY <3>1 DEF CommandsFit, At, InFlight
    <2>. QED
      BY <2>1 DEF CommandsFit, At, InFlight
  <1>4. TurnsTaken'
    BY <1>1 DEF AlwaysInv, TurnsTaken, TurnAwaited, OneTurnEach, AskedInTurn, At
  <1>. QED
    BY <1>2, <1>3, <1>4 DEF AlwaysInv

LEMMA WorkAlways ==
    ASSUME AlwaysInv, NEW c \in Contexts, NEW g \in Guests, Worked(c, g),
           UNCHANGED <<facade, call, store, coord, apart>>
    PROVE  AlwaysInv'
  <1>1. TypeOK'
    BY DEF AlwaysInv, TypeOK, Worked, GuestsTyped
  <1>. QED
    BY <1>1, SameQueuesAlways DEF Worked

LEMMA DamageAlways ==
    ASSUME AlwaysInv, Damage
    PROVE  AlwaysInv' /\ store'.head = store.head /\ store'.gens = store.gens
  <1>. DEFINE s == [store EXCEPT !.damaged = @ \union {store.head}]
  <1>1. TypeOK /\ store' = s /\ UNCHANGED <<facade, guest, call, coord, apart>>
    BY DEF AlwaysInv, Damage
  <1>2. store.head \in Nat
    BY <1>1, StoreTyped
  <1>3. /\ s \in [head : Nat, gens : Seq(Record), epoch : Nat, owned : BOOLEAN,
                  damaged : SUBSET Nat]
        /\ s.head = store.head /\ s.gens = store.gens
    BY <1>1, <1>2 DEF TypeOK
  <1>. HIDE DEF s
  <1>4. TypeOK'
    BY <1>1, <1>3 DEF TypeOK
  <1>. QED
    BY <1>1, <1>3, <1>4, SameQueuesAlways

-----------------------------------------------------------------------------
(* Operations apart from one another: the steps of the guests *)

LEMMA StayApart ==
    ASSUME ApartInv, CallsStay, UNCHANGED <<facade, coord>>,
           store'.head = store.head, store'.gens = store.gens
    PROVE  /\ Sole' /\ OneMoment' /\ LockKept' /\ HeadKept'
           /\ \A k \in CallIds : InFlight(k)' =>
                 /\ InFlight(k) /\ Phase(k)
                 /\ LifeFits(k)' /\ OnActive(k)' /\ LockFits(k)' /\ HeadFits(k)'
  <1>1. Sole /\ OneMoment /\ LockKept /\ HeadKept /\ \A k \in CallIds : InFlight(k) => Phase(k)
    BY DEF ApartInv
  <1>2. \A k \in CallIds :
           /\ call'[k].kind = call[k].kind /\ call'[k].at = call[k].at
           /\ call'[k].ctx = call[k].ctx /\ call'[k].error = call[k].error
           /\ call'[k].gen = call[k].gen /\ call'[k].cand = call[k].cand
           /\ call'[k].stops = call[k].stops /\ call'[k].first = call[k].first
    BY DEF CallsStay
  <1>3. Sole'
    BY <1>1, <1>2 DEF Sole, InFlight
  <1>4. OneMoment'
    BY <1>1 DEF OneMoment
  <1>5. \A k \in CallIds : Stopper(k)' <=> Stopper(k)
    BY <1>2 DEF Stopper, At
  <1>6. LockKept'
    BY <1>1, <1>5 DEF LockKept
  <1>7. \A k \in CallIds : LeftBehind(k)' <=> LeftBehind(k)
    BY <1>2 DEF LeftBehind, At
  <1>8. HeadKept'
    BY <1>1, <1>7 DEF HeadKept
  <1>9. ASSUME NEW k \in CallIds, InFlight(k)'
        PROVE  /\ InFlight(k) /\ Phase(k)
               /\ LifeFits(k)' /\ OnActive(k)' /\ LockFits(k)' /\ HeadFits(k)'
    <2>1. InFlight(k) /\ Phase(k)
      BY <1>1, <1>2, <1>9 DEF InFlight
    <2>2. LifeFits(k)'
      BY <1>2, <2>1 DEF Phase, LifeFits
    <2>3. OnActive(k)'
      BY <1>2, <2>1 DEF Phase, OnActive, At
    <2>4. LockFits(k)'
      BY <1>2, <1>5, <2>1 DEF Phase, LockFits, At
    <2>5. HeadFits(k)'
      BY <1>2, <2>1 DEF Phase, HeadFits, At
    <2>. QED
      BY <2>1, <2>2, <2>3, <2>4, <2>5
  <1>. QED
    BY <1>3, <1>4, <1>6, <1>8, <1>9

LEMMA NoRestoreTurned ==
    ASSUME TypeOK, NEW c \in Contexts, NEW g \in Guests, Popped(c, g),
           NEW d \in Contexts, NEW h \in Guests, NoRestore(d, h)
    PROVE  NoRestore(d, h)'
  BY LeftCommands DEF NoRestore

LEMMA RestingTurned ==
    ASSUME TypeOK, NEW c \in Contexts, NEW g \in Guests, Turned(c, g),
           NEW d \in Contexts, NEW h \in Guests, NEW memory, Resting(guest[d][h], memory)
    PROVE  /\ Resting(guest'[d][h], memory)
           /\ guest[d][h].state = "stopped" => guest'[d][h].state = "stopped"
  <1>1. Popped(c, g) /\ Becomes(guest[c][g], guest'[c][g].state, guest'[c][g].mem)
    BY DEF Turned
  <1>2. CASE d = c /\ h = g
    <2>1. Len(Queue(c, g)) \in Nat /\ Len(Queue(c, g)) > 0
      BY <1>1, QueueTyped DEF Popped
    <2>2. 1 \in 1..Len(Queue(c, g))
      BY <2>1
    <2>3. guest[c][g].queue[1].do = "shutdown"
      BY <1>2, <2>2 DEF Resting, Queue
    <2>4. \/ guest'[c][g].state = guest[c][g].state /\ guest'[c][g].mem = guest[c][g].mem
          \/ guest'[c][g].state = "stopped" /\ guest'[c][g].mem = guest[c][g].mem
      BY <1>1, <2>3 DEF Becomes
    <2>5. \A i \in 1..Len(Queue(c, g)') : Queue(c, g)'[i].do = "shutdown"
      <3>1. ASSUME NEW i \in 1..Len(Queue(c, g)') PROVE Queue(c, g)'[i].do = "shutdown"
        <4>1. PICK j \in 1..Len(Queue(c, g)) : Queue(c, g)'[i] = Queue(c, g)[j]
          BY <1>1, LeftCommands
        <4>2. Queue(c, g)[j].do = "shutdown"
          BY <1>2, <4>1 DEF Resting, Queue
        <4>. QED
          BY <4>1, <4>2
      <3>. QED
        BY <3>1
    <2>. QED
      BY <1>2, <2>4, <2>5 DEF Resting, Queue
  <1>3. CASE ~(d = c /\ h = g)
    BY <1>1, <1>3 DEF Popped
  <1>. QED
    BY <1>2, <1>3

LEMMA AtRestTurned ==
    ASSUME TypeOK, NEW c \in Contexts, NEW g \in Guests, Turned(c, g),
           UNCHANGED <<facade, store>>, AtRest
    PROVE  /\ AtRest'
           /\ \A h \in Guests : guest[facade.active][h].state = "stopped" =>
                 guest'[facade.active][h].state = "stopped"
  <1>1. facade.active \in Contexts
    BY DEF TypeOK, FacadeType
  <1>2. ASSUME NEW h \in Guests
        PROVE  /\ Resting(guest'[facade.active][h], store.gens[store.head].mem[h])
               /\ guest[facade.active][h].state = "stopped" =>
                     guest'[facade.active][h].state = "stopped"
    <2>1. Resting(guest[facade.active][h], store.gens[store.head].mem[h])
      BY DEF AtRest
    <2>. QED
      BY <1>1, <2>1, RestingTurned
  <1>. QED
    BY <1>2 DEF AtRest

LEMMA RestoresTurned ==
    ASSUME AlwaysInv, Sole, NEW c \in Contexts, NEW g \in Guests, Turned(c, g),
           UNCHANGED <<facade, store>>,
           NEW k \in CallIds, InFlight(k), RestoresFit(k), OnActive(k)
    PROVE  RestoresFit(k)'
  <1>1. TypeOK /\ CommandsFit /\ TurnAwaited /\ OneTurnEach
    BY DEF AlwaysInv, TurnsTaken
  <1>2. facade.active \in Contexts /\ Popped(c, g) /\ CallsStay
    BY <1>1 DEF TypeOK, FacadeType, Turned
  <1>3. call'[k].kind = call[k].kind /\ call'[k].at = call[k].at
    BY <1>2 DEF CallsStay
  <1>4. \A h \in Guests : NoRestore(facade.active, h) => NoRestore(facade.active, h)'
    BY <1>1, <1>2, NoRestoreTurned
  <1>5. NoRestores => NoRestores'
    BY <1>4 DEF NoRestores, NoRestore, Queue
  <1>6. ASSUME At(k, {"restoring"}), ~call'[k].failed, NEW h \in Guests \ call'[k].todo
        PROVE  NoRestore(facade.active, h)'
    <2>. DEFINE head == Queue(c, g)[1]
    <2>1. CASE call'[k] = call[k]
      BY <1>4, <1>6, <2>1 DEF RestoresFit
    <2>2. CASE Hears(head, c, g) /\ head.by = k
      <3>1. /\ call[k].at = head.place /\ g \in call[k].asked /\ ~call[k].failed
            /\ call'[k].todo = call[k].todo \ {g}
        BY <1>6, <2>2 DEF Hears, Waits
      <3>2. CASE h # g
        BY <1>4, <1>6, <3>1, <3>2 DEF RestoresFit
      <3>3. CASE h = g
        <4>1. 1 \in 1..Len(Queue(c, g))
          BY <1>1, <1>2, QueueTyped DEF Popped
        <4>2. Turn(head)
          <5>1. head.place = "restoring"
            BY <1>6, <3>1 DEF At
          <5>2. Asks(head.place, head.do)
            BY <1>1, <4>1 DEF CommandsFit
          <5>. QED
            BY <5>1, <5>2 DEF Asks, Turn
        <4>3. c = facade.active
          BY <1>1, <1>6, <2>2, <4>1 DEF CommandsFit, OnActive, At
        <4>4. ASSUME NEW i \in 1..Len(Queue(c, g)'), Queue(c, g)'[i].do = "restore"
              PROVE  Queue(c, g)'[i].void
          <5>1. PICK j \in 1..Len(Queue(c, g)) : Queue(c, g)'[i] = Queue(c, g)[j] /\ j = i + 1
            BY <1>1, <1>2, LeftCommands
          <5>. DEFINE cmd == Queue(c, g)[j]
          <5>2. Turn(cmd) /\ cmd.do = "restore" /\ j > 1 /\ cmd.by \in CallIds
            <6>1. i \in Nat /\ i >= 1
              BY <4>4
            <6>2. cmd.by \in CallIds
              BY <1>1, QueueTyped
            <6>. QED
              BY <4>4, <5>1, <6>1, <6>2 DEF Turn
          <5>3. CASE cmd.void
            BY <5>1, <5>3
          <5>4. CASE ~cmd.void
            <6>1. call[cmd.by].at = cmd.place
              BY <1>1, <5>2, <5>4 DEF TurnAwaited
            <6>2. cmd.place = "restoring"
              BY <1>1, <5>2 DEF CommandsFit, Asks
            <6>3. cmd.by = k
              BY <5>2, <6>1, <6>2 DEF Sole, InFlight
            <6>4. j = 1
              BY <1>1, <2>2, <4>1, <4>2, <5>2, <6>3 DEF OneTurnEach
            <6>. QED
              BY <5>2, <6>4
          <5>. QED
            BY <5>3, <5>4
        <4>. QED
          BY <3>3, <4>3, <4>4 DEF NoRestore
      <3>. QED
        BY <3>2, <3>3
    <2>3. call'[k] = call[k] \/ (Hears(head, c, g) /\ head.by = k)
      <3>1. CASE call' = call
        BY <3>1
      <3>2. CASE Hears(head, c, g)
        BY <3>2 DEF Hears
      <3>. QED
        BY <3>1, <3>2 DEF Turned
    <2>. QED
      BY <2>1, <2>2, <2>3
  <1>7. At(k, {"restoring"})' => store'.head # 0
    BY <1>3 DEF RestoresFit, At
  <1>8. At(k, {"restoring"})' /\ ~call'[k].failed =>
           \A h \in Guests \ call'[k].todo : NoRestore(facade.active, h)'
    BY <1>3, <1>6 DEF At
  <1>9. /\ call'[k].kind = "suspend" => NoRestores'
        /\ At(k, {"booting", "resumingAll"})' => NoRestores'
        /\ call'[k].kind = "initialize" /\ At(k, {"pruning"})' => NoRestores'
    BY <1>3, <1>5 DEF RestoresFit, At
  <1>. QED
    BY <1>7, <1>8, <1>9 DEF RestoresFit, NoRestore, Queue

\* A guest that waits to be snapshotted is not restored meanwhile.
LEMMA NoRestoreMeanwhile ==
    ASSUME ApartInv, NEW k \in CallIds, InFlight(k), Phase(k), At(k, {"capturing"}), PlacesFit, TypeOK
    PROVE  NoRestores /\ call[k].ctx = facade.active
  <1>1. LifeFits(k) /\ RestoresFit(k) /\ OnActive(k) /\ RestoresDone
    BY DEF Phase, ApartInv
  <1>2. call[k].kind \in {"save", "exportImage", "suspend"}
    BY DEF PlacesFit, Fits, At, Capturers, Closers
  <1>. facade.active \in Contexts
    BY DEF TypeOK, FacadeType
  <1>3. CASE call[k].kind = "suspend"
    BY <1>1, <1>3 DEF RestoresFit, OnActive, At
  <1>4. CASE call[k].kind \in {"save", "exportImage"}
    BY <1>1, <1>4 DEF LifeFits, RestoresDone, OnActive, At, NoRestores
  <1>. QED
    BY <1>2, <1>3, <1>4

LEMMA PausesTurned ==
    ASSUME TypeOK, NEW c \in Contexts, NEW g \in Guests, Turned(c, g),
           NEW k \in CallIds, PausesWaited(k)
    PROVE  PausesWaited(k)'
  <1>. PICK d \in Contexts : d = call[k].ctx
    BY DEF TypeOK, CallType
  <1>1. Popped(c, g) /\ Becomes(guest[c][g], guest'[c][g].state, guest'[c][g].mem)
        /\ call'[k].ctx = d
    BY DEF Turned, CallsStay
  <1>2. ASSUME NEW h \in Guests, NEW i \in 1..Len(Queue(d, h)'),
               Queue(d, h)'[i].do = "pause", ~Queue(d, h)'[i].void
        PROVE  i = 1 /\ guest'[d][h].state = "paused"
    <2>1. PICK j \in 1..Len(Queue(d, h)) :
             /\ Queue(d, h)'[i] = Queue(d, h)[j]
             /\ j = IF d = c /\ h = g THEN i + 1 ELSE i
      BY <1>1, <1>2, LeftCommands
    <2>2. j = 1 /\ guest[d][h].state = "paused"
      BY <1>2, <2>1 DEF PausesWaited, Here, Queue
    <2>3. ~(d = c /\ h = g)
      <3>1. i \in Nat /\ i >= 1
        BY <1>2
      <3>. QED
        BY <2>1, <2>2, <3>1
    <2>. QED
      BY <1>1, <2>1, <2>2, <2>3 DEF Popped
  <1>. QED
    BY <1>1, <1>2 DEF PausesWaited, Here, Queue

LEMMA CaptureTurned ==
    ASSUME AlwaysInv, ApartInv, NEW c \in Contexts, NEW g \in Guests, Turned(c, g),
           NEW k \in CallIds, InFlight(k), Phase(k), At(k, {"capturing"})
    PROVE  CaptureFits(k)'
  <1>. DEFINE head == Queue(c, g)[1]
  <1>1. TypeOK /\ PlacesFit /\ CommandsFit
    BY DEF AlwaysInv
  <1>. PICK d \in Contexts : d = call[k].ctx
    BY <1>1 DEF TypeOK, CallType
  <1>2. /\ Popped(c, g) /\ Becomes(guest[c][g], guest'[c][g].state, guest'[c][g].mem)
        /\ CallsStay /\ call[k].mem \in Memory
    BY <1>1 DEF Turned, TypeOK, CallType
  <1>3. call'[k].ctx = d /\ call'[k].disk = call[k].disk /\ call'[k].at = "capturing"
    BY <1>2 DEF CallsStay, At
  <1>4. NoRestores /\ d = facade.active
    BY <1>1, NoRestoreMeanwhile
  <1>5. PausesWaited(k) /\ CaptureFits(k)
    BY DEF Phase, CapturesFit, At
  <1>6. 1 \in 1..Len(Queue(c, g)) /\ head.by \in CallIds /\ Len(Queue(c, g)) \in Nat
        /\ head.void \in BOOLEAN /\ head.do \in AnyCommand
    <2>1. Len(Queue(c, g)) \in Nat /\ Len(Queue(c, g)) > 0
      BY <1>1, <1>2, QueueTyped DEF Popped
    <2>2. 1 \in 1..Len(Queue(c, g))
      BY <2>1
    <2>. QED
      BY <1>1, <2>1, <2>2, QueueTyped
  <1>7. ASSUME NEW h \in Guests, guest'[d][h].state = "paused"
        PROVE  /\ guest'[d][h].mem = call[k].disk[h]
               /\ guest[d][h].state = "paused" /\ guest'[d][h].mem = guest[d][h].mem
    <2>1. CASE ~(d = c /\ h = g)
      BY <1>2, <1>5, <1>7, <2>1 DEF Popped, CaptureFits, Here
    <2>2. CASE d = c /\ h = g
      <3>1. ~(head.do = "restore" /\ ~head.void)
        BY <1>4, <1>6, <2>2 DEF NoRestores, NoRestore
      <3>2. ~(head.do = "pause" /\ ~head.void /\ guest[c][g].state = "running")
        BY <1>5, <1>6, <2>2 DEF PausesWaited, Here, Queue
      <3>3. guest'[c][g].state = guest[c][g].state /\ guest'[c][g].mem = guest[c][g].mem
        BY <1>2, <1>7, <2>2, <3>1, <3>2 DEF Becomes, Queue
      <3>. QED
        BY <1>5, <1>7, <2>2, <3>3 DEF CaptureFits, Here
    <2>. QED
      BY <2>1, <2>2
  <1>8. ASSUME ~call'[k].failed, NEW h \in Guests
        PROVE  /\ h \in call'[k].asked => SnapshotLast(Queue(d, h)', k)
               /\ h \notin call'[k].asked => Still(guest'[d][h], call'[k].mem[h])
    <2>1. \/ call'[k] = call[k]
          \/ /\ Hears(head, c, g) /\ head.by = k /\ ~call[k].failed /\ d = c
             /\ head.place = "capturing" /\ head.do = "snapshot" /\ g \in call[k].asked
             /\ call'[k].asked = call[k].asked \ {g}
             /\ \A x \in Guests : call'[k].mem[x] = IF x = g THEN guest[c][g].mem ELSE call[k].mem[x]
             /\ guest'[c][g].state = "paused"
      <3>1. CASE call' = call
        BY <3>1
      <3>2. CASE Hears(head, c, g) /\ head.by # k
        BY <3>2 DEF Hears
      <3>3. CASE Hears(head, c, g) /\ head.by = k
        <4>1. head.place = "capturing" /\ g \in call[k].asked
          BY <3>3 DEF Hears, Waits, At
        <4>2. Asks(head.place, head.do) /\ (InFlight(head.by) => call[head.by].ctx = c)
          BY <1>1, <1>6 DEF CommandsFit
        <4>3. head.do = "snapshot" /\ d = c
          BY <3>3, <4>1, <4>2 DEF Asks
        <4>4. After["snapshot"] = "paused"
          BY DEF After
        <4>. QED
          BY <1>8, <3>3, <4>1, <4>3, <4>4 DEF Hears
      <3>. QED
        BY <3>1, <3>2, <3>3 DEF Turned
    <2>2. ~call[k].failed
      BY <1>8, <2>1
    <2>3. ASSUME NEW x \in Guests, x \notin call[k].asked
          PROVE  /\ Still(guest'[d][x], call[k].mem[x]) /\ ~(d = c /\ x = g)
      <3>1. Still(guest[d][x], call[k].mem[x])
        BY <1>5, <2>2, <2>3 DEF CaptureFits, Here
      <3>2. ~(d = c /\ x = g)
        BY <1>2, <3>1 DEF Popped, Still, Queue
      <3>. QED
        BY <1>2, <3>1, <3>2 DEF Popped
    <2>4. h \in call[k].asked => SnapshotLast(Queue(d, h), k)
      BY <1>5, <2>2 DEF CaptureFits, Here, Queue
    <2>5. CASE h \in call[k].asked /\ ~(d = c /\ h = g)
      <3>1. Queue(d, h)' = Queue(d, h)
        BY <1>2, <2>5 DEF Popped, Queue
      <3>2. h \in call'[k].asked
        BY <2>1, <2>5
      <3>. QED
        BY <2>4, <2>5, <3>1, <3>2 DEF SnapshotLast, Snaps
    <2>6. CASE h \in call[k].asked /\ d = c /\ h = g
      <3>1. /\ Len(Queue(c, g)) > 0 /\ ~Queue(c, g)[Len(Queue(c, g))].void
            /\ \A i \in 1..Len(Queue(c, g)) : Snaps(Queue(c, g)[i], k) <=> i = Len(Queue(c, g))
        BY <2>4, <2>6 DEF SnapshotLast
      <3>2. /\ Len(Queue(c, g)') = Len(Queue(c, g)) - 1
            /\ \A i \in 1..(Len(Queue(c, g)) - 1) : Queue(c, g)'[i] = Queue(c, g)[i + 1]
        BY <1>2 DEF Popped, Queue
      <3>3. CASE Len(Queue(c, g)) = 1
        <4>1. Snaps(head, k) /\ ~head.void
          BY <1>6, <3>1, <3>3
        <4>2. Waits(head, g)
          BY <2>6, <4>1 DEF Snaps, Waits, At
        <4>3. Hears(head, c, g)
          BY <4>2 DEF Turned
        <4>4. call'[k] # call[k]
          <5>1. \/ call'[k].asked = call[k].asked \ {g}
                \/ call'[k].failed
            BY <4>1, <4>3 DEF Hears, Snaps
          <5>. QED
            BY <1>8, <2>6, <5>1
        <4>5. /\ h \notin call'[k].asked /\ call'[k].mem[h] = guest[c][g].mem
              /\ guest'[c][g].state = "paused"
          BY <2>1, <2>6, <4>4
        <4>6. guest'[c][g].mem = guest[c][g].mem
          BY <1>7, <2>6, <4>5
        <4>7. Len(guest'[c][g].queue) = 0
          BY <3>2, <3>3 DEF Queue
        <4>. QED
          BY <2>6, <4>5, <4>6, <4>7 DEF Still
      <3>4. CASE Len(Queue(c, g)) # 1
        <4>1. ~Snaps(head, k)
          BY <1>6, <3>1, <3>4
        <4>2. h \in call'[k].asked
          BY <2>1, <2>6, <4>1 DEF Snaps
        <4>. DEFINE n == Len(Queue(c, g)) - 1
        <4>3. n \in Nat /\ n > 0 /\ n \in 1..n /\ n + 1 = Len(Queue(c, g))
          <5>1. Len(Queue(c, g)) \in Nat /\ Len(Queue(c, g)) > 0 /\ Len(Queue(c, g)) # 1
            BY <1>6, <3>1, <3>4
          <5>2. PICK m \in Nat : m = Len(Queue(c, g))
            BY <5>1
          <5>3. m > 1 /\ m - 1 \in Nat /\ m - 1 > 0 /\ m - 1 \in 1..(m - 1) /\ (m - 1) + 1 = m
            BY <5>1, <5>2
          <5>4. n = m - 1
            BY <5>2
          <5>. HIDE DEF n
          <5>. QED
            BY <5>2, <5>3, <5>4
        <4>4. Queue(c, g)'[n] = Queue(c, g)[Len(Queue(c, g))]
          BY <3>2, <4>3
        <4>5. ASSUME NEW i \in 1..n PROVE Snaps(Queue(c, g)'[i], k) <=> i = n
          <5>1. i + 1 \in 1..Len(Queue(c, g)) /\ (i + 1 = Len(Queue(c, g)) <=> i = n)
            BY <4>3, <4>5
          <5>2. Queue(c, g)'[i] = Queue(c, g)[i + 1]
            BY <3>2, <4>5
          <5>. QED
            BY <3>1, <5>1, <5>2
        <4>6. Len(Queue(c, g)') = n
          BY <3>2
        <4>. HIDE DEF n
        <4>7. SnapshotLast(Queue(c, g)', k)
          BY <3>1, <4>3, <4>4, <4>5, <4>6 DEF SnapshotLast
        <4>. QED
          BY <2>6, <4>2, <4>7
      <3>. QED
        BY <3>3, <3>4
    <2>7. CASE h \notin call[k].asked
      <3>1. Still(guest'[d][h], call[k].mem[h]) /\ ~(d = c /\ h = g)
        BY <2>3, <2>7
      <3>2. h \notin call'[k].asked /\ call'[k].mem[h] = call[k].mem[h]
        BY <2>1, <2>7, <3>1
      <3>. QED
        BY <3>1, <3>2
    <2>. QED
      BY <2>5, <2>6, <2>7
  <1>9. ASSUME NEW h \in Guests
        PROVE  /\ Here(k, h)'.state = "paused" => Here(k, h)'.mem = call'[k].disk[h]
               /\ ~call'[k].failed =>
                     /\ h \in call'[k].asked => SnapshotLast(Here(k, h)'.queue, k)
                     /\ h \notin call'[k].asked => Still(Here(k, h)', call'[k].mem[h])
    <2>1. Here(k, h)' = guest'[d][h] /\ Queue(d, h)' = guest'[d][h].queue
      BY <1>3 DEF Here, Queue
    <2>. QED
      BY <1>3, <1>7, <1>8, <2>1
  <1>. QED
    BY <1>9 DEF CaptureFits

\* A call that hears nothing from guests where it stands is not told anything.
LEMMA NothingHeard ==
    ASSUME TypeOK, CommandsFit, NEW c \in Contexts, NEW g \in Guests, Turned(c, g),
           NEW k \in CallIds,
           ~At(k, {"pausing", "unpausing", "resuming", "rollback", "resumingAll", "capturing",
                   "booting", "restoring", "unbooting", "stopping", "retiring"})
    PROVE  call'[k] = call[k]
  <1>. DEFINE head == Queue(c, g)[1]
  <1>1. 1 \in 1..Len(Queue(c, g))
    BY QueueTyped DEF Turned, Popped
  <1>2. Asks(head.place, head.do)
    BY <1>1 DEF CommandsFit
  <1>3. CASE Hears(head, c, g) /\ head.by = k
    <2>1. call[k].at = head.place
      BY <1>3 DEF Hears, Waits
    <2>. QED
      BY <1>2, <2>1 DEF Asks, At
  <1>4. CASE Hears(head, c, g) /\ head.by # k
    BY <1>4 DEF Hears
  <1>. QED
    BY <1>3, <1>4 DEF Turned

LEMMA CapturesTurned ==
    ASSUME AlwaysInv, ApartInv, NEW c \in Contexts, NEW g \in Guests, Turned(c, g),
           UNCHANGED <<facade, store>>, NEW k \in CallIds, InFlight(k), Phase(k)
    PROVE  CapturesFit(k)'
  <1>1. TypeOK /\ CommandsFit /\ CallsStay /\ Popped(c, g) /\ CapturesFit(k)
    BY DEF AlwaysInv, Turned, Phase
  <1>2. call'[k].kind = call[k].kind /\ call'[k].at = call[k].at /\ call'[k].ctx = call[k].ctx
    BY <1>1 DEF CallsStay
  <1>. PICK d \in Contexts : d = call[k].ctx
    BY <1>1 DEF TypeOK, CallType
  <1>3. At(k, {"flushing", "capturing"}) => PausesWaited(k)'
    BY <1>1, PausesTurned DEF CapturesFit
  <1>4. At(k, {"capturing"}) => CaptureFits(k)'
    BY CaptureTurned
  <1>5. ASSUME At(k, {"committing"}) \/ Committed(k)
        PROVE  /\ call'[k].mem = call'[k].disk
               /\ \A h \in Guests : Still(Here(k, h)', call'[k].mem[h])
               /\ Committed(k) => store'.head # 0 /\ store'.gens[store'.head].mem = call'[k].mem
    <2>1. call'[k] = call[k]
      BY <1>1, <1>5, NothingHeard DEF Committed, At
    <2>2. ASSUME NEW h \in Guests PROVE Still(guest'[d][h], call[k].mem[h])
      <3>1. Still(guest[d][h], call[k].mem[h])
        BY <1>1, <1>5 DEF CapturesFit, Here
      <3>2. ~(d = c /\ h = g)
        BY <1>1, <3>1 DEF Popped, Still, Queue
      <3>. QED
        BY <1>1, <3>1, <3>2 DEF Popped
    <2>3. \A h \in Guests : Here(k, h)' = guest'[d][h]
      BY <1>2 DEF Here
    <2>. QED
      BY <1>1, <1>5, <2>1, <2>2, <2>3 DEF CapturesFit
  <1>6. At(k, {"publishing"}) => call'[k].mem = call'[k].disk
    BY <1>1, NothingHeard DEF At, CapturesFit
  <1>7. Committed(k)' => Committed(k)
    BY <1>2 DEF Committed, At
  <1>. QED
    BY <1>2, <1>3, <1>4, <1>5, <1>6, <1>7 DEF CapturesFit, At

LEMMA ClosingTurned ==
    ASSUME AlwaysInv, ApartInv, NEW c \in Contexts, NEW g \in Guests, Turned(c, g),
           UNCHANGED <<facade, store>>, NEW k \in CallIds, InFlight(k), Phase(k)
    PROVE  ClosingFits(k)'
  <1>1. TypeOK /\ CommandsFit /\ CallsStay /\ Popped(c, g) /\ ClosingFits(k) /\ OnActive(k)
    BY DEF AlwaysInv, Turned, Phase
  <1>2. call'[k].kind = call[k].kind /\ call'[k].at = call[k].at /\ call'[k].ctx = call[k].ctx
    BY <1>1 DEF CallsStay
  <1>. PICK d \in Contexts : d = facade.active
    BY <1>1 DEF TypeOK, FacadeType
  <1>. SUFFICES ASSUME call[k].kind \in Closers, At(k, {"stopping", "releasing"})
                PROVE  /\ AtRest'
                       /\ At(k, {"stopping"}) /\ ~call'[k].failed =>
                             \A h \in Guests \ call'[k].asked : guest'[d][h].state = "stopped"
                       /\ At(k, {"releasing"}) => \A h \in Guests : guest'[d][h].state = "stopped"
    <2>1. call[k].kind \in Closers /\ At(k, {"stopping", "releasing"}) => call'[k].ctx = d
      BY <1>1, <1>2 DEF OnActive, At, Closers
    <2>2. call'[k].ctx = d => \A h \in Guests : Here(k, h)' = guest'[d][h]
      BY DEF Here
    <2>. QED
      BY <1>2, <2>1, <2>2 DEF ClosingFits, At
  <1>3. call[k].ctx = d
    BY <1>1 DEF OnActive, At, Closers
  <1>4. AtRest
    BY <1>1 DEF ClosingFits, At
  <1>5. AtRest' /\ \A h \in Guests : guest[d][h].state = "stopped" => guest'[d][h].state = "stopped"
    BY <1>1, <1>4, AtRestTurned
  <1>6. At(k, {"releasing"}) => \A h \in Guests : guest'[d][h].state = "stopped"
    BY <1>1, <1>3, <1>5 DEF ClosingFits, Here
  <1>7. ASSUME At(k, {"stopping"}), ~call'[k].failed, NEW h \in Guests \ call'[k].asked
        PROVE  guest'[d][h].state = "stopped"
    <2>. DEFINE head == Queue(c, g)[1]
    <2>1. 1 \in 1..Len(Queue(c, g))
      BY <1>1, QueueTyped DEF Popped
    <2>2. \/ call'[k] = call[k]
          \/ Hears(head, c, g) /\ head.by = k
      <3>1. CASE call' = call
        BY <3>1
      <3>2. CASE Hears(head, c, g)
        BY <3>2 DEF Hears
      <3>. QED
        BY <3>1, <3>2 DEF Turned
    <2>3. CASE h \notin call[k].asked
      <3>1. ~call[k].failed
        BY <1>7, <2>2 DEF Hears
      <3>. QED
        BY <1>1, <1>3, <1>5, <1>7, <2>3, <3>1 DEF ClosingFits, Here
    <2>4. CASE h \in call[k].asked
      <3>1. /\ Hears(head, c, g) /\ head.by = k /\ h = g
            /\ guest'[c][g].state = After[head.do] /\ head.place = "stopping"
        BY <1>7, <2>2, <2>4 DEF Hears, Waits, At
      <3>2. Asks(head.place, head.do) /\ call[k].ctx = c
        BY <1>1, <2>1, <3>1 DEF CommandsFit
      <3>3. head.do = "shutdown" /\ c = d
        BY <1>3, <3>1, <3>2 DEF Asks
      <3>. QED
        BY <3>1, <3>3 DEF After
    <2>. QED
      BY <2>3, <2>4
  <1>. QED
    BY <1>5, <1>6, <1>7

LEMMA TurnedApart ==
    ASSUME AlwaysInv, ApartInv, NEW c \in Contexts, NEW g \in Guests, Turned(c, g),
           UNCHANGED <<facade, store, coord, apart>>
    PROVE  ApartInv'
  <1>1. TypeOK /\ CallsStay /\ Popped(c, g) /\ facade.active \in Contexts
    BY DEF AlwaysInv, Turned, TypeOK, FacadeType
  <1>2. /\ Sole' /\ OneMoment' /\ LockKept' /\ HeadKept'
        /\ \A k \in CallIds : InFlight(k)' =>
                 /\ InFlight(k) /\ Phase(k)
                 /\ LifeFits(k)' /\ OnActive(k)' /\ LockFits(k)' /\ HeadFits(k)'
    BY <1>1, StayApart
  <1>3. ASSUME NEW k \in CallIds, InFlight(k)' PROVE Phase(k)'
    <2>1. InFlight(k) /\ Phase(k)
      BY <1>2, <1>3
    <2>2. RestoresFit(k)'
      BY <2>1, RestoresTurned DEF Phase, ApartInv
    <2>3. CapturesFit(k)' /\ ClosingFits(k)'
      BY <2>1, CapturesTurned, ClosingTurned
    <2>. QED
      BY <1>2, <1>3, <2>2, <2>3 DEF Phase
  <1>4. RestoresDone'
    <2>1. \A d \in Contexts, h \in Guests : NoRestore(d, h) => NoRestore(d, h)'
      BY <1>1, NoRestoreTurned
    <2>. QED
      BY <2>1 DEF ApartInv, RestoresDone, NoRestore, Queue
  <1>5. ClosedKept'
    BY <1>1, AtRestTurned DEF ApartInv, ClosedKept
  <1>. QED
    BY <1>2, <1>3, <1>4, <1>5 DEF ApartInv

-----------------------------------------------------------------------------
(* ... the signals, the guests at work, the disk *)

\* A step after which the queues hold the same commands, some of them skipped.
Dimmed ==
    \A d \in Contexts, h \in Guests :
       /\ Len(guest'[d][h].queue) = Len(Queue(d, h))
       /\ \A i \in 1..Len(Queue(d, h)) :
             /\ guest'[d][h].queue[i].do = Queue(d, h)[i].do
             /\ Queue(d, h)[i].void => guest'[d][h].queue[i].void

LEMMA DimmedKeeps ==
    ASSUME TypeOK, Dimmed, NEW d \in Contexts, NEW h \in Guests
    PROVE  /\ NoRestore(d, h) => NoRestore(d, h)'
           /\ \A memory : /\ Resting(guest[d][h], memory)
                          /\ guest'[d][h].state = guest[d][h].state
                          /\ guest'[d][h].mem = guest[d][h].mem
                          => Resting(guest'[d][h], memory)
  <1>1. Len(Queue(d, h)') = Len(Queue(d, h)) /\ Queue(d, h)' = guest'[d][h].queue
    BY DEF Dimmed, Queue
  <1>2. NoRestore(d, h) => NoRestore(d, h)'
    BY <1>1 DEF Dimmed, NoRestore
  <1>3. ASSUME NEW memory, Resting(guest[d][h], memory),
               guest'[d][h].state = guest[d][h].state, guest'[d][h].mem = guest[d][h].mem
        PROVE  Resting(guest'[d][h], memory)
    BY <1>1, <1>3 DEF Dimmed, Resting, Queue
  <1>. QED
    BY <1>2, <1>3

LEMMA AbortApart ==
    ASSUME AlwaysInv, ApartInv, NEW k \in CallIds, Aborted(k),
           UNCHANGED <<facade, store, coord, apart>>
    PROVE  ApartInv'
  <1>1. TypeOK /\ CommandsFit /\ CallsStay /\ StatesKept /\ facade.active \in Contexts
    BY DEF AlwaysInv, Aborted, TypeOK, FacadeType
  <1>2. /\ Sole' /\ OneMoment' /\ LockKept' /\ HeadKept'
        /\ \A j \in CallIds : InFlight(j)' =>
                 /\ InFlight(j) /\ Phase(j)
                 /\ LifeFits(j)' /\ OnActive(j)' /\ LockFits(j)' /\ HeadFits(j)'
    BY <1>1, StayApart
  <1>3. Dimmed
    BY DEF Dimmed, Aborted
  <1>4. \A d \in Contexts, h \in Guests : NoRestore(d, h) => NoRestore(d, h)'
    BY <1>1, <1>3, DimmedKeeps
  <1>5. RestoresDone' /\ (NoRestores => NoRestores')
    BY <1>1, <1>4 DEF ApartInv, RestoresDone, NoRestores, NoRestore, Queue
  <1>6. AtRest => AtRest'
    <2>1. ASSUME NEW h \in Guests, NEW memory, Resting(guest[facade.active][h], memory)
          PROVE  Resting(guest'[facade.active][h], memory)
      BY <1>1, <1>3, <2>1, DimmedKeeps DEF StatesKept
    <2>. QED
      BY <2>1 DEF AtRest
  <1>7. ClosedKept'
    BY <1>1, <1>6 DEF ApartInv, ClosedKept, StatesKept
  <1>8. ASSUME NEW j \in CallIds, InFlight(j)' PROVE Phase(j)'
    <2>1. InFlight(j) /\ Phase(j)
      BY <1>2, <1>8
    <2>2. /\ call'[j].kind = call[j].kind /\ call'[j].at = call[j].at
          /\ call'[j].ctx = call[j].ctx /\ call'[j].disk = call[j].disk
      BY <1>1 DEF CallsStay
    <2>3. /\ call'[j].todo = call[j].todo /\ call'[j].mem = call[j].mem
          /\ \/ call'[j].asked = {} /\ call'[j].failed
             \/ call'[j].asked = call[j].asked /\ call'[j].failed = call[j].failed
      BY DEF Aborted
    <2>. PICK d \in Contexts : d = call[j].ctx
      BY <1>1 DEF TypeOK, CallType
    <2>4. \A h \in Guests : /\ Here(j, h) = guest[d][h] /\ Here(j, h)' = guest'[d][h]
                            /\ Here(j, h)'.state = Here(j, h).state
                            /\ Here(j, h)'.mem = Here(j, h).mem
                            /\ Here(j, h)'.queue = Queue(d, h)' /\ Here(j, h).queue = Queue(d, h)
      BY <1>1, <2>2 DEF Here, StatesKept, Queue
    <2>5. \A h \in Guests : /\ Len(Queue(d, h)') = Len(Queue(d, h))
                            /\ \A i \in 1..Len(Queue(d, h)) :
                                  /\ Queue(d, h)'[i].do = Queue(d, h)[i].do
                                  /\ Queue(d, h)'[i].by = Queue(d, h)[i].by
                                  /\ Queue(d, h)'[i].place = Queue(d, h)[i].place
                                  /\ Queue(d, h)[i].void => Queue(d, h)'[i].void
      BY DEF Aborted, Queue
    <2>6. RestoresFit(j)'
      <3>1. RestoresFit(j)
        BY <2>1 DEF Phase
      <3>2. ASSUME At(j, {"restoring"}), ~call'[j].failed, NEW h \in Guests \ call'[j].todo
            PROVE  NoRestore(facade.active, h)'
        BY <1>1, <1>4, <2>3, <3>1, <3>2 DEF RestoresFit
      <3>. QED
        BY <1>5, <2>2, <3>1, <3>2 DEF RestoresFit, At, NoRestore, Queue
    <2>7. PausesWaited(j) => PausesWaited(j)'
      BY <2>4, <2>5 DEF PausesWaited
    <2>8. At(j, {"capturing"}) => CaptureFits(j)'
      <3>1. At(j, {"capturing"}) => CaptureFits(j)
        BY <2>1 DEF Phase, CapturesFit
      <3>2. ASSUME At(j, {"capturing"}), ~call'[j].failed, NEW h \in Guests
            PROVE  /\ h \notin call'[j].asked /\ Still(Here(j, h)', call'[j].mem[h])
        <4>1. call[j].asked = {} /\ call'[j].asked = {} /\ ~call[j].failed
          <5>1. j = k
            BY <2>1 DEF ApartInv, Sole, Aborted
          <5>. QED
            BY <3>2, <5>1 DEF Aborted, At, Controlled
        <4>. QED
          BY <2>3, <2>4, <2>5, <3>1, <3>2, <4>1 DEF CaptureFits, Still
      <3>. QED
        BY <2>2, <2>4, <3>1, <3>2 DEF CaptureFits
    <2>9. \A h \in Guests : \A memory : Still(Here(j, h), memory) => Still(Here(j, h)', memory)
      BY <2>4, <2>5 DEF Still
    <2>10. CapturesFit(j)'
      <3>1. CapturesFit(j) /\ (Committed(j)' <=> Committed(j))
        BY <2>1, <2>2 DEF Phase, Committed, At
      <3>2. At(j, {"committing"}) \/ Committed(j) =>
               /\ call'[j].mem = call'[j].disk
               /\ \A h \in Guests : Still(Here(j, h)', call'[j].mem[h])
               /\ Committed(j) => store'.head # 0 /\ store'.gens[store'.head].mem = call'[j].mem
        BY <2>2, <2>3, <2>9, <3>1 DEF CapturesFit
      <3>3. At(j, {"flushing", "capturing"}) => PausesWaited(j)'
        BY <2>7, <3>1 DEF CapturesFit
      <3>4. At(j, {"publishing"}) => call'[j].mem = call'[j].disk
        BY <2>2, <2>3, <3>1 DEF CapturesFit
      <3>. QED
        BY <2>2, <2>8, <3>1, <3>2, <3>3, <3>4 DEF CapturesFit, At
    <2>11. ClosingFits(j)'
      BY <1>6, <2>1, <2>2, <2>3, <2>4 DEF Phase, ClosingFits, At
    <2>. QED
      BY <1>2, <1>8, <2>6, <2>10, <2>11 DEF Phase
  <1>. QED
    BY <1>2, <1>5, <1>7, <1>8 DEF ApartInv

\* Guests at work are neither paused nor at rest.
LEMMA WorkApart ==
    ASSUME AlwaysInv, ApartInv, NEW c \in Contexts, NEW g \in Guests, Worked(c, g),
           UNCHANGED <<facade, call, store, coord, apart>>
    PROVE  ApartInv'
  <1>1. TypeOK /\ facade.active \in Contexts
    BY DEF AlwaysInv, TypeOK, FacadeType
  <1>2. CallsStay
    BY <1>1 DEF CallsStay, TypeOK
  <1>3. /\ Sole' /\ OneMoment' /\ LockKept' /\ HeadKept'
        /\ \A j \in CallIds : InFlight(j)' =>
                 /\ InFlight(j) /\ Phase(j)
                 /\ LifeFits(j)' /\ OnActive(j)' /\ LockFits(j)' /\ HeadFits(j)'
    BY <1>2, StayApart
  <1>4. \A d \in Contexts, h \in Guests :
           /\ Queue(d, h)' = Queue(d, h) /\ guest'[d][h].queue = guest[d][h].queue
           /\ guest'[d][h].state = guest[d][h].state
           /\ guest[d][h].state # "running" => guest'[d][h].mem = guest[d][h].mem
    BY DEF Worked, Queue
  <1>5. \A d \in Contexts, h \in Guests : NoRestore(d, h) <=> NoRestore(d, h)'
    BY <1>4 DEF NoRestore
  <1>6. RestoresDone' /\ (NoRestores => NoRestores')
    BY <1>1, <1>5 DEF ApartInv, RestoresDone, NoRestores, NoRestore, Queue
  <1>7. AtRest => AtRest'
    BY <1>1, <1>4 DEF AtRest, Resting
  <1>8. ClosedKept'
    BY <1>1, <1>4, <1>7 DEF ApartInv, ClosedKept
  <1>9. ASSUME NEW j \in CallIds, InFlight(j)' PROVE Phase(j)'
    <2>1. InFlight(j) /\ Phase(j)
      BY <1>3, <1>9
    <2>. PICK d \in Contexts : d = call[j].ctx
      BY <1>1 DEF TypeOK, CallType
    <2>2. \A h \in Guests : Here(j, h) = guest[d][h] /\ Here(j, h)' = guest'[d][h]
      BY DEF Here
    <2>3. RestoresFit(j)'
      BY <1>1, <1>5, <1>6, <2>1 DEF Phase, RestoresFit, At, NoRestore, Queue
    <2>4. PausesWaited(j) => PausesWaited(j)'
      BY <1>4, <2>2 DEF PausesWaited
    <2>5. CaptureFits(j) => CaptureFits(j)'
      BY <1>4, <2>2 DEF CaptureFits, Still
    <2>6. \A h \in Guests : \A memory : Still(Here(j, h), memory) => Still(Here(j, h)', memory)
      BY <1>4, <2>2 DEF Still
    <2>7. CapturesFit(j)'
      BY <2>1, <2>4, <2>5, <2>6 DEF Phase, CapturesFit, Committed, At
    <2>8. ClosingFits(j)'
      BY <1>4, <1>7, <2>1, <2>2 DEF Phase, ClosingFits, At
    <2>. QED
      BY <1>3, <1>9, <2>3, <2>7, <2>8 DEF Phase
  <1>. QED
    BY <1>3, <1>6, <1>8, <1>9 DEF ApartInv

\* The disk only loses what a HEAD refers to.
LEMMA DamageApart ==
    ASSUME AlwaysInv, ApartInv, UNCHANGED <<facade, guest, call, coord, apart>>,
           store'.head = store.head, store'.gens = store.gens
    PROVE  ApartInv'
  <1>1. CallsStay
    BY DEF CallsStay, AlwaysInv, TypeOK
  <1>2. /\ Sole' /\ OneMoment' /\ LockKept' /\ HeadKept'
        /\ \A j \in CallIds : InFlight(j)' =>
                 /\ InFlight(j) /\ Phase(j)
                 /\ LifeFits(j)' /\ OnActive(j)' /\ LockFits(j)' /\ HeadFits(j)'
    BY <1>1, StayApart
  <1>3. RestoresDone'
    BY DEF ApartInv, RestoresDone, NoRestore, Queue
  <1>4. AtRest <=> AtRest'
    BY DEF AtRest, Resting
  <1>5. ClosedKept'
    BY <1>4 DEF ApartInv, ClosedKept
  <1>6. ASSUME NEW j \in CallIds, InFlight(j)' PROVE Phase(j)'
    <2>1. InFlight(j) /\ Phase(j)
      BY <1>2, <1>6
    <2>2. RestoresFit(j)'
      BY <2>1 DEF Phase, RestoresFit, NoRestores, NoRestore, Queue, At
    <2>3. CapturesFit(j)'
      BY <2>1 DEF Phase, CapturesFit, PausesWaited, CaptureFits, Still, SnapshotLast, Snaps,
                  Committed, Here, At
    <2>4. ClosingFits(j)'
      BY <1>4, <2>1 DEF Phase, ClosingFits, Here, At
    <2>. QED
      BY <1>2, <1>6, <2>2, <2>3, <2>4 DEF Phase
  <1>. QED
    BY <1>2, <1>3, <1>5, <1>6 DEF ApartInv

-----------------------------------------------------------------------------
(* The steps of a call *)

Alone(k) == \A j \in CallIds : j # k => ~InFlight(j)

LEMMA Begins ==
    ASSUME IInv, NEW k \in CallIds, NEW kind, Begin(k, kind)
    PROVE  /\ AlwaysInv /\ TypeOK /\ Len(store.gens) \in Nat
           /\ call[k].at = "idle" /\ call[k].kind = "none"
           /\ apart' \in BOOLEAN /\ (apart' => apart /\ ApartInv /\ Alone(k))
           /\ facade.active \in Contexts
  <1>1. AlwaysInv /\ TypeOK /\ PlacesFit /\ call[k].at = "idle"
    BY DEF IInv, AlwaysInv, Begin
  <1>2. call[k].kind = "none"
    BY <1>1 DEF PlacesFit, Fits, Capturers, Closers
  <1>3. apart' \in BOOLEAN /\ (apart' => apart /\ Alone(k))
    BY <1>1 DEF Begin, TypeOK, Alone
  <1>4. Len(store.gens) \in Nat /\ facade.active \in Contexts
    BY <1>1, StoreTyped DEF TypeOK, FacadeType
  <1>. QED
    BY <1>1, <1>2, <1>3, <1>4 DEF IInv

LEMMA Continues ==
    ASSUME IInv, NEW k \in CallIds, InFlight(k), UNCHANGED apart
    PROVE  /\ AlwaysInv /\ TypeOK /\ Len(store.gens) \in Nat
           /\ call[k] \in CallType /\ Fits(call[k].kind, call[k].at)
           /\ apart' \in BOOLEAN
           /\ apart' => /\ apart /\ ApartInv /\ Alone(k)
                        /\ LifeFits(k) /\ OnActive(k) /\ RestoresFit(k) /\ CapturesFit(k)
                        /\ ClosingFits(k) /\ LockFits(k) /\ HeadFits(k)
           /\ facade.active \in Contexts
  <1>1. AlwaysInv /\ TypeOK /\ PlacesFit
    BY DEF IInv, AlwaysInv
  <1>2. Len(store.gens) \in Nat /\ facade.active \in Contexts /\ call[k] \in CallType
    BY <1>1, StoreTyped DEF TypeOK, FacadeType
  <1>3. apart' \in BOOLEAN /\ (apart' => apart /\ ApartInv)
    BY <1>1 DEF TypeOK, IInv
  <1>4. apart' => Alone(k) /\ Phase(k)
    BY <1>3 DEF ApartInv, Sole, Alone
  <1>. QED
    BY <1>1, <1>2, <1>3, <1>4 DEF PlacesFit, Phase

LEMMA AskSteps ==
    ASSUME TypeOK, NEW k \in CallIds, NEW r \in CallType, NEW gs \in SUBSET Guests,
           NEW do \in AnyCommand, NEW place \in Awaits, Asks(place, do),
           Ask(k, r, r.ctx, gs, do, place)
    PROVE  /\ CallStep(k, call'[k].asked, do) /\ StatesKept /\ Carries(k, r, place)
           /\ Posted(k, r.ctx, call'[k].asked, do, place)
           /\ call'[k].todo = gs /\ call'[k].asked \in SUBSET gs
           /\ call'[k].asked \in SUBSET Guests
           /\ \/ call'[k].asked = gs /\ ~call'[k].failed
              \/ call'[k].asked = {} /\ (call'[k].failed <=> gs # {})
  <1>1. r.ctx \in Contexts
    BY DEF CallType
  <1>2. /\ GuestsTyped /\ StatesKept
        /\ Posted(k, r.ctx, call'[k].asked, do, place)
        /\ Moved(k) /\ Carries(k, r, place)
        /\ call'[k].todo = gs
        /\ \/ call'[k].asked = gs /\ ~call'[k].failed
           \/ call'[k].asked = {} /\ (call'[k].failed <=> gs # {})
    BY <1>1, AskPosts
  <1>3. call'[k].at = place /\ call'[k].ctx = r.ctx
    BY <1>2 DEF Carries
  <1>4. CallStep(k, call'[k].asked, do)
    BY <1>2, <1>3 DEF CallStep
  <1>5. call'[k].asked \in SUBSET gs
    BY <1>2
  <1>6. call'[k].asked \in SUBSET Guests
    BY <1>5
  <1>. QED
    BY <1>2, <1>4, <1>5, <1>6

LEMMA AskNextSteps ==
    ASSUME TypeOK, NEW k \in CallIds, NEW r \in CallType, NEW gs \in SUBSET Guests,
           NEW do \in AnyCommand, NEW place \in Awaits, Asks(place, do), NEW arg \in Memory,
           AskNext(k, r, r.ctx, gs, do, place, arg)
    PROVE  /\ CallStep(k, call'[k].asked, do) /\ StatesKept /\ Carries(k, r, place)
           /\ Posted(k, r.ctx, call'[k].asked, do, place)
           /\ call'[k].todo = gs /\ call'[k].asked \in SUBSET gs
           /\ call'[k].asked \in SUBSET Guests
           /\ \A g, h \in call'[k].asked : g = h
  <1>1. r.ctx \in Contexts
    BY DEF CallType
  <1>2. /\ GuestsTyped /\ StatesKept
        /\ Posted(k, r.ctx, call'[k].asked, do, place)
        /\ Moved(k) /\ Carries(k, r, place)
        /\ call'[k].todo = gs /\ call'[k].asked \subseteq gs
        /\ \A g, h \in call'[k].asked : g = h
    BY <1>1, AskNextPosts
  <1>3. call'[k].at = place /\ call'[k].ctx = r.ctx
    BY <1>2 DEF Carries
  <1>4. CallStep(k, call'[k].asked, do)
    BY <1>2, <1>3 DEF CallStep
  <1>5. call'[k].asked \in SUBSET gs /\ call'[k].asked \in SUBSET Guests
    BY <1>2
  <1>. QED
    BY <1>2, <1>4, <1>5

\* A step that asks nobody anything.
LEMMA StillSteps ==
    ASSUME TypeOK, NEW k \in CallIds, Moved(k), UNCHANGED guest
    PROVE  /\ CallStep(k, {}, "none") /\ StatesKept
           /\ Posted(k, call'[k].ctx, {}, "none", call'[k].at)
  BY UnpostedGuests DEF CallStep

LEMMA GoSteps ==
    ASSUME TypeOK, NEW k \in CallIds, NEW r \in CallType, NEW place \in Awaits,
           Go(k, r, place), UNCHANGED guest
    PROVE  /\ CallStep(k, {}, "none") /\ StatesKept /\ Carries(k, r, place)
           /\ Posted(k, r.ctx, {}, "none", place)
  <1>1. Moved(k) /\ Carries(k, r, place)
    BY GoMoves
  <1>2. /\ CallStep(k, {}, "none") /\ StatesKept
        /\ Posted(k, call'[k].ctx, {}, "none", call'[k].at)
    BY <1>1, StillSteps
  <1>. QED
    BY <1>1, <1>2 DEF Carries

\* What a step of k needs so as to leave the invariant standing, when it only
\* asks guests for commands and does not touch the store or the lock.
FacadeKept ==
    /\ facade' \in FacadeType
    /\ facade'.active = facade.active /\ facade'.token = facade.token
    /\ facade'.initialized = facade.initialized

Quietly(k, now, do) ==
    /\ call'[k].at # "done" => Phase(k)'
    /\ facade'.life = "hot" => facade.life = "hot" \/ NoRestores
    /\ do = "restore" =>
          store.head # 0 /\ facade'.life # "hot" /\ call'[k].ctx = facade.active
    /\ facade'.life \in {"cold", "cleanupIncomplete"} =>
          facade'.life = facade.life /\ (now = {} \/ do = "shutdown")
    /\ LeftBehind(k) => LeftBehind(k)'

LEMMA NoRestorePosted ==
    ASSUME TypeOK, NEW k \in CallIds, NEW c \in Contexts, NEW now, NEW do, NEW place,
           Posted(k, c, now, do, place)
    PROVE  \A d \in Contexts, h \in Guests :
              NoRestore(d, h) /\ (~(d = c /\ h \in now) \/ do # "restore") => NoRestore(d, h)'
  <1>. SUFFICES ASSUME NEW d \in Contexts, NEW h \in Guests, NoRestore(d, h),
                       ~(d = c /\ h \in now) \/ do # "restore"
                PROVE  NoRestore(d, h)'
    OBVIOUS
  <1>. DEFINE q == Queue(d, h)
  <1>1. Len(q) \in Nat /\ Queue(d, h)' = guest'[d][h].queue
    BY QueueTyped DEF Queue
  <1>2. \A i \in 1..Len(q) : /\ Queue(d, h)'[i].do = q[i].do /\ Queue(d, h)'[i].void = q[i].void
    BY <1>1 DEF Posted, SameCommand
  <1>3. CASE d = c /\ h \in now
    <2>1. Len(Queue(d, h)') = Len(q) + 1 /\ Queue(d, h)'[Len(q) + 1].do # "restore"
      BY <1>1, <1>3 DEF Posted
    <2>2. \A i \in 1..(Len(q) + 1) : i = Len(q) + 1 \/ i \in 1..Len(q)
      BY <1>1
    <2>. QED
      BY <1>2, <2>1, <2>2 DEF NoRestore
  <1>4. CASE ~(d = c /\ h \in now)
    <2>1. Len(Queue(d, h)') = Len(q)
      BY <1>1, <1>4 DEF Posted
    <2>. QED
      BY <1>2, <2>1 DEF NoRestore
  <1>. QED
    BY <1>3, <1>4

LEMMA NoRestoresPosted ==
    ASSUME TypeOK, NEW k \in CallIds, NEW c \in Contexts, NEW now, NEW do, NEW place,
           Posted(k, c, now, do, place), do # "restore", NoRestores,
           facade'.active = facade.active
    PROVE  NoRestores'
  <1>1. facade.active \in Contexts
    BY DEF TypeOK, FacadeType
  <1>2. \A d \in Contexts, h \in Guests :
           NoRestore(d, h) /\ (~(d = c /\ h \in now) \/ do # "restore") => NoRestore(d, h)'
    BY NoRestorePosted
  <1>. PICK d \in Contexts : d = facade.active
    BY <1>1
  <1>3. \A h \in Guests : NoRestore(d, h)
    BY DEF NoRestores
  <1>4. \A h \in Guests : NoRestore(d, h)'
    BY <1>2, <1>3
  <1>5. d = facade'.active
    OBVIOUS
  <1>. QED
    BY <1>4, <1>5 DEF NoRestores, NoRestore, Queue

LEMMA RestingPosted ==
    ASSUME TypeOK, NEW k \in CallIds, NEW c \in Contexts, NEW now, NEW do, NEW place,
           Posted(k, c, now, do, place), StatesKept, now = {} \/ do = "shutdown",
           AtRest, facade'.active = facade.active,
           store'.head = store.head, store'.gens = store.gens
    PROVE  AtRest'
  <1>1. facade.active \in Contexts
    BY DEF TypeOK, FacadeType
  <1>. PICK d \in Contexts : d = facade.active
    BY <1>1
  <1>2. ASSUME NEW h \in Guests, NEW memory, Resting(guest[d][h], memory)
        PROVE  Resting(guest'[d][h], memory)
    <2>. DEFINE q == Queue(d, h)
    <2>1. Len(q) \in Nat /\ \A i \in 1..Len(q) : q[i].do = "shutdown"
      BY <1>2, QueueTyped DEF Resting, Queue
    <2>2. \A i \in 1..Len(q) : guest'[d][h].queue[i].do = "shutdown"
      <3>1. \A i \in 1..Len(q) : SameCommand(guest'[d][h].queue[i], q[i])
        BY DEF Posted
      <3>. HIDE DEF q
      <3>. QED
        BY <2>1, <3>1 DEF SameCommand
    <2>3. \/ Len(guest'[d][h].queue) = Len(q)
          \/ /\ Len(guest'[d][h].queue) = Len(q) + 1
             /\ guest'[d][h].queue[Len(q) + 1].do = "shutdown"
      BY DEF Posted
    <2>4. \A i \in 1..(Len(q) + 1) : i = Len(q) + 1 \/ i \in 1..Len(q)
      BY <2>1
    <2>5. \A i \in 1..Len(guest'[d][h].queue) : guest'[d][h].queue[i].do = "shutdown"
      BY <2>2, <2>3, <2>4
    <2>. QED
      BY <1>2, <2>5 DEF Resting, StatesKept
  <1>. QED
    BY <1>2 DEF AtRest

LEMMA QuietStep ==
    ASSUME IInv, NEW k \in CallIds, NEW now \in SUBSET Guests, NEW do,
           CallStep(k, now, do), Legal(k, now), StatesKept, FacadeKept,
           UNCHANGED <<store, coord>>, call[k].at \notin {"releasing", "givingUp"},
           apart' \in BOOLEAN, apart' => apart /\ Alone(k),
           apart' => Quietly(k, now, do)
    PROVE  IInv'
  <1>1. AlwaysInv /\ TypeOK
    BY DEF IInv, AlwaysInv
  <1>2. TypeOK'
    BY <1>1 DEF TypeOK, CallStep, Moved, GuestsTyped, FacadeKept
  <1>3. AlwaysInv'
    BY <1>1, <1>2, AlwaysStep
  <1>. SUFFICES ASSUME apart' PROVE ApartInv'
    BY <1>3 DEF IInv
  <1>4. ApartInv /\ Alone(k) /\ Quietly(k, now, do)
    BY DEF IInv
  <1>5. \A j \in CallIds : j # k => call'[j] = call[j] /\ ~InFlight(j) /\ ~InFlight(j)'
    BY <1>4 DEF CallStep, Moved, Alone, InFlight
  <1>6. Sole' /\ \A j \in CallIds : InFlight(j)' => Phase(j)'
    BY <1>4, <1>5 DEF Sole, Quietly, InFlight
  <1>7. facade.active \in Contexts /\ call'[k].ctx \in Contexts
    BY <1>1, <1>2 DEF TypeOK, FacadeType, CallType
  <1>8. Posted(k, call'[k].ctx, now, do, call'[k].at)
    BY DEF CallStep
  <1>9. RestoresDone'
    <2>1. ASSUME NEW c \in Contexts, NEW g \in Guests,
                 c # facade.active \/ store.head = 0 \/ facade'.life = "hot"
          PROVE  NoRestore(c, g)'
      <3>1. NoRestore(c, g)
        BY <1>4, <2>1 DEF ApartInv, RestoresDone, Quietly, NoRestores
      <3>2. ~(c = call'[k].ctx /\ g \in now) \/ do # "restore"
        BY <1>4, <2>1 DEF Quietly
      <3>3. PICK x \in Contexts : x = call'[k].ctx
        BY <1>7
      <3>. PICK place : Posted(k, x, now, do, place)
        BY <1>8, <3>3
      <3>4. ~(c = x /\ g \in now) \/ do # "restore"
        BY <3>2, <3>3
      <3>5. \A d \in Contexts, h \in Guests :
              NoRestore(d, h) /\ (~(d = x /\ h \in now) \/ do # "restore") => NoRestore(d, h)'
        BY <1>1, NoRestorePosted, Zenon
      <3>. QED
        BY <3>1, <3>4, <3>5
    <2>. QED
      BY <2>1 DEF RestoresDone, FacadeKept
  <1>10. OneMoment'
    BY <1>4 DEF ApartInv, OneMoment
  <1>11. ClosedKept'
    <2>1. ASSUME facade'.life \in {"cold", "cleanupIncomplete"}
          PROVE  AtRest'
      <3>1. AtRest /\ (now = {} \/ do = "shutdown")
        BY <1>4, <2>1 DEF Quietly, ApartInv, ClosedKept
      <3>2. store'.head = store.head /\ store'.gens = store.gens
        OBVIOUS
      <3>. QED
        BY <1>1, <1>7, <1>8, <3>1, <3>2, RestingPosted DEF FacadeKept
    <2>2. ASSUME facade'.life = "cold"
          PROVE  /\ facade'.token = 0 /\ coord'.lock = 0
                 /\ \A g \in Guests : guest'[facade'.active][g].state = "stopped"
      <3>1. facade.life = "cold"
        BY <1>4, <2>2 DEF Quietly
      <3>. QED
        BY <1>4, <1>7, <3>1 DEF ApartInv, ClosedKept, FacadeKept, StatesKept
    <2>. QED
      BY <2>1, <2>2 DEF ClosedKept
  <1>12. LockKept'
    <2>1. \A j \in CallIds : ~Stopper(j)
      BY <1>5 DEF Stopper, InFlight, At
    <2>. QED
      BY <1>4, <2>1 DEF ApartInv, LockKept, FacadeKept
  <1>13. HeadKept'
    <2>1. ASSUME NEW j \in CallIds, LeftBehind(j) PROVE LeftBehind(j)'
      <3>1. CASE j = k
        BY <1>4, <2>1, <3>1 DEF Quietly
      <3>2. CASE j # k
        BY <1>5, <2>1, <3>2 DEF LeftBehind, At
      <3>. QED
        BY <3>1, <3>2
    <2>. QED
      BY <1>4, <2>1 DEF ApartInv, HeadKept, FacadeKept
  <1>. QED
    BY <1>6, <1>9, <1>10, <1>11, <1>12, <1>13 DEF ApartInv

Plainly == {"pausing", "unpausing", "readingHead", "resuming", "rollback", "unbooting",
            "booting", "restoring", "resumingAll", "staging", "pausingCandidate",
            "readingArchive", "unstaging", "retiring", "reading"}

LEMMA PlainPhase ==
    ASSUME NEW k \in CallIds, LifeFits(k)', OnActive(k)', RestoresFit(k)',
           \/ call'[k].at \in Plainly
           \/ call'[k].at = "pruning" /\ call'[k].kind # "suspend"
    PROVE  Phase(k)'
  BY DEF Phase, CapturesFit, ClosingFits, LockFits, HeadFits, Committed, At, Plainly

-----------------------------------------------------------------------------
(* ... that pause the computer *)

LEMMA Errored ==
    ASSUME NEW r \in CallType
    PROVE  LET s == [r EXCEPT !.error = TRUE] IN
           /\ s \in CallType /\ s.kind = r.kind /\ s.ctx = r.ctx /\ s.ids = r.ids
           /\ s.gen = r.gen /\ s.aborted = r.aborted /\ s.error
  <1>. DEFINE s == [r EXCEPT !.error = TRUE]
  <1>1. s \in CallType
    BY DEF CallType
  <1>2. s.error
    BY DEF CallType
  <1>3. /\ s.kind = r.kind /\ s.ctx = r.ctx /\ s.ids = r.ids
        /\ s.gen = r.gen /\ s.aborted = r.aborted
    BY DEF CallType
  <1>. QED
    BY <1>1, <1>2, <1>3

LEMMA Inside ==
    ASSUME NEW c, NEW states
    PROVE  In(c, states) \in SUBSET Guests /\ NotStopped(c) \in SUBSET Guests
  BY DEF In, NotStopped

LEMMA FacadeLife ==
    ASSUME TypeOK, NEW life \in AnyLife
    PROVE  LET f == [facade EXCEPT !.life = life] IN
           /\ f \in FacadeType /\ f.life = life /\ f.active = facade.active
           /\ f.token = facade.token /\ f.initialized = facade.initialized
  BY DEF TypeOK, FacadeType

LEMMA FacadeStays ==
    ASSUME TypeOK, UNCHANGED facade
    PROVE  FacadeKept /\ facade'.life = facade.life
  BY DEF TypeOK, FacadeKept

LEMMA BeginPausingStep ==
    ASSUME IInv, AlwaysInv, TypeOK, NEW k \in CallIds, NEW kind \in Capturers,
           Len(store.gens) \in Nat, facade.active \in Contexts,
           BeginPausing(k, kind), call[k].at \in {"idle", "readingArchive"},
           FacadeKept, UNCHANGED <<store, coord>>,
           kind = "suspend" => facade'.life = "draining",
           kind # "suspend" => facade'.life = facade.life,
           apart' \in BOOLEAN, apart' => apart /\ ApartInv /\ Alone(k) /\ facade.life = "hot"
    PROVE  IInv'
  <1>. DEFINE ids == In(facade.active, {"running"})
              r == [NoCall EXCEPT !.kind = kind, !.ctx = facade.active, !.ids = ids]
  <1>1. kind \in AnyKind
    BY DEF Capturers, AnyKind
  <1>2. ids \in SUBSET Guests
    BY Inside
  <1>3. AskNext(k, r, r.ctx, ids, "pause", "pausing", NoMemory)
    BY DEF BeginPausing
  <1>. HIDE DEF ids
  <1>4. r \in CallType /\ r.kind = kind /\ r.ctx = facade.active
    <2>1. NoCall \in CallType
      BY Constants_
    <2>. QED
      BY <1>1, <1>2, <2>1 DEF CallType
  <1>. HIDE DEF r
  <1>5. /\ CallStep(k, call'[k].asked, "pause") /\ StatesKept /\ Carries(k, r, "pausing")
        /\ Posted(k, r.ctx, call'[k].asked, "pause", "pausing")
        /\ call'[k].todo = ids /\ call'[k].asked \in SUBSET ids
        /\ call'[k].asked \in SUBSET Guests
        /\ \A g, h \in call'[k].asked : g = h
    <2>1. NoMemory \in Memory
      BY DEF NoMemory, Memory
    <2>2. "pause" \in AnyCommand /\ "pausing" \in Awaits /\ Asks("pausing", "pause")
      BY Names DEF Asks
    <2>. QED
      BY <1>2, <1>3, <1>4, <2>1, <2>2, AskNextSteps
  <1>6. call'[k].kind = kind /\ call'[k].ctx = facade.active /\ call'[k].at = "pausing"
    BY <1>4, <1>5 DEF Carries
  <1>7. Legal(k, call'[k].asked)
    <2>1. Len(store.gens) <= Len(store'.gens)
      <3>1. store' = store
        OBVIOUS
      <3>2. PICK n \in Nat : n = Len(store.gens)
        OBVIOUS
      <3>. QED
        BY <3>1, <3>2
    <2>2. Fits(call'[k].kind, call'[k].at)
      BY <1>6 DEF Fits
    <2>3. At(k, NoCommandsYet) /\ ~At(k, {"done"}) /\ ~At(k, {"pausing", "restoring"})
      BY DEF At, NoCommandsYet
    <2>4. call'[k].at \notin NoCommandsYet
      BY <1>6 DEF NoCommandsYet
    <2>. QED
      BY <1>5, <1>6, <2>1, <2>2, <2>3, <2>4 DEF Legal, At
  <1>8. ASSUME apart' PROVE Quietly(k, call'[k].asked, "pause")
    <2>1. facade.life = "hot" /\ RestoresDone /\ facade'.active = facade.active
      BY <1>8 DEF ApartInv, FacadeKept
    <2>2. NoRestores
      BY <2>1 DEF RestoresDone, NoRestores
    <2>3. NoRestores'
      BY <1>5, <2>1, <2>2, <1>4, NoRestoresPosted
    <2>4. LifeFits(k)'
      BY <1>6, <2>1 DEF LifeFits, Capturers
    <2>5. OnActive(k)'
      BY <1>6, <2>1 DEF OnActive
    <2>6. RestoresFit(k)'
      BY <1>6, <2>3 DEF RestoresFit, At
    <2>7. Phase(k)'
      BY <1>6, <2>4, <2>5, <2>6, PlainPhase DEF Plainly
    <2>8. ~LeftBehind(k)
      BY DEF LeftBehind, At
    <2>. QED
      BY <2>1, <2>2, <2>7, <2>8 DEF Quietly
  <1>9. call[k].at \notin {"releasing", "givingUp"}
    OBVIOUS
  <1>10. PICK now \in SUBSET Guests : now = call'[k].asked
    BY <1>5
  <1>. QED
    BY <1>5, <1>7, <1>8, <1>9, <1>10, QuietStep

LEMMA SaveStep ==
    ASSUME IInv, NEW k \in CallIds, Save(k) \/ ExportImage(k) \/ Suspend(k)
    PROVE  IInv'
  <1>1. ASSUME NEW kind \in {"save", "exportImage", "suspend"}, Begin(k, kind), IsHot,
               BeginPausing(k, kind), UNCHANGED <<store, coord>>,
               facade' = IF kind = "suspend" THEN [facade EXCEPT !.life = "draining"]
                         ELSE facade
        PROVE  IInv'
    <2>1. /\ AlwaysInv /\ TypeOK /\ Len(store.gens) \in Nat
          /\ call[k].at = "idle" /\ facade.active \in Contexts
          /\ apart' \in BOOLEAN /\ (apart' => apart /\ ApartInv /\ Alone(k))
      BY <1>1, Begins
    <2>2. /\ FacadeKept
          /\ kind = "suspend" => facade'.life = "draining"
          /\ kind # "suspend" => facade'.life = facade.life
      <3>1. CASE kind = "suspend"
        <4>1. "draining" \in AnyLife
          BY DEF AnyLife
        <4>. QED
          BY <1>1, <2>1, <3>1, <4>1, FacadeLife DEF FacadeKept
      <3>2. CASE kind # "suspend"
        BY <1>1, <2>1, <3>2, FacadeStays
      <3>. QED
        BY <3>1, <3>2
    <2>3. facade.life = "hot" /\ call[k].at \in {"idle", "readingArchive"} /\ kind \in Capturers
      BY <1>1, <2>1 DEF IsHot, At, Capturers
    <2>. QED
      BY <1>1, <2>1, <2>2, <2>3, BeginPausingStep
  <1>2. CASE Save(k)
    BY <1>1, <1>2 DEF Save
  <1>3. CASE ExportImage(k)
    BY <1>1, <1>3 DEF ExportImage
  <1>4. CASE Suspend(k)
    BY <1>1, <1>4 DEF Suspend
  <1>. QED
    BY <1>2, <1>3, <1>4

LEMMA ImportImageStep ==
    ASSUME IInv, NEW k \in CallIds, ImportImage(k)
    PROVE  IInv'
  <1>. DEFINE r == [NoCall EXCEPT !.kind = "importImage"]
  <1>1. /\ AlwaysInv /\ TypeOK /\ Len(store.gens) \in Nat
        /\ call[k].at = "idle" /\ call[k].kind = "none" /\ facade.active \in Contexts
        /\ apart' \in BOOLEAN /\ (apart' => apart /\ ApartInv /\ Alone(k))
        /\ UNCHANGED <<facade, guest, store, coord>>
        /\ facade.life = "hot" /\ Go(k, r, "readingArchive")
    BY Begins DEF ImportImage, IsHot
  <1>2. r \in CallType /\ r.kind = "importImage"
    <2>1. NoCall \in CallType
      BY Constants_
    <2>. QED
      BY <2>1 DEF CallType, AnyKind
  <1>. HIDE DEF r
  <1>3. "readingArchive" \in Awaits
    BY Names
  <1>4. /\ CallStep(k, {}, "none") /\ StatesKept /\ Carries(k, r, "readingArchive")
    BY <1>1, <1>2, <1>3, GoSteps
  <1>5. call'[k].kind = "importImage" /\ call'[k].at = "readingArchive"
    BY <1>2, <1>4 DEF Carries
  <1>6. Legal(k, {})
    <2>1. Len(store.gens) <= Len(store'.gens)
      BY <1>1
    <2>. QED
      BY <1>1, <1>5, <2>1 DEF Legal, Fits, At, NoCommandsYet
  <1>7. FacadeKept /\ facade'.life = facade.life
    BY <1>1, FacadeStays
  <1>8. ASSUME apart' PROVE Quietly(k, {}, "none")
    <2>1. LifeFits(k)' /\ OnActive(k)' /\ RestoresFit(k)'
      BY <1>1, <1>5 DEF LifeFits, OnActive, RestoresFit, At
    <2>2. Phase(k)'
      BY <1>5, <2>1, PlainPhase DEF Plainly
    <2>. QED
      BY <1>1, <1>7, <2>2 DEF Quietly, LeftBehind
  <1>. QED
    BY <1>1, <1>4, <1>6, <1>7, <1>8, QuietStep

\* A call that ends, having asked nobody anything.
LEMMA FinishStep ==
    ASSUME IInv, NEW k \in CallIds, InFlight(k), UNCHANGED <<guest, store, coord, apart>>,
           NEW r \in CallType, NEW error \in BOOLEAN, Finish(k, r, error),
           r.kind = call[k].kind, r.gen = call[k].gen,
           call[k].at \notin {"releasing", "givingUp", "pausing", "restoring"}, FacadeKept,
           apart' => (facade'.life = "hot" => facade.life = "hot" \/ NoRestores),
           facade'.life \in {"cold", "cleanupIncomplete"} => facade'.life = facade.life,
           LeftBehind(k) => error
    PROVE  IInv'
  <1>1. /\ AlwaysInv /\ TypeOK /\ Len(store.gens) \in Nat
        /\ call[k] \in CallType /\ Fits(call[k].kind, call[k].at)
        /\ apart' \in BOOLEAN /\ (apart' => apart /\ Alone(k))
    BY Continues
  <1>2. /\ Moved(k)
        /\ call'[k].at = "done" /\ call'[k].kind = call[k].kind /\ call'[k].gen = call[k].gen
        /\ call'[k].error = error
    BY <1>1, FinishMoves
  <1>3. CallStep(k, {}, "none") /\ StatesKept
    BY <1>1, <1>2, StillSteps
  <1>4. Legal(k, {})
    <2>1. Len(store.gens) <= Len(store'.gens)
      BY <1>1
    <2>2. call[k].kind # "none" /\ call[k].at # "done"
      BY <1>1 DEF Fits, InFlight, Capturers, Closers
    <2>3. Fits(call'[k].kind, call'[k].at) /\ ~At(k, {"done"})
      BY <1>2, <2>2 DEF Fits, At
    <2>4. call'[k].at \notin NoCommandsYet /\ call'[k].at = "done"
      BY <1>2 DEF NoCommandsYet
    <2>5. ~At(k, {"pausing", "restoring"})
      BY DEF At
    <2>. QED
      BY <2>1, <2>3, <2>4, <2>5 DEF Legal
  <1>5. ASSUME apart' PROVE Quietly(k, {}, "none")
    <2>1. LeftBehind(k) => LeftBehind(k)'
      BY <1>2 DEF LeftBehind, At
    <2>. QED
      BY <1>2, <1>5, <2>1 DEF Quietly
  <1>. QED
    BY <1>1, <1>3, <1>4, <1>5, QuietStep

LEMMA ArchiveReadStep ==
    ASSUME IInv, NEW k \in CallIds, ArchiveRead(k)
    PROVE  IInv'
  <1>1. InFlight(k) /\ UNCHANGED <<facade, store, coord, apart>> /\ call[k].at = "readingArchive"
    BY DEF ArchiveRead, InFlight
  <1>2. /\ AlwaysInv /\ TypeOK /\ Len(store.gens) \in Nat
        /\ call[k] \in CallType /\ Fits(call[k].kind, call[k].at)
        /\ apart' \in BOOLEAN /\ (apart' => apart /\ ApartInv /\ Alone(k) /\ LifeFits(k))
        /\ facade.active \in Contexts
    BY <1>1, Continues
  <1>3. call[k].kind = "importImage"
    BY <1>1, <1>2 DEF Fits, Capturers, Closers
  <1>4. FacadeKept /\ facade'.life = facade.life
    BY <1>1, <1>2, FacadeStays
  <1>5. CASE BeginPausing(k, "importImage")
    <2>1. "importImage" \in Capturers
      BY DEF Capturers
    <2>2. apart' => apart /\ ApartInv /\ Alone(k) /\ facade.life = "hot"
      BY <1>2, <1>3 DEF LifeFits
    <2>. QED
      BY <1>1, <1>2, <1>4, <1>5, <2>1, <2>2, BeginPausingStep
  <1>6. CASE Finish(k, call[k], TRUE) /\ UNCHANGED guest
    <2>1. TRUE \in BOOLEAN
      OBVIOUS
    <2>. QED
      BY <1>1, <1>2, <1>4, <1>6, <2>1, FinishStep
  <1>. QED
    BY <1>5, <1>6 DEF ArchiveRead

LEMMA PauseNextStep ==
    ASSUME IInv, NEW k \in CallIds, PauseNext(k)
    PROVE  IInv'
  <1>1. /\ InFlight(k) /\ UNCHANGED <<facade, store, coord, apart>>
        /\ call[k].at = "pausing" /\ call[k].asked = {} /\ ~call[k].failed
        /\ AskNext(k, call[k], call[k].ctx, call[k].todo, "pause", "pausing", NoMemory)
    BY DEF PauseNext, InFlight, Answered
  <1>2. /\ AlwaysInv /\ TypeOK /\ Len(store.gens) \in Nat
        /\ call[k] \in CallType /\ Fits(call[k].kind, call[k].at)
        /\ apart' \in BOOLEAN
        /\ apart' => apart /\ Alone(k) /\ LifeFits(k) /\ OnActive(k) /\ RestoresFit(k)
    BY <1>1, Continues
  <1>3. FacadeKept /\ facade'.life = facade.life
    BY <1>1, <1>2, FacadeStays
  <1>4. /\ CallStep(k, call'[k].asked, "pause") /\ StatesKept /\ Carries(k, call[k], "pausing")
        /\ Posted(k, call[k].ctx, call'[k].asked, "pause", "pausing")
        /\ call'[k].todo = call[k].todo /\ call'[k].asked \in SUBSET call[k].todo
        /\ call'[k].asked \in SUBSET Guests
        /\ \A g, h \in call'[k].asked : g = h
    <2>1. NoMemory \in Memory
      BY DEF NoMemory, Memory
    <2>2. "pause" \in AnyCommand /\ "pausing" \in Awaits /\ Asks("pausing", "pause")
      BY Names DEF Asks
    <2>3. call[k].todo \in SUBSET Guests
      BY <1>2 DEF CallType
    <2>. QED
      BY <1>1, <1>2, <2>1, <2>2, <2>3, AskNextSteps
  <1>5. /\ call'[k].kind = call[k].kind /\ call'[k].ctx = call[k].ctx /\ call'[k].at = "pausing"
        /\ call[k].kind \in Capturers
    BY <1>1, <1>2, <1>4 DEF Carries, Fits, Closers
  <1>6. Legal(k, call'[k].asked)
    <2>1. Len(store.gens) <= Len(store'.gens)
      BY <1>1, <1>2
    <2>2. Fits(call'[k].kind, call'[k].at)
      BY <1>5 DEF Fits
    <2>. QED
      BY <1>1, <1>4, <1>5, <2>1, <2>2 DEF Legal, At, NoCommandsYet
  <1>7. ASSUME apart' PROVE Quietly(k, call'[k].asked, "pause")
    <2>1. NoRestores => NoRestores'
      BY <1>1, <1>2, <1>4, NoRestoresPosted DEF CallType
    <2>2. LifeFits(k)' /\ OnActive(k)' /\ RestoresFit(k)'
      BY <1>1, <1>2, <1>5, <1>7, <2>1 DEF LifeFits, OnActive, RestoresFit, At, Capturers
    <2>3. Phase(k)'
      BY <1>5, <2>2, PlainPhase DEF Plainly
    <2>. QED
      BY <1>1, <1>2, <1>3, <1>5, <1>7, <2>3 DEF Quietly, LeftBehind, At, LifeFits, Capturers
  <1>8. PICK now \in SUBSET Guests : now = call'[k].asked
    BY <1>4
  <1>. QED
    BY <1>1, <1>2, <1>3, <1>4, <1>6, <1>7, <1>8, QuietStep

\* A step that asks for commands, from an await of which all have answered.
LEMMA AskStep ==
    ASSUME IInv, NEW k \in CallIds, InFlight(k), UNCHANGED <<store, coord, apart>>,
           NEW r \in CallType, NEW gs \in SUBSET Guests, NEW do \in AnyCommand,
           NEW place \in Awaits, Asks(place, do), Ask(k, r, r.ctx, gs, do, place),
           r.kind = call[k].kind, r.ctx = call[k].ctx, Fits(r.kind, place),
           call[k].at \notin {"releasing", "givingUp"},
           call[k].at \in {"pausing", "restoring"} => call[k].asked = {},
           do \notin {"pause", "restore"}, FacadeKept,
           apart' => Quietly(k, call'[k].asked, do)
    PROVE  IInv'
  <1>1. /\ AlwaysInv /\ TypeOK /\ Len(store.gens) \in Nat
        /\ call[k] \in CallType /\ Fits(call[k].kind, call[k].at)
        /\ apart' \in BOOLEAN /\ (apart' => apart /\ Alone(k))
    BY Continues
  <1>2. /\ CallStep(k, call'[k].asked, do) /\ StatesKept /\ Carries(k, r, place)
        /\ call'[k].asked \in SUBSET Guests
    BY <1>1, AskSteps
  <1>3. /\ call'[k].kind = call[k].kind /\ call'[k].ctx = call[k].ctx /\ call'[k].at = place
    BY <1>2 DEF Carries
  <1>4. Legal(k, call'[k].asked)
    <2>1. Len(store.gens) <= Len(store'.gens)
      BY <1>1
    <2>2. call[k].kind # "none" /\ call[k].at # "done"
      BY <1>1 DEF Fits, InFlight, Capturers, Closers
    <2>3. Fits(call'[k].kind, call'[k].at) /\ ~At(k, {"done"})
      BY <1>3, <2>2 DEF At
    <2>4. place \in {"unpausing", "resuming", "rollback", "resumingAll", "capturing",
                     "booting", "unbooting", "stopping", "retiring"}
      BY DEF Asks, AnyCommand
    <2>5. call'[k].at \notin NoCommandsYet \union {"pausing", "readingHead", "flushing", "restoring",
                     "pausingCandidate", "publishing", "adopting", "idle"}
      BY <1>3, <2>4 DEF NoCommandsYet
    <2>. QED
      BY <1>3, <2>1, <2>3, <2>5 DEF Legal, At
  <1>5. PICK now \in SUBSET Guests : now = call'[k].asked
    BY <1>2
  <1>. QED
    BY <1>1, <1>2, <1>4, <1>5, QuietStep

\* What every step of that kind keeps true of a call that goes on.
LEMMA AskKeeps ==
    ASSUME TypeOK, NEW k \in CallIds, NEW r \in CallType, NEW gs \in SUBSET Guests,
           NEW do \in AnyCommand, NEW place \in Awaits, Asks(place, do), do # "restore",
           Ask(k, r, r.ctx, gs, do, place), FacadeKept
    PROVE  /\ call'[k].kind = r.kind /\ call'[k].ctx = r.ctx /\ call'[k].at = place
           /\ call'[k].gen = r.gen /\ call'[k].error = r.error
           /\ NoRestores => NoRestores'
  <1>1. /\ Carries(k, r, place) /\ Posted(k, r.ctx, call'[k].asked, do, place)
    BY AskSteps
  <1>2. r.ctx \in Contexts
    BY DEF CallType
  <1>3. NoRestores => NoRestores'
    BY <1>1, <1>2, NoRestoresPosted DEF FacadeKept
  <1>. QED
    BY <1>1, <1>3 DEF Carries

LEMMA OperationFailsStep ==
    ASSUME IInv, NEW k \in CallIds, UNCHANGED <<store, coord, apart>>,
           NEW r \in CallType, OperationFails(k, r),
           r.kind = call[k].kind, r.ctx = call[k].ctx,
           call[k].kind \in {"save", "exportImage", "suspend"},
           call[k].at \in {"pausing", "readingHead", "flushing", "capturing", "committing", "verifying"},
           call[k].at = "pausing" => call[k].asked = {}
    PROVE  IInv'
  <1>1. InFlight(k)
    BY DEF InFlight
  <1>2. /\ AlwaysInv /\ TypeOK /\ Len(store.gens) \in Nat
        /\ call[k] \in CallType /\ Fits(call[k].kind, call[k].at)
        /\ apart' => apart /\ ApartInv /\ Alone(k) /\ LifeFits(k) /\ OnActive(k) /\ RestoresFit(k)
        /\ facade.active \in Contexts
    BY <1>1, Continues
  <1>. DEFINE s == [r EXCEPT !.error = TRUE]
              gs == s.ids \cap In(s.ctx, {"paused"})
  <1>3. /\ s \in CallType /\ s.kind = r.kind /\ s.ctx = r.ctx /\ s.ids = r.ids
    BY Errored
  <1>4. PICK place \in {"rollback", "resuming"} :
           /\ Ask(k, s, s.ctx, gs, "resume", place)
           /\ place = "rollback" <=> call[k].kind = "suspend"
    <2>1. CASE r.kind = "suspend"
      BY <2>1 DEF OperationFails, ResumeIds
    <2>2. CASE r.kind # "suspend"
      BY <2>2 DEF OperationFails, ResumeIds
    <2>. QED
      BY <2>1, <2>2
  <1>5. /\ FacadeKept
        /\ r.kind = "suspend" => facade'.life = "hot"
        /\ r.kind # "suspend" => facade'.life = facade.life
    <2>1. CASE r.kind = "suspend"
      <3>1. facade' = [facade EXCEPT !.saved = "unsaved", !.life = "hot"]
        BY <2>1 DEF OperationFails
      <3>. QED
        BY <1>2, <2>1, <3>1 DEF TypeOK, FacadeType, FacadeKept, AnyLife
    <2>2. CASE r.kind # "suspend"
      <3>1. UNCHANGED facade
        BY <2>2 DEF OperationFails
      <3>. QED
        BY <1>2, <2>2, <3>1, FacadeStays
    <2>. QED
      BY <2>1, <2>2
  <1>6. gs \in SUBSET Guests
    BY <1>3 DEF CallType
  <1>. HIDE DEF s, gs
  <1>7. "resume" \in AnyCommand /\ place \in Awaits /\ Asks(place, "resume")
    BY Names DEF Asks
  <1>8. /\ call'[k].kind = call[k].kind /\ call'[k].ctx = call[k].ctx /\ call'[k].at = place
        /\ NoRestores => NoRestores'
    BY <1>2, <1>3, <1>4, <1>5, <1>6, <1>7, AskKeeps
  <1>9. ASSUME apart' PROVE Quietly(k, call'[k].asked, "resume")
    <2>1. LifeFits(k)' /\ OnActive(k)' /\ RestoresFit(k)'
      BY <1>2, <1>4, <1>5, <1>8, <1>9 DEF LifeFits, OnActive, RestoresFit, At, FacadeKept
    <2>2. Phase(k)'
      BY <1>4, <1>8, <2>1, PlainPhase DEF Plainly
    <2>3. facade'.life = "hot"
      BY <1>2, <1>5, <1>9 DEF LifeFits
    <2>4. facade.life = "hot" \/ NoRestores
      BY <1>2, <1>9 DEF LifeFits, RestoresFit
    <2>. QED
      BY <2>2, <2>3, <2>4 DEF Quietly, LeftBehind
  <1>10. Fits(s.kind, place)
    BY <1>3, <1>4 DEF Fits
  <1>. QED
    BY <1>1, <1>3, <1>4, <1>5, <1>6, <1>7, <1>9, <1>10, AskStep

\* A step that goes on to another await and asks nobody anything.
LEMMA GoStep ==
    ASSUME IInv, NEW k \in CallIds, InFlight(k), UNCHANGED <<guest, store, coord, apart>>,
           NEW r \in CallType, NEW place \in Awaits, Go(k, r, place),
           r.kind = call[k].kind, r.ctx = call[k].ctx, Fits(r.kind, place),
           place \notin NoCommandsYet \union {"idle", "done", "pausing", "restoring"},
           place \in {"readingHead", "flushing"} => call[k].at \in {"pausing", "readingHead"},
           place \in {"pausingCandidate", "publishing", "adopting"} => r.cand \in Contexts,
           call[k].at \notin {"releasing", "givingUp"},
           call[k].at \in {"pausing", "restoring"} => call[k].asked = {}, FacadeKept,
           apart' => Quietly(k, {}, "none")
    PROVE  IInv'
  <1>1. /\ AlwaysInv /\ TypeOK /\ Len(store.gens) \in Nat
        /\ call[k] \in CallType /\ Fits(call[k].kind, call[k].at)
        /\ apart' \in BOOLEAN /\ (apart' => apart /\ Alone(k))
    BY Continues
  <1>2. CallStep(k, {}, "none") /\ StatesKept /\ Carries(k, r, place)
    BY <1>1, GoSteps
  <1>3. /\ call'[k].kind = call[k].kind /\ call'[k].ctx = call[k].ctx /\ call'[k].at = place
        /\ call'[k].cand = r.cand
    BY <1>2 DEF Carries
  <1>4. Legal(k, {})
    <2>1. Len(store.gens) <= Len(store'.gens)
      BY <1>1
    <2>2. call[k].kind # "none" /\ call[k].at # "done"
      BY <1>1 DEF Fits, InFlight, Capturers, Closers
    <2>3. Fits(call'[k].kind, call'[k].at) /\ ~At(k, {"done"})
      BY <1>3, <2>2 DEF At
    <2>. QED
      BY <1>3, <2>1, <2>3 DEF Legal, At
  <1>. QED
    BY <1>1, <1>2, <1>4, QuietStep

\* What every step of that kind keeps true.
LEMMA GoKeeps ==
    ASSUME TypeOK, NEW k \in CallIds, NEW r \in CallType, NEW place \in Awaits,
           Go(k, r, place), UNCHANGED guest, FacadeKept
    PROVE  /\ call'[k].kind = r.kind /\ call'[k].ctx = r.ctx /\ call'[k].at = place
           /\ call'[k].gen = r.gen /\ call'[k].error = r.error
           /\ call'[k].mem = r.mem /\ call'[k].disk = r.disk
           /\ NoRestores => NoRestores'
  <1>1. Carries(k, r, place)
    BY GoSteps
  <1>2. NoRestores => NoRestores'
    BY DEF NoRestores, NoRestore, Queue, FacadeKept
  <1>. QED
    BY <1>1, <1>2 DEF Carries

\* No guest is about to be paused behind another command.
LEMMA PausesAreOver ==
    ASSUME AlwaysInv, NEW k \in CallIds, Alone(k), call[k].at = "pausing" => call[k].asked = {}
    PROVE  \A c \in Contexts, g \in Guests : \A i \in 1..Len(Queue(c, g)) :
              Queue(c, g)[i].do = "pause" /\ ~Queue(c, g)[i].void => i = 1
  <1>. SUFFICES ASSUME NEW c \in Contexts, NEW g \in Guests, NEW i \in 1..Len(Queue(c, g)),
                       Queue(c, g)[i].do = "pause", ~Queue(c, g)[i].void, i > 1
                PROVE  FALSE
    <2>1. \A c \in Contexts, g \in Guests : Len(Queue(c, g)) \in Nat
      BY QueueTyped DEF AlwaysInv
    <2>. QED
      BY <2>1
  <1>. DEFINE cmd == Queue(c, g)[i]
  <1>1. cmd.by \in CallIds /\ Turn(cmd)
    BY QueueTyped DEF AlwaysInv, Turn
  <1>2. cmd.place = "pausing"
    BY DEF AlwaysInv, CommandsFit, Asks
  <1>3. call[cmd.by].at = "pausing" /\ g \in call[cmd.by].asked
    BY <1>1, <1>2 DEF AlwaysInv, TurnsTaken, TurnAwaited
  <1>4. cmd.by = k
    BY <1>1, <1>3 DEF Alone, InFlight
  <1>. QED
    BY <1>3, <1>4

LEMMA StartCaptureStep ==
    ASSUME IInv, NEW k \in CallIds, UNCHANGED <<store, coord, apart>>,
           NEW r \in CallType, StartCapture(k, r),
           r.kind = call[k].kind, r.ctx = call[k].ctx,
           call[k].kind \in {"save", "exportImage", "suspend"},
           call[k].at \in {"pausing", "readingHead"},
           call[k].at = "pausing" => call[k].asked = {}
    PROVE  IInv'
  <1>1. InFlight(k)
    BY DEF InFlight
  <1>2. /\ AlwaysInv /\ TypeOK
        /\ call[k] \in CallType
        /\ apart' => apart /\ ApartInv /\ Alone(k) /\ LifeFits(k) /\ OnActive(k) /\ RestoresFit(k)
        /\ facade.active \in Contexts
    BY <1>1, Continues
  <1>3. CASE OperationFails(k, r)
    BY <1>3, OperationFailsStep
  <1>4. CASE In(r.ctx, {"paused"}) = Guests /\ Go(k, r, "flushing") /\ UNCHANGED <<facade, guest>>
    <2>1. FacadeKept /\ facade'.life = facade.life
      BY <1>2, <1>4, FacadeStays
    <2>2. "flushing" \in Awaits
      BY Names
    <2>3. /\ call'[k].kind = call[k].kind /\ call'[k].ctx = call[k].ctx /\ call'[k].at = "flushing"
          /\ NoRestores => NoRestores'
      BY <1>2, <1>4, <2>1, <2>2, GoKeeps
    <2>4. ASSUME apart' PROVE Quietly(k, {}, "none")
      <3>1. LifeFits(k)' /\ OnActive(k)' /\ RestoresFit(k)'
        BY <1>2, <2>1, <2>3, <2>4 DEF LifeFits, OnActive, RestoresFit, At, FacadeKept
      <3>2. PICK c \in Contexts : c = call[k].ctx
        BY <1>2 DEF CallType
      <3>3. \A g \in Guests : guest[c][g].state = "paused"
        BY <1>4, <3>2 DEF In
      <3>4. \A g \in Guests : \A i \in 1..Len(Queue(c, g)) :
               Queue(c, g)[i].do = "pause" /\ ~Queue(c, g)[i].void => i = 1
        BY <1>2, <2>4, <3>2, PausesAreOver
      <3>5. PausesWaited(k)'
        BY <1>4, <2>3, <3>2, <3>3, <3>4 DEF PausesWaited, Here, Queue
      <3>6. CapturesFit(k)'
        BY <2>3, <3>5 DEF CapturesFit, At, Committed
      <3>7. Phase(k)'
        BY <2>3, <3>1, <3>6 DEF Phase, ClosingFits, LockFits, HeadFits, At
      <3>. QED
        BY <2>1, <3>7 DEF Quietly, LeftBehind
    <2>5. Fits(r.kind, "flushing")
      BY DEF Fits
    <2>6. "flushing" \notin NoCommandsYet \union {"idle", "done", "pausing", "restoring"}
      BY DEF NoCommandsYet
    <2>. QED
      BY <1>1, <1>4, <2>1, <2>2, <2>4, <2>5, <2>6, GoStep
  <1>. QED
    BY <1>3, <1>4 DEF StartCapture

LEMMA PausedAllStep ==
    ASSUME IInv, NEW k \in CallIds, PausedAll(k)
    PROVE  IInv'
  <1>1. /\ InFlight(k) /\ UNCHANGED <<store, coord, apart>>
        /\ call[k].at = "pausing" /\ call[k].asked = {}
    BY DEF PausedAll, InFlight, Answered
  <1>2. /\ AlwaysInv /\ TypeOK
        /\ call[k] \in CallType /\ Fits(call[k].kind, call[k].at)
        /\ apart' \in BOOLEAN
        /\ apart' => apart /\ Alone(k) /\ LifeFits(k) /\ OnActive(k) /\ RestoresFit(k)
    BY <1>1, Continues
  <1>3. call[k].kind \in Capturers
    BY <1>1, <1>2 DEF Fits, Closers
  <1>4. ~LeftBehind(k)
    BY <1>1 DEF LeftBehind, At
  <1>5. CASE call[k].kind = "exportImage"
    <2>1. StartCapture(k, call[k])
      BY <1>5 DEF PausedAll
    <2>. QED
      BY <1>1, <1>2, <1>5, <2>1, StartCaptureStep
  <1>6. CASE call[k].kind = "importImage"
    <2>1. Go(k, call[k], "staging") /\ UNCHANGED <<facade, guest>>
      BY <1>6 DEF PausedAll
    <2>2. FacadeKept /\ facade'.life = facade.life
      BY <1>2, <2>1, FacadeStays
    <2>3. "staging" \in Awaits /\ Fits(call[k].kind, "staging")
      BY <1>6, Names DEF Fits
    <2>4. /\ call'[k].kind = call[k].kind /\ call'[k].ctx = call[k].ctx /\ call'[k].at = "staging"
      BY <1>2, <2>1, <2>2, <2>3, GoKeeps
    <2>5. ASSUME apart' PROVE Quietly(k, {}, "none")
      <3>1. LifeFits(k)' /\ OnActive(k)' /\ RestoresFit(k)'
        BY <1>1, <1>2, <1>6, <2>2, <2>4, <2>5 DEF LifeFits, OnActive, RestoresFit, At, FacadeKept
      <3>2. Phase(k)'
        BY <2>4, <3>1, PlainPhase DEF Plainly
      <3>. QED
        BY <1>4, <2>2, <3>2 DEF Quietly
    <2>6. "staging" \notin NoCommandsYet \union {"idle", "done", "pausing", "restoring"}
      BY DEF NoCommandsYet
    <2>. QED
      BY <1>1, <1>2, <2>1, <2>2, <2>3, <2>5, <2>6, GoStep
  <1>7. CASE call[k].kind \in {"save", "suspend"}
    <2>1. Go(k, call[k], "readingHead") /\ UNCHANGED guest
      BY <1>7 DEF PausedAll
    <2>2. /\ FacadeKept
          /\ call[k].kind = "suspend" => facade'.life = "committing"
          /\ call[k].kind # "suspend" => facade'.life = facade.life
      <3>1. CASE call[k].kind = "suspend"
        <4>1. "committing" \in AnyLife
          BY DEF AnyLife
        <4>2. facade' = [facade EXCEPT !.life = "committing"]
          BY <3>1 DEF PausedAll
        <4>. QED
          BY <1>2, <3>1, <4>1, <4>2, FacadeLife DEF FacadeKept
      <3>2. CASE call[k].kind = "save"
        <4>1. UNCHANGED facade
          BY <3>2 DEF PausedAll
        <4>. QED
          BY <1>2, <3>2, <4>1, FacadeStays
      <3>. QED
        BY <1>7, <3>1, <3>2
    <2>3. "readingHead" \in Awaits /\ Fits(call[k].kind, "readingHead")
      BY <1>7, Names DEF Fits
    <2>4. /\ call'[k].kind = call[k].kind /\ call'[k].ctx = call[k].ctx
          /\ call'[k].at = "readingHead"
          /\ NoRestores => NoRestores'
      BY <1>2, <2>1, <2>2, <2>3, GoKeeps
    <2>5. ASSUME apart' PROVE Quietly(k, {}, "none")
      <3>1. LifeFits(k)' /\ OnActive(k)' /\ RestoresFit(k)'
        BY <1>1, <1>2, <1>7, <2>2, <2>4, <2>5 DEF LifeFits, OnActive, RestoresFit, At, FacadeKept
      <3>2. Phase(k)'
        BY <2>4, <3>1, PlainPhase DEF Plainly
      <3>3. facade'.life = "hot" => facade.life = "hot"
        BY <1>7, <2>2
      <3>4. facade'.life \in {"cold", "cleanupIncomplete"} => facade'.life = facade.life
        BY <1>7, <2>2
      <3>. QED
        BY <1>4, <3>2, <3>3, <3>4 DEF Quietly
    <2>6. "readingHead" \notin NoCommandsYet \union {"idle", "done", "pausing", "restoring"}
      BY DEF NoCommandsYet
    <2>. QED
      BY <1>1, <1>2, <2>1, <2>2, <2>3, <2>5, <2>6, GoStep
  <1>. QED
    BY <1>3, <1>5, <1>6, <1>7 DEF Capturers

LEMMA PauseFailedStep ==
    ASSUME IInv, NEW k \in CallIds, PauseFailed(k)
    PROVE  IInv'
  <1>. DEFINE gs == (call[k].ids \ call[k].todo) \cap In(call[k].ctx, {"paused"})
  <1>1. /\ InFlight(k) /\ UNCHANGED <<facade, store, coord, apart>>
        /\ call[k].at = "pausing" /\ call[k].asked = {}
        /\ Ask(k, call[k], call[k].ctx, gs, "resume", "unpausing")
    BY DEF PauseFailed, InFlight, Answered
  <1>2. /\ AlwaysInv /\ TypeOK
        /\ call[k] \in CallType /\ Fits(call[k].kind, call[k].at)
        /\ apart' => apart /\ LifeFits(k) /\ OnActive(k) /\ RestoresFit(k)
    BY <1>1, Continues
  <1>3. FacadeKept /\ facade'.life = facade.life
    BY <1>1, <1>2, FacadeStays
  <1>4. gs \in SUBSET Guests
    BY <1>2 DEF CallType
  <1>. HIDE DEF gs
  <1>5. "resume" \in AnyCommand /\ "unpausing" \in Awaits /\ Asks("unpausing", "resume")
    BY Names DEF Asks
  <1>6. /\ call'[k].kind = call[k].kind /\ call'[k].ctx = call[k].ctx /\ call'[k].at = "unpausing"
        /\ NoRestores => NoRestores'
    BY <1>1, <1>2, <1>3, <1>4, <1>5, AskKeeps
  <1>7. call[k].kind \in Capturers
    BY <1>1, <1>2 DEF Fits, Closers
  <1>8. ASSUME apart' PROVE Quietly(k, call'[k].asked, "resume")
    <2>1. LifeFits(k)' /\ OnActive(k)' /\ RestoresFit(k)'
      BY <1>1, <1>2, <1>3, <1>6, <1>7, <1>8 DEF LifeFits, OnActive, RestoresFit, At, FacadeKept, Capturers
    <2>2. Phase(k)'
      BY <1>6, <2>1, PlainPhase DEF Plainly
    <2>3. facade.life \notin {"cold", "cleanupIncomplete"}
      BY <1>2, <1>7, <1>8 DEF LifeFits, Capturers
    <2>. QED
      BY <1>1, <1>3, <2>2, <2>3 DEF Quietly, LeftBehind, At
  <1>9. Fits(call[k].kind, "unpausing")
    BY <1>7 DEF Fits
  <1>. QED
    BY <1>1, <1>2, <1>3, <1>4, <1>5, <1>8, <1>9, AskStep

\* The guests are resumed, and the call goes on with its error.
LEMMA ResumeIdsStep ==
    ASSUME IInv, NEW k \in CallIds, UNCHANGED <<facade, store, coord, apart>>,
           NEW r \in CallType, ResumeIds(k, r, "resuming"),
           r.kind = call[k].kind, r.ctx = call[k].ctx, r.gen = call[k].gen,
           call[k].kind \in {"save", "exportImage", "importImage"},
           call[k].at \in {"unpausing", "capturing", "unstaging"},
           call[k].at = "unstaging" => r.error
    PROVE  IInv'
  <1>. DEFINE gs == r.ids \cap In(r.ctx, {"paused"})
  <1>1. InFlight(k)
    BY DEF InFlight
  <1>2. /\ AlwaysInv /\ TypeOK
        /\ apart' => apart /\ LifeFits(k) /\ OnActive(k) /\ RestoresFit(k)
    BY <1>1, Continues
  <1>3. FacadeKept /\ facade'.life = facade.life
    BY <1>1, <1>2, FacadeStays
  <1>4. gs \in SUBSET Guests /\ Ask(k, r, r.ctx, gs, "resume", "resuming")
    BY DEF CallType, ResumeIds
  <1>. HIDE DEF gs
  <1>5. "resume" \in AnyCommand /\ "resuming" \in Awaits /\ Asks("resuming", "resume")
    BY Names DEF Asks
  <1>6. /\ call'[k].kind = call[k].kind /\ call'[k].ctx = call[k].ctx /\ call'[k].at = "resuming"
        /\ call'[k].gen = call[k].gen /\ call'[k].error = r.error
        /\ NoRestores => NoRestores'
    BY <1>2, <1>3, <1>4, <1>5, AskKeeps
  <1>7. ASSUME apart' PROVE Quietly(k, call'[k].asked, "resume")
    <2>1. facade.life = "hot" /\ facade'.life = "hot"
      BY <1>2, <1>3, <1>7 DEF LifeFits
    <2>2. LifeFits(k)' /\ OnActive(k)' /\ RestoresFit(k)'
      BY <1>2, <1>6, <1>7, <2>1 DEF LifeFits, OnActive, RestoresFit, At
    <2>3. Phase(k)'
      BY <1>6, <2>2, PlainPhase DEF Plainly
    <2>4. LeftBehind(k) => LeftBehind(k)'
      BY <1>6 DEF LeftBehind, At
    <2>. QED
      BY <2>1, <2>3, <2>4 DEF Quietly
  <1>8. Fits(r.kind, "resuming")
    BY DEF Fits
  <1>. QED
    BY <1>1, <1>3, <1>4, <1>5, <1>7, <1>8, AskStep

LEMMA UnpausedStep ==
    ASSUME IInv, NEW k \in CallIds, Unpaused(k)
    PROVE  IInv'
  <1>1. InFlight(k) /\ UNCHANGED <<store, coord, apart>> /\ call[k].at = "unpausing"
    BY DEF Unpaused, InFlight, Answered
  <1>2. /\ AlwaysInv /\ TypeOK
        /\ call[k] \in CallType /\ Fits(call[k].kind, call[k].at)
        /\ apart' => apart /\ LifeFits(k) /\ RestoresFit(k)
    BY <1>1, Continues
  <1>3. call[k].kind \in Capturers /\ TRUE \in BOOLEAN
    BY <1>1, <1>2 DEF Fits, Closers
  <1>4. ~LeftBehind(k)
    BY <1>1 DEF LeftBehind, At
  <1>5. CASE call[k].kind \in {"save", "exportImage"}
    <2>. DEFINE r == [call[k] EXCEPT !.error = TRUE]
    <2>1. /\ r \in CallType /\ r.kind = call[k].kind /\ r.ctx = call[k].ctx
          /\ r.gen = call[k].gen /\ r.error
      BY <1>2, Errored
    <2>2. ResumeIds(k, r, "resuming") /\ UNCHANGED facade
      BY <1>5 DEF Unpaused
    <2>. HIDE DEF r
    <2>. QED
      BY <1>1, <1>5, <2>1, <2>2, ResumeIdsStep
  <1>6. CASE call[k].kind = "suspend"
    <2>1. facade' = [facade EXCEPT !.life = "hot"] /\ Finish(k, call[k], TRUE) /\ UNCHANGED guest
      BY <1>6 DEF Unpaused
    <2>2. "hot" \in AnyLife
      BY DEF AnyLife
    <2>3. FacadeKept /\ facade'.life = "hot"
      BY <1>2, <2>1, <2>2, FacadeLife DEF FacadeKept
    <2>4. apart' => NoRestores
      BY <1>2, <1>6 DEF RestoresFit
    <2>. QED
      BY <1>1, <1>2, <1>3, <1>4, <2>1, <2>3, <2>4, FinishStep
  <1>7. CASE call[k].kind = "importImage"
    <2>1. Finish(k, call[k], TRUE) /\ UNCHANGED <<facade, guest>>
      BY <1>7 DEF Unpaused
    <2>2. FacadeKept /\ facade'.life = facade.life
      BY <1>2, <2>1, FacadeStays
    <2>. QED
      BY <1>1, <1>2, <1>3, <1>4, <2>1, <2>2, FinishStep
  <1>. QED
    BY <1>3, <1>5, <1>6, <1>7 DEF Capturers

LEMMA ReadHeadStep ==
    ASSUME IInv, NEW k \in CallIds, ReadHead(k)
    PROVE  IInv'
  <1>. DEFINE r == [call[k] EXCEPT !.head = store.head, !.token = facade.token]
  <1>1. /\ InFlight(k) /\ UNCHANGED <<store, coord, apart>> /\ call[k].at = "readingHead"
        /\ OperationFails(k, r) \/ StartCapture(k, r)
    BY DEF ReadHead, InFlight
  <1>2. /\ TypeOK /\ call[k] \in CallType /\ Fits(call[k].kind, call[k].at)
    BY <1>1, Continues
  <1>3. call[k].kind \in {"save", "suspend"}
    BY <1>1, <1>2 DEF Fits, Capturers, Closers
  <1>4. store.head \in Nat /\ facade.token \in Nat
    BY <1>2 DEF TypeOK, FacadeType
  <1>5. r \in CallType /\ r.kind = call[k].kind /\ r.ctx = call[k].ctx
    BY <1>2, <1>4 DEF CallType
  <1>. HIDE DEF r
  <1>. QED
    BY <1>1, <1>3, <1>5, OperationFailsStep, StartCaptureStep

LEMMA ResumedStep ==
    ASSUME IInv, NEW k \in CallIds, Resumed(k)
    PROVE  IInv'
  <1>1. InFlight(k) /\ UNCHANGED <<guest, store, coord, apart>> /\ call[k].at = "resuming"
    BY DEF Resumed, InFlight, Answered
  <1>2. /\ TypeOK /\ call[k] \in CallType /\ Fits(call[k].kind, call[k].at)
        /\ apart' => apart /\ LifeFits(k) /\ OnActive(k) /\ RestoresFit(k)
    BY <1>1, Continues
  <1>3. call[k].kind \in {"save", "exportImage", "importImage"}
    BY <1>1, <1>2 DEF Fits, Capturers, Closers
  <1>4. PICK error \in BOOLEAN : error <=> call[k].error \/ call[k].failed
    OBVIOUS
  <1>5. LeftBehind(k) => error /\ call[k].kind # "save"
    BY <1>1, <1>4 DEF LeftBehind, At
  <1>6. CASE /\ call[k].kind = "save" /\ Finish(k, call[k], TRUE)
             /\ facade' = [facade EXCEPT !.saved = "unsaved"]
    <2>1. FacadeKept /\ facade'.life = facade.life
      BY <1>2, <1>6 DEF TypeOK, FacadeType, FacadeKept
    <2>2. TRUE \in BOOLEAN
      OBVIOUS
    <2>. QED
      BY <1>1, <1>2, <1>5, <1>6, <2>1, <2>2, FinishStep
  <1>7. CASE call[k].kind = "save" /\ Go(k, call[k], "pruning") /\ UNCHANGED facade
    <2>1. FacadeKept /\ facade'.life = facade.life
      BY <1>2, <1>7, FacadeStays
    <2>2. "pruning" \in Awaits /\ Fits(call[k].kind, "pruning")
      BY <1>7, Names DEF Fits
    <2>3. /\ call'[k].kind = call[k].kind /\ call'[k].ctx = call[k].ctx /\ call'[k].at = "pruning"
      BY <1>1, <1>2, <1>7, <2>1, <2>2, GoKeeps
    <2>4. ASSUME apart' PROVE Quietly(k, {}, "none")
      <3>1. facade.life = "hot"
        BY <1>2, <1>7, <2>4 DEF LifeFits
      <3>2. LifeFits(k)' /\ OnActive(k)' /\ RestoresFit(k)'
        BY <1>1, <1>2, <1>7, <2>1, <2>3, <2>4, <3>1 DEF LifeFits, OnActive, RestoresFit, At, FacadeKept
      <3>3. Phase(k)'
        BY <1>7, <2>3, <3>2, PlainPhase
      <3>. QED
        BY <1>5, <1>7, <2>1, <3>1, <3>3 DEF Quietly
    <2>5. "pruning" \notin NoCommandsYet \union {"idle", "done", "pausing", "restoring"}
      BY DEF NoCommandsYet
    <2>. QED
      BY <1>1, <1>2, <1>7, <2>1, <2>2, <2>4, <2>5, GoStep
  <1>8. CASE Finish(k, call[k], error) /\ UNCHANGED facade
    <2>1. FacadeKept /\ facade'.life = facade.life
      BY <1>2, <1>8, FacadeStays
    <2>. QED
      BY <1>1, <1>2, <1>5, <1>8, <2>1, FinishStep
  <1>9. CASE call[k].kind = "save"
    BY <1>6, <1>7, <1>9 DEF Resumed
  <1>10. CASE call[k].kind # "save"
    <2>1. Finish(k, call[k], call[k].error \/ call[k].failed) /\ UNCHANGED facade
      BY <1>10 DEF Resumed
    <2>2. call[k].error \in BOOLEAN /\ call[k].failed \in BOOLEAN
      BY <1>2 DEF CallType
    <2>3. (call[k].error \/ call[k].failed) = error
      BY <1>4, <2>2, Zenon
    <2>4. Finish(k, call[k], error)
      BY <2>1, <2>3, Zenon
    <2>. QED
      BY <1>8, <2>1, <2>4
  <1>. QED
    BY <1>9, <1>10

LEMMA RolledBackStep ==
    ASSUME IInv, NEW k \in CallIds, RolledBack(k)
    PROVE  IInv'
  <1>1. /\ InFlight(k) /\ UNCHANGED <<guest, store, coord, apart>> /\ call[k].at = "rollback"
        /\ Finish(k, call[k], TRUE)
    BY DEF RolledBack, InFlight, Answered
  <1>2. /\ TypeOK /\ call[k] \in CallType /\ Fits(call[k].kind, call[k].at)
        /\ apart' => apart /\ LifeFits(k) /\ RestoresFit(k)
    BY <1>1, Continues
  <1>3. call[k].kind = "suspend" /\ TRUE \in BOOLEAN
    BY <1>1, <1>2 DEF Fits, Capturers, Closers
  <1>4. FacadeKept /\ facade'.life \in {facade.life, "failed"}
    <2>1. CASE facade' = [facade EXCEPT !.life = "failed"]
      <3>1. "failed" \in AnyLife
        BY DEF AnyLife
      <3>. QED
        BY <1>2, <2>1, <3>1, FacadeLife DEF FacadeKept
    <2>2. CASE facade' = facade
      BY <1>2, <2>2, FacadeStays
    <2>. QED
      BY <2>1, <2>2 DEF RolledBack
  <1>5. apart' => NoRestores
    BY <1>2, <1>3 DEF RestoresFit
  <1>. QED
    BY <1>1, <1>2, <1>3, <1>4, <1>5, FinishStep

LEMMA RetiredStep ==
    ASSUME IInv, NEW k \in CallIds, Retired(k)
    PROVE  IInv'
  <1>1. /\ InFlight(k) /\ UNCHANGED <<facade, guest, store, coord, apart>>
        /\ call[k].at = "retiring" /\ Go(k, call[k], "pruning")
    BY DEF Retired, InFlight, Answered
  <1>2. /\ TypeOK /\ call[k] \in CallType /\ Fits(call[k].kind, call[k].at)
        /\ apart' => apart /\ LifeFits(k) /\ OnActive(k) /\ RestoresFit(k)
    BY <1>1, Continues
  <1>3. call[k].kind = "importImage"
    BY <1>1, <1>2 DEF Fits, Capturers, Closers
  <1>4. FacadeKept /\ facade'.life = facade.life
    BY <1>1, <1>2, FacadeStays
  <1>5. "pruning" \in Awaits /\ Fits(call[k].kind, "pruning")
    BY <1>3, Names DEF Fits
  <1>6. call'[k].kind = "importImage" /\ call'[k].at = "pruning"
    BY <1>1, <1>2, <1>3, <1>4, <1>5, GoKeeps
  <1>7. ASSUME apart' PROVE Quietly(k, {}, "none")
    <2>1. LifeFits(k)' /\ OnActive(k)' /\ RestoresFit(k)'
      BY <1>2, <1>3, <1>4, <1>6, <1>7 DEF LifeFits, OnActive, RestoresFit, At
    <2>2. Phase(k)'
      BY <1>6, <2>1, PlainPhase
    <2>. QED
      BY <1>1, <1>4, <2>2 DEF Quietly, LeftBehind, At
  <1>8. "pruning" \notin NoCommandsYet \union {"idle", "done", "pausing", "restoring"}
    BY DEF NoCommandsYet
  <1>. QED
    BY <1>1, <1>2, <1>4, <1>5, <1>7, <1>8, GoStep

LEMMA UnstagedStep ==
    ASSUME IInv, NEW k \in CallIds, Unstaged(k)
    PROVE  IInv'
  <1>. DEFINE r == [call[k] EXCEPT !.error = TRUE]
  <1>1. /\ InFlight(k) /\ UNCHANGED <<facade, store, coord, apart>>
        /\ call[k].at = "unstaging" /\ ResumeIds(k, r, "resuming")
    BY DEF Unstaged, InFlight
  <1>2. /\ TypeOK /\ call[k] \in CallType /\ Fits(call[k].kind, call[k].at)
    BY <1>1, Continues
  <1>3. call[k].kind = "importImage"
    BY <1>1, <1>2 DEF Fits, Capturers, Closers
  <1>4. /\ r \in CallType /\ r.kind = call[k].kind /\ r.ctx = call[k].ctx
        /\ r.gen = call[k].gen /\ r.error
    BY <1>2, Errored
  <1>. HIDE DEF r
  <1>. QED
    BY <1>1, <1>3, <1>4, ResumeIdsStep

LEMMA ResumedAllStep ==
    ASSUME IInv, NEW k \in CallIds, ResumedAll(k)
    PROVE  IInv'
  <1>1. /\ InFlight(k) /\ UNCHANGED <<facade, guest, store, coord, apart>>
        /\ call[k].at = "resumingAll" /\ Go(k, call[k], "pruning")
    BY DEF ResumedAll, InFlight, Answered
  <1>2. /\ TypeOK /\ call[k] \in CallType /\ Fits(call[k].kind, call[k].at)
        /\ apart' => apart /\ LifeFits(k) /\ OnActive(k) /\ RestoresFit(k)
    BY <1>1, Continues
  <1>3. call[k].kind = "initialize"
    BY <1>1, <1>2 DEF Fits, Capturers, Closers
  <1>4. FacadeKept /\ facade'.life = facade.life
    BY <1>1, <1>2, FacadeStays
  <1>5. "pruning" \in Awaits /\ Fits(call[k].kind, "pruning")
    BY <1>3, Names DEF Fits
  <1>6. /\ call'[k].kind = call[k].kind /\ call'[k].ctx = call[k].ctx /\ call'[k].at = "pruning"
        /\ NoRestores => NoRestores'
    BY <1>1, <1>2, <1>4, <1>5, GoKeeps
  <1>7. ASSUME apart' PROVE Quietly(k, {}, "none")
    <2>1. NoRestores /\ NoRestores'
      BY <1>1, <1>2, <1>6, <1>7 DEF RestoresFit, At
    <2>2. LifeFits(k)' /\ OnActive(k)' /\ RestoresFit(k)'
      BY <1>1, <1>2, <1>3, <1>4, <1>6, <1>7, <2>1 DEF LifeFits, OnActive, RestoresFit, At, FacadeKept
    <2>3. Phase(k)'
      BY <1>3, <1>6, <2>2, PlainPhase
    <2>4. facade.life \notin {"cold", "cleanupIncomplete"}
      BY <1>2, <1>3, <1>7 DEF LifeFits
    <2>. QED
      BY <1>1, <1>3, <1>4, <2>1, <2>3, <2>4 DEF Quietly, LeftBehind
  <1>8. "pruning" \notin NoCommandsYet \union {"idle", "done", "pausing", "restoring"}
    BY DEF NoCommandsYet
  <1>. QED
    BY <1>1, <1>2, <1>4, <1>5, <1>7, <1>8, GoStep

-----------------------------------------------------------------------------
(* ... that capture it *)

\* The snapshots are asked for: each is the last command of its guest.
LEMMA SnapshotsAsked ==
    ASSUME AlwaysInv, NEW k \in CallIds, call[k].at = "flushing",
           NEW c \in Contexts, c = call[k].ctx, StatesKept, PausesWaited(k),
           Posted(k, c, call'[k].asked, "snapshot", "capturing"),
           call'[k].ctx = c, \A g \in Guests : call'[k].disk[g] = guest[c][g].mem,
           \/ call'[k].asked = Guests
           \/ call'[k].failed
    PROVE  PausesWaited(k)' /\ CaptureFits(k)'
  <1>1. TypeOK /\ \A g \in Guests : Here(k, g)' = guest'[c][g] /\ Here(k, g) = guest[c][g]
    BY DEF AlwaysInv, Here
  <1>2. ASSUME NEW g \in Guests
        PROVE  /\ \A i \in 1..Len(guest'[c][g].queue) :
                     guest'[c][g].queue[i].do = "pause" /\ ~guest'[c][g].queue[i].void =>
                        i = 1 /\ guest'[c][g].state = "paused"
               /\ g \in call'[k].asked => SnapshotLast(guest'[c][g].queue, k)
    <2>. DEFINE q == Queue(c, g)
                new == guest'[c][g].queue
                n == Len(q) + 1
    <2>1. Len(q) \in Nat /\ \A i \in 1..Len(q) : q[i].by \in CallIds
      BY <1>1, QueueTyped
    <2>2. \A i \in 1..Len(q) : SameCommand(new[i], q[i])
      BY DEF Posted
    <2>3. \A i \in 1..Len(q) : q[i].by = k => q[i].place = "pausing"
      BY <2>1 DEF AlwaysInv, CommandsFit, At
    <2>4. \A i \in 1..Len(q) : ~Snaps(new[i], k)
      BY <2>2, <2>3 DEF Snaps, SameCommand
    <2>5. \A i \in 1..Len(q) : q[i].do = "pause" /\ ~q[i].void => i = 1 /\ guest[c][g].state = "paused"
      BY <1>1 DEF PausesWaited, Queue
    <2>6. \A i \in 1..Len(q) : new[i].do = "pause" /\ ~new[i].void => i = 1 /\ guest'[c][g].state = "paused"
      BY <2>2, <2>5 DEF SameCommand, StatesKept
    <2>7. CASE g \in call'[k].asked
      <3>1. /\ Len(new) = n /\ new[n].do = "snapshot" /\ Snaps(new[n], k) /\ ~new[n].void
        BY <2>7 DEF Posted, Snaps
      <3>2. \A i \in 1..n : i = n \/ i \in 1..Len(q)
        BY <2>1
      <3>3. n \notin 1..Len(q) /\ n > 0
        BY <2>1
      <3>. HIDE DEF q, new, n
      <3>4. SnapshotLast(new, k)
        BY <2>4, <3>1, <3>2, <3>3 DEF SnapshotLast
      <3>5. \A i \in 1..Len(new) :
               new[i].do = "pause" /\ ~new[i].void => i = 1 /\ guest'[c][g].state = "paused"
        BY <2>6, <3>1, <3>2
      <3>. QED
        BY <3>4, <3>5 DEF new
    <2>8. CASE g \notin call'[k].asked
      <3>1. Len(new) = Len(q)
        BY <2>8 DEF Posted
      <3>. QED
        BY <2>6, <2>8, <3>1
    <2>. QED
      BY <2>7, <2>8
  <1>3. PausesWaited(k)'
    BY <1>1, <1>2 DEF PausesWaited
  <1>4. CaptureFits(k)'
    BY <1>1, <1>2 DEF CaptureFits, StatesKept
  <1>. QED
    BY <1>3, <1>4

LEMMA FlushedStep ==
    ASSUME IInv, NEW k \in CallIds, Flushed(k)
    PROVE  IInv'
  <1>. DEFINE disk == [g \in Guests |-> guest[call[k].ctx][g].mem]
              r == [call[k] EXCEPT !.disk = disk]
  <1>1. InFlight(k) /\ UNCHANGED <<store, coord, apart>> /\ call[k].at = "flushing"
    BY DEF Flushed, InFlight
  <1>2. /\ AlwaysInv /\ TypeOK
        /\ call[k] \in CallType /\ Fits(call[k].kind, call[k].at)
        /\ apart' => apart /\ LifeFits(k) /\ OnActive(k) /\ RestoresFit(k) /\ CapturesFit(k)
    BY <1>1, Continues
  <1>3. call[k].kind \in {"save", "exportImage", "suspend"}
    BY <1>1, <1>2 DEF Fits, Capturers, Closers
  <1>4. CASE OperationFails(k, call[k])
    BY <1>1, <1>2, <1>3, <1>4, OperationFailsStep
  <1>5. CASE Ask(k, r, call[k].ctx, Guests, "snapshot", "capturing") /\ UNCHANGED facade
    <2>1. PICK c \in Contexts : c = call[k].ctx
      BY <1>2 DEF CallType
    <2>2. disk \in Memory /\ \A g \in Guests : disk[g] = guest[c][g].mem
      BY <1>2, <2>1 DEF TypeOK, GuestType, Memory
    <2>. HIDE DEF disk
    <2>3. r \in CallType /\ r.kind = call[k].kind /\ r.ctx = c /\ r.disk = disk
      BY <1>2, <2>1, <2>2 DEF CallType
    <2>. HIDE DEF r
    <2>4. "snapshot" \in AnyCommand /\ "capturing" \in Awaits /\ Asks("capturing", "snapshot")
      BY Names DEF Asks
    <2>5. Ask(k, r, r.ctx, Guests, "snapshot", "capturing") /\ Guests \in SUBSET Guests
      BY <1>5, <2>1, <2>3
    <2>6. FacadeKept /\ facade'.life = facade.life
      BY <1>2, <1>5, FacadeStays
    <2>7. /\ StatesKept /\ Carries(k, r, "capturing")
          /\ Posted(k, r.ctx, call'[k].asked, "snapshot", "capturing")
          /\ \/ call'[k].asked = Guests
             \/ call'[k].asked = {} /\ (call'[k].failed <=> Guests # {})
      BY <1>2, <2>3, <2>4, <2>5, AskSteps
    <2>8. /\ call'[k].kind = call[k].kind /\ call'[k].ctx = c /\ call'[k].at = "capturing"
          /\ call'[k].disk = disk
          /\ NoRestores => NoRestores'
      BY <1>2, <2>3, <2>4, <2>5, <2>6, <2>7, AskKeeps DEF Carries
    <2>9. call'[k].asked = Guests \/ call'[k].failed
      BY <2>7, Constants_
    <2>10. ASSUME apart' PROVE Quietly(k, call'[k].asked, "snapshot")
      <3>1. LifeFits(k)' /\ OnActive(k)' /\ RestoresFit(k)'
        BY <1>1, <1>2, <1>3, <2>1, <2>6, <2>8, <2>10 DEF LifeFits, OnActive, RestoresFit, At, FacadeKept
      <3>2. PausesWaited(k)
        BY <1>1, <1>2, <2>10 DEF CapturesFit, At
      <3>3. PausesWaited(k)' /\ CaptureFits(k)'
        BY <1>1, <1>2, <2>1, <2>2, <2>3, <2>7, <2>8, <2>9, <3>2, SnapshotsAsked
      <3>4. CapturesFit(k)'
        BY <2>8, <3>3 DEF CapturesFit, At, Committed
      <3>5. Phase(k)'
        BY <2>8, <3>1, <3>4 DEF Phase, ClosingFits, LockFits, HeadFits, At
      <3>6. facade.life \notin {"cold", "cleanupIncomplete"}
        BY <1>2, <1>3, <2>10 DEF LifeFits
      <3>. QED
        BY <1>1, <2>6, <3>5, <3>6 DEF Quietly, LeftBehind, At
    <2>11. Fits(r.kind, "capturing")
      BY <1>3, <2>3 DEF Fits
    <2>. QED
      BY <1>1, <2>1, <2>3, <2>4, <2>5, <2>6, <2>10, <2>11, AskStep
  <1>. QED
    BY <1>4, <1>5 DEF Flushed

LEMMA CapturedStep ==
    ASSUME IInv, NEW k \in CallIds, Captured(k)
    PROVE  IInv'
  <1>1. /\ InFlight(k) /\ UNCHANGED <<store, coord, apart>>
        /\ call[k].at = "capturing" /\ call[k].asked = {}
    BY DEF Captured, InFlight, Answered
  <1>2. /\ AlwaysInv /\ TypeOK
        /\ call[k] \in CallType /\ Fits(call[k].kind, call[k].at)
        /\ apart' => apart /\ LifeFits(k) /\ OnActive(k) /\ RestoresFit(k) /\ CapturesFit(k)
    BY <1>1, Continues
  <1>3. call[k].kind \in {"save", "exportImage", "suspend"}
    BY <1>1, <1>2 DEF Fits, Capturers, Closers
  <1>4. CASE OperationFails(k, call[k])
    BY <1>1, <1>2, <1>3, <1>4, OperationFailsStep
  <1>5. CASE call[k].kind = "exportImage" /\ ResumeIds(k, call[k], "resuming") /\ UNCHANGED facade
    BY <1>1, <1>2, <1>5, ResumeIdsStep
  <1>6. CASE /\ ~call[k].failed /\ call[k].kind # "exportImage"
             /\ Go(k, call[k], "committing") /\ UNCHANGED <<facade, guest>>
    <2>1. FacadeKept /\ facade'.life = facade.life
      BY <1>2, <1>6, FacadeStays
    <2>2. "committing" \in Awaits /\ Fits(call[k].kind, "committing")
      BY <1>3, <1>6, Names DEF Fits
    <2>3. /\ call'[k].kind = call[k].kind /\ call'[k].ctx = call[k].ctx /\ call'[k].at = "committing"
          /\ call'[k].mem = call[k].mem /\ call'[k].disk = call[k].disk
          /\ NoRestores => NoRestores'
      BY <1>2, <1>6, <2>1, <2>2, GoKeeps
    <2>4. ASSUME apart' PROVE Quietly(k, {}, "none")
      <3>1. LifeFits(k)' /\ OnActive(k)' /\ RestoresFit(k)'
        BY <1>1, <1>2, <1>3, <2>1, <2>3, <2>4 DEF LifeFits, OnActive, RestoresFit, At, FacadeKept
      <3>2. \A g \in Guests : /\ Still(Here(k, g), call[k].mem[g])
                              /\ Here(k, g).state = "paused" => Here(k, g).mem = call[k].disk[g]
        BY <1>1, <1>2, <1>6, <2>4 DEF CapturesFit, CaptureFits, At
      <3>3. \A g \in Guests : call[k].mem[g] = call[k].disk[g]
        BY <3>2 DEF Still
      <3>4. call[k].mem \in Memory /\ call[k].disk \in Memory
        BY <1>2 DEF CallType
      <3>5. call[k].mem = call[k].disk
        BY <3>3, <3>4 DEF Memory
      <3>6. \A g \in Guests : Here(k, g)' = Here(k, g)
        BY <1>6, <2>3 DEF Here
      <3>7. CapturesFit(k)'
        BY <2>3, <3>2, <3>5, <3>6 DEF CapturesFit, At, Committed
      <3>8. Phase(k)'
        BY <2>3, <3>1, <3>7 DEF Phase, ClosingFits, LockFits, HeadFits, At
      <3>. QED
        BY <1>1, <2>1, <3>8 DEF Quietly, LeftBehind, At
    <2>5. "committing" \notin NoCommandsYet \union {"idle", "done", "pausing", "restoring"}
      BY DEF NoCommandsYet
    <2>. QED
      BY <1>1, <1>2, <1>6, <2>1, <2>2, <2>4, <2>5, GoStep
  <1>. QED
    BY <1>4, <1>5, <1>6 DEF Captured

LEMMA VerifiedStep ==
    ASSUME IInv, NEW k \in CallIds, Verified(k)
    PROVE  IInv'
  <1>1. InFlight(k) /\ UNCHANGED <<store, coord, apart>> /\ call[k].at = "verifying"
    BY DEF Verified, InFlight
  <1>2. /\ AlwaysInv /\ TypeOK
        /\ call[k] \in CallType /\ Fits(call[k].kind, call[k].at)
        /\ apart' => apart /\ LifeFits(k) /\ OnActive(k) /\ RestoresFit(k) /\ CapturesFit(k)
    BY <1>1, Continues
  <1>3. call[k].kind = "suspend"
    BY <1>1, <1>2 DEF Fits, Capturers, Closers
  <1>4. CASE OperationFails(k, call[k])
    BY <1>1, <1>2, <1>3, <1>4, OperationFailsStep
  <1>5. CASE Go(k, call[k], "pruning") /\ UNCHANGED <<facade, guest>>
    <2>1. FacadeKept /\ facade'.life = facade.life
      BY <1>2, <1>5, FacadeStays
    <2>2. "pruning" \in Awaits /\ Fits(call[k].kind, "pruning")
      BY <1>3, Names DEF Fits
    <2>3. /\ call'[k].kind = call[k].kind /\ call'[k].ctx = call[k].ctx /\ call'[k].at = "pruning"
          /\ call'[k].mem = call[k].mem /\ call'[k].disk = call[k].disk
          /\ NoRestores => NoRestores'
      BY <1>2, <1>5, <2>1, <2>2, GoKeeps
    <2>4. ASSUME apart' PROVE Quietly(k, {}, "none")
      <3>1. LifeFits(k)' /\ OnActive(k)' /\ RestoresFit(k)'
        BY <1>1, <1>2, <1>3, <2>1, <2>3, <2>4 DEF LifeFits, OnActive, RestoresFit, At, FacadeKept
      <3>2. /\ call[k].mem = call[k].disk
            /\ \A g \in Guests : Still(Here(k, g), call[k].mem[g])
            /\ store.head # 0 /\ store.gens[store.head].mem = call[k].mem
        BY <1>1, <1>2, <2>4 DEF CapturesFit, Committed, At
      <3>3. \A g \in Guests : Here(k, g)' = Here(k, g)
        BY <1>5, <2>3 DEF Here
      <3>4. CapturesFit(k)'
        BY <1>1, <2>3, <3>2, <3>3 DEF CapturesFit, At
      <3>5. Phase(k)'
        BY <2>3, <3>1, <3>4 DEF Phase, ClosingFits, LockFits, HeadFits, At
      <3>. QED
        BY <1>1, <2>1, <3>5 DEF Quietly, LeftBehind, At
    <2>5. "pruning" \notin NoCommandsYet \union {"idle", "done", "pausing", "restoring"}
      BY DEF NoCommandsYet
    <2>. QED
      BY <1>1, <1>2, <1>5, <2>1, <2>2, <2>4, <2>5, GoStep
  <1>. QED
    BY <1>4, <1>5 DEF Verified

\* The guests that have not stopped are asked to.
LEMMA ShutdownsAsked ==
    ASSUME TypeOK, NEW k \in CallIds, NEW c \in Contexts, c = facade.active,
           AtRest, StatesKept, Posted(k, c, call'[k].asked, "shutdown", "stopping"),
           facade'.active = facade.active, UNCHANGED store, call'[k].ctx = c,
           call'[k].at = "stopping",
           \/ call'[k].asked = NotStopped(c)
           \/ call'[k].asked = {} /\ (call'[k].failed <=> NotStopped(c) # {})
    PROVE  ClosingFits(k)'
  <1>1. AtRest'
    BY RestingPosted
  <1>2. ASSUME NEW g \in Guests, ~call'[k].failed, g \notin call'[k].asked
        PROVE  Here(k, g)'.state = "stopped"
    <2>1. g \notin NotStopped(c)
      BY <1>2
    <2>2. guest[c][g].state = "stopped"
      BY <2>1 DEF NotStopped, In
    <2>. QED
      BY <2>2 DEF Here, StatesKept
  <1>. QED
    BY <1>1, <1>2 DEF ClosingFits, At

LEMMA PrunedStep ==
    ASSUME IInv, NEW k \in CallIds, Pruned(k)
    PROVE  IInv'
  <1>1. InFlight(k) /\ UNCHANGED <<store, coord, apart>> /\ call[k].at = "pruning"
    BY DEF Pruned, InFlight
  <1>2. /\ AlwaysInv /\ TypeOK /\ facade.active \in Contexts
        /\ call[k] \in CallType /\ Fits(call[k].kind, call[k].at)
        /\ apart' => apart /\ LifeFits(k) /\ OnActive(k) /\ RestoresFit(k) /\ CapturesFit(k)
    BY <1>1, Continues
  <1>3. call[k].kind \in {"save", "importImage", "initialize", "suspend"}
    BY <1>1, <1>2 DEF Fits, Capturers, Closers
  <1>4. ~LeftBehind(k)
    BY <1>1 DEF LeftBehind, At
  <1>5. PICK pending \in BOOLEAN :
           LET noted == [facade EXCEPT !.cleanupPending = pending] IN
           CASE call[k].kind = "save" ->
                  /\ facade' = [noted EXCEPT !.saved = "clean"]
                  /\ Finish(k, call[k], FALSE) /\ UNCHANGED guest
             [] call[k].kind = "importImage" ->
                  facade' = noted /\ Finish(k, call[k], FALSE) /\ UNCHANGED guest
             [] call[k].kind = "initialize" ->
                  /\ facade' = [noted EXCEPT !.life = "hot"]
                  /\ Finish(k, call[k], FALSE) /\ UNCHANGED guest
             [] call[k].kind = "suspend" ->
                  /\ facade' = [noted EXCEPT !.life = "stopping"]
                  /\ Ask(k, call[k], call[k].ctx, NotStopped(call[k].ctx), "shutdown", "stopping")
    BY DEF Pruned
  <1>. DEFINE noted == [facade EXCEPT !.cleanupPending = pending]
  <1>6. /\ noted \in FacadeType /\ noted.active = facade.active /\ noted.token = facade.token
        /\ noted.initialized = facade.initialized /\ noted.life = facade.life
    BY <1>2 DEF TypeOK, FacadeType
  <1>7. FALSE \in BOOLEAN
    OBVIOUS
  <1>8. CASE call[k].kind = "save"
    <2>1. /\ facade' = [noted EXCEPT !.saved = "clean"]
          /\ Finish(k, call[k], FALSE) /\ UNCHANGED guest
      BY <1>5, <1>8
    <2>. HIDE DEF noted
    <2>2. FacadeKept /\ facade'.life = facade.life
      BY <1>6, <2>1 DEF FacadeKept, FacadeType
    <2>. QED
      BY <1>1, <1>2, <1>4, <1>7, <2>1, <2>2, FinishStep
  <1>9. CASE call[k].kind = "importImage"
    <2>1. facade' = noted /\ Finish(k, call[k], FALSE) /\ UNCHANGED guest
      BY <1>5, <1>9
    <2>. HIDE DEF noted
    <2>2. FacadeKept /\ facade'.life = facade.life
      BY <1>6, <2>1 DEF FacadeKept
    <2>. QED
      BY <1>1, <1>2, <1>4, <1>7, <2>1, <2>2, FinishStep
  <1>10. CASE call[k].kind = "initialize"
    <2>1. /\ facade' = [noted EXCEPT !.life = "hot"]
          /\ Finish(k, call[k], FALSE) /\ UNCHANGED guest
      BY <1>5, <1>10
    <2>. HIDE DEF noted
    <2>2. FacadeKept /\ facade'.life = "hot"
      BY <1>6, <2>1 DEF FacadeKept, FacadeType, AnyLife
    <2>3. apart' => NoRestores
      BY <1>1, <1>2, <1>10 DEF RestoresFit, At
    <2>. QED
      BY <1>1, <1>2, <1>4, <1>7, <2>1, <2>2, <2>3, FinishStep
  <1>11. CASE call[k].kind = "suspend"
    <2>1. /\ facade' = [noted EXCEPT !.life = "stopping"]
          /\ Ask(k, call[k], call[k].ctx, NotStopped(call[k].ctx), "shutdown", "stopping")
      BY <1>5, <1>11
    <2>. HIDE DEF noted
    <2>2. FacadeKept /\ facade'.life = "stopping"
      BY <1>6, <2>1 DEF FacadeKept, FacadeType, AnyLife
    <2>3. PICK c \in Contexts : c = call[k].ctx
      BY <1>2 DEF CallType
    <2>4. /\ "shutdown" \in AnyCommand /\ "stopping" \in Awaits /\ Asks("stopping", "shutdown")
          /\ NotStopped(call[k].ctx) \in SUBSET Guests
      BY Names, Inside DEF Asks
    <2>5. /\ StatesKept
          /\ Posted(k, c, call'[k].asked, "shutdown", "stopping")
          /\ \/ call'[k].asked = NotStopped(c)
             \/ call'[k].asked = {} /\ (call'[k].failed <=> NotStopped(c) # {})
      BY <1>2, <2>1, <2>3, <2>4, AskSteps
    <2>6. /\ call'[k].kind = call[k].kind /\ call'[k].ctx = call[k].ctx /\ call'[k].at = "stopping"
          /\ call'[k].gen = call[k].gen /\ call'[k].error = call[k].error
          /\ NoRestores => NoRestores'
      <3>1. /\ TypeOK /\ call[k] \in CallType /\ FacadeKept
            /\ Ask(k, call[k], call[k].ctx, NotStopped(call[k].ctx), "shutdown", "stopping")
        BY <1>2, <2>1, <2>2
      <3>. QED
        BY <3>1, <2>4, AskKeeps
    <2>7. ASSUME apart' PROVE Quietly(k, call'[k].asked, "shutdown")
      <3>1. LifeFits(k)' /\ OnActive(k)' /\ RestoresFit(k)'
        BY <1>1, <1>2, <1>11, <2>2, <2>3, <2>6, <2>7 DEF LifeFits, OnActive, RestoresFit, At, FacadeKept
      <3>2. /\ \A g \in Guests : Still(Here(k, g), call[k].mem[g])
            /\ store.head # 0 /\ store.gens[store.head].mem = call[k].mem
        BY <1>1, <1>2, <1>11, <2>7 DEF CapturesFit, Committed, At
      <3>3. c = facade.active
        BY <1>1, <1>2, <1>11, <2>3, <2>7 DEF OnActive, At
      <3>4. AtRest
        <4>1. \A g \in Guests : Still(guest[c][g], store.gens[store.head].mem[g])
          BY <2>3, <3>2 DEF Here
        <4>2. \A g \in Guests : Resting(guest[c][g], store.gens[store.head].mem[g])
          BY <4>1 DEF Still, Resting
        <4>. QED
          BY <3>2, <3>3, <4>2 DEF AtRest
      <3>5. facade'.active = facade.active /\ UNCHANGED store
        BY <1>1, <2>2 DEF FacadeKept
      <3>6. ClosingFits(k)'
        BY <1>2, <2>3, <2>5, <2>6, <3>3, <3>4, <3>5, ShutdownsAsked
      <3>7. Phase(k)'
        BY <2>6, <3>1, <3>6 DEF Phase, CapturesFit, LockFits, HeadFits, At, Committed
      <3>. QED
        BY <1>4, <2>2, <3>7 DEF Quietly
    <2>8. Fits(call[k].kind, "stopping")
      BY <1>11 DEF Fits, Closers
    <2>. QED
      BY <1>1, <1>2, <2>1, <2>2, <2>4, <2>7, <2>8, AskStep
  <1>. QED
    BY <1>3, <1>8, <1>9, <1>10, <1>11

-----------------------------------------------------------------------------
(* ... that close it *)

LEMMA BeginStoppingStep ==
    ASSUME IInv, NEW k \in CallIds, NEW kind \in {"retrySuspendCleanup", "dispose"},
           Begin(k, kind), BeginStopping(k, kind), FacadeKept, UNCHANGED <<store, coord>>,
           facade'.life = facade.life,
           kind = "retrySuspendCleanup" => facade.life = "cleanupIncomplete"
    PROVE  IInv'
  <1>. DEFINE r == [NoCall EXCEPT !.kind = kind, !.ctx = facade.active, !.gen = facade.suspended]
  <1>1. /\ AlwaysInv /\ TypeOK /\ Len(store.gens) \in Nat
        /\ call[k].at = "idle" /\ call[k].kind = "none" /\ facade.active \in Contexts
        /\ apart' \in BOOLEAN /\ (apart' => apart /\ ApartInv /\ Alone(k))
    BY Begins
  <1>2. r \in CallType /\ r.kind = kind /\ r.ctx = facade.active
    <2>1. NoCall \in CallType
      BY Constants_
    <2>2. facade.suspended \in Nat
      BY <1>1 DEF TypeOK, FacadeType
    <2>. QED
      BY <1>1, <2>1, <2>2 DEF CallType, AnyKind
  <1>3. Ask(k, r, r.ctx, NotStopped(r.ctx), "shutdown", "stopping")
    BY <1>2 DEF BeginStopping
  <1>. HIDE DEF r
  <1>4. PICK c \in Contexts : c = facade.active
    BY <1>1
  <1>5. /\ "shutdown" \in AnyCommand /\ "stopping" \in Awaits /\ Asks("stopping", "shutdown")
        /\ NotStopped(r.ctx) \in SUBSET Guests
    BY Names, Inside DEF Asks
  <1>6. /\ CallStep(k, call'[k].asked, "shutdown") /\ StatesKept /\ Carries(k, r, "stopping")
        /\ Posted(k, c, call'[k].asked, "shutdown", "stopping")
        /\ call'[k].asked \in SUBSET Guests
        /\ \/ call'[k].asked = NotStopped(c)
           \/ call'[k].asked = {} /\ (call'[k].failed <=> NotStopped(c) # {})
    <2>1. r.ctx = c
      BY <1>2, <1>4
    <2>2. /\ CallStep(k, call'[k].asked, "shutdown") /\ StatesKept /\ Carries(k, r, "stopping")
          /\ Posted(k, r.ctx, call'[k].asked, "shutdown", "stopping")
          /\ call'[k].asked \in SUBSET Guests
          /\ \/ call'[k].asked = NotStopped(r.ctx)
             \/ call'[k].asked = {} /\ (call'[k].failed <=> NotStopped(r.ctx) # {})
      BY <1>1, <1>2, <1>3, <1>5, AskSteps
    <2>. QED
      BY <2>1, <2>2
  <1>7. call'[k].kind = kind /\ call'[k].ctx = c /\ call'[k].at = "stopping"
    BY <1>2, <1>4, <1>6 DEF Carries
  <1>8. Legal(k, call'[k].asked)
    <2>1. Len(store.gens) <= Len(store'.gens)
      BY <1>1
    <2>2. Fits(call'[k].kind, call'[k].at)
      BY <1>7 DEF Fits, Closers
    <2>3. At(k, NoCommandsYet) /\ ~At(k, {"done", "pausing", "restoring"})
      BY <1>1 DEF At, NoCommandsYet
    <2>. QED
      BY <1>7, <2>1, <2>2, <2>3 DEF Legal, At, NoCommandsYet
  <1>9. ASSUME apart' PROVE Quietly(k, call'[k].asked, "shutdown")
    <2>1. LifeFits(k)' /\ OnActive(k)' /\ RestoresFit(k)'
      BY <1>4, <1>7 DEF LifeFits, OnActive, RestoresFit, At, FacadeKept
    <2>2. ClosingFits(k)'
      <3>1. CASE kind = "retrySuspendCleanup"
        <4>1. AtRest
          BY <1>1, <1>9, <3>1 DEF ApartInv, ClosedKept
        <4>2. facade'.active = facade.active /\ UNCHANGED store
          BY DEF FacadeKept
        <4>. QED
          BY <1>1, <1>4, <1>6, <1>7, <4>1, <4>2, ShutdownsAsked
      <3>2. CASE kind = "dispose"
        BY <1>7, <3>2 DEF ClosingFits, Closers
      <3>. QED
        BY <3>1, <3>2
    <2>3. Phase(k)'
      BY <1>7, <2>1, <2>2 DEF Phase, CapturesFit, LockFits, HeadFits, At, Committed
    <2>. QED
      BY <1>1, <2>3 DEF Quietly, LeftBehind
  <1>10. PICK now \in SUBSET Guests : now = call'[k].asked
    BY <1>6
  <1>. QED
    BY <1>1, <1>6, <1>8, <1>9, <1>10, QuietStep

LEMMA ClosingStep ==
    ASSUME IInv, NEW k \in CallIds, RetrySuspendCleanup(k) \/ Dispose(k)
    PROVE  IInv'
  <1>1. CASE RetrySuspendCleanup(k)
    <2>1. TypeOK
      BY DEF IInv, AlwaysInv
    <2>2. FacadeKept /\ facade'.life = facade.life
      BY <1>1, <2>1, FacadeStays DEF RetrySuspendCleanup
    <2>. QED
      BY <1>1, <2>2, BeginStoppingStep DEF RetrySuspendCleanup
  <1>2. CASE Dispose(k)
    <2>1. PICK yes \in BOOLEAN : yes = TRUE
      OBVIOUS
    <2>2. facade \in FacadeType /\ facade' = [facade EXCEPT !.disposed = yes]
      BY <1>2, <2>1 DEF IInv, AlwaysInv, TypeOK, Dispose
    <2>3. FacadeKept /\ facade'.life = facade.life
      BY <2>2 DEF FacadeKept, FacadeType
    <2>. QED
      BY <1>2, <2>3, BeginStoppingStep DEF Dispose
  <1>. QED
    BY <1>1, <1>2

-----------------------------------------------------------------------------
(* ... that wake it *)

LEMMA BootedStep ==
    ASSUME IInv, NEW k \in CallIds, Booted(k)
    PROVE  IInv'
  <1>1. InFlight(k) /\ UNCHANGED <<store, coord, apart>> /\ call[k].at = "booting"
    BY DEF Booted, InFlight, Answered
  <1>2. /\ AlwaysInv /\ TypeOK
        /\ call[k] \in CallType /\ Fits(call[k].kind, call[k].at)
        /\ apart' => apart /\ LifeFits(k) /\ OnActive(k) /\ RestoresFit(k)
    BY <1>1, Continues
  <1>3. call[k].kind = "initialize" /\ FALSE \in BOOLEAN
    BY <1>1, <1>2 DEF Fits, Capturers, Closers
  <1>4. ~LeftBehind(k) /\ (apart' => NoRestores)
    BY <1>1, <1>2 DEF LeftBehind, RestoresFit, At
  <1>5. CASE /\ Ask(k, call[k], call[k].ctx, NotStopped(call[k].ctx), "shutdown", "unbooting")
             /\ UNCHANGED facade
    <2>1. FacadeKept /\ facade'.life = facade.life
      BY <1>2, <1>5, FacadeStays
    <2>2. /\ "shutdown" \in AnyCommand /\ "unbooting" \in Awaits /\ Asks("unbooting", "shutdown")
          /\ NotStopped(call[k].ctx) \in SUBSET Guests
      BY Names, Inside DEF Asks
    <2>3. /\ call'[k].kind = call[k].kind /\ call'[k].ctx = call[k].ctx /\ call'[k].at = "unbooting"
          /\ call'[k].gen = call[k].gen /\ call'[k].error = call[k].error
          /\ NoRestores => NoRestores'
      <3>1. /\ TypeOK /\ call[k] \in CallType /\ FacadeKept
            /\ Ask(k, call[k], call[k].ctx, NotStopped(call[k].ctx), "shutdown", "unbooting")
        BY <1>2, <1>5, <2>1
      <3>. QED
        BY <3>1, <2>2, AskKeeps
    <2>4. ASSUME apart' PROVE Quietly(k, call'[k].asked, "shutdown")
      <3>1. LifeFits(k)' /\ OnActive(k)' /\ RestoresFit(k)'
        BY <1>1, <1>2, <1>3, <2>1, <2>3, <2>4 DEF LifeFits, OnActive, RestoresFit, At, FacadeKept
      <3>2. Phase(k)'
        BY <2>3, <3>1, PlainPhase DEF Plainly
      <3>. QED
        BY <1>4, <2>1, <3>2 DEF Quietly
    <2>5. Fits(call[k].kind, "unbooting")
      BY <1>3 DEF Fits
    <2>. QED
      BY <1>1, <1>2, <1>5, <2>1, <2>2, <2>4, <2>5, AskStep
  <1>6. CASE /\ facade' = [facade EXCEPT !.life = "hot"]
             /\ Finish(k, call[k], FALSE) /\ UNCHANGED guest
    <2>1. "hot" \in AnyLife
      BY DEF AnyLife
    <2>2. FacadeKept /\ facade'.life = "hot"
      BY <1>2, <1>6, <2>1, FacadeLife DEF FacadeKept
    <2>. QED
      BY <1>1, <1>2, <1>3, <1>4, <1>6, <2>2, FinishStep
  <1>. QED
    BY <1>5, <1>6 DEF Booted

\* The next guest is asked to restore, in a computer that wakes.
LEMMA RestoringStep ==
    ASSUME IInv, NEW k \in CallIds, UNCHANGED <<facade, store, coord, apart>>,
           NEW r \in CallType, NEW gs \in SUBSET Guests, NEW arg \in Memory,
           AskNext(k, r, r.ctx, gs, "restore", "restoring", arg),
           r.kind = "initialize", call[k].kind = "initialize",
           r.ctx \in {facade.active, call[k].ctx}, r.gen \in 1..Len(store.gens),
           apart' => store.head # 0,
           \/ call[k].at = "reading" /\ gs = Guests
           \/ /\ call[k].at = "restoring" /\ call[k].asked = {} /\ ~call[k].failed
              /\ r.ctx = call[k].ctx /\ gs = call[k].todo,
           call[k].at = "reading" => r.ctx = facade.active
    PROVE  IInv'
  <1>1. InFlight(k) /\ call[k].at \in {"reading", "restoring"}
    BY DEF InFlight
  <1>2. /\ AlwaysInv /\ TypeOK /\ Len(store.gens) \in Nat /\ facade.active \in Contexts
        /\ call[k] \in CallType
        /\ apart' \in BOOLEAN
        /\ apart' => apart /\ Alone(k) /\ LifeFits(k) /\ OnActive(k) /\ RestoresFit(k)
    BY <1>1, Continues
  <1>3. FacadeKept /\ facade'.life = facade.life
    BY <1>2, FacadeStays
  <1>4. "restore" \in AnyCommand /\ "restoring" \in Awaits /\ Asks("restoring", "restore")
    BY Names DEF Asks
  <1>5. /\ CallStep(k, call'[k].asked, "restore") /\ StatesKept /\ Carries(k, r, "restoring")
        /\ Posted(k, r.ctx, call'[k].asked, "restore", "restoring")
        /\ call'[k].todo = gs /\ call'[k].asked \in SUBSET gs
        /\ call'[k].asked \in SUBSET Guests
        /\ \A g, h \in call'[k].asked : g = h
    BY <1>2, <1>4, AskNextSteps
  <1>6. /\ call'[k].kind = "initialize" /\ call'[k].ctx = r.ctx /\ call'[k].at = "restoring"
        /\ call'[k].gen = r.gen
    BY <1>5 DEF Carries
  <1>7. Legal(k, call'[k].asked)
    <2>1. Len(store.gens) <= Len(store'.gens) /\ call'[k].gen \in 1..Len(store'.gens)
      BY <1>2, <1>6
    <2>2. Fits(call'[k].kind, call'[k].at)
      BY <1>6 DEF Fits
    <2>3. ~At(k, {"done"}) /\ (At(k, {"pausing", "restoring"}) => call[k].asked = {})
      BY <1>1 DEF At
    <2>4. \/ At(k, NoCommandsYet)
          \/ /\ call'[k].at = call[k].at /\ ~call[k].failed /\ call'[k].todo = call[k].todo
             /\ call'[k].ctx = call[k].ctx
      BY <1>1, <1>5, <1>6 DEF At, NoCommandsYet
    <2>5. call'[k].at \notin {"idle", "readingHead", "flushing", "pausingCandidate", "publishing",
                              "adopting"} \union NoCommandsYet
      BY <1>6 DEF NoCommandsYet
    <2>6. At(k, NoCommandsYet \union {"pausing", "readingHead"}) \/ call'[k].at # "pausing"
      BY <1>6
    <2>. QED
      BY <1>5, <1>6, <2>1, <2>2, <2>3, <2>4, <2>5 DEF Legal
  <1>8. ASSUME apart' PROVE Quietly(k, call'[k].asked, "restore")
    <2>1. facade.life \in {"waking", "failed"} /\ r.ctx = facade.active
      BY <1>1, <1>2, <1>8 DEF LifeFits, OnActive, At
    <2>2. PICK c \in Contexts : c = facade.active
      BY <1>2
    <2>3. ASSUME NEW g \in Guests \ gs, ~call'[k].failed PROVE NoRestore(c, g)'
      <3>1. NoRestore(c, g)
        BY <1>2, <1>8, <2>2, <2>3 DEF RestoresFit, At
      <3>2. g \notin call'[k].asked
        BY <1>5
      <3>3. Posted(k, c, call'[k].asked, "restore", "restoring")
        BY <1>5, <2>1, <2>2
      <3>. QED
        BY <1>2, <3>1, <3>2, <3>3, NoRestorePosted
    <2>4. LifeFits(k)' /\ OnActive(k)'
      BY <1>3, <1>6, <2>1 DEF LifeFits, OnActive, FacadeKept, Capturers
    <2>5. \A g \in Guests \ call'[k].todo : ~call'[k].failed => NoRestore(facade.active, g)'
      BY <1>5, <1>3, <2>2, <2>3 DEF FacadeKept, NoRestore, Queue
    <2>6. RestoresFit(k)'
      BY <1>3, <1>6, <1>8, <2>5 DEF RestoresFit, At, FacadeKept
    <2>7. Phase(k)'
      BY <1>6, <2>4, <2>6, PlainPhase DEF Plainly
    <2>. QED
      BY <1>3, <1>6, <1>8, <2>1, <2>7 DEF Quietly, LeftBehind
  <1>9. PICK now \in SUBSET Guests : now = call'[k].asked
    BY <1>5
  <1>10. call[k].at \notin {"releasing", "givingUp"}
    BY <1>1
  <1>. QED
    BY <1>2, <1>3, <1>5, <1>7, <1>8, <1>9, <1>10, QuietStep

LEMMA RestoreNextStep ==
    ASSUME IInv, NEW k \in CallIds, RestoreNext(k)
    PROVE  IInv'
  <1>1. /\ InFlight(k) /\ UNCHANGED <<facade, store, coord, apart>>
        /\ call[k].at = "restoring" /\ call[k].asked = {} /\ ~call[k].failed
    BY DEF RestoreNext, InFlight, Answered
  <1>2. /\ AlwaysInv /\ TypeOK /\ Len(store.gens) \in Nat /\ facade.active \in Contexts
        /\ call[k] \in CallType /\ Fits(call[k].kind, call[k].at)
        /\ apart' => apart /\ LifeFits(k) /\ OnActive(k) /\ RestoresFit(k)
    BY <1>1, Continues
  <1>3. call[k].kind = "initialize"
    BY <1>1, <1>2 DEF Fits, Capturers, Closers
  <1>4. /\ call[k].gen \in 1..Len(store.gens)
        /\ call[k].ctx \in Contexts /\ call[k].todo \in SUBSET Guests
    BY <1>1, <1>2 DEF AlwaysInv, PlacesFit, At, CallType
  <1>5. store.gens[call[k].gen].mem \in Memory /\ (apart' => store.head # 0)
    <2>1. store.gens[call[k].gen] \in Record
      BY <1>2, <1>4, StoreTyped
    <2>. QED
      BY <1>1, <1>2, <2>1 DEF Record, RestoresFit, At
  <1>6. CASE call[k].todo # {}
    <2>1. AskNext(k, call[k], call[k].ctx, call[k].todo, "restore", "restoring",
                  store.gens[call[k].gen].mem)
      BY <1>6 DEF RestoreNext
    <2>. QED
      BY <1>1, <1>2, <1>3, <1>4, <1>5, <2>1, RestoringStep
  <1>7. CASE call[k].todo = {}
    <2>1. Ask(k, call[k], call[k].ctx, In(call[k].ctx, {"paused"}), "resume", "resumingAll")
      BY <1>7 DEF RestoreNext
    <2>2. FacadeKept /\ facade'.life = facade.life
      BY <1>1, <1>2, FacadeStays
    <2>3. /\ "resume" \in AnyCommand /\ "resumingAll" \in Awaits /\ Asks("resumingAll", "resume")
          /\ In(call[k].ctx, {"paused"}) \in SUBSET Guests
      BY Names, Inside DEF Asks
    <2>4. /\ call'[k].kind = call[k].kind /\ call'[k].ctx = call[k].ctx /\ call'[k].at = "resumingAll"
          /\ call'[k].gen = call[k].gen /\ call'[k].error = call[k].error
          /\ NoRestores => NoRestores'
      <3>1. /\ TypeOK /\ call[k] \in CallType /\ FacadeKept
            /\ Ask(k, call[k], call[k].ctx, In(call[k].ctx, {"paused"}), "resume", "resumingAll")
        BY <1>2, <2>1, <2>2
      <3>. QED
        BY <3>1, <2>3, AskKeeps
    <2>5. ASSUME apart' PROVE Quietly(k, call'[k].asked, "resume")
      <3>1. NoRestores /\ NoRestores'
        BY <1>1, <1>2, <1>7, <2>4, <2>5 DEF RestoresFit, NoRestores, At
      <3>2. LifeFits(k)' /\ OnActive(k)' /\ RestoresFit(k)'
        BY <1>1, <1>2, <1>3, <2>2, <2>4, <2>5, <3>1 DEF LifeFits, OnActive, RestoresFit, At, FacadeKept
      <3>3. Phase(k)'
        BY <2>4, <3>2, PlainPhase DEF Plainly
      <3>4. facade.life \in {"waking", "failed"}
        BY <1>2, <1>3, <2>5 DEF LifeFits
      <3>. QED
        BY <1>3, <2>2, <3>1, <3>3, <3>4 DEF Quietly, LeftBehind
    <2>6. Fits(call[k].kind, "resumingAll")
      BY <1>3 DEF Fits
    <2>. QED
      BY <1>1, <1>2, <2>1, <2>2, <2>3, <2>5, <2>6, AskStep
  <1>. QED
    BY <1>6, <1>7

-----------------------------------------------------------------------------
(* Steps that touch the store, the lock or the guests' states *)

Openly(k, now, do) ==
    /\ call'[k].at # "done" => Phase(k)'
    /\ now = {} \/ do # "restore"
    /\ \/ facade.life = "hot"
       \/ /\ facade'.life # "hot" /\ facade'.active = facade.active
          /\ store'.head = 0 => store.head = 0
    /\ OneMoment' /\ ClosedKept' /\ LockKept' /\ HeadKept'

LEMMA OpenStep ==
    ASSUME IInv, NEW k \in CallIds, NEW now \in SUBSET Guests, NEW do,
           CallStep(k, now, do), Legal(k, now), TypeOK',
           apart' \in BOOLEAN, apart' => apart /\ Alone(k),
           apart' => Openly(k, now, do)
    PROVE  IInv'
  <1>1. AlwaysInv /\ TypeOK
    BY DEF IInv, AlwaysInv
  <1>2. AlwaysInv'
    BY <1>1, AlwaysStep
  <1>. SUFFICES ASSUME apart' PROVE ApartInv'
    BY <1>2 DEF IInv
  <1>3. ApartInv /\ Alone(k) /\ Openly(k, now, do)
    BY DEF IInv
  <1>4. \A j \in CallIds : j # k => call'[j] = call[j] /\ ~InFlight(j) /\ ~InFlight(j)'
    BY <1>3 DEF CallStep, Moved, Alone, InFlight
  <1>5. Sole' /\ \A j \in CallIds : InFlight(j)' => Phase(j)'
    BY <1>3, <1>4 DEF Sole, Openly, InFlight
  <1>6. RestoresDone'
    <2>1. PICK x \in Contexts : x = call'[k].ctx
      BY DEF TypeOK, CallType
    <2>. PICK place : Posted(k, x, now, do, place)
      BY <2>1 DEF CallStep
    <2>2. \A d \in Contexts, h \in Guests :
            NoRestore(d, h) /\ (~(d = x /\ h \in now) \/ do # "restore") => NoRestore(d, h)'
      <3>1. TypeOK /\ Posted(k, x, now, do, place)
        BY <1>1
      <3>. QED
        BY <3>1, NoRestorePosted
    <2>3. \A d \in Contexts, h \in Guests : NoRestore(d, h) => NoRestore(d, h)'
      BY <1>3, <2>2 DEF Openly
    <2>4. ASSUME NEW c \in Contexts, NEW g \in Guests,
                 c # facade'.active \/ store'.head = 0 \/ facade'.life = "hot"
          PROVE  NoRestore(c, g)
      BY <1>3, <2>4 DEF ApartInv, RestoresDone, Openly
    <2>. QED
      BY <2>3, <2>4 DEF RestoresDone
  <1>. QED
    BY <1>3, <1>5, <1>6 DEF ApartInv, Openly

LEMMA HeadStays ==
    ASSUME HeadKept, NEW k \in CallIds, Moved(k),
           store'.head = store.head, store'.gens = store.gens,
           facade'.active = facade.active, LeftBehind(k) => LeftBehind(k)'
    PROVE  HeadKept'
  <1>1. ASSUME NEW j \in CallIds, LeftBehind(j) PROVE LeftBehind(j)'
    BY <1>1 DEF Moved, LeftBehind, At
  <1>. QED
    BY <1>1 DEF HeadKept

LEMMA MomentsStay ==
    ASSUME OneMoment, store'.gens = store.gens
    PROVE  OneMoment'
  BY DEF OneMoment

\* Nobody stops a coordinator but the call that makes the step.
LEMMA LockStays ==
    ASSUME NEW k \in CallIds, Alone(k), LockKept, UNCHANGED coord,
           call[k].at \notin {"releasing", "givingUp"}, facade'.initialized = facade.initialized
    PROVE  LockKept'
  <1>1. \A j \in CallIds : ~Stopper(j)
    BY DEF Alone, Stopper, InFlight, At
  <1>. QED
    BY <1>1 DEF LockKept

-----------------------------------------------------------------------------
(* ... that commit a generation *)

LEMMA Published ==
    ASSUME TypeOK, NEW gen \in Record, Publish(gen)
    PROVE  /\ store' \in [head : Nat, gens : Seq(Record), epoch : Nat, owned : BOOLEAN,
                          damaged : SUBSET Nat]
           /\ Len(store'.gens) = Len(store.gens) + 1 /\ Len(store.gens) \in Nat
           /\ store'.head = Len(store'.gens) /\ store'.head # 0
           /\ store'.gens[store'.head] = gen
           /\ gen.mem = gen.disk /\ OneMoment => OneMoment'
  <1>. DEFINE gens == Append(store.gens, gen)
              n == Len(store.gens) + 1
  <1>1. store.gens \in Seq(Record) /\ Len(store.gens) \in Nat
    BY StoreTyped
  <1>2. /\ gens \in Seq(Record) /\ Len(gens) = n /\ gens[n] = gen
        /\ \A i \in 1..Len(store.gens) : gens[i] = store.gens[i]
    BY <1>1
  <1>3. store' = [store EXCEPT !.gens = gens, !.head = n] /\ n \in Nat /\ n # 0
    BY <1>1 DEF Publish
  <1>. HIDE DEF gens
  <1>4. /\ store' \in [head : Nat, gens : Seq(Record), epoch : Nat, owned : BOOLEAN,
                       damaged : SUBSET Nat]
        /\ store'.gens = gens /\ store'.head = n
    BY <1>2, <1>3 DEF TypeOK
  <1>5. ASSUME gen.mem = gen.disk, OneMoment PROVE OneMoment'
    <2>1. \A i \in 1..n : i = n \/ i \in 1..Len(store.gens)
      BY <1>1
    <2>2. \A i \in 1..n : gens[i].mem = gens[i].disk
      BY <1>2, <1>5, <2>1 DEF OneMoment
    <2>. QED
      BY <1>2, <1>4, <2>2 DEF OneMoment
  <1>. QED
    BY <1>1, <1>2, <1>3, <1>4, <1>5

LEMMA CommitStep ==
    ASSUME IInv, NEW k \in CallIds, Commit(k)
    PROVE  IInv'
  <1>. DEFINE n == Len(store.gens) + 1
              done == [call[k] EXCEPT !.gen = n]
              gen == Generation(call[k], call[k].ctx)
  <1>1. InFlight(k) /\ UNCHANGED <<coord, apart>> /\ call[k].at = "committing"
    BY DEF Commit, InFlight
  <1>2. /\ AlwaysInv /\ TypeOK /\ Len(store.gens) \in Nat /\ facade.active \in Contexts
        /\ call[k] \in CallType /\ Fits(call[k].kind, call[k].at)
        /\ apart' \in BOOLEAN
        /\ apart' => /\ apart /\ ApartInv /\ Alone(k)
                     /\ LifeFits(k) /\ OnActive(k) /\ RestoresFit(k) /\ CapturesFit(k)
    BY <1>1, Continues
  <1>3. call[k].kind \in {"save", "suspend"}
    BY <1>1, <1>2 DEF Fits, Capturers, Closers
  <1>4. CASE OperationFails(k, call[k]) /\ UNCHANGED store
    BY <1>1, <1>2, <1>3, <1>4, OperationFailsStep
  <1>5. CASE /\ Publish(gen) /\ UNCHANGED facade
             /\ IF call[k].kind = "suspend"
                THEN Go(k, done, "verifying") /\ UNCHANGED guest
                ELSE ResumeIds(k, done, "resuming")
    <2>1. gen \in Record /\ gen.ctx = call[k].ctx /\ gen.mem = call[k].mem /\ gen.disk = call[k].disk
      BY <1>2 DEF Generation, Record, CallType
    <2>2. /\ done \in CallType /\ done.kind = call[k].kind /\ done.ctx = call[k].ctx
          /\ done.mem = call[k].mem /\ done.disk = call[k].disk
      BY <1>2 DEF CallType
    <2>. HIDE DEF gen, done
    <2>3. /\ store' \in [head : Nat, gens : Seq(Record), epoch : Nat, owned : BOOLEAN,
                         damaged : SUBSET Nat]
          /\ Len(store'.gens) = Len(store.gens) + 1
          /\ store'.head = Len(store'.gens) /\ store'.head # 0
          /\ store'.gens[store'.head] = gen
          /\ gen.mem = gen.disk /\ OneMoment => OneMoment'
      BY <1>2, <1>5, <2>1, Published
    <2>4. Len(store.gens) <= Len(store'.gens) /\ store'.head \in 0..Len(store'.gens)
      BY <1>2, <2>3
    <2>5. /\ FacadeKept /\ facade'.life = facade.life /\ facade'.active = facade.active
          /\ facade'.initialized = facade.initialized
      BY <1>2, <1>5, FacadeStays DEF FacadeKept
    <2>6. ASSUME apart'
          PROVE  /\ call[k].ctx = facade.active /\ call[k].mem = call[k].disk
                 /\ \A g \in Guests : Still(Here(k, g), call[k].mem[g])
                 /\ OneMoment' /\ ClosedKept' /\ LockKept' /\ HeadKept'
                 /\ facade.life \notin {"cold", "cleanupIncomplete"}
      <3>1. /\ call[k].ctx = facade.active /\ call[k].mem = call[k].disk
            /\ \A g \in Guests : Still(Here(k, g), call[k].mem[g])
        BY <1>1, <1>2, <1>3, <2>6 DEF OnActive, CapturesFit, At
      <3>2. OneMoment'
        BY <1>2, <2>1, <2>3, <2>6, <3>1 DEF ApartInv
      <3>3. facade.life \notin {"cold", "cleanupIncomplete"}
        BY <1>2, <1>3, <2>6 DEF LifeFits
      <3>4. ClosedKept'
        BY <2>5, <3>3 DEF ClosedKept
      <3>5. LockKept
        BY <1>2, <2>6 DEF ApartInv
      <3>6. LockKept'
        BY <1>1, <1>2, <2>5, <2>6, <3>5, LockStays
      <3>7. HeadKept'
        BY <2>1, <2>3, <2>5, <3>1 DEF HeadKept
      <3>. QED
        BY <3>1, <3>2, <3>3, <3>4, <3>6, <3>7
    <2>7. CASE call[k].kind = "suspend"
      <3>1. Go(k, done, "verifying") /\ UNCHANGED guest /\ "verifying" \in Awaits
        BY <1>5, <2>7, Names
      <3>2. CallStep(k, {}, "none") /\ StatesKept /\ Carries(k, done, "verifying")
        BY <1>2, <2>2, <3>1, GoSteps
      <3>3. /\ call'[k].kind = call[k].kind /\ call'[k].ctx = call[k].ctx /\ call'[k].at = "verifying"
            /\ call'[k].mem = call[k].mem /\ call'[k].disk = call[k].disk
            /\ NoRestores => NoRestores'
        BY <1>2, <2>2, <2>5, <3>1, GoKeeps
      <3>4. TypeOK'
        BY <1>1, <1>2, <1>5, <2>3, <2>4, <3>2 DEF TypeOK, CallStep, Moved, GuestsTyped
      <3>5. Fits(call'[k].kind, call'[k].at)
        BY <2>7, <3>3 DEF Fits
      <3>6. Legal(k, {})
        BY <1>1, <2>4, <3>3, <3>5 DEF Legal, At, NoCommandsYet
      <3>7. ASSUME apart' PROVE Openly(k, {}, "none")
        <4>1. LifeFits(k)' /\ OnActive(k)' /\ RestoresFit(k)'
          BY <1>2, <2>5, <2>6, <2>7, <3>3, <3>7 DEF LifeFits, OnActive, RestoresFit, At
        <4>2. \A g \in Guests : Here(k, g)' = Here(k, g)
          BY <3>1, <3>3 DEF Here
        <4>3. CapturesFit(k)'
          BY <2>1, <2>3, <2>6, <3>3, <3>7, <4>2 DEF CapturesFit, At
        <4>4. Phase(k)'
          BY <3>3, <4>1, <4>3 DEF Phase, ClosingFits, LockFits, HeadFits, At
        <4>. QED
          BY <2>3, <2>5, <2>6, <3>7, <4>4 DEF Openly
      <3>. QED
        BY <1>2, <3>2, <3>4, <3>6, <3>7, OpenStep
    <2>8. CASE call[k].kind = "save"
      <3>. DEFINE gs == done.ids \cap In(done.ctx, {"paused"})
      <3>1. Ask(k, done, done.ctx, gs, "resume", "resuming") /\ gs \in SUBSET Guests
        BY <1>5, <2>2, <2>8 DEF ResumeIds, CallType
      <3>. HIDE DEF gs
      <3>2. "resume" \in AnyCommand /\ "resuming" \in Awaits /\ Asks("resuming", "resume")
        BY Names DEF Asks
      <3>3. /\ CallStep(k, call'[k].asked, "resume") /\ StatesKept /\ Carries(k, done, "resuming")
            /\ call'[k].asked \in SUBSET Guests
        <4>1. TypeOK /\ done \in CallType
          BY <1>2, <2>2
        <4>2. /\ CallStep(k, call'[k].asked, "resume") /\ StatesKept /\ Carries(k, done, "resuming")
              /\ Posted(k, done.ctx, call'[k].asked, "resume", "resuming")
              /\ call'[k].todo = gs /\ call'[k].asked \in SUBSET gs
              /\ call'[k].asked \in SUBSET Guests
              /\ \/ call'[k].asked = gs /\ ~call'[k].failed
                 \/ call'[k].asked = {} /\ (call'[k].failed <=> gs # {})
          BY <4>1, <3>1, <3>2, AskSteps
        <4>. QED
          BY <4>2
      <3>4. /\ call'[k].kind = call[k].kind /\ call'[k].ctx = call[k].ctx /\ call'[k].at = "resuming"
        BY <1>2, <2>2, <2>5, <3>1, <3>2, AskKeeps
      <3>5. TypeOK'
        BY <1>1, <1>2, <1>5, <2>3, <2>4, <3>3 DEF TypeOK, CallStep, Moved, GuestsTyped
      <3>6. Fits(call'[k].kind, call'[k].at)
        BY <2>8, <3>4 DEF Fits
      <3>7. Legal(k, call'[k].asked)
        BY <1>1, <2>4, <3>4, <3>6 DEF Legal, At, NoCommandsYet
      <3>8. ASSUME apart' PROVE Openly(k, call'[k].asked, "resume")
        <4>1. LifeFits(k)' /\ OnActive(k)' /\ RestoresFit(k)'
          BY <1>2, <2>5, <2>6, <2>8, <3>4, <3>8 DEF LifeFits, OnActive, RestoresFit, At
        <4>2. Phase(k)'
          BY <3>4, <4>1, PlainPhase DEF Plainly
        <4>. QED
          BY <2>3, <2>5, <2>6, <3>8, <4>2 DEF Openly
      <3>9. PICK now \in SUBSET Guests : now = call'[k].asked
        BY <3>3
      <3>. QED
        BY <1>2, <3>3, <3>5, <3>7, <3>8, <3>9, OpenStep
    <2>. QED
      BY <1>3, <2>7, <2>8
  <1>. QED
    BY <1>4, <1>5 DEF Commit

-----------------------------------------------------------------------------
(* ... that import an image *)

LEMMA CandidatePosts ==
    ASSUME TypeOK, NEW k \in CallIds, NEW c \in Contexts,
           NEW state \in {"running", "paused", "stopped"}, guest' = Candidate(c, state)
    PROVE  /\ GuestsTyped
           /\ \A d, do, place : Posted(k, d, {}, do, place)
  <1>. DEFINE m(g) == [guest[c][g] EXCEPT !.state = state]
  <1>1. guest' = [guest EXCEPT ![c] = [g \in Guests |-> m(g)]]
    BY DEF Candidate
  <1>2. guest \in [Contexts -> [Guests -> GuestType]]
    BY DEF TypeOK
  <1>3. ASSUME NEW g \in Guests PROVE m(g) \in GuestType /\ m(g).queue = Queue(c, g)
    <2>1. guest[c][g] \in GuestType
      BY <1>2, <1>3
    <2>. QED
      BY <2>1 DEF GuestType, Queue
  <1>. HIDE DEF m
  <1>4. GuestsTyped
    BY <1>1, <1>2, <1>3 DEF GuestsTyped
  <1>5. \A d \in Contexts, g \in Guests : guest'[d][g].queue = Queue(d, g)
    BY <1>1, <1>2, <1>3 DEF Queue
  <1>6. \A d, do, place : Posted(k, d, {}, do, place)
    BY <1>5 DEF Posted, SameCommand
  <1>. QED
    BY <1>4, <1>6

LEMMA CandidateStep ==
    ASSUME IInv, NEW k \in CallIds, UNCHANGED <<facade, store, coord, apart>>,
           call[k].at \in {"staging", "pausingCandidate", "publishing", "adopting"},
           NEW r \in CallType, NEW c \in Contexts, NEW state \in {"running", "paused", "stopped"},
           guest' = Candidate(c, state),
           NEW place \in {"pausingCandidate", "publishing", "unstaging"}, Go(k, r, place),
           r.kind = call[k].kind, r.ctx = call[k].ctx, r.gen = call[k].gen,
           place # "unstaging" => call[k].at # "adopting" /\ r.cand \in Contexts,
           place = "publishing" => r.mem = r.disk
    PROVE  IInv'
  <1>1. InFlight(k)
    BY DEF InFlight
  <1>2. /\ AlwaysInv /\ TypeOK /\ Len(store.gens) \in Nat /\ facade.active \in Contexts
        /\ call[k] \in CallType /\ Fits(call[k].kind, call[k].at)
        /\ apart' \in BOOLEAN
        /\ apart' => /\ apart /\ ApartInv /\ Alone(k)
                     /\ LifeFits(k) /\ OnActive(k) /\ RestoresFit(k)
    BY <1>1, Continues
  <1>3. call[k].kind = "importImage" /\ place \in Awaits
    BY <1>2, Names DEF Fits, Capturers, Closers
  <1>4. Moved(k) /\ Carries(k, r, place)
    BY <1>2, <1>3, GoMoves
  <1>5. /\ call'[k].kind = "importImage" /\ call'[k].ctx = call[k].ctx /\ call'[k].at = place
        /\ call'[k].gen = call[k].gen /\ call'[k].cand = r.cand
        /\ call'[k].mem = r.mem /\ call'[k].disk = r.disk
    BY <1>3, <1>4 DEF Carries
  <1>6. CallStep(k, {}, "none") /\ GuestsTyped
    BY <1>2, <1>4, CandidatePosts DEF CallStep
  <1>7. TypeOK'
    BY <1>2, <1>4, <1>6 DEF TypeOK, Moved, GuestsTyped
  <1>8. Legal(k, {})
    <2>1. Len(store.gens) <= Len(store'.gens)
      BY <1>2
    <2>2. Fits(call'[k].kind, call'[k].at)
      BY <1>5 DEF Fits
    <2>. QED
      BY <1>5, <2>1, <2>2 DEF Legal, At, NoCommandsYet
  <1>9. ASSUME apart' PROVE Openly(k, {}, "none")
    <2>1. facade.life = "hot" /\ facade'.life = "hot" /\ call[k].ctx = facade.active
      BY <1>2, <1>3, <1>9 DEF LifeFits, OnActive, At
    <2>2. LifeFits(k)' /\ OnActive(k)' /\ RestoresFit(k)'
      BY <1>5, <2>1 DEF LifeFits, OnActive, RestoresFit, At
    <2>3. Phase(k)'
      BY <1>5, <2>2 DEF Phase, CapturesFit, ClosingFits, LockFits, HeadFits, Committed, At, Closers
    <2>4. LeftBehind(k) => LeftBehind(k)'
      BY <1>5 DEF LeftBehind, At
    <2>5. OneMoment /\ LockKept /\ HeadKept
      BY <1>2, <1>9 DEF ApartInv
    <2>6. OneMoment' /\ HeadKept'
      BY <1>4, <2>4, <2>5, MomentsStay, HeadStays
    <2>7. LockKept'
      BY <1>2, <1>9, <2>5, LockStays
    <2>8. ClosedKept'
      BY <2>1 DEF ClosedKept
    <2>. QED
      BY <2>1, <2>3, <2>6, <2>7, <2>8 DEF Openly
  <1>. QED
    BY <1>2, <1>6, <1>7, <1>8, <1>9, OpenStep

LEMMA CandidateFailsStep ==
    ASSUME IInv, NEW k \in CallIds, UNCHANGED <<facade, store, coord, apart>>,
           call[k].at \in {"pausingCandidate", "publishing", "adopting"},
           NEW r \in CallType, CandidateFails(k, r),
           r.kind = call[k].kind, r.ctx = call[k].ctx, r.gen = call[k].gen, r.cand = call[k].cand
    PROVE  IInv'
  <1>1. r.cand \in Contexts
    BY DEF IInv, AlwaysInv, PlacesFit, At
  <1>2. "unstaging" \in {"pausingCandidate", "publishing", "unstaging"}
        /\ "stopped" \in {"running", "paused", "stopped"}
    OBVIOUS
  <1>3. guest' = Candidate(r.cand, "stopped") /\ Go(k, r, "unstaging")
    BY DEF CandidateFails
  <1>. QED
    BY <1>1, <1>2, <1>3, CandidateStep

LEMMA StagedStep ==
    ASSUME IInv, NEW k \in CallIds, Staged(k)
    PROVE  IInv'
  <1>1. InFlight(k) /\ UNCHANGED <<facade, store, coord, apart>> /\ call[k].at = "staging"
    BY DEF Staged, InFlight
  <1>2. /\ TypeOK /\ call[k] \in CallType /\ Fits(call[k].kind, call[k].at)
        /\ apart' => apart /\ LifeFits(k) /\ OnActive(k) /\ RestoresFit(k)
    BY <1>1, Continues
  <1>3. call[k].kind = "importImage"
    BY <1>1, <1>2 DEF Fits, Capturers, Closers
  <1>4. ASSUME NEW c \in Contexts, guest' = Candidate(c, "running"),
               Go(k, [call[k] EXCEPT !.cand = c], "pausingCandidate")
        PROVE  IInv'
    <2>. DEFINE r == [call[k] EXCEPT !.cand = c]
    <2>1. c \in Nat
      BY Constants_ DEF Contexts
    <2>2. /\ r \in CallType /\ r.kind = call[k].kind /\ r.ctx = call[k].ctx
          /\ r.gen = call[k].gen /\ r.cand = c
      BY <1>2, <2>1 DEF CallType
    <2>3. Go(k, r, "pausingCandidate")
      BY <1>4
    <2>. HIDE DEF r
    <2>4. "pausingCandidate" \in {"pausingCandidate", "publishing", "unstaging"}
          /\ "running" \in {"running", "paused", "stopped"}
      OBVIOUS
    <2>. QED
      BY <1>1, <1>4, <2>2, <2>3, <2>4, CandidateStep
  <1>5. CASE Go(k, call[k], "unstaging") /\ UNCHANGED guest
    <2>1. FacadeKept /\ facade'.life = facade.life
      BY <1>1, <1>2, FacadeStays
    <2>2. "unstaging" \in Awaits /\ Fits(call[k].kind, "unstaging")
      BY <1>3, Names DEF Fits
    <2>3. /\ call'[k].kind = call[k].kind /\ call'[k].ctx = call[k].ctx /\ call'[k].at = "unstaging"
      BY <1>2, <1>5, <2>1, <2>2, GoKeeps
    <2>4. ASSUME apart' PROVE Quietly(k, {}, "none")
      <3>1. LifeFits(k)' /\ OnActive(k)' /\ RestoresFit(k)'
        BY <1>1, <1>2, <1>3, <2>1, <2>3, <2>4 DEF LifeFits, OnActive, RestoresFit, At, FacadeKept
      <3>2. Phase(k)'
        BY <2>3, <3>1, PlainPhase DEF Plainly
      <3>. QED
        BY <1>1, <2>1, <3>2 DEF Quietly, LeftBehind, At
    <2>5. "unstaging" \notin NoCommandsYet \union {"idle", "done", "pausing", "restoring"}
      BY DEF NoCommandsYet
    <2>. QED
      BY <1>1, <1>2, <1>5, <2>1, <2>2, <2>4, <2>5, GoStep
  <1>. QED
    BY <1>4, <1>5 DEF Staged

LEMMA CandidatePausedStep ==
    ASSUME IInv, NEW k \in CallIds, CandidatePaused(k)
    PROVE  IInv'
  <1>. DEFINE mem == [g \in Guests |-> guest[call[k].cand][g].mem]
              r == [call[k] EXCEPT !.head = store.head, !.token = facade.token,
                                   !.mem = mem, !.disk = mem]
  <1>1. /\ InFlight(k) /\ UNCHANGED <<facade, store, coord, apart>>
        /\ call[k].at = "pausingCandidate"
        /\ \/ CandidateFails(k, r)
           \/ Go(k, r, "publishing") /\ guest' = Candidate(r.cand, "paused")
    BY DEF CandidatePaused, InFlight
  <1>2. /\ AlwaysInv /\ TypeOK /\ call[k] \in CallType
    BY <1>1, Continues
  <1>3. call[k].cand \in Contexts
    BY <1>1, <1>2 DEF AlwaysInv, PlacesFit, At
  <1>4. mem \in Memory /\ store.head \in Nat /\ facade.token \in Nat
    BY <1>2, <1>3 DEF TypeOK, GuestType, Memory, FacadeType
  <1>. HIDE DEF mem
  <1>5. /\ r \in CallType /\ r.kind = call[k].kind /\ r.ctx = call[k].ctx
        /\ r.gen = call[k].gen /\ r.cand = call[k].cand /\ r.mem = r.disk
    BY <1>2, <1>4 DEF CallType
  <1>. HIDE DEF r
  <1>6. CASE CandidateFails(k, r)
    BY <1>1, <1>5, <1>6, CandidateFailsStep
  <1>7. CASE Go(k, r, "publishing") /\ guest' = Candidate(r.cand, "paused")
    <2>1. "publishing" \in {"pausingCandidate", "publishing", "unstaging"}
          /\ "paused" \in {"running", "paused", "stopped"} /\ r.cand \in Contexts
      BY <1>3, <1>5
    <2>. QED
      BY <1>1, <1>5, <1>7, <2>1, CandidateStep
  <1>. QED
    BY <1>1, <1>6, <1>7

LEMMA CandidateCommitStep ==
    ASSUME IInv, NEW k \in CallIds, CandidateCommit(k)
    PROVE  IInv'
  <1>. DEFINE n == Len(store.gens) + 1
              done == [call[k] EXCEPT !.gen = n]
              gen == Generation(call[k], call[k].cand)
  <1>1. InFlight(k) /\ UNCHANGED <<facade, coord, apart>> /\ call[k].at = "publishing"
    BY DEF CandidateCommit, InFlight
  <1>2. /\ AlwaysInv /\ TypeOK /\ Len(store.gens) \in Nat /\ facade.active \in Contexts
        /\ call[k] \in CallType /\ Fits(call[k].kind, call[k].at)
        /\ apart' \in BOOLEAN
        /\ apart' => /\ apart /\ ApartInv /\ Alone(k)
                     /\ LifeFits(k) /\ OnActive(k) /\ RestoresFit(k) /\ CapturesFit(k)
    BY <1>1, Continues
  <1>3. call[k].kind = "importImage" /\ call[k].cand \in Contexts
    BY <1>1, <1>2 DEF Fits, Capturers, Closers, AlwaysInv, PlacesFit, At
  <1>4. CASE CandidateFails(k, call[k]) /\ UNCHANGED store
    BY <1>1, <1>2, <1>4, CandidateFailsStep
  <1>5. CASE Publish(gen) /\ Go(k, done, "adopting") /\ UNCHANGED guest
    <2>1. gen \in Record /\ gen.ctx = call[k].cand /\ gen.mem = call[k].mem /\ gen.disk = call[k].disk
      BY <1>2, <1>3 DEF Generation, Record, CallType
    <2>2. n \in Nat /\ n # 0
      BY <1>2
    <2>3. /\ done \in CallType /\ done.kind = call[k].kind /\ done.ctx = call[k].ctx
          /\ done.cand = call[k].cand /\ done.gen = n
      BY <1>2, <2>2 DEF CallType
    <2>. HIDE DEF gen, done
    <2>4. /\ store' \in [head : Nat, gens : Seq(Record), epoch : Nat, owned : BOOLEAN,
                         damaged : SUBSET Nat]
          /\ Len(store'.gens) = Len(store.gens) + 1
          /\ store'.head = Len(store'.gens) /\ store'.head # 0
          /\ store'.gens[store'.head] = gen
          /\ gen.mem = gen.disk /\ OneMoment => OneMoment'
      BY <1>2, <1>5, <2>1, Published
    <2>5. Len(store.gens) <= Len(store'.gens) /\ store'.head \in 0..Len(store'.gens)
      BY <1>2, <2>4
    <2>6. "adopting" \in Awaits
      BY Names
    <2>7. CallStep(k, {}, "none") /\ StatesKept /\ Carries(k, done, "adopting")
      BY <1>2, <1>5, <2>3, <2>6, GoSteps
    <2>8. /\ call'[k].kind = "importImage" /\ call'[k].ctx = call[k].ctx /\ call'[k].at = "adopting"
          /\ call'[k].cand = call[k].cand /\ call'[k].gen # 0
      BY <1>3, <2>2, <2>3, <2>7 DEF Carries
    <2>9. TypeOK'
      BY <1>1, <1>2, <2>4, <2>5, <2>7 DEF TypeOK, CallStep, Moved, GuestsTyped
    <2>10. Legal(k, {})
      <3>1. Fits(call'[k].kind, call'[k].at)
        BY <2>8 DEF Fits
      <3>. QED
        BY <1>1, <1>3, <2>5, <2>8, <3>1 DEF Legal, At, NoCommandsYet
    <2>11. ASSUME apart' PROVE Openly(k, {}, "none")
      <3>1. /\ facade.life = "hot" /\ facade'.life = "hot" /\ call[k].ctx = facade.active
            /\ call[k].mem = call[k].disk
        BY <1>1, <1>2, <1>3, <2>11 DEF LifeFits, OnActive, CapturesFit, At
      <3>2. LifeFits(k)' /\ OnActive(k)' /\ RestoresFit(k)'
        BY <1>1, <2>8, <3>1 DEF LifeFits, OnActive, RestoresFit, At
      <3>3. HeadFits(k)'
        BY <2>1, <2>4, <2>8 DEF HeadFits
      <3>4. Phase(k)'
        BY <2>8, <3>2, <3>3 DEF Phase, CapturesFit, ClosingFits, LockFits, Committed, At, Closers
      <3>5. LeftBehind(k)'
        BY <2>8 DEF LeftBehind, At
      <3>6. HeadKept'
        BY <3>5 DEF HeadKept
      <3>7. OneMoment /\ LockKept
        BY <1>2, <2>11 DEF ApartInv
      <3>8. OneMoment'
        BY <2>1, <2>4, <3>1, <3>7
      <3>9. LockKept'
        BY <1>1, <1>2, <2>11, <3>7, LockStays
      <3>10. ClosedKept'
        BY <3>1 DEF ClosedKept
      <3>. QED
        BY <3>1, <3>4, <3>6, <3>8, <3>9, <3>10 DEF Openly
    <2>. QED
      BY <1>2, <2>7, <2>9, <2>10, <2>11, OpenStep
  <1>. QED
    BY <1>4, <1>5 DEF CandidateCommit

\* The candidate's guests run, and those of the old computer are shut down.
LEMMA AdoptedPosts ==
    ASSUME TypeOK, NEW k \in CallIds, NEW c \in Contexts, NEW d \in Contexts,
           NEW now \in SUBSET Guests, NEW running, running = Candidate(d, "running"),
           guest' = [running EXCEPT ![c] =
                       Queued(c, now, "shutdown", k, "retiring", NoMemory)[c]]
    PROVE  GuestsTyped /\ Posted(k, c, now, "shutdown", "retiring")
  <1>. DEFINE cmd == [do |-> "shutdown", by |-> k, place |-> "retiring", arg |-> 0,
                      unknown |-> FALSE, void |-> FALSE]
              old(g) == IF g \in now THEN [guest[c][g] EXCEPT !.queue = Append(@, cmd)]
                        ELSE guest[c][g]
              new(g) == [guest[d][g] EXCEPT !.state = "running"]
  <1>1. guest \in [Contexts -> [Guests -> GuestType]]
    BY DEF TypeOK
  <1>2. PICK no \in BOOLEAN : no = FALSE
    OBVIOUS
  <1>3. cmd \in Command /\ cmd.do = "shutdown" /\ cmd.by = k /\ cmd.place = "retiring" /\ ~cmd.void
    <2>1. cmd = [do |-> "shutdown", by |-> k, place |-> "retiring", arg |-> 0,
                 unknown |-> no, void |-> no]
      BY <1>2
    <2>2. [do |-> "shutdown", by |-> k, place |-> "retiring", arg |-> 0,
           unknown |-> no, void |-> no] \in Command
      BY DEF Command, AnyCommand, Awaits
    <2>. QED
      BY <1>2, <2>1, <2>2
  <1>4. Queued(c, now, "shutdown", k, "retiring", NoMemory)[c] = [g \in Guests |-> old(g)]
    <2>1. \A g \in Guests : NoMemory[g] = 0
      BY DEF NoMemory
    <2>. QED
      BY <1>1, <2>1 DEF Queued
  <1>. HIDE DEF cmd
  <1>5. ASSUME NEW g \in Guests
        PROVE  /\ old(g) \in GuestType /\ new(g) \in GuestType /\ new(g).queue = Queue(d, g)
               /\ old(g).queue = IF g \in now THEN Append(Queue(c, g), cmd) ELSE Queue(c, g)
    <2>1. /\ guest[c][g] \in GuestType /\ guest[d][g] \in GuestType
          /\ Queue(c, g) \in Seq(Command)
      BY <1>1, <1>5 DEF GuestType, Queue
    <2>2. new(g) \in GuestType /\ new(g).queue = Queue(d, g)
      BY <2>1 DEF GuestType, Queue
    <2>3. CASE g \in now
      <3>. DEFINE q == Append(Queue(c, g), cmd)
      <3>1. q \in Seq(Command)
        BY <1>3, <2>1, AppendedCommand
      <3>2. old(g) = [guest[c][g] EXCEPT !.queue = q]
        BY <2>1, <2>3 DEF Queue, GuestType
      <3>. HIDE DEF q, old
      <3>3. /\ [guest[c][g] EXCEPT !.queue = q] \in GuestType
            /\ [guest[c][g] EXCEPT !.queue = q].queue = q
        BY <2>1, <3>1 DEF GuestType
      <3>. QED
        BY <2>2, <2>3, <3>2, <3>3 DEF q
    <2>4. CASE g \notin now
      BY <2>1, <2>2, <2>4 DEF Queue
    <2>. QED
      BY <2>3, <2>4
  <1>. HIDE DEF old, new
  <1>6. running = [guest EXCEPT ![d] = [g \in Guests |-> new(g)]]
    BY DEF Candidate, new
  <1>7. guest' = [running EXCEPT ![c] = [g \in Guests |-> old(g)]]
    BY <1>4
  <1>8. GuestsTyped
    BY <1>1, <1>5, <1>6, <1>7 DEF GuestsTyped
  <1>9. \A e \in Contexts, g \in Guests :
           guest'[e][g].queue = IF e = c /\ g \in now THEN Append(Queue(c, g), cmd) ELSE Queue(e, g)
    BY <1>1, <1>5, <1>6, <1>7 DEF Queue
  <1>10. \A e \in Contexts, g \in Guests : Queue(e, g) \in Seq(Command)
    BY <1>1 DEF GuestType, Queue
  <1>11. ASSUME NEW e \in Contexts, NEW g \in Guests
         PROVE  /\ \A i \in 1..Len(Queue(e, g)) : guest'[e][g].queue[i] = Queue(e, g)[i]
                /\ e = c /\ g \in now =>
                      /\ Len(guest'[e][g].queue) = Len(Queue(e, g)) + 1
                      /\ guest'[e][g].queue[Len(Queue(e, g)) + 1] = cmd
                /\ ~(e = c /\ g \in now) => Len(guest'[e][g].queue) = Len(Queue(e, g))
    <2>1. CASE e = c /\ g \in now
      <3>1. guest'[e][g].queue = Append(Queue(e, g), cmd) /\ Queue(e, g) \in Seq(Command)
        BY <1>9, <1>10, <2>1
      <3>. QED
        BY <1>3, <2>1, <3>1, AppendedCommand
    <2>2. CASE ~(e = c /\ g \in now)
      BY <1>9, <2>2
    <2>. QED
      BY <2>1, <2>2
  <1>12. Posted(k, c, now, "shutdown", "retiring")
    BY <1>3, <1>11 DEF Posted, SameCommand
  <1>. QED
    BY <1>8, <1>12

LEMMA AdoptStep ==
    ASSUME IInv, NEW k \in CallIds, Adopt(k)
    PROVE  IInv'
  <1>. DEFINE r == call[k]
              old == Queued(r.ctx, NotStopped(r.ctx), "shutdown", k, "retiring", NoMemory)
              s == [r EXCEPT !.at = "retiring", !.failed = r.aborted,
                             !.asked = IF r.aborted THEN {} ELSE NotStopped(r.ctx)]
  <1>1. InFlight(k) /\ UNCHANGED <<store, coord, apart>> /\ call[k].at = "adopting"
    BY DEF Adopt, InFlight
  <1>2. /\ AlwaysInv /\ TypeOK /\ Len(store.gens) \in Nat /\ facade.active \in Contexts
        /\ call[k] \in CallType /\ Fits(call[k].kind, call[k].at)
        /\ apart' \in BOOLEAN
        /\ apart' => /\ apart /\ ApartInv /\ Alone(k)
                     /\ LifeFits(k) /\ OnActive(k) /\ RestoresFit(k) /\ HeadFits(k)
    BY <1>1, Continues
  <1>3. /\ call[k].kind = "importImage" /\ call[k].cand \in Contexts /\ call[k].ctx \in Contexts
        /\ call[k].aborted \in BOOLEAN
    BY <1>1, <1>2 DEF Fits, Capturers, Closers, AlwaysInv, PlacesFit, At, CallType
  <1>4. CASE CandidateFails(k, r) /\ UNCHANGED facade
    BY <1>1, <1>2, <1>4, CandidateFailsStep
  <1>5. CASE /\ facade' = [facade EXCEPT !.active = r.cand, !.saved = "clean"]
             /\ guest' = [Candidate(r.cand, "running") EXCEPT ![r.ctx] =
                             IF r.aborted THEN @ ELSE old[r.ctx]]
             /\ call' = [call EXCEPT ![k] = s]
    <2>1. /\ facade' \in FacadeType /\ facade'.active = call[k].cand
          /\ facade'.life = facade.life /\ facade'.initialized = facade.initialized
      BY <1>2, <1>3, <1>5 DEF TypeOK, FacadeType
    <2>2. NotStopped(r.ctx) \in SUBSET Guests
      BY Inside
    <2>3. /\ s \in CallType /\ s.at = "retiring" /\ s.kind = r.kind /\ s.ctx = r.ctx
          /\ s.asked = IF r.aborted THEN {} ELSE NotStopped(r.ctx)
      BY <1>2, <1>3, <2>2, Names DEF CallType
    <2>. HIDE DEF s
    <2>4. Moved(k) /\ call'[k] = s
      BY <1>2, <1>5, <2>3 DEF TypeOK, Moved
    <2>5. PICK now \in SUBSET Guests : now = call'[k].asked
      BY <2>2, <2>3, <2>4
    <2>6. GuestsTyped /\ Posted(k, r.ctx, now, "shutdown", "retiring")
      <3>1. CASE r.aborted
        <4>1. guest' = [Candidate(r.cand, "running") EXCEPT ![r.ctx] = @]
          BY <1>5, <3>1
        <4>2. guest' = Candidate(r.cand, "running")
          BY <1>2, <1>3, <4>1 DEF Candidate, TypeOK
        <4>3. now = {} /\ "running" \in {"running", "paused", "stopped"}
          BY <2>3, <2>4, <2>5, <3>1
        <4>4. GuestsTyped /\ \A d, do, place : Posted(k, d, {}, do, place)
          BY <1>2, <1>3, <4>2, <4>3, CandidatePosts
        <4>. QED
          BY <4>3, <4>4
      <3>2. CASE ~r.aborted
        <4>1. now = NotStopped(r.ctx)
          BY <2>3, <2>4, <2>5, <3>2
        <4>2. guest' = [Candidate(r.cand, "running") EXCEPT ![r.ctx] = old[r.ctx]]
          BY <1>5, <3>2
        <4>. HIDE DEF r
        <4>3. PICK running : running = Candidate(r.cand, "running")
          OBVIOUS
        <4>. QED
          BY <1>2, <1>3, <4>1, <4>2, <4>3, AdoptedPosts DEF r
      <3>. QED
        BY <3>1, <3>2
    <2>7. call'[k].kind = "importImage" /\ call'[k].ctx = r.ctx /\ call'[k].at = "retiring"
      BY <1>3, <2>3, <2>4
    <2>8. CallStep(k, now, "shutdown")
      BY <2>4, <2>5, <2>6, <2>7 DEF CallStep, Asks
    <2>9. TypeOK'
      BY <1>1, <1>2, <2>1, <2>4, <2>6 DEF TypeOK, Moved, GuestsTyped
    <2>10. Legal(k, now)
      <3>1. Len(store.gens) <= Len(store'.gens)
        BY <1>1, <1>2
      <3>2. Fits(call'[k].kind, call'[k].at)
        BY <2>7 DEF Fits
      <3>. QED
        BY <1>1, <2>7, <3>1, <3>2 DEF Legal, At, NoCommandsYet
    <2>11. ASSUME apart' PROVE Openly(k, now, "shutdown")
      <3>1. facade.life = "hot" /\ facade'.life = "hot"
        BY <1>2, <1>3, <2>1, <2>11 DEF LifeFits
      <3>2. LifeFits(k)' /\ OnActive(k)' /\ RestoresFit(k)'
        BY <2>7, <3>1 DEF LifeFits, OnActive, RestoresFit, At
      <3>3. Phase(k)'
        BY <2>7, <3>2, PlainPhase DEF Plainly
      <3>4. OneMoment /\ LockKept
        BY <1>2, <2>11 DEF ApartInv
      <3>5. OneMoment'
        BY <1>1, <3>4, MomentsStay
      <3>6. LockKept'
        BY <1>1, <1>2, <2>1, <2>11, <3>4, LockStays
      <3>7. ClosedKept'
        BY <3>1 DEF ClosedKept
      <3>8. store'.gens[store'.head].ctx = facade'.active
        BY <1>1, <1>2, <2>1, <2>11 DEF HeadFits, At
      <3>9. HeadKept'
        BY <3>8 DEF HeadKept
      <3>. QED
        BY <3>1, <3>3, <3>5, <3>6, <3>7, <3>9 DEF Openly
    <2>. QED
      BY <1>2, <2>8, <2>9, <2>10, <2>11, OpenStep
  <1>. QED
    BY <1>4, <1>5 DEF Adopt

-----------------------------------------------------------------------------
(* ... that take the lock, and give it back *)

CoordType == [current : 0..MaxCalls, lock : 0..MaxCalls,
              state : [CallIds -> {"idle", "waiting", "owned", "stopping", "stopped", "failed"}],
              epoch : [CallIds -> Nat]]

StoreType == [head : Nat, gens : Seq(Record), epoch : Nat, owned : BOOLEAN, damaged : SUBSET Nat]

LEMMA Typed ==
    ASSUME facade' \in FacadeType, guest' \in [Contexts -> [Guests -> GuestType]],
           call' \in [CallIds -> CallType], store' \in StoreType,
           store'.head = store.head, store'.gens = store.gens,
           coord' \in CoordType, apart' \in BOOLEAN, TypeOK
    PROVE  TypeOK' /\ Len(store.gens) <= Len(store'.gens)
  <1>1. Len(store.gens) \in Nat
    BY StoreTyped
  <1>2. Len(store.gens) <= Len(store'.gens)
    BY <1>1
  <1>3. store'.head \in 0..Len(store'.gens)
    BY DEF TypeOK
  <1>. QED
    BY <1>2, <1>3 DEF TypeOK, CoordType, StoreType

LEMMA CoordTyped ==
    ASSUME TypeOK
    PROVE  /\ coord \in CoordType /\ store \in StoreType
           /\ \A i \in CallIds : i \in 0..MaxCalls
  <1>1. coord \in CoordType /\ store \in StoreType
    BY DEF TypeOK, CoordType, StoreType
  <1>2. MaxCalls \in Nat
    BY Constants_
  <1>3. \A i \in 1..MaxCalls : i \in 0..MaxCalls
    BY <1>2
  <1>. QED
    BY <1>1, <1>3 DEF CallIds

LEMMA RefencedPosts ==
    ASSUME TypeOK, NEW k \in CallIds, NEW c \in Contexts, guest' = Refenced(c)
    PROVE  /\ GuestsTyped /\ StatesKept
           /\ \A d, do, place : Posted(k, d, {}, do, place)
  <1>. DEFINE m(g) == IF guest[c][g].queue # <<>> /\ Head(guest[c][g].queue).do # "shutdown"
                      THEN [guest[c][g] EXCEPT !.queue[1].unknown = TRUE]
                      ELSE guest[c][g]
  <1>1. guest' = [guest EXCEPT ![c] = [g \in Guests |-> m(g)]]
    BY DEF Refenced
  <1>2. guest \in [Contexts -> [Guests -> GuestType]]
    BY DEF TypeOK
  <1>3. ASSUME NEW g \in Guests
        PROVE  /\ m(g) \in GuestType
               /\ m(g).state = guest[c][g].state /\ m(g).mem = guest[c][g].mem
               /\ Len(m(g).queue) = Len(Queue(c, g))
               /\ \A i \in 1..Len(Queue(c, g)) : SameCommand(m(g).queue[i], Queue(c, g)[i])
    <2>1. /\ guest[c][g] \in GuestType /\ Queue(c, g) \in Seq(Command)
          /\ Queue(c, g) = guest[c][g].queue
      BY <1>2, <1>3 DEF GuestType, Queue
    <2>2. CASE m(g) = guest[c][g]
      BY <2>1, <2>2 DEF SameCommand
    <2>3. CASE Queue(c, g) # <<>> /\ m(g) = [guest[c][g] EXCEPT !.queue[1].unknown = TRUE]
      <3>1. PICK yes \in BOOLEAN : yes = TRUE
        OBVIOUS
      <3>2. 1 \in 1..Len(Queue(c, g)) /\ Queue(c, g)[1] \in Command
        BY <2>1, <2>3
      <3>. DEFINE cmd == [Queue(c, g)[1] EXCEPT !.unknown = yes]
                  q == [Queue(c, g) EXCEPT ![1] = cmd]
      <3>3. cmd \in Command /\ SameCommand(cmd, Queue(c, g)[1])
        BY <3>2 DEF Command, SameCommand
      <3>4. m(g) = [guest[c][g] EXCEPT !.queue = q]
        BY <2>1, <2>3, <3>1
      <3>. HIDE DEF cmd
      <3>5. /\ q \in Seq(Command) /\ Len(q) = Len(Queue(c, g))
            /\ q[1] = cmd /\ \A i \in 1..Len(Queue(c, g)) : i # 1 => q[i] = Queue(c, g)[i]
        BY <2>1, <3>2, <3>3
      <3>. HIDE DEF q, m
      <3>6. \A i \in 1..Len(Queue(c, g)) : SameCommand(q[i], Queue(c, g)[i])
        BY <3>3, <3>5 DEF SameCommand
      <3>7. /\ m(g) \in GuestType /\ m(g).queue = q
            /\ m(g).state = guest[c][g].state /\ m(g).mem = guest[c][g].mem
        BY <2>1, <3>4, <3>5 DEF GuestType
      <3>. QED
        BY <3>5, <3>6, <3>7
    <2>. QED
      BY <2>1, <2>2, <2>3
  <1>. HIDE DEF m
  <1>4. \A d \in Contexts, g \in Guests : guest'[d][g] = IF d = c THEN m(g) ELSE guest[d][g]
    BY <1>1, <1>2
  <1>5. GuestsTyped
    BY <1>1, <1>2, <1>3 DEF GuestsTyped
  <1>6. StatesKept
    BY <1>3, <1>4 DEF StatesKept
  <1>7. ASSUME NEW d, NEW do, NEW place PROVE Posted(k, d, {}, do, place)
    <2>1. ASSUME NEW e \in Contexts, NEW g \in Guests
          PROVE  /\ \A i \in 1..Len(Queue(e, g)) : SameCommand(guest'[e][g].queue[i], Queue(e, g)[i])
                 /\ Len(guest'[e][g].queue) = Len(Queue(e, g))
      <3>1. CASE e = c
        <4>1. guest'[e][g] = m(g)
          BY <1>4, <3>1
        <4>. QED
          BY <1>3, <3>1, <4>1
      <3>2. CASE e # c
        <4>1. guest'[e][g] = guest[e][g]
          BY <1>4, <3>2
        <4>. QED
          BY <4>1 DEF Queue, SameCommand
      <3>. QED
        BY <3>1, <3>2
    <2>. QED
      BY <2>1 DEF Posted
  <1>. QED
    BY <1>5, <1>6, <1>7

LEMMA ClosedStays ==
    ASSUME TypeOK, ClosedKept, NEW k \in CallIds, NEW c \in Contexts, NEW do, NEW place,
           Posted(k, c, {}, do, place), StatesKept,
           facade'.active = facade.active, facade'.life = facade.life,
           facade'.token \in {facade.token, 0}, coord'.lock \in {coord.lock, 0},
           store'.head = store.head, store'.gens = store.gens
    PROVE  ClosedKept'
  <1>1. AtRest => AtRest'
    BY RestingPosted
  <1>2. facade.active \in Contexts
    BY DEF TypeOK, FacadeType
  <1>. QED
    BY <1>1, <1>2 DEF ClosedKept, StatesKept

LEMMA InitializeStep ==
    ASSUME IInv, NEW k \in CallIds, Initialize(k)
    PROVE  IInv'
  <1>. DEFINE r == [NoCall EXCEPT !.kind = "initialize"]
  <1>1. /\ AlwaysInv /\ TypeOK /\ Len(store.gens) \in Nat
        /\ call[k].at = "idle" /\ call[k].kind = "none" /\ facade.active \in Contexts
        /\ apart' \in BOOLEAN /\ (apart' => apart /\ ApartInv /\ Alone(k))
        /\ UNCHANGED <<guest, store>> /\ ~facade.initialized
        /\ facade' = [facade EXCEPT !.life = "waking"]
        /\ coord' = [coord EXCEPT !.current = k, !.state[k] = "waiting"]
        /\ Go(k, r, "owning")
    BY Begins DEF Initialize
  <1>2. r \in CallType /\ r.kind = "initialize"
    <2>1. NoCall \in CallType
      BY Constants_
    <2>. QED
      BY <2>1 DEF CallType, AnyKind
  <1>. HIDE DEF r
  <1>3. "owning" \in Awaits /\ "waking" \in AnyLife
    BY Names DEF AnyLife
  <1>4. CallStep(k, {}, "none") /\ StatesKept /\ Carries(k, r, "owning") /\ Moved(k)
    BY <1>1, <1>2, <1>3, GoSteps DEF CallStep
  <1>5. call'[k].kind = "initialize" /\ call'[k].at = "owning"
    BY <1>2, <1>4 DEF Carries
  <1>6. /\ facade' \in FacadeType /\ facade'.life = "waking" /\ facade'.active = facade.active
        /\ facade'.initialized = facade.initialized
    BY <1>1, <1>3, FacadeLife
  <1>7. coord' \in CoordType /\ coord'.current = k /\ coord'.lock = coord.lock
    BY <1>1, CoordTyped DEF CoordType
  <1>8. TypeOK' /\ Len(store.gens) <= Len(store'.gens)
    <2>1. guest' \in [Contexts -> [Guests -> GuestType]] /\ call' \in [CallIds -> CallType]
      BY <1>4 DEF CallStep, GuestsTyped, Moved
    <2>2. store' \in StoreType /\ store'.head = store.head /\ store'.gens = store.gens
      BY <1>1, CoordTyped
    <2>. QED
      BY <1>1, <1>6, <1>7, <2>1, <2>2, Typed
  <1>9. Legal(k, {})
    BY <1>1, <1>5, <1>8 DEF Legal, Fits, At, NoCommandsYet
  <1>10. ASSUME apart' PROVE Openly(k, {}, "none")
    <2>1. OneMoment /\ LockKept /\ HeadKept
      BY <1>1, <1>10 DEF ApartInv
    <2>2. \A j \in CallIds : ~Stopper(j)
      BY <1>1, <1>10 DEF Alone, Stopper, InFlight, At
    <2>3. coord.lock = 0
      BY <1>1, <2>1, <2>2 DEF LockKept
    <2>4. LifeFits(k)' /\ OnActive(k)' /\ RestoresFit(k)' /\ LockFits(k)'
      BY <1>5, <1>6, <1>7, <2>3 DEF LifeFits, OnActive, RestoresFit, LockFits, At
    <2>5. Phase(k)'
      BY <1>5, <2>4 DEF Phase, CapturesFit, ClosingFits, HeadFits, Committed, At
    <2>6. ~LeftBehind(k)
      BY <1>1 DEF LeftBehind
    <2>7. OneMoment' /\ HeadKept'
      BY <1>1, <1>4, <1>6, <2>1, <2>6, MomentsStay, HeadStays
    <2>8. LockKept' /\ ClosedKept'
      BY <1>6, <1>7, <2>3 DEF LockKept, ClosedKept
    <2>9. facade'.life # "hot" /\ facade'.active = facade.active /\ store'.head = store.head
      BY <1>1, <1>6
    <2>. QED
      BY <2>5, <2>7, <2>8, <2>9 DEF Openly
  <1>. QED
    BY <1>1, <1>4, <1>8, <1>9, <1>10, OpenStep

LEMMA OwnStep ==
    ASSUME IInv, NEW k \in CallIds, Own(k)
    PROVE  IInv'
  <1>1. /\ InFlight(k) /\ UNCHANGED apart /\ call[k].at = "owning"
        /\ coord' = [coord EXCEPT !.state[k] = "owned", !.lock = k, !.epoch[k] = store.epoch + 1]
        /\ store' = [store EXCEPT !.epoch = @ + 1, !.owned = TRUE]
        /\ facade' = [facade EXCEPT !.token = store.epoch + 1, !.initialized = TRUE]
        /\ guest' = Refenced(facade.active)
        /\ Go(k, call[k], "reading")
    BY DEF Own, InFlight
  <1>2. /\ AlwaysInv /\ TypeOK /\ Len(store.gens) \in Nat /\ facade.active \in Contexts
        /\ call[k] \in CallType /\ Fits(call[k].kind, call[k].at)
        /\ apart' \in BOOLEAN
        /\ apart' => apart /\ ApartInv /\ Alone(k) /\ LifeFits(k) /\ LockFits(k)
    BY <1>1, Continues
  <1>3. call[k].kind = "initialize" /\ "reading" \in Awaits
    BY <1>1, <1>2, Names DEF Fits, Capturers, Closers
  <1>4. Moved(k) /\ Carries(k, call[k], "reading")
    BY <1>1, <1>2, <1>3, GoMoves
  <1>5. call'[k].kind = "initialize" /\ call'[k].at = "reading" /\ call'[k].ctx = call[k].ctx
    BY <1>3, <1>4 DEF Carries
  <1>6. GuestsTyped /\ StatesKept /\ \A d, do, place : Posted(k, d, {}, do, place)
    BY <1>1, <1>2, RefencedPosts
  <1>7. CallStep(k, {}, "none")
    BY <1>4, <1>6 DEF CallStep
  <1>8. PICK yes \in BOOLEAN : yes = TRUE
    OBVIOUS
  <1>9. coord \in CoordType /\ store \in StoreType /\ k \in 0..MaxCalls /\ store.epoch + 1 \in Nat
    BY <1>2, CoordTyped DEF StoreType
  <1>10. store' \in StoreType /\ store'.head = store.head /\ store'.gens = store.gens
    <2>1. store' = [store EXCEPT !.epoch = @ + 1, !.owned = yes]
      BY <1>1, <1>8
    <2>. QED
      BY <1>9, <2>1 DEF StoreType
  <1>11. /\ facade' \in FacadeType /\ facade'.life = facade.life /\ facade'.active = facade.active
         /\ facade'.initialized
    <2>1. facade' = [facade EXCEPT !.token = store.epoch + 1, !.initialized = yes]
      BY <1>1, <1>8
    <2>2. facade \in FacadeType
      BY <1>2 DEF TypeOK
    <2>3. /\ facade' \in FacadeType /\ facade'.life = facade.life /\ facade'.active = facade.active
          /\ facade'.initialized = yes
      BY <1>9, <2>1, <2>2 DEF FacadeType
    <2>. QED
      BY <1>8, <2>3
  <1>12. /\ coord' \in CoordType /\ coord'.lock = k /\ coord'.current = coord.current
         /\ coord'.state[k] = "owned"
    BY <1>1, <1>9 DEF CoordType
  <1>13. TypeOK' /\ Len(store.gens) <= Len(store'.gens)
    <2>1. guest' \in [Contexts -> [Guests -> GuestType]] /\ call' \in [CallIds -> CallType]
      BY <1>4, <1>6 DEF GuestsTyped, Moved
    <2>. QED
      BY <1>2, <1>10, <1>11, <1>12, <2>1, Typed
  <1>14. Legal(k, {})
    BY <1>1, <1>5, <1>13 DEF Legal, Fits, At, NoCommandsYet
  <1>15. ASSUME apart' PROVE Openly(k, {}, "none")
    <2>1. facade'.life \in {"waking", "failed"} /\ coord.current = k
      BY <1>1, <1>2, <1>3, <1>11, <1>15 DEF LifeFits, LockFits, At
    <2>2. OneMoment /\ HeadKept
      BY <1>2, <1>15 DEF ApartInv
    <2>3. LifeFits(k)' /\ OnActive(k)' /\ RestoresFit(k)'
      BY <1>5, <2>1 DEF LifeFits, OnActive, RestoresFit, At
    <2>4. Phase(k)'
      BY <1>5, <2>3, PlainPhase DEF Plainly
    <2>5. ~LeftBehind(k)
      BY <1>3 DEF LeftBehind
    <2>6. OneMoment' /\ HeadKept'
      BY <1>4, <1>10, <1>11, <2>2, <2>5, MomentsStay, HeadStays
    <2>7. LockKept' /\ ClosedKept'
      BY <1>11, <1>12, <2>1 DEF LockKept, ClosedKept
    <2>. QED
      BY <1>10, <1>11, <2>1, <2>4, <2>6, <2>7 DEF Openly
  <1>. QED
    BY <1>2, <1>7, <1>13, <1>14, <1>15, OpenStep

\* What stop() changes: of the coordinator its state alone, not the lock.
StopsWith(k, r, f, co, place) ==
    /\ Moved(k) /\ call'[k].at = place
    /\ call'[k].kind = r.kind /\ call'[k].ctx = r.ctx /\ call'[k].gen = r.gen
    /\ call'[k].asked = r.asked
    /\ call'[k].stops = co.current
    /\ co.current # 0 /\ co.state[co.current] = "owned" => call'[k].first
    /\ coord' \in CoordType /\ coord'.lock = co.lock /\ coord'.current = co.current
    /\ facade' \in FacadeType /\ facade'.life = f.life /\ facade'.active = f.active
    /\ facade'.token \in {f.token, 0} /\ facade'.initialized = f.initialized
    /\ GuestsTyped /\ StatesKept
    /\ \A d, do, at : Posted(k, d, {}, do, at)

LEMMA StopMoves ==
    ASSUME TypeOK, NEW k \in CallIds, NEW r \in CallType, NEW f \in FacadeType,
           NEW co \in CoordType, NEW place \in Awaits, Stop(k, r, f, co, place)
    PROVE  StopsWith(k, r, f, co, place)
  <1>. DEFINE i == co.current
              state == IF i = 0 THEN "idle" ELSE co.state[i]
  <1>1. facade.active \in Contexts /\ i \in 0..MaxCalls
    BY DEF TypeOK, FacadeType, CoordType
  <1>2. PICK first \in BOOLEAN : first <=> state \in {"owned", "failed"}
    OBVIOUS
  <1>. DEFINE s == [r EXCEPT !.stops = i, !.first = first]
  <1>3. Go(k, s, place)
    <2>1. (state \in {"owned", "failed"}) = first
      BY <1>2, Zenon
    <2>2. Go(k, [r EXCEPT !.stops = i, !.first = state \in {"owned", "failed"}], place)
      BY DEF Stop
    <2>. QED
      BY <2>1, <2>2, Zenon
  <1>4. /\ s \in CallType /\ s.kind = r.kind /\ s.ctx = r.ctx /\ s.gen = r.gen
        /\ s.asked = r.asked /\ s.stops = i
    BY <1>1 DEF CallType
  <1>5. s.first <=> first
    BY DEF CallType
  <1>. HIDE DEF s
  <1>6. /\ Moved(k) /\ Carries(k, s, place) /\ call'[k].asked = s.asked
    BY <1>3, <1>4, GoMoves
  <1>7. /\ call'[k].at = place
        /\ call'[k].kind = r.kind /\ call'[k].ctx = r.ctx /\ call'[k].gen = r.gen
        /\ call'[k].asked = r.asked /\ call'[k].stops = i
        /\ state = "owned" => call'[k].first
    BY <1>2, <1>4, <1>5, <1>6 DEF Carries
  <1>8. coord' \in CoordType /\ coord'.lock = co.lock /\ coord'.current = co.current
    <2>1. CASE state = "owned"
      <3>1. coord' = [co EXCEPT !.state[i] = "stopping"]
        BY <2>1 DEF Stop
      <3>. QED
        BY <3>1 DEF CoordType
    <2>2. CASE state = "waiting"
      <3>1. coord' = [co EXCEPT !.state[i] = "stopped"]
        BY <2>2 DEF Stop
      <3>. QED
        BY <3>1 DEF CoordType
    <2>3. CASE state \notin {"owned", "waiting"}
      <3>1. coord' = co
        BY <2>3 DEF Stop
      <3>. QED
        BY <3>1
    <2>. QED
      BY <2>1, <2>2, <2>3
  <1>9. /\ facade' \in FacadeType /\ facade'.life = f.life /\ facade'.active = f.active
        /\ facade'.token \in {f.token, 0} /\ facade'.initialized = f.initialized
        /\ GuestsTyped /\ StatesKept
        /\ \A d, do, at : Posted(k, d, {}, do, at)
    <2>1. CASE state = "owned"
      <3>1. guest' = Refenced(facade.active) /\ facade' = [f EXCEPT !.token = 0]
        BY <2>1 DEF Stop
      <3>2. /\ facade' \in FacadeType /\ facade'.life = f.life /\ facade'.active = f.active
            /\ facade'.token \in {f.token, 0} /\ facade'.initialized = f.initialized
        BY <3>1 DEF FacadeType
      <3>3. GuestsTyped /\ StatesKept /\ \A d, do, at : Posted(k, d, {}, do, at)
        BY <1>1, <3>1, RefencedPosts
      <3>. QED
        BY <3>2, <3>3
    <2>2. CASE state # "owned"
      <3>1. facade' = f /\ UNCHANGED guest
        BY <2>2 DEF Stop
      <3>2. GuestsTyped /\ StatesKept
        BY <3>1 DEF TypeOK, GuestsTyped, StatesKept
      <3>3. \A d, do, at : Posted(k, d, {}, do, at)
        BY <3>1 DEF Posted, SameCommand, Queue
      <3>. QED
        BY <3>1, <3>2, <3>3
    <2>. QED
      BY <2>1, <2>2
  <1>10. co.current # 0 /\ co.state[co.current] = "owned" => call'[k].first
    BY <1>7
  <1>. QED
    BY <1>6, <1>7, <1>8, <1>9, <1>10 DEF StopsWith

\* Who stops the coordinator that holds the lock will release it.
LEMMA LockStopped ==
    ASSUME NEW k \in CallIds, Alone(k), LockKept, coord.lock \in 0..MaxCalls,
           call[k].at \notin {"releasing", "givingUp"},
           NEW r, NEW f, NEW co, NEW place \in {"releasing", "givingUp"},
           StopsWith(k, r, f, co, place), co.lock = coord.lock, co.current = coord.current,
           coord.lock # 0 => co.state[coord.lock] = coord.state[coord.lock]
    PROVE  LockKept' /\ LockFits(k)'
  <1>1. \A j \in CallIds : ~Stopper(j)
    BY DEF Alone, Stopper, InFlight, At
  <1>2. CASE coord.lock = 0
    <2>1. coord'.lock = 0 /\ call'[k].at = place
      BY <1>2 DEF StopsWith
    <2>. QED
      BY <2>1 DEF LockKept, LockFits, At
  <1>3. CASE coord.lock # 0
    <2>1. coord.lock = coord.current /\ coord.state[coord.lock] = "owned"
      BY <1>1, <1>3 DEF LockKept
    <2>2. /\ call'[k].at = place /\ call'[k].first /\ call'[k].stops = coord'.lock
          /\ coord'.lock = coord'.current
      BY <1>3, <2>1 DEF StopsWith
    <2>3. Stopper(k)'
      BY <2>2 DEF Stopper, At
    <2>. QED
      BY <2>2, <2>3 DEF LockKept, LockFits, At
  <1>. QED
    BY <1>2, <1>3

LEMMA InitFailsStep ==
    ASSUME IInv, NEW k \in CallIds, UNCHANGED <<store, apart>>,
           call[k].at \in {"owning", "reading", "restoring", "resumingAll", "unbooting"},
           call[k].at = "restoring" => call[k].asked = {},
           NEW co \in CoordType, InitFails(k, co),
           co.lock = coord.lock, co.current = coord.current,
           apart' => (coord.lock # 0 => co.state[coord.lock] = coord.state[coord.lock])
    PROVE  IInv'
  <1>. DEFINE f == [facade EXCEPT !.initialized = FALSE, !.token = 0, !.life = "failed"]
  <1>1. InFlight(k)
    BY DEF InFlight
  <1>2. /\ AlwaysInv /\ TypeOK /\ Len(store.gens) \in Nat /\ facade.active \in Contexts
        /\ call[k] \in CallType /\ Fits(call[k].kind, call[k].at)
        /\ apart' \in BOOLEAN
        /\ apart' => apart /\ ApartInv /\ Alone(k) /\ LifeFits(k)
    BY <1>1, Continues
  <1>3. call[k].kind = "initialize" /\ "givingUp" \in Awaits
    BY <1>2, Names DEF Fits, Capturers, Closers
  <1>4. PICK no \in BOOLEAN : no = FALSE
    OBVIOUS
  <1>5. f \in FacadeType /\ f.life = "failed" /\ f.active = facade.active
    <2>1. f = [facade EXCEPT !.initialized = no, !.token = 0, !.life = "failed"]
      BY <1>4
    <2>2. facade \in FacadeType /\ "failed" \in AnyLife
      BY <1>2 DEF TypeOK, AnyLife
    <2>3. /\ [facade EXCEPT !.initialized = no, !.token = 0, !.life = "failed"] \in FacadeType
          /\ [facade EXCEPT !.initialized = no, !.token = 0, !.life = "failed"].life = "failed"
          /\ [facade EXCEPT !.initialized = no, !.token = 0, !.life = "failed"].active = facade.active
      BY <2>2 DEF FacadeType
    <2>. QED
      BY <2>1, <2>3
  <1>6. Stop(k, call[k], f, co, "givingUp")
    BY DEF InitFails
  <1>. HIDE DEF f
  <1>7. StopsWith(k, call[k], f, co, "givingUp")
    BY <1>2, <1>3, <1>5, <1>6, StopMoves
  <1>8. call'[k].kind = "initialize" /\ call'[k].at = "givingUp" /\ call'[k].ctx = call[k].ctx
    BY <1>3, <1>7 DEF StopsWith
  <1>9. CallStep(k, {}, "none")
    BY <1>7 DEF StopsWith, CallStep
  <1>10. TypeOK' /\ Len(store.gens) <= Len(store'.gens)
    <2>1. store' \in StoreType /\ store'.head = store.head /\ store'.gens = store.gens
      BY <1>2, CoordTyped
    <2>2. guest' \in [Contexts -> [Guests -> GuestType]] /\ call' \in [CallIds -> CallType]
      BY <1>7 DEF StopsWith, GuestsTyped, Moved
    <2>3. coord' \in CoordType /\ facade' \in FacadeType
      BY <1>7 DEF StopsWith
    <2>. QED
      BY <1>2, <2>1, <2>2, <2>3, Typed
  <1>11. Legal(k, {})
    BY <1>8, <1>10 DEF Legal, Fits, At, NoCommandsYet
  <1>12. ASSUME apart' PROVE Openly(k, {}, "none")
    <2>1. facade'.life = "failed" /\ facade'.active = facade.active
      BY <1>5, <1>7 DEF StopsWith
    <2>2. OneMoment /\ LockKept /\ HeadKept /\ coord.lock \in 0..MaxCalls
      BY <1>2, <1>12, CoordTyped DEF ApartInv, CoordType
    <2>3. LockKept' /\ LockFits(k)'
      BY <1>2, <1>7, <1>12, <2>2, LockStopped
    <2>4. LifeFits(k)' /\ OnActive(k)' /\ RestoresFit(k)'
      BY <1>8, <2>1 DEF LifeFits, OnActive, RestoresFit, At
    <2>5. Phase(k)'
      BY <1>8, <2>3, <2>4 DEF Phase, CapturesFit, ClosingFits, HeadFits, Committed, At, Closers
    <2>6. ~LeftBehind(k)
      BY <1>3 DEF LeftBehind
    <2>7. Moved(k) /\ store'.head = store.head /\ store'.gens = store.gens
      BY <1>7 DEF StopsWith
    <2>8. OneMoment' /\ HeadKept'
      BY <2>1, <2>2, <2>6, <2>7, MomentsStay, HeadStays
    <2>9. ClosedKept'
      BY <2>1 DEF ClosedKept
    <2>. QED
      BY <2>1, <2>3, <2>5, <2>7, <2>8, <2>9 DEF Openly
  <1>. QED
    BY <1>2, <1>9, <1>10, <1>11, <1>12, OpenStep

LEMMA OwnFailsStep ==
    ASSUME IInv, NEW k \in CallIds, OwnFails(k)
    PROVE  IInv'
  <1>. DEFINE co == [coord EXCEPT !.state[k] = "stopped"]
  <1>1. /\ InFlight(k) /\ UNCHANGED <<store, apart>> /\ call[k].at = "owning"
        /\ InitFails(k, co)
    BY DEF OwnFails, InFlight
  <1>2. /\ TypeOK /\ (apart' => LockFits(k))
    BY <1>1, Continues
  <1>3. co \in CoordType /\ co.lock = coord.lock /\ co.current = coord.current
    BY <1>2, CoordTyped DEF CoordType
  <1>4. apart' => coord.lock = 0
    BY <1>1, <1>2 DEF LockFits, At
  <1>. HIDE DEF co
  <1>. QED
    BY <1>1, <1>3, <1>4, InitFailsStep

LEMMA WakeFailsStep ==
    ASSUME IInv, NEW k \in CallIds, UNCHANGED <<store, apart>>,
           call[k].at \in {"reading", "restoring", "resumingAll", "unbooting"},
           call[k].at = "restoring" => call[k].asked = {}, InitFails(k, coord)
    PROVE  IInv'
  <1>1. coord \in CoordType
    BY CoordTyped DEF IInv, AlwaysInv
  <1>. QED
    BY <1>1, InitFailsStep

LEMMA WakeStep ==
    ASSUME IInv, NEW k \in CallIds, Wake(k)
    PROVE  IInv'
  <1>. DEFINE r == [call[k] EXCEPT !.ctx = facade.active]
  <1>1. InFlight(k) /\ UNCHANGED <<store, apart>> /\ call[k].at = "reading"
    BY DEF Wake, InFlight
  <1>2. /\ AlwaysInv /\ TypeOK /\ Len(store.gens) \in Nat /\ facade.active \in Contexts
        /\ call[k] \in CallType /\ Fits(call[k].kind, call[k].at)
        /\ apart' \in BOOLEAN
        /\ apart' => apart /\ ApartInv /\ Alone(k) /\ LifeFits(k)
    BY <1>1, Continues
  <1>3. call[k].kind = "initialize"
    BY <1>1, <1>2 DEF Fits, Capturers, Closers
  <1>4. r \in CallType /\ r.kind = "initialize" /\ r.ctx = facade.active
    BY <1>2, <1>3 DEF CallType
  <1>5. CASE InitFails(k, coord)
    BY <1>1, <1>5, WakeFailsStep
  <1>6. CASE /\ store.head = 0 /\ UNCHANGED <<facade, coord>>
             /\ Ask(k, r, r.ctx, Guests, "boot", "booting")
    <2>. HIDE DEF r
    <2>1. FacadeKept /\ facade'.life = facade.life
      BY <1>2, <1>6, FacadeStays
    <2>2. /\ "boot" \in AnyCommand /\ "booting" \in Awaits /\ Asks("booting", "boot")
          /\ Guests \in SUBSET Guests
      BY Names DEF Asks
    <2>3. /\ CallStep(k, call'[k].asked, "boot") /\ StatesKept
          /\ call'[k].asked \in SUBSET Guests
      <3>1. PICK gs \in SUBSET Guests : gs = Guests
        OBVIOUS
      <3>2. TypeOK /\ r \in CallType /\ Ask(k, r, r.ctx, gs, "boot", "booting")
        BY <1>2, <1>4, <1>6, <3>1
      <3>3. /\ CallStep(k, call'[k].asked, "boot") /\ StatesKept /\ Carries(k, r, "booting")
            /\ Posted(k, r.ctx, call'[k].asked, "boot", "booting")
            /\ call'[k].todo = gs /\ call'[k].asked \in SUBSET gs
            /\ call'[k].asked \in SUBSET Guests
            /\ \/ call'[k].asked = gs /\ ~call'[k].failed
               \/ call'[k].asked = {} /\ (call'[k].failed <=> gs # {})
        BY <3>2, <2>2, AskSteps
      <3>. QED
        BY <3>3
    <2>4. /\ call'[k].kind = "initialize" /\ call'[k].ctx = facade.active /\ call'[k].at = "booting"
          /\ NoRestores => NoRestores'
      BY <1>2, <1>4, <1>6, <2>1, <2>2, AskKeeps
    <2>5. Legal(k, call'[k].asked)
      <3>1. Len(store.gens) <= Len(store'.gens)
        BY <1>1, <1>2
      <3>. QED
        BY <1>1, <2>4, <3>1 DEF Legal, Fits, At, NoCommandsYet
    <2>6. ASSUME apart' PROVE Quietly(k, call'[k].asked, "boot")
      <3>1. NoRestores
        BY <1>2, <1>6, <2>6 DEF ApartInv, RestoresDone, NoRestores
      <3>2. LifeFits(k)' /\ OnActive(k)' /\ RestoresFit(k)'
        BY <1>2, <1>3, <2>1, <2>4, <2>6, <3>1 DEF LifeFits, OnActive, RestoresFit, At, FacadeKept
      <3>3. Phase(k)'
        BY <2>4, <3>2, PlainPhase DEF Plainly
      <3>4. facade.life \in {"waking", "failed"}
        BY <1>2, <1>3, <2>6 DEF LifeFits
      <3>. QED
        BY <1>3, <2>1, <3>1, <3>3, <3>4 DEF Quietly, LeftBehind
    <2>7. PICK now \in SUBSET Guests : now = call'[k].asked
      BY <2>3
    <2>. QED
      BY <1>1, <1>2, <1>6, <2>1, <2>3, <2>5, <2>6, <2>7, QuietStep
  <1>7. CASE /\ store.head # 0 /\ Source \in Readable /\ UNCHANGED <<facade, coord>>
             /\ AskNext(k, [r EXCEPT !.gen = Source], r.ctx, Guests, "restore", "restoring",
                        store.gens[Source].mem)
    <2>1. Source \in 1..Len(store.gens)
      BY <1>7 DEF Readable
    <2>2. PICK n \in 1..Len(store.gens) : n = Source
      BY <2>1
    <2>3. store.gens[n] \in Record /\ n \in Nat
      BY <1>2, StoreTyped
    <2>4. PICK arg \in Memory : arg = store.gens[n].mem
      BY <2>3 DEF Record
    <2>. DEFINE s == [r EXCEPT !.gen = n]
    <2>5. s \in CallType /\ s.kind = "initialize" /\ s.ctx = facade.active /\ s.gen = n
      BY <1>4, <2>3 DEF CallType
    <2>6. AskNext(k, s, r.ctx, Guests, "restore", "restoring", arg) /\ r.ctx = facade.active
      BY <1>4, <1>7, <2>2, <2>4
    <2>. HIDE DEF s, r
    <2>7. AskNext(k, s, s.ctx, Guests, "restore", "restoring", arg)
      BY <2>5, <2>6
    <2>8. UNCHANGED <<facade, store, coord, apart>> /\ Guests \in SUBSET Guests
      BY <1>1, <1>7
    <2>. QED
      BY <1>1, <1>3, <1>7, <2>5, <2>7, <2>8, RestoringStep
  <1>. QED
    BY <1>5, <1>6, <1>7 DEF Wake

LEMMA GivenUpStep ==
    ASSUME IInv, NEW k \in CallIds, RestoreFailed(k) \/ Unbooted(k)
    PROVE  IInv'
  BY WakeFailsStep DEF RestoreFailed, Unbooted, Answered

LEMMA IncompleteFacade ==
    ASSUME TypeOK, NEW r \in CallType, r.kind \in Closers
    PROVE  /\ Incomplete(r) \in FacadeType /\ Incomplete(r).active = facade.active
           /\ Incomplete(r).initialized = facade.initialized
           /\ \/ Incomplete(r).life = "cleanupIncomplete"
              \/ r.kind = "retrySuspendCleanup" /\ Incomplete(r).life = facade.life
  <1>1. facade \in FacadeType /\ r.gen \in Nat
    BY DEF TypeOK, CallType
  <1>2. PICK yes \in BOOLEAN : yes = TRUE
    OBVIOUS
  <1>3. CASE r.kind = "suspend"
    <2>1. Incomplete(r) = [facade EXCEPT !.cleanupPending = yes, !.life = "cleanupIncomplete",
                                         !.suspended = r.gen]
      BY <1>2, <1>3 DEF Incomplete
    <2>. QED
      BY <1>1, <2>1 DEF FacadeType, AnyLife
  <1>4. CASE r.kind # "suspend"
    <2>1. Incomplete(r) = [facade EXCEPT !.cleanupPending = yes]
      BY <1>2, <1>4 DEF Incomplete
    <2>2. r.kind = "retrySuspendCleanup"
      BY <1>4 DEF Closers
    <2>. QED
      BY <1>1, <2>1, <2>2 DEF FacadeType
  <1>. QED
    BY <1>3, <1>4

LEMMA StoppedStep ==
    ASSUME IInv, NEW k \in CallIds, Stopped(k)
    PROVE  IInv'
  <1>1. /\ InFlight(k) /\ UNCHANGED <<store, apart>>
        /\ call[k].at = "stopping" /\ call[k].asked = {}
    BY DEF Stopped, InFlight, Answered
  <1>2. /\ AlwaysInv /\ TypeOK /\ Len(store.gens) \in Nat /\ facade.active \in Contexts
        /\ call[k] \in CallType /\ Fits(call[k].kind, call[k].at)
        /\ apart' \in BOOLEAN
        /\ apart' => /\ apart /\ ApartInv /\ Alone(k)
                     /\ LifeFits(k) /\ OnActive(k) /\ RestoresFit(k) /\ ClosingFits(k)
    BY <1>1, Continues
  <1>3. call[k].kind \in Closers \union {"dispose"}
    BY <1>1, <1>2 DEF Fits, Capturers
  <1>4. PICK c \in Contexts : c = call[k].ctx
    BY <1>2 DEF CallType
  <1>5. apart' => c = facade.active
    BY <1>1, <1>2, <1>3, <1>4 DEF OnActive, At, Closers
  <1>6. ~LeftBehind(k)
    BY <1>3 DEF LeftBehind, Closers
  <1>7. CASE /\ call[k].kind # "dispose" /\ facade' = Incomplete(call[k])
             /\ Finish(k, call[k], TRUE) /\ UNCHANGED <<guest, coord>>
    <2>1. PICK yes \in BOOLEAN : yes = TRUE
      OBVIOUS
    <2>2. /\ facade' \in FacadeType /\ facade'.active = facade.active
          /\ facade'.initialized = facade.initialized
          /\ apart' => facade'.life = "cleanupIncomplete"
      <3>1. facade' = Incomplete(call[k]) /\ call[k].kind \in Closers
        BY <1>3, <1>7
      <3>2. /\ facade' \in FacadeType /\ facade'.active = facade.active
            /\ facade'.initialized = facade.initialized
            /\ \/ facade'.life = "cleanupIncomplete"
               \/ call[k].kind = "retrySuspendCleanup" /\ facade'.life = facade.life
        BY <1>2, <3>1, IncompleteFacade
      <3>. QED
        BY <1>2, <3>2 DEF LifeFits
    <2>3. /\ Moved(k)
          /\ call'[k].at = "done" /\ call'[k].kind = call[k].kind
      BY <1>2, <1>7, FinishMoves
    <2>4. CallStep(k, {}, "none") /\ StatesKept /\ GuestsTyped
      BY <1>2, <1>7, <2>3, StillSteps DEF CallStep
    <2>5. TypeOK' /\ Len(store.gens) <= Len(store'.gens)
      <3>1. /\ store' \in StoreType /\ store'.head = store.head /\ store'.gens = store.gens
            /\ coord' \in CoordType
        BY <1>1, <1>2, <1>7, CoordTyped
      <3>2. guest' \in [Contexts -> [Guests -> GuestType]] /\ call' \in [CallIds -> CallType]
        BY <2>3, <2>4 DEF GuestsTyped, Moved
      <3>. QED
        BY <1>2, <2>2, <3>1, <3>2, Typed
    <2>6. Legal(k, {})
      BY <1>1, <1>3, <2>3, <2>5 DEF Legal, Fits, At, NoCommandsYet, Closers
    <2>7. ASSUME apart' PROVE Openly(k, {}, "none")
      <3>1. AtRest /\ OneMoment /\ LockKept /\ HeadKept
        BY <1>1, <1>2, <1>3, <1>7, <2>7 DEF ClosingFits, ApartInv, At
      <3>2. AtRest'
        BY <1>1, <1>7, <2>2, <3>1 DEF AtRest
      <3>3. ClosedKept'
        BY <2>2, <2>7, <3>2 DEF ClosedKept
      <3>4. OneMoment' /\ HeadKept'
        BY <1>1, <1>6, <2>2, <2>3, <3>1, MomentsStay, HeadStays
      <3>5. LockKept'
        BY <1>1, <1>2, <1>7, <2>2, <2>7, <3>1, LockStays
      <3>. QED
        BY <1>1, <2>2, <2>3, <2>7, <3>3, <3>4, <3>5 DEF Openly
    <2>. QED
      BY <1>2, <2>4, <2>5, <2>6, <2>7, OpenStep
  <1>8. CASE /\ ~call[k].failed \/ call[k].kind = "dispose"
             /\ Stop(k, [call[k] EXCEPT !.error = call[k].failed], facade, coord, "releasing")
    <2>. DEFINE r == [call[k] EXCEPT !.error = call[k].failed]
    <2>1. r \in CallType /\ r.kind = call[k].kind /\ r.ctx = call[k].ctx
      BY <1>2 DEF CallType
    <2>2. Stop(k, r, facade, coord, "releasing")
      BY <1>8
    <2>. HIDE DEF r
    <2>3. facade \in FacadeType /\ coord \in CoordType /\ "releasing" \in Awaits
      BY <1>2, CoordTyped, Names DEF TypeOK
    <2>4. StopsWith(k, r, facade, coord, "releasing")
      BY <1>2, <2>1, <2>2, <2>3, StopMoves
    <2>5. call'[k].kind = call[k].kind /\ call'[k].at = "releasing" /\ call'[k].ctx = c
      BY <1>4, <2>1, <2>4 DEF StopsWith
    <2>6. /\ facade'.life = facade.life /\ facade'.active = facade.active
          /\ facade'.token \in {facade.token, 0} /\ facade'.initialized = facade.initialized
          /\ coord'.lock = coord.lock /\ Moved(k) /\ StatesKept
          /\ \A d, do, at : Posted(k, d, {}, do, at)
      BY <2>4 DEF StopsWith
    <2>7. CallStep(k, {}, "none")
      BY <2>4 DEF StopsWith, CallStep
    <2>8. TypeOK' /\ Len(store.gens) <= Len(store'.gens)
      <3>1. store' \in StoreType /\ store'.head = store.head /\ store'.gens = store.gens
        BY <1>1, <1>2, CoordTyped
      <3>2. /\ guest' \in [Contexts -> [Guests -> GuestType]] /\ call' \in [CallIds -> CallType]
            /\ coord' \in CoordType /\ facade' \in FacadeType
        BY <2>4 DEF StopsWith, GuestsTyped, Moved
      <3>. QED
        BY <1>2, <3>1, <3>2, Typed
    <2>9. Legal(k, {})
      <3>1. Fits(call'[k].kind, call'[k].at)
        BY <1>3, <2>5 DEF Fits
      <3>. QED
        BY <1>1, <1>4, <2>5, <2>8, <3>1 DEF Legal, At, NoCommandsYet
    <2>10. ASSUME apart' PROVE Openly(k, {}, "none")
      <3>1. OneMoment /\ LockKept /\ HeadKept /\ ClosedKept /\ coord.lock \in 0..MaxCalls
        BY <1>2, <2>3, <2>10 DEF ApartInv, CoordType
      <3>2. store'.head = store.head /\ store'.gens = store.gens
        BY <1>1
      <3>3. LockKept' /\ LockFits(k)'
        BY <1>1, <1>2, <2>4, <2>10, <3>1, LockStopped
      <3>4. PICK d, do, at : Posted(k, c, {}, do, at) /\ d = c
        BY <2>6
      <3>5. ClosedKept'
        BY <1>2, <2>6, <3>1, <3>2, <3>4, ClosedStays
      <3>6. NoRestores => NoRestores'
        <4>1. PICK x \in {"boot"} : Posted(k, c, {}, x, at)
          BY <2>6
        <4>. QED
          BY <1>2, <2>6, <4>1, NoRestoresPosted
      <3>7. LifeFits(k)' /\ OnActive(k)' /\ RestoresFit(k)'
        BY <1>1, <1>2, <1>3, <1>4, <1>5, <2>5, <2>6, <2>10, <3>6
           DEF LifeFits, OnActive, RestoresFit, At, Closers
      <3>8. ClosingFits(k)'
        <4>1. CASE call[k].kind = "dispose"
          BY <2>5, <4>1 DEF ClosingFits, Closers
        <4>2. CASE call[k].kind \in Closers
          <5>1. /\ AtRest
                /\ \A g \in Guests : guest[c][g].state = "stopped"
            BY <1>1, <1>2, <1>4, <1>8, <2>10, <4>2 DEF ClosingFits, Here, At, Closers
          <5>2. AtRest'
            BY <1>2, <2>6, <3>2, <3>4, <5>1, RestingPosted
          <5>3. \A g \in Guests : Here(k, g)'.state = "stopped"
            BY <2>5, <2>6, <5>1 DEF StatesKept, Here
          <5>. QED
            BY <2>5, <5>2, <5>3 DEF ClosingFits, At
        <4>. QED
          BY <1>3, <4>1, <4>2
      <3>9. Phase(k)'
        BY <2>5, <3>3, <3>7, <3>8 DEF Phase, CapturesFit, HeadFits, Committed, At
      <3>10. OneMoment' /\ HeadKept'
        BY <1>6, <2>6, <3>1, <3>2, MomentsStay, HeadStays
      <3>. QED
        BY <2>6, <3>2, <3>3, <3>5, <3>9, <3>10 DEF Openly
    <2>. QED
      BY <1>2, <2>7, <2>8, <2>9, <2>10, OpenStep
  <1>9. CASE call[k].failed /\ call[k].kind # "dispose"
    BY <1>7, <1>9 DEF Stopped
  <1>10. CASE ~(call[k].failed /\ call[k].kind # "dispose")
    BY <1>8, <1>10 DEF Stopped
  <1>. QED
    BY <1>9, <1>10

\* After it the lock is free, whoever held it.
LEMMA Freed ==
    ASSUME TypeOK, NEW k \in CallIds, call[k].at \in {"releasing", "givingUp"},
           StopReturns(call[k]) \/ StopThrows(call[k])
    PROVE  /\ coord' \in CoordType /\ store' \in StoreType
           /\ store'.head = store.head /\ store'.gens = store.gens
           /\ LockFits(k) => coord'.lock = 0
  <1>1. coord \in CoordType /\ store \in StoreType
    BY CoordTyped
  <1>2. ASSUME NEW state \in {"stopped", "failed"}, NEW owned \in BOOLEAN,
               LetGo(call[k].stops, state, owned)
        PROVE  /\ coord' \in CoordType /\ store' \in StoreType
               /\ store'.head = store.head /\ store'.gens = store.gens
               /\ LockFits(k) => coord'.lock = 0
    <2>1. /\ coord' = [coord EXCEPT !.state[call[k].stops] = state,
                                    !.lock = IF @ = call[k].stops THEN 0 ELSE @]
          /\ store' = [store EXCEPT !.owned = owned]
      BY <1>2 DEF LetGo
    <2>2. store' \in StoreType /\ store'.head = store.head /\ store'.gens = store.gens
      BY <1>1, <2>1 DEF StoreType
    <2>3. /\ coord' \in CoordType
          /\ coord'.lock = IF coord.lock = call[k].stops THEN 0 ELSE coord.lock
      <3>. DEFINE lock == IF coord.lock = call[k].stops THEN 0 ELSE coord.lock
      <3>1. lock \in 0..MaxCalls
        BY <1>1, Constants_ DEF CoordType
      <3>2. coord' = [coord EXCEPT !.state[call[k].stops] = state, !.lock = lock]
        BY <1>1, <2>1 DEF CoordType
      <3>. HIDE DEF lock
      <3>3. coord' \in CoordType /\ coord'.lock = lock
        BY <1>1, <3>1, <3>2 DEF CoordType
      <3>. QED
        BY <3>3 DEF lock
    <2>. QED
      BY <2>2, <2>3 DEF LockFits, Stopper, At
  <1>3. CASE call[k].first /\ StopReturns(call[k])
    <2>1. LetGo(call[k].stops, "stopped", Inactive(call[k].stops))
      BY <1>3 DEF StopReturns
    <2>2. store.owned \in BOOLEAN
      BY <1>1 DEF StoreType
    <2>3. PICK owned \in BOOLEAN : owned = Inactive(call[k].stops)
      BY <2>2 DEF Inactive
    <2>. QED
      BY <1>2, <2>1, <2>3
  <1>4. CASE ~call[k].first /\ StopReturns(call[k])
    <2>1. UNCHANGED <<coord, store>>
      BY <1>4 DEF StopReturns
    <2>. QED
      BY <1>1, <1>4, <2>1 DEF LockFits, Stopper, At
  <1>5. CASE StopThrows(call[k])
    <2>1. PICK owned \in {store.owned, Inactive(call[k].stops)} :
             LetGo(call[k].stops, "failed", owned)
      BY <1>5 DEF StopThrows
    <2>2. owned \in BOOLEAN
      BY <1>1, <2>1 DEF StoreType, Inactive
    <2>. QED
      BY <1>2, <2>1, <2>2
  <1>. QED
    BY <1>3, <1>4, <1>5

LEMMA ClosedFacade ==
    ASSUME TypeOK, NEW r \in CallType, r.kind \in Closers \union {"dispose"}
    PROVE  /\ Closed(r) \in FacadeType /\ Closed(r).active = facade.active
           /\ Closed(r).token = 0
           /\ r.kind = "dispose" => Closed(r).life = "disposed"
           /\ r.kind # "dispose" => Closed(r).life = "cold"
  <1>1. facade \in FacadeType /\ r.gen \in Nat /\ "disposed" \in AnyLife /\ "cold" \in AnyLife
    BY DEF TypeOK, CallType, AnyLife
  <1>2. PICK no \in BOOLEAN : no = FALSE
    OBVIOUS
  <1>3. CASE r.kind = "dispose"
    <2>. DEFINE f == [facade EXCEPT !.token = 0, !.initialized = no, !.life = "disposed"]
    <2>1. Closed(r) = f
      BY <1>2, <1>3 DEF Closed
    <2>2. f \in FacadeType /\ f.active = facade.active /\ f.token = 0 /\ f.life = "disposed"
      BY <1>1 DEF FacadeType
    <2>. HIDE DEF f
    <2>. QED
      BY <1>3, <2>1, <2>2
  <1>4. CASE r.kind = "suspend"
    <2>. DEFINE f == [facade EXCEPT !.token = 0, !.initialized = no, !.life = "cold",
                               !.saved = "clean", !.suspended = r.gen]
    <2>1. Closed(r) = f
      BY <1>2, <1>4 DEF Closed
    <2>2. f \in FacadeType /\ f.active = facade.active /\ f.token = 0 /\ f.life = "cold"
      BY <1>1 DEF FacadeType
    <2>. HIDE DEF f
    <2>. QED
      BY <1>4, <2>1, <2>2
  <1>5. CASE r.kind = "retrySuspendCleanup"
    <2>. DEFINE f == [facade EXCEPT !.token = 0, !.initialized = no, !.life = "cold",
                               !.saved = "clean", !.cleanupPending = no]
    <2>1. Closed(r) = f
      BY <1>2, <1>5 DEF Closed
    <2>2. f \in FacadeType /\ f.active = facade.active /\ f.token = 0 /\ f.life = "cold"
      BY <1>1 DEF FacadeType
    <2>. HIDE DEF f
    <2>. QED
      BY <1>5, <2>1, <2>2
  <1>. QED
    BY <1>3, <1>4, <1>5 DEF Closers

\* A call that has stopped the coordinator is done, and the lock is free.
LEMMA LetGoStep ==
    ASSUME IInv, NEW k \in CallIds, call[k].at \in {"releasing", "givingUp"},
           NEW error \in BOOLEAN, Finish(k, call[k], error), UNCHANGED <<guest, apart>>,
           StopReturns(call[k]) \/ StopThrows(call[k]),
           facade' \in FacadeType, facade'.active = facade.active,
           apart' => /\ facade'.life # "hot"
                     /\ facade'.life \in {"cold", "cleanupIncomplete"} => AtRest
                     /\ facade'.life = "cold" =>
                           /\ facade'.token = 0
                           /\ \A g \in Guests : guest[facade.active][g].state = "stopped"
    PROVE  IInv'
  <1>1. InFlight(k)
    BY DEF InFlight
  <1>2. /\ AlwaysInv /\ TypeOK
        /\ call[k] \in CallType /\ Fits(call[k].kind, call[k].at)
        /\ apart' \in BOOLEAN
        /\ apart' => apart /\ ApartInv /\ Alone(k) /\ LockFits(k)
    BY <1>1, Continues
  <1>3. call[k].kind \in Closers \union {"dispose", "initialize"}
    BY <1>2 DEF Fits, Capturers
  <1>4. ~LeftBehind(k)
    BY <1>3 DEF LeftBehind, Closers
  <1>5. /\ coord' \in CoordType /\ store' \in StoreType
        /\ store'.head = store.head /\ store'.gens = store.gens
        /\ LockFits(k) => coord'.lock = 0
    BY <1>2, Freed
  <1>6. /\ Moved(k) /\ call'[k].at = "done" /\ call'[k].kind = call[k].kind
    BY <1>2, FinishMoves
  <1>7. CallStep(k, {}, "none") /\ StatesKept /\ GuestsTyped
    BY <1>2, <1>6, StillSteps DEF CallStep
  <1>8. TypeOK' /\ Len(store.gens) <= Len(store'.gens)
    <2>1. guest' \in [Contexts -> [Guests -> GuestType]] /\ call' \in [CallIds -> CallType]
      BY <1>6, <1>7 DEF GuestsTyped, Moved
    <2>. QED
      BY <1>2, <1>5, <2>1, Typed
  <1>9. Legal(k, {})
    <2>1. Fits(call'[k].kind, call'[k].at)
      BY <1>3, <1>6 DEF Fits, Closers
    <2>. QED
      BY <1>1, <1>6, <1>8, <2>1 DEF Legal, At, NoCommandsYet
  <1>10. ASSUME apart' PROVE Openly(k, {}, "none")
    <2>1. OneMoment /\ HeadKept /\ coord'.lock = 0
      BY <1>2, <1>5, <1>10 DEF ApartInv
    <2>2. LockKept'
      BY <2>1 DEF LockKept
    <2>3. ClosedKept'
      <3>1. AtRest => AtRest'
        BY <1>5 DEF AtRest
      <3>. QED
        BY <1>10, <2>1, <3>1 DEF ClosedKept
    <2>4. OneMoment' /\ HeadKept'
      BY <1>4, <1>5, <1>6, <2>1, MomentsStay, HeadStays
    <2>. QED
      BY <1>5, <1>6, <1>10, <2>2, <2>3, <2>4 DEF Openly
  <1>. QED
    BY <1>2, <1>7, <1>8, <1>9, <1>10, OpenStep

LEMMA ReleaseStep ==
    ASSUME IInv, NEW k \in CallIds, Release(k)
    PROVE  IInv'
  <1>1. /\ InFlight(k) /\ UNCHANGED <<guest, apart>> /\ call[k].at = "releasing"
    BY DEF Release, InFlight
  <1>2. /\ TypeOK /\ facade.active \in Contexts
        /\ call[k] \in CallType /\ Fits(call[k].kind, call[k].at)
        /\ apart' => LifeFits(k) /\ OnActive(k) /\ ClosingFits(k)
    BY <1>1, Continues
  <1>3. call[k].kind \in Closers \union {"dispose"} /\ call[k].error \in BOOLEAN
    BY <1>1, <1>2 DEF Fits, Capturers, CallType
  <1>4. apart' /\ call[k].kind # "dispose" =>
           AtRest /\ \A g \in Guests : guest[facade.active][g].state = "stopped"
    <2>. SUFFICES ASSUME apart', call[k].kind # "dispose"
                  PROVE  AtRest /\ \A g \in Guests : guest[facade.active][g].state = "stopped"
      OBVIOUS
    <2>1. call[k].ctx = facade.active
      BY <1>1, <1>2, <1>3 DEF OnActive, At, Closers
    <2>. QED
      BY <1>1, <1>2, <1>3, <2>1 DEF ClosingFits, At, Here
  <1>5. /\ Closed(call[k]) \in FacadeType /\ Closed(call[k]).active = facade.active
        /\ Closed(call[k]).token = 0
        /\ call[k].kind = "dispose" => Closed(call[k]).life = "disposed"
        /\ call[k].kind # "dispose" => Closed(call[k]).life = "cold"
    BY <1>2, <1>3, ClosedFacade
  <1>6. call[k].kind # "dispose" =>
           /\ Incomplete(call[k]) \in FacadeType /\ Incomplete(call[k]).active = facade.active
           /\ apart' => Incomplete(call[k]).life = "cleanupIncomplete"
    <2>. SUFFICES ASSUME call[k].kind # "dispose"
                  PROVE  /\ Incomplete(call[k]) \in FacadeType
                         /\ Incomplete(call[k]).active = facade.active
                         /\ apart' => Incomplete(call[k]).life = "cleanupIncomplete"
      OBVIOUS
    <2>1. call[k].kind \in Closers
      BY <1>3
    <2>2. /\ Incomplete(call[k]) \in FacadeType /\ Incomplete(call[k]).active = facade.active
          /\ \/ Incomplete(call[k]).life = "cleanupIncomplete"
             \/ call[k].kind = "retrySuspendCleanup" /\ Incomplete(call[k]).life = facade.life
      BY <1>2, <2>1, IncompleteFacade
    <2>. QED
      BY <1>2, <2>2 DEF LifeFits
  <1>7. PICK error \in BOOLEAN : Finish(k, call[k], error)
    <2>1. PICK yes \in BOOLEAN : yes = TRUE
      OBVIOUS
    <2>. QED
      BY <1>3, <2>1 DEF Release
  <1>8. StopReturns(call[k]) \/ StopThrows(call[k])
    BY DEF Release
  <1>9. CASE facade' = Closed(call[k])
    BY <1>1, <1>4, <1>5, <1>7, <1>8, <1>9, LetGoStep
  <1>10. CASE facade' = Incomplete(call[k]) /\ call[k].kind # "dispose"
    BY <1>1, <1>4, <1>6, <1>7, <1>8, <1>10, LetGoStep
  <1>11. \/ facade' = Closed(call[k])
         \/ facade' = Incomplete(call[k]) /\ call[k].kind # "dispose"
    BY DEF Release
  <1>. QED
    BY <1>9, <1>10, <1>11

LEMMA GiveUpStep ==
    ASSUME IInv, NEW k \in CallIds, GiveUp(k)
    PROVE  IInv'
  <1>1. /\ InFlight(k) /\ UNCHANGED <<guest, facade, apart>> /\ call[k].at = "givingUp"
        /\ StopReturns(call[k]) \/ StopThrows(call[k])
    BY DEF GiveUp, InFlight
  <1>2. /\ TypeOK /\ facade \in FacadeType
        /\ call[k] \in CallType /\ Fits(call[k].kind, call[k].at)
        /\ apart' => apart /\ LifeFits(k)
    BY <1>1, Continues DEF TypeOK
  <1>3. call[k].kind = "initialize"
    BY <1>1, <1>2 DEF Fits, Capturers, Closers
  <1>4. PICK error \in BOOLEAN : Finish(k, call[k], error)
    <2>1. PICK yes \in BOOLEAN : yes = TRUE
      OBVIOUS
    <2>. QED
      BY <2>1 DEF GiveUp
  <1>. QED
    BY <1>1, <1>2, <1>3, <1>4, LetGoStep DEF LifeFits

-----------------------------------------------------------------------------
(* The invariant, and what follows from it *)

LEMMA InitIInv == Init => IInv
  <1>. SUFFICES ASSUME Init PROVE IInv
    OBVIOUS
  <1>1. /\ \A k \in CallIds : call[k] = NoCall
        /\ \A c \in Contexts, g \in Guests : Queue(c, g) = <<>> /\ Len(Queue(c, g)) = 0
        /\ store.gens = <<>> /\ store.head = 0 /\ Len(store.gens) = 0
        /\ facade.life = "registered" /\ facade.active = 1
        /\ coord.lock = 0 /\ apart = TRUE
    BY DEF Init, Queue
  <1>2. \A k \in CallIds : call[k].kind = "none" /\ call[k].at = "idle" /\ ~InFlight(k)
    BY <1>1 DEF NoCall, InFlight
  <1>3. TypeOK
    <2>1. PICK no \in BOOLEAN, yes \in BOOLEAN : no = FALSE /\ yes = TRUE
      OBVIOUS
    <2>2. 1 \in Contexts /\ NoCall \in CallType
      BY Constants_
    <2>3. facade \in FacadeType
      <3>1. facade = [life |-> "registered", initialized |-> no, token |-> 0,
                      disposed |-> no, saved |-> "clean",
                      cleanupPending |-> no, suspended |-> 0, active |-> 1]
        BY <2>1 DEF Init
      <3>. QED
        BY <2>2, <3>1 DEF FacadeType, AnyLife
    <2>4. guest \in [Contexts -> [Guests -> GuestType]]
      <3>1. \A c \in Contexts : [state |-> IF c = 1 THEN "created" ELSE "absent",
                                 mem |-> 0, queue |-> <<>>] \in GuestType
        BY DEF GuestType
      <3>. QED
        BY <3>1 DEF Init
    <2>5. call \in [CallIds -> CallType]
      BY <2>2 DEF Init
    <2>6. /\ store \in [head : Nat, gens : Seq(Record), epoch : Nat, owned : BOOLEAN,
                        damaged : SUBSET Nat]
          /\ store.head \in 0..Len(store.gens)
      <3>1. store = [head |-> 0, gens |-> <<>>, epoch |-> 0, owned |-> no, damaged |-> {}]
        BY <2>1 DEF Init
      <3>2. <<>> \in Seq(Record) /\ {} \in SUBSET Nat
        OBVIOUS
      <3>. QED
        BY <1>1, <3>1, <3>2
    <2>7. coord \in [current : 0..MaxCalls, lock : 0..MaxCalls,
                     state : [CallIds -> {"idle", "waiting", "owned", "stopping", "stopped",
                                          "failed"}],
                     epoch : [CallIds -> Nat]]
      <3>1. 0 \in 0..MaxCalls
        BY Constants_
      <3>. QED
        BY <3>1 DEF Init
    <2>8. apart \in BOOLEAN
      BY <1>1, <2>1
    <2>. QED
      BY <2>3, <2>4, <2>5, <2>6, <2>7, <2>8 DEF TypeOK
  <1>4. AlwaysInv
    <2>1. PlacesFit
      BY <1>2 DEF PlacesFit, Fits, At
    <2>2. CommandsFit /\ TurnAwaited /\ OneTurnEach
      BY <1>1 DEF CommandsFit, TurnAwaited, OneTurnEach
    <2>3. AskedInTurn
      BY <1>2 DEF AskedInTurn, At
    <2>. QED
      BY <1>3, <2>1, <2>2, <2>3 DEF AlwaysInv, TurnsTaken
  <1>5. ApartInv
    <2>1. Sole /\ \A k \in CallIds : InFlight(k) => Phase(k)
      BY <1>2 DEF Sole
    <2>2. RestoresDone /\ OneMoment
      BY <1>1 DEF RestoresDone, NoRestore, OneMoment
    <2>3. ClosedKept /\ LockKept /\ HeadKept
      BY <1>1 DEF ClosedKept, LockKept, HeadKept
    <2>. QED
      BY <2>1, <2>2, <2>3 DEF ApartInv
  <1>. QED
    BY <1>4, <1>5 DEF IInv

LEMMA GuestsStep ==
    ASSUME IInv, NEW c \in Contexts, NEW g \in Guests,
           RunCommand(c, g) \/ SkipCommand(c, g) \/ Work(c, g)
    PROVE  IInv'
  <1>1. AlwaysInv /\ TypeOK
    BY DEF IInv, AlwaysInv
  <1>2. CASE RunCommand(c, g) \/ SkipCommand(c, g)
    <2>1. Turned(c, g) /\ UNCHANGED <<facade, store, coord, apart>>
      BY <1>1, <1>2, RunTurns, SkipTurns
    <2>2. AlwaysInv'
      BY <1>1, <2>1, TurnedAlways
    <2>3. apart' => ApartInv'
      BY <1>1, <2>1, TurnedApart DEF IInv
    <2>. QED
      BY <2>2, <2>3 DEF IInv
  <1>3. CASE Work(c, g)
    <2>1. Worked(c, g) /\ UNCHANGED <<facade, call, store, coord, apart>>
      BY <1>1, <1>3, WorkWorks
    <2>2. AlwaysInv'
      BY <1>1, <2>1, WorkAlways
    <2>3. apart' => ApartInv'
      BY <1>1, <2>1, WorkApart DEF IInv
    <2>. QED
      BY <2>2, <2>3 DEF IInv
  <1>. QED
    BY <1>2, <1>3

LEMMA AbortStep ==
    ASSUME IInv, NEW k \in CallIds, Abort(k)
    PROVE  IInv'
  <1>1. AlwaysInv /\ TypeOK
    BY DEF IInv, AlwaysInv
  <1>2. Aborted(k) /\ UNCHANGED <<facade, store, coord, apart>>
    BY <1>1, AbortAborts
  <1>3. AlwaysInv'
    BY <1>1, <1>2, AbortAlways
  <1>4. apart' => ApartInv'
    BY <1>1, <1>2, AbortApart DEF IInv
  <1>. QED
    BY <1>3, <1>4 DEF IInv

LEMMA DamageStep ==
    ASSUME IInv, Damage
    PROVE  IInv'
  <1>1. AlwaysInv /\ UNCHANGED <<facade, guest, call, coord, apart>>
    BY DEF IInv, Damage
  <1>2. AlwaysInv' /\ store'.head = store.head /\ store'.gens = store.gens
    BY <1>1, DamageAlways
  <1>3. apart' => ApartInv'
    BY <1>1, <1>2, DamageApart DEF IInv
  <1>. QED
    BY <1>2, <1>3 DEF IInv

LEMMA IdleStep ==
    ASSUME IInv, UNCHANGED vars
    PROVE  IInv'
  <1>1. AlwaysInv /\ UNCHANGED <<facade, guest, call, store, coord, apart>>
    BY DEF IInv, vars
  <1>2. AlwaysInv'
    <2>1. TypeOK'
      BY <1>1 DEF AlwaysInv, TypeOK
    <2>. QED
      BY <1>1, <2>1, SameQueuesAlways
  <1>3. apart' => ApartInv'
    BY <1>1, DamageApart DEF IInv
  <1>. QED
    BY <1>2, <1>3 DEF IInv

LEMMA RequestsStep ==
    ASSUME IInv, NEW k \in CallIds, Requests(k)
    PROVE  IInv'
  BY InitializeStep, SaveStep, ImportImageStep, ClosingStep DEF Requests

LEMMA CapturingStep ==
    ASSUME IInv, NEW k \in CallIds, Capturing(k)
    PROVE  IInv'
  BY PauseNextStep, PausedAllStep, PauseFailedStep, UnpausedStep, ReadHeadStep, FlushedStep,
     CapturedStep, CommitStep, ResumedStep, PrunedStep DEF Capturing

LEMMA SuspendingStep ==
    ASSUME IInv, NEW k \in CallIds, Suspending(k)
    PROVE  IInv'
  BY VerifiedStep, RolledBackStep, StoppedStep, ReleaseStep DEF Suspending

LEMMA ImportingStep ==
    ASSUME IInv, NEW k \in CallIds, Importing(k)
    PROVE  IInv'
  BY ArchiveReadStep, StagedStep, CandidatePausedStep, CandidateCommitStep, AdoptStep,
     RetiredStep, UnstagedStep DEF Importing

LEMMA WakingStep ==
    ASSUME IInv, NEW k \in CallIds, Waking(k)
    PROVE  IInv'
  BY OwnStep, OwnFailsStep, WakeStep, RestoreNextStep, ResumedAllStep, BootedStep, GivenUpStep,
     GiveUpStep DEF Waking

\* The invariant is inductive: AlwaysInv however the operations overlap,
\* ApartInv for as long as they have not.
THEOREM ComputerAlways == Spec => []IInv
  <1>1. Init => IInv
    BY InitIInv
  <1>2. IInv /\ [Next]_vars => IInv'
    <2>. SUFFICES ASSUME IInv, [Next]_vars PROVE IInv'
      OBVIOUS
    <2>1. CASE \E k \in CallIds : Requests(k) \/ Continue(k) \/ Abort(k)
      BY <2>1, RequestsStep, CapturingStep, SuspendingStep, ImportingStep, WakingStep, AbortStep
         DEF Continue
    <2>2. CASE \E c \in Contexts, g \in Guests :
                  RunCommand(c, g) \/ SkipCommand(c, g) \/ Work(c, g)
      BY <2>2, GuestsStep
    <2>3. CASE Damage
      BY <2>3, DamageStep
    <2>4. CASE UNCHANGED vars
      BY <2>4, IdleStep
    <2>. QED
      BY <2>1, <2>2, <2>3, <2>4 DEF Next
  <1>. QED
    BY <1>1, <1>2, PTL DEF Spec

\* Every command in a guest's queue was asked for by a call, in the computer
\* that call works on; one that a guest is given in its turn (a pause, a
\* restore) and that nobody waits for any more is void or already running.
THEOREM CommandsAreAwaited == Spec => [](CommandsFit /\ TurnsTaken)
  <1>1. IInv => CommandsFit /\ TurnsTaken
    BY DEF IInv, AlwaysInv
  <1>. QED
    BY <1>1, ComputerAlways, PTL

\* Without overlap a generation holds guests and devices as of one moment,
\* whatever failed or was aborted before.
THEOREM GenerationsHoldOneMoment == Spec => []GenerationsAreOneMoment
  <1>1. IInv => GenerationsAreOneMoment
    BY DEF IInv, ApartInv, OneMoment, GenerationsAreOneMoment
  <1>. QED
    BY <1>1, ComputerAlways, PTL

\* Without overlap a computer that is cold is stopped, nobody owns its group,
\* and HEAD holds its guests as they were when they stopped.
THEOREM ColdLosesNothing == Spec => []ColdIsDurable
  <1>1. IInv => ColdIsDurable
    BY DEF IInv, ApartInv, ClosedKept, AtRest, Resting, ColdIsDurable
  <1>. QED
    BY <1>1, ComputerAlways, PTL

\* Without overlap an import replaces the computer and HEAD together or
\* neither, but for a candidate that did not resume after its commit.
THEOREM ImportsAreAtomic == Spec => []ImportIsAtomic
  <1>1. IInv => ImportIsAtomic
    BY DEF IInv, ApartInv, HeadKept, LeftBehind, At, ImportIsAtomic
  <1>. QED
    BY <1>1, ComputerAlways, PTL
=============================================================================
