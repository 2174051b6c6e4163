----------------------- MODULE GuestsComeBack_proofs ------------------------
(***************************************************************************)
(* Guests of DurableComputer come back, however its operations overlap.    *)
(*                                                                         *)
(* BackInv holds as long as the operations that wake or close the computer *)
(* did not overlap one another, nothing was aborted and no resume was      *)
(* refused: it names, for every guest that does not run, the command or    *)
(* the call that sees to it that the guest comes back.  It rests on the    *)
(* half of the inductive invariant that holds of all operations,           *)
(* AlwaysInv of DurableComputer_proofs.                                    *)
(***************************************************************************)
EXTENDS DurableComputer_proofs

-----------------------------------------------------------------------------
(* What sees to it that a guest comes back *)

Harmless == faults \cap {"abort", "resume"} = {}
Only == inTurn /\ Harmless
Live == facade.initialized /\ facade.token # 0

OneByOne ==
    \A j, k \in CallIds :
       /\ InFlight(j) /\ call[j].kind \in LifeCycle
       /\ InFlight(k) /\ call[k].kind \in LifeCycle
       => j = k

Unaborted ==
    /\ \A k \in CallIds : ~call[k].aborted
    /\ \A c \in Contexts, g \in Guests : \A i \in 1..Len(Queue(c, g)) : ~Queue(c, g)[i].void

\* The commands whose call always hears of them.
Heard == {"pause", "restore", "boot"}

AllAwaited ==
    \A c \in Contexts, g \in Guests : \A i \in 1..Len(Queue(c, g)) :
       LET cmd == Queue(c, g)[i] IN
       cmd.do \in Heard => call[cmd.by].at = cmd.place /\ g \in call[cmd.by].asked

MarkedFirst ==
    \A c \in Contexts, g \in Guests : \A i \in 1..Len(Queue(c, g)) :
       Queue(c, g)[i].unknown => i = 1

OneBootEach ==
    \A c \in Contexts, g \in Guests : \A i, j \in 1..Len(Queue(c, g)) :
       /\ Queue(c, g)[i].do = "boot" /\ Queue(c, g)[j].do = "boot"
       /\ Queue(c, g)[i].by = Queue(c, g)[j].by
       => i = j

PausesFit == \A k \in CallIds : At(k, {"pausing"}) => call[k].todo \subseteq call[k].ids

\* A candidate is nobody's computer and has no commands; so is one not yet made.
Besides == {"pausingCandidate", "publishing", "adopting"}
Made(c) == guest[c][1].state # "absent"
Unasked(c) == \A g \in Guests : Len(Queue(c, g)) = 0

ContextsMade ==
    /\ Made(1) /\ Made(facade.active)
    /\ \A k \in CallIds : Made(call[k].ctx)
    /\ \A c \in Contexts : Made(c) \/ Unasked(c)

CandidatesApart ==
    \A k \in CallIds : At(k, Besides) =>
       /\ Made(call[k].cand) /\ Unasked(call[k].cand)
       /\ call[k].cand # 1 /\ call[k].cand # facade.active
       /\ \A j \in CallIds :
             /\ call[j].ctx # call[k].cand
             /\ At(j, Besides) /\ call[j].cand = call[k].cand => j = k

\* What ends with a computer that is not hot, or wakes all its guests.
Failing(k) ==
    \/ At(k, {"booting", "restoring", "resumingAll"}) /\ call[k].failed
    \/ At(k, {"unbooting"})
Closing(k) == call[k].kind \in {"suspend", "dispose"} /\ At(k, {"stopping", "releasing"})
Wakers == {"initialize", "suspend"}
Stuck ==
    /\ facade.life # "hot"
    /\ \A k \in CallIds : InFlight(k) => call[k].kind \notin Wakers
Turning(k) == Closing(k) \/ Failing(k) \/ At(k, {"reading"})
Unsettled == ~Live \/ Stuck \/ \E k \in CallIds : Turning(k)

\* The call will wake this guest after the i-th command of its queue.
Mine(g) == Queue(facade.active, g)
Later(k, g, i, do) ==
    \E j \in 1..Len(Mine(g)) : j > i /\ Mine(g)[j].do = do /\ Mine(g)[j].by = k
Wakes(k, g, i) ==
    /\ call[k].ctx = facade.active
    /\ \/ /\ At(k, {"restoring"}) /\ g \in call[k].todo
          /\ g \in call[k].asked => Later(k, g, i, "restore")
       \/ At(k, {"booting"}) /\ Later(k, g, i, "boot")
Kept(g, i) == Unsettled \/ \E k \in CallIds : Wakes(k, g, i)

ShutdownsKept ==
    \A g \in Guests : \A i \in 1..Len(Mine(g)) : Mine(g)[i].do = "shutdown" => Kept(g, i)

\* A pause that was running when the owner changed.
MarksKept ==
    \A g \in Guests :
       Len(Mine(g)) > 0 /\ Mine(g)[1].do = "pause" /\ Mine(g)[1].unknown => Kept(g, 1)

\* The call has yet to resume the guest it paused.
Held == {"readingHead", "flushing", "capturing", "committing", "verifying", "staging",
         "pausingCandidate", "publishing", "adopting", "unstaging"}
GivesBack(k, g) ==
    /\ call[k].ctx = facade.active /\ g \in call[k].ids
    /\ \/ At(k, {"pausing"}) /\ g \notin call[k].todo
       \/ At(k, Held)
       \/ At(k, {"pruning"}) /\ call[k].kind = "suspend"
Restores(k) == At(k, {"restoring"}) /\ call[k].ctx = facade.active
ResumeAsked(g) == \E i \in 1..Len(Mine(g)) : Mine(g)[i].do = "resume"
Returns(k, g) == GivesBack(k, g) \/ Restores(k)

Covered(g) ==
    \/ guest[facade.active][g].state = "running"
    \/ Kept(g, 0)
    \/ /\ guest[facade.active][g].state = "paused"
       /\ ResumeAsked(g) \/ \E k \in CallIds : Returns(k, g)

AllCovered == \A g \in Guests : Covered(g)

BackInv ==
    /\ OneByOne /\ Unaborted /\ AllAwaited /\ MarkedFirst /\ OneBootEach /\ PausesFit
    /\ ContextsMade /\ CandidatesApart
    /\ ShutdownsKept /\ MarksKept /\ AllCovered

-----------------------------------------------------------------------------
(* A step of a call, and what it leaves of the invariant *)

\* The active guests stay as they are; another computer's are at least there.
StatesHold ==
    \A d \in Contexts, g \in Guests :
       \/ guest'[d][g].state = guest[d][g].state
       \/ d # facade.active /\ guest'[d][g].state # "absent"

\* Only a step that settles nothing marks a running command.
Marked ==
    \A d \in Contexts, g \in Guests : \A i \in 1..Len(guest'[d][g].queue) :
       guest'[d][g].queue[i].unknown =>
          \/ i \in 1..Len(Queue(d, g)) /\ Queue(d, g)[i].unknown
          \/ i = 1 /\ Unsettled'

\* A candidate stays who it is, or is made by this step.
CandidateKept(k) ==
    call'[k].at \in Besides =>
       \/ At(k, Besides) /\ call'[k].cand = call[k].cand
       \/ /\ call'[k].ctx = call[k].ctx
          /\ ~Made(call'[k].cand) /\ guest'[call'[k].cand][1].state # "absent"

Advance(k, now, do) ==
    /\ CallStep(k, now, do) /\ StatesHold /\ Marked
    /\ facade'.active = facade.active
    /\ ~call'[k].aborted
    /\ At(k, {"pausing", "restoring", "booting"}) => call[k].asked = {}
    /\ now # {} /\ do = "boot" => At(k, NoCommandsYet)
    /\ call'[k].at = "pausing" => call'[k].todo \subseteq call'[k].ids
    /\ call'[k].ctx \in {1, call[k].ctx, facade.active}
    /\ CandidateKept(k)

\* The part of it that does not say where the guests are.
Stepping(k, now, do) ==
    /\ CallStep(k, now, do) /\ Marked
    /\ ~call'[k].aborted
    /\ At(k, {"pausing", "restoring", "booting"}) => call[k].asked = {}
    /\ now # {} /\ do = "boot" => At(k, NoCommandsYet)
    /\ call'[k].at = "pausing" => call'[k].todo \subseteq call'[k].ids

LEMMA AdvanceSteps ==
    ASSUME NEW k, NEW now, NEW do, Advance(k, now, do)
    PROVE  Stepping(k, now, do)
  BY DEF Advance, Stepping

LEMMA StepUnaborted ==
    ASSUME AlwaysInv, Unaborted, NEW k \in CallIds, NEW now \in SUBSET Guests, NEW do,
           Stepping(k, now, do)
    PROVE  Unaborted'
  <1>1. TypeOK /\ CallStep(k, now, do) /\ Moved(k) /\ ~call'[k].aborted
    BY DEF AlwaysInv, Stepping, CallStep
  <1>2. ASSUME NEW j \in CallIds PROVE ~call'[j].aborted
    BY <1>1, <1>2 DEF Unaborted, Moved
  <1>3. ASSUME NEW c \in Contexts, NEW g \in Guests, NEW i \in 1..Len(Queue(c, g)')
        PROVE  ~Queue(c, g)'[i].void
    <2>1. CASE i \in 1..Len(Queue(c, g)) /\ SameCommand(Queue(c, g)'[i], Queue(c, g)[i])
      BY <1>3, <2>1 DEF Unaborted, SameCommand
    <2>2. CASE ~Queue(c, g)'[i].void
      BY <2>2
    <2>. QED
      BY <1>1, <1>3, <2>1, <2>2, PostedCommands
  <1>. QED
    BY <1>2, <1>3 DEF Unaborted

LEMMA StepAwaited ==
    ASSUME AlwaysInv, AllAwaited, NEW k \in CallIds, NEW now \in SUBSET Guests, NEW do,
           Stepping(k, now, do)
    PROVE  AllAwaited'
  <1>. SUFFICES ASSUME NEW c \in Contexts, NEW g \in Guests, NEW i \in 1..Len(Queue(c, g)'),
                       Queue(c, g)'[i].do \in Heard
                PROVE  /\ call'[Queue(c, g)'[i].by].at = Queue(c, g)'[i].place
                       /\ g \in call'[Queue(c, g)'[i].by].asked
    BY DEF AllAwaited
  <1>1. /\ TypeOK /\ CommandsFit /\ CallStep(k, now, do) /\ Moved(k)
        /\ At(k, {"pausing", "restoring", "booting"}) => call[k].asked = {}
    BY DEF AlwaysInv, Stepping, CallStep
  <1>2. CASE i \in 1..Len(Queue(c, g)) /\ SameCommand(Queue(c, g)'[i], Queue(c, g)[i])
    <2>. DEFINE cmd == Queue(c, g)[i]
    <2>1. /\ Queue(c, g)'[i].do = cmd.do /\ Queue(c, g)'[i].by = cmd.by
          /\ Queue(c, g)'[i].place = cmd.place /\ cmd.by \in CallIds
      BY <1>1, <1>2, QueueTyped DEF SameCommand
    <2>2. /\ cmd.do \in Heard /\ call[cmd.by].at = cmd.place /\ g \in call[cmd.by].asked
          /\ Asks(cmd.place, cmd.do)
      BY <1>1, <1>2, <2>1 DEF AllAwaited, CommandsFit
    <2>. HIDE DEF cmd
    <2>3. cmd.by # k
      BY <1>1, <2>2 DEF Asks, Heard, At
    <2>. QED
      BY <1>1, <2>1, <2>2, <2>3 DEF Moved
  <1>3. CASE /\ g \in now /\ Queue(c, g)'[i].by = k
             /\ Queue(c, g)'[i].place = call'[k].at
    BY <1>1, <1>3 DEF CallStep
  <1>. QED
    BY <1>1, <1>2, <1>3, PostedCommands

LEMMA StepMarks ==
    ASSUME AlwaysInv, MarkedFirst, NEW k \in CallIds, NEW now \in SUBSET Guests, NEW do,
           Stepping(k, now, do)
    PROVE  MarkedFirst'
  BY DEF MarkedFirst, Stepping, Marked, Queue

LEMMA StepBoots ==
    ASSUME AlwaysInv, OneBootEach, NEW k \in CallIds, NEW now \in SUBSET Guests, NEW do,
           Stepping(k, now, do)
    PROVE  OneBootEach'
  <1>. SUFFICES ASSUME NEW c \in Contexts, NEW g \in Guests,
                       NEW i \in 1..Len(Queue(c, g)'), NEW j \in 1..Len(Queue(c, g)'),
                       Queue(c, g)'[i].do = "boot", Queue(c, g)'[j].do = "boot",
                       Queue(c, g)'[i].by = Queue(c, g)'[j].by
                PROVE  i = j
    BY DEF OneBootEach
  <1>1. /\ TypeOK /\ CommandsFit /\ CallStep(k, now, do)
        /\ now # {} /\ do = "boot" => At(k, NoCommandsYet)
    BY DEF AlwaysInv, Stepping
  <1>. DEFINE Old(n) == n \in 1..Len(Queue(c, g)) /\ SameCommand(Queue(c, g)'[n], Queue(c, g)[n])
              New(n) == /\ n = Len(Queue(c, g)) + 1 /\ g \in now
                        /\ Queue(c, g)'[n].do = do /\ Queue(c, g)'[n].by = k
  <1>2. (Old(i) \/ New(i)) /\ (Old(j) \/ New(j))
    BY <1>1, PostedCommands
  <1>3. ASSUME NEW n, NEW m, Old(n), New(m), Queue(c, g)'[m].do = "boot",
               Queue(c, g)'[n].by = Queue(c, g)'[m].by
        PROVE  FALSE
    <2>1. At(k, NoCommandsYet) /\ Queue(c, g)[n].by = k
      BY <1>1, <1>3 DEF SameCommand
    <2>. QED
      BY <1>1, <1>3, <2>1 DEF CommandsFit
  <1>4. CASE Old(i) /\ Old(j)
    BY <1>4 DEF OneBootEach, SameCommand
  <1>5. CASE New(i) /\ New(j)
    BY <1>5
  <1>. QED
    BY <1>2, <1>3, <1>4, <1>5

LEMMA StepPauses ==
    ASSUME PausesFit, NEW k \in CallIds, NEW now, NEW do, Stepping(k, now, do)
    PROVE  PausesFit'
  BY DEF PausesFit, Stepping, CallStep, Moved, At

LEMMA AdvanceContexts ==
    ASSUME AlwaysInv, AlwaysInv', ContextsMade, CandidatesApart,
           NEW k \in CallIds, NEW now \in SUBSET Guests, NEW do, Advance(k, now, do)
    PROVE  ContextsMade' /\ CandidatesApart'
  <1>1. /\ TypeOK /\ TypeOK' /\ PlacesFit /\ PlacesFit' /\ Moved(k)
        /\ Posted(k, call'[k].ctx, now, do, call'[k].at)
        /\ StatesHold /\ facade'.active = facade.active
        /\ call'[k].ctx \in {1, call[k].ctx, facade.active} /\ CandidateKept(k)
    BY DEF AlwaysInv, Advance, CallStep
  <1>2. /\ 1 \in Contexts /\ 1 \in Guests /\ facade.active \in Contexts
        /\ \A j \in CallIds : call[j].ctx \in Contexts /\ call'[j].ctx \in Contexts
    BY <1>1, Constants_ DEF TypeOK, FacadeType, CallType
  <1>3. \A c \in Contexts : Made(c) => Made(c)'
    BY <1>1, <1>2 DEF StatesHold, Made
  <1>4. \A c \in Contexts : Unasked(c) /\ c # call'[k].ctx => Unasked(c)'
    BY <1>1 DEF Posted, Unasked, Queue
  <1>5. \A j \in CallIds, c \in Contexts : c = call'[j].ctx => Made(c)'
    <2>. SUFFICES ASSUME NEW j \in CallIds, NEW c \in Contexts, c = call'[j].ctx
                  PROVE  Made(c)
      BY <1>3
    <2>1. Made(1) /\ Made(facade.active) /\ Made(call[j].ctx) /\ Made(call[k].ctx)
      BY DEF ContextsMade
    <2>2. c = call[j].ctx \/ c \in {1, call[k].ctx, facade.active}
      BY <1>1 DEF Moved
    <2>. QED
      BY <2>1, <2>2
  <1>6. ContextsMade'
    <2>1. \A c \in Contexts : (Made(c) \/ Unasked(c))'
      <3>. SUFFICES ASSUME NEW c \in Contexts, ~Made(c)' PROVE Unasked(c)'
        BY Zenon
      <3>. QED
        BY <1>2, <1>3, <1>4, <1>5 DEF ContextsMade
    <2>2. (\A j \in CallIds : Made(call[j].ctx))'
      BY <1>2, <1>5
    <2>3. Made(1)' /\ (Made(facade.active))'
      <3>1. Made(1)' /\ \A c \in Contexts : c = facade.active => Made(c)'
        BY <1>2, <1>3 DEF ContextsMade
      <3>. QED
        BY <1>1, <1>2, <3>1
    <2>. QED
      BY <2>1, <2>2, <2>3 DEF ContextsMade
  <1>7. \A j \in CallIds : /\ At(j, Besides) => call[j].cand \in Contexts
                           /\ At(j, Besides)' => call'[j].cand \in Contexts
    BY <1>1 DEF PlacesFit, At, Besides
  <1>. DEFINE Kin(j) == At(j, Besides) /\ call'[j].cand = call[j].cand
              Born(j) == /\ j = k /\ call'[k].ctx = call[k].ctx
                         /\ ~Made(call'[k].cand) /\ guest'[call'[k].cand][1].state # "absent"
  <1>8. \A j \in CallIds : At(j, Besides)' => Kin(j) \/ Born(j)
    BY <1>1 DEF Moved, At, CandidateKept
  <1>9. ASSUME NEW j \in CallIds, At(j, Besides)', NEW c \in Contexts, c = call'[j].cand
        PROVE  /\ Made(c)' /\ Unasked(c)' /\ c # 1 /\ c # facade.active
               /\ \A i \in CallIds : call'[i].ctx # c
    <2>1. \A i \in CallIds : call'[i] = call[i] \/ call'[i].ctx \in {1, call[k].ctx, facade.active}
      BY <1>1 DEF Moved
    <2>2. CASE Kin(j)
      <3>1. /\ Made(c) /\ Unasked(c) /\ c # 1 /\ c # facade.active
            /\ \A i \in CallIds : call[i].ctx # c
        BY <1>9, <2>2 DEF CandidatesApart
      <3>2. \A i \in CallIds : call'[i].ctx # c
        BY <2>1, <3>1
      <3>. QED
        BY <1>3, <1>4, <3>1, <3>2
    <2>3. CASE Born(j)
      <3>1. ~Made(c) /\ Made(c)'
        BY <1>9, <2>3 DEF Made
      <3>2. /\ Unasked(c) /\ c # 1 /\ c # facade.active
            /\ \A i \in CallIds : call[i].ctx # c
        BY <3>1 DEF ContextsMade
      <3>3. \A i \in CallIds : call'[i].ctx # c
        BY <2>1, <3>2
      <3>. QED
        BY <1>4, <3>1, <3>2, <3>3
    <2>. QED
      BY <1>8, <1>9, <2>2, <2>3
  <1>10. ASSUME NEW i \in CallIds, NEW j \in CallIds, At(i, Besides)', At(j, Besides)',
                call'[i].cand = call'[j].cand
         PROVE  i = j
    <2>1. CASE Kin(i) /\ Kin(j)
      BY <1>10, <2>1, Zenon DEF CandidatesApart
    <2>2. ASSUME NEW x \in CallIds, NEW y \in CallIds, Kin(x), Born(y),
                 call'[x].cand = call'[y].cand
          PROVE  FALSE
      <3>1. Made(call[x].cand)
        BY <2>2 DEF CandidatesApart
      <3>. QED
        BY <2>2, <3>1
    <2>3. CASE Born(i) /\ Born(j)
      BY <2>3
    <2>. QED
      BY <1>8, <1>10, <2>1, <2>2, <2>3
  <1>11. CandidatesApart'
    <2>1. ASSUME NEW j \in CallIds, At(j, Besides)'
          PROVE  (/\ Made(call[j].cand) /\ Unasked(call[j].cand)
                  /\ call[j].cand # 1 /\ call[j].cand # facade.active
                  /\ \A i \in CallIds : call[i].ctx # call[j].cand)'
      BY <1>1, <1>7, <1>9, <2>1
    <2>2. \A i, j \in CallIds : At(i, Besides)' /\ At(j, Besides)'
             /\ call'[i].cand = call'[j].cand => i = j
      BY <1>10
    <2>. QED
      BY <2>1, <2>2 DEF CandidatesApart
  <1>. QED
    BY <1>6, <1>11

\* The commands of the active guests stay where they are; more may follow.
LEMMA MineStay ==
    ASSUME AlwaysInv, NEW k \in CallIds, NEW now \in SUBSET Guests, NEW do,
           Advance(k, now, do), NEW g \in Guests
    PROVE  /\ facade.active \in Contexts /\ Len(Mine(g)) \in Nat
           /\ Len(Mine(g)') \in Nat /\ Len(Mine(g)) <= Len(Mine(g)')
           /\ guest'[facade'.active][g].state = guest[facade.active][g].state
           /\ \A i \in 1..Len(Mine(g)) : i \in 1..Len(Mine(g)') /\ SameCommand(Mine(g)'[i], Mine(g)[i])
           /\ \A i \in 1..Len(Mine(g)') :
                 \/ i \in 1..Len(Mine(g)) /\ SameCommand(Mine(g)'[i], Mine(g)[i])
                 \/ Mine(g)'[i].do = do /\ now # {} /\ call'[k].ctx = facade.active
  <1>1. /\ TypeOK /\ CallStep(k, now, do) /\ StatesHold /\ facade'.active = facade.active
        /\ Posted(k, call'[k].ctx, now, do, call'[k].at)
    BY DEF AlwaysInv, Advance, CallStep
  <1>2. facade.active \in Contexts
    BY <1>1 DEF TypeOK, FacadeType
  <1>3. /\ Mine(g) = Queue(facade.active, g) /\ Mine(g)' = Queue(facade.active, g)'
        /\ Queue(facade.active, g)' = guest'[facade.active][g].queue
    BY <1>1 DEF Mine, Queue
  <1>4. Len(Mine(g)) \in Nat
    BY <1>1, <1>2, <1>3, QueueTyped
  <1>5. /\ \A i \in 1..Len(Mine(g)) : SameCommand(Mine(g)'[i], Mine(g)[i])
        /\ Len(Mine(g)') = Len(Mine(g)) \/ Len(Mine(g)') = Len(Mine(g)) + 1
    BY <1>1, <1>2, <1>3 DEF Posted
  <1>6. \A i \in 1..Len(Mine(g)') :
           \/ i \in 1..Len(Mine(g)) /\ SameCommand(Mine(g)'[i], Mine(g)[i])
           \/ Mine(g)'[i].do = do /\ now # {} /\ call'[k].ctx = facade.active
    BY <1>1, <1>2, <1>3, PostedCommands
  <1>7. guest'[facade'.active][g].state = guest[facade.active][g].state
    BY <1>1, <1>2 DEF StatesHold
  <1>8. /\ Len(Mine(g)') \in Nat /\ Len(Mine(g)) <= Len(Mine(g)')
        /\ \A i \in 1..Len(Mine(g)) : i \in 1..Len(Mine(g)')
    BY <1>4, <1>5
  <1>. QED
    BY <1>2, <1>4, <1>5, <1>6, <1>7, <1>8

LEMMA LaterStays ==
    ASSUME AlwaysInv, NEW k \in CallIds, NEW now \in SUBSET Guests, NEW do,
           Advance(k, now, do), NEW g \in Guests, NEW j, NEW i, NEW what, Later(j, g, i, what)
    PROVE  Later(j, g, i, what)'
  <1>1. \A n \in 1..Len(Mine(g)) : n \in 1..Len(Mine(g)') /\ SameCommand(Mine(g)'[n], Mine(g)[n])
    BY MineStay
  <1>2. PICK n \in 1..Len(Mine(g)) : n > i /\ Mine(g)[n].do = what /\ Mine(g)[n].by = j
    BY DEF Later
  <1>3. n \in 1..Len(Mine(g)') /\ Mine(g)'[n].do = what /\ Mine(g)'[n].by = j
    BY <1>1, <1>2 DEF SameCommand
  <1>. QED
    BY <1>2, <1>3 DEF Later

LEMMA ReturnsStay ==
    ASSUME AlwaysInv, NEW k \in CallIds, NEW now \in SUBSET Guests, NEW do,
           Advance(k, now, do), NEW j \in CallIds, j # k, NEW g \in Guests
    PROVE  /\ Returns(j, g) => Returns(j, g)'
           /\ \A i : Wakes(j, g, i) => Wakes(j, g, i)'
  <1>1. call'[j] = call[j] /\ facade'.active = facade.active
    BY DEF Advance, CallStep, Moved
  <1>2. Returns(j, g) => Returns(j, g)'
    BY <1>1 DEF Returns, GivesBack, Restores, At
  <1>3. \A i, what : Later(j, g, i, what) => Later(j, g, i, what)'
    BY LaterStays
  <1>4. \A i : Wakes(j, g, i) => Wakes(j, g, i)'
    BY <1>1, <1>3 DEF Wakes, At
  <1>. QED
    BY <1>2, <1>4

\* What the call k has to see to.
Sees(k, now, do) ==
    /\ \A g \in Guests : \A i \in 0..Len(Mine(g)) : Unsettled \/ Wakes(k, g, i) => Kept(g, i)'
    /\ \A g \in Guests :
          guest[facade.active][g].state = "paused" /\ Returns(k, g) => Covered(g)'
    /\ now # {} /\ do = "shutdown" /\ call'[k].ctx = facade.active => Unsettled'

LEMMA KeptStays ==
    ASSUME AlwaysInv, NEW k \in CallIds, NEW now \in SUBSET Guests, NEW do,
           Advance(k, now, do), Sees(k, now, do),
           NEW g \in Guests, NEW i \in 0..Len(Mine(g)), Kept(g, i)
    PROVE  Kept(g, i)'
  <1>1. CASE Unsettled \/ Wakes(k, g, i)
    BY <1>1 DEF Sees
  <1>2. CASE \E j \in CallIds : j # k /\ Wakes(j, g, i)
    BY <1>2, ReturnsStay DEF Kept
  <1>. QED
    BY <1>1, <1>2 DEF Kept

LEMMA AdvanceCovered ==
    ASSUME AlwaysInv, ShutdownsKept, MarksKept, AllCovered,
           NEW k \in CallIds, NEW now \in SUBSET Guests, NEW do,
           Advance(k, now, do), Sees(k, now, do)
    PROVE  ShutdownsKept' /\ MarksKept' /\ AllCovered'
  <1>1. ASSUME NEW g \in Guests, NEW i \in 1..Len(Mine(g)'), Mine(g)'[i].do = "shutdown"
        PROVE  Kept(g, i)'
    <2>1. CASE i \in 1..Len(Mine(g)) /\ SameCommand(Mine(g)'[i], Mine(g)[i])
      <3>1. Kept(g, i) /\ i \in 0..Len(Mine(g))
        BY <1>1, <2>1 DEF ShutdownsKept, SameCommand
      <3>. QED
        BY <3>1, KeptStays
    <2>2. CASE Mine(g)'[i].do = do /\ now # {} /\ call'[k].ctx = facade.active
      BY <1>1, <2>2 DEF Sees, Kept
    <2>. QED
      BY <1>1, <2>1, <2>2, MineStay
  <1>2. ASSUME NEW g \in Guests, Len(Mine(g)') > 0, Mine(g)'[1].do = "pause", Mine(g)'[1].unknown
        PROVE  Kept(g, 1)'
    <2>1. facade.active \in Contexts /\ facade'.active = facade.active /\ Marked
      BY MineStay DEF Advance
    <2>2. /\ Mine(g)' = guest'[facade.active][g].queue /\ Mine(g) = Queue(facade.active, g)
          /\ 1 \in 1..Len(Mine(g)')
      <3>1. Len(Mine(g)') \in Nat
        BY MineStay
      <3>. QED
        BY <1>2, <2>1, <3>1 DEF Mine, Queue
    <2>3. Unsettled' \/ (1 \in 1..Len(Mine(g)) /\ Mine(g)[1].unknown)
      BY <1>2, <2>1, <2>2 DEF Marked
    <2>4. CASE 1 \in 1..Len(Mine(g)) /\ Mine(g)[1].unknown
      <3>1. SameCommand(Mine(g)'[1], Mine(g)[1]) /\ Len(Mine(g)) > 0 /\ 1 \in 0..Len(Mine(g))
        BY <2>4, MineStay
      <3>2. Kept(g, 1)
        BY <1>2, <2>4, <3>1 DEF MarksKept, SameCommand
      <3>. QED
        BY <3>1, <3>2, KeptStays
    <2>. QED
      BY <2>3, <2>4 DEF Kept
  <1>3. ASSUME NEW g \in Guests PROVE Covered(g)'
    <2>1. /\ guest'[facade'.active][g].state = guest[facade.active][g].state
          /\ 0 \in 0..Len(Mine(g)) /\ Covered(g)
      BY MineStay DEF AllCovered
    <2>2. CASE guest[facade.active][g].state = "running"
      BY <2>1, <2>2 DEF Covered
    <2>3. CASE Kept(g, 0)
      BY <2>1, <2>3, KeptStays DEF Covered
    <2>4. CASE guest[facade.active][g].state = "paused" /\ ResumeAsked(g)
      <3>1. ResumeAsked(g)'
        <4>1. PICK n \in 1..Len(Mine(g)) : Mine(g)[n].do = "resume"
          BY <2>4 DEF ResumeAsked
        <4>2. n \in 1..Len(Mine(g)') /\ Mine(g)'[n].do = "resume"
          BY <4>1, MineStay DEF SameCommand
        <4>. QED
          BY <4>2 DEF ResumeAsked
      <3>. QED
        BY <2>1, <2>4, <3>1 DEF Covered
    <2>5. CASE /\ guest[facade.active][g].state = "paused"
               /\ \E j \in CallIds : Returns(j, g)
      <3>1. PICK j \in CallIds : Returns(j, g)
        BY <2>5
      <3>2. CASE j = k
        BY <2>5, <3>1, <3>2 DEF Sees
      <3>3. CASE j # k
        <4>1. Returns(j, g)'
          BY <3>1, <3>3, ReturnsStay
        <4>. QED
          BY <2>1, <2>5, <4>1 DEF Covered
      <3>. QED
        BY <3>2, <3>3
    <2>. QED
      BY <2>1, <2>2, <2>3, <2>4, <2>5 DEF Covered
  <1>4. ShutdownsKept'
    BY <1>1 DEF ShutdownsKept
  <1>5. MarksKept'
    BY <1>2 DEF MarksKept
  <1>6. AllCovered'
    BY <1>3 DEF AllCovered
  <1>. QED
    BY <1>4, <1>5, <1>6

\* A step of a call that sees to what it has to keeps the invariant.
LEMMA AdvanceBack ==
    ASSUME AlwaysInv, AlwaysInv', BackInv, OneByOne',
           NEW k \in CallIds, NEW now \in SUBSET Guests, NEW do,
           Advance(k, now, do), Sees(k, now, do)
    PROVE  BackInv'
  <1>1. /\ Unaborted /\ AllAwaited /\ MarkedFirst /\ OneBootEach /\ PausesFit
        /\ ContextsMade /\ CandidatesApart /\ ShutdownsKept /\ MarksKept /\ AllCovered
    BY DEF BackInv
  <1>2. Unaborted' /\ AllAwaited' /\ MarkedFirst' /\ OneBootEach' /\ PausesFit'
    BY <1>1, AdvanceSteps, StepUnaborted, StepAwaited, StepMarks, StepBoots, StepPauses
  <1>3. ContextsMade' /\ CandidatesApart'
    BY <1>1, AdvanceContexts
  <1>4. ShutdownsKept' /\ MarksKept' /\ AllCovered'
    BY <1>1, AdvanceCovered
  <1>. QED
    BY <1>2, <1>3, <1>4 DEF BackInv

-----------------------------------------------------------------------------
(* What a step settles, and what it has to see to *)

LEMMA StaysUnsettled ==
    ASSUME NEW k \in CallIds, Moved(k), Live' => Live,
           facade'.life = "hot" =>
              facade.life = "hot" \/ (InFlight(k) /\ call[k].kind \in Wakers),
           call'[k].at \notin {"idle", "done"} /\ call'[k].kind \in Wakers =>
              facade.life = "hot" \/ (InFlight(k) /\ call[k].kind \in Wakers),
           Turning(k) => Unsettled'
    PROVE  Unsettled => Unsettled'
  <1>1. CASE ~Live
    BY <1>1 DEF Unsettled
  <1>2. CASE Stuck
    <2>1. facade'.life # "hot"
      BY <1>2 DEF Stuck
    <2>2. ASSUME NEW j \in CallIds, InFlight(j)' PROVE call'[j].kind \notin Wakers
      BY <1>2, <2>2 DEF Stuck, Moved, InFlight
    <2>. QED
      BY <2>1, <2>2 DEF Stuck, Unsettled
  <1>3. CASE \E j \in CallIds : Turning(j)
    <2>1. PICK j \in CallIds : Turning(j)
      BY <1>3
    <2>2. CASE j # k
      <3>1. call'[j] = call[j]
        BY <2>2 DEF Moved
      <3>2. Turning(j)'
        BY <2>1, <3>1 DEF Turning, Closing, Failing, At
      <3>. QED
        BY <3>2 DEF Unsettled
    <2>. QED
      BY <2>1, <2>2
  <1>. QED
    BY <1>1, <1>2, <1>3 DEF Unsettled

LEMMA OneByOneStays ==
    ASSUME OneByOne, NEW k \in CallIds, Moved(k),
           call'[k].at \notin {"idle", "done"} /\ call'[k].kind \in LifeCycle =>
              \/ InFlight(k) /\ call[k].kind \in LifeCycle
              \/ \A j \in CallIds : InFlight(j) => call[j].kind \notin LifeCycle
    PROVE  OneByOne'
  BY DEF OneByOne, Moved, InFlight

\* The only one that may be stuck is then the call that leaves.
LEMMA LeavesStuck ==
    ASSUME OneByOne, NEW k \in CallIds, Moved(k), InFlight(k), call[k].kind \in LifeCycle,
           facade'.life # "hot", call'[k].at \in {"idle", "done"} \/ call'[k].kind \notin Wakers
    PROVE  Unsettled'
  BY DEF OneByOne, Moved, InFlight, Unsettled, Stuck, LifeCycle, Wakers

\* What is left to a call that wakes nobody.
Plain(k, now, do) ==
    /\ ~At(k, {"restoring", "booting"})
    /\ now # {} => do # "shutdown"
    /\ \A g \in Guests :
          guest[facade.active][g].state = "paused" /\ GivesBack(k, g) =>
             GivesBack(k, g)' \/ ResumeAsked(g)'

LEMMA PlainSees ==
    ASSUME AlwaysInv, NEW k \in CallIds, NEW now \in SUBSET Guests, NEW do,
           Advance(k, now, do), Unsettled => Unsettled', Plain(k, now, do)
    PROVE  Sees(k, now, do)
  <1>1. ASSUME NEW g \in Guests, NEW i \in 0..Len(Mine(g)), Unsettled \/ Wakes(k, g, i)
        PROVE  Kept(g, i)'
    BY <1>1 DEF Plain, Wakes, At, Kept
  <1>2. ASSUME NEW g \in Guests, guest[facade.active][g].state = "paused", Returns(k, g)
        PROVE  Covered(g)'
    <2>1. GivesBack(k, g)
      BY <1>2 DEF Plain, Returns, Restores, At
    <2>2. GivesBack(k, g)' \/ ResumeAsked(g)'
      BY <1>2, <2>1 DEF Plain
    <2>3. guest'[facade'.active][g].state = "paused"
      BY <1>2, MineStay
    <2>. QED
      BY <2>2, <2>3 DEF Covered, Returns
  <1>. QED
    BY <1>1, <1>2 DEF Sees, Plain

LEMMA UnsettledSees ==
    ASSUME NEW k \in CallIds, NEW now, NEW do, Unsettled'
    PROVE  Sees(k, now, do)
  <1>1. \A g \in Guests : Covered(g)' /\ \A i : Kept(g, i)'
    BY DEF Kept, Covered
  <1>. QED
    BY <1>1 DEF Sees

LEMMA PlainBack ==
    ASSUME AlwaysInv, AlwaysInv', BackInv, OneByOne',
           NEW k \in CallIds, NEW now \in SUBSET Guests, NEW do,
           Advance(k, now, do), Unsettled => Unsettled', Plain(k, now, do)
    PROVE  BackInv'
  BY PlainSees, AdvanceBack

LEMMA UnsettledBack ==
    ASSUME AlwaysInv, AlwaysInv', BackInv, OneByOne',
           NEW k \in CallIds, NEW now \in SUBSET Guests, NEW do,
           Advance(k, now, do), Unsettled'
    PROVE  BackInv'
  BY UnsettledSees, AdvanceBack

-----------------------------------------------------------------------------
(* The primitives once more: they mark no command *)

Unmarked ==
    \A d \in Contexts, g \in Guests : \A i \in 1..Len(guest'[d][g].queue) :
       guest'[d][g].queue[i].unknown => i \in 1..Len(Queue(d, g)) /\ Queue(d, g)[i].unknown

LEMMA QueuedMarks ==
    ASSUME TypeOK, NEW k \in CallIds, NEW c \in Contexts, NEW gs \in SUBSET Guests,
           NEW do \in AnyCommand, NEW place \in Awaits, NEW arg \in Memory,
           guest' = Queued(c, gs, do, k, place, arg)
    PROVE  Unmarked
  <1>. DEFINE cmd(g) == [do |-> do, by |-> k, place |-> place, arg |-> arg[g],
                         unknown |-> FALSE, void |-> FALSE]
              m(g) == IF g \in gs THEN [guest[c][g] EXCEPT !.queue = Append(@, cmd(g))]
                      ELSE guest[c][g]
  <1>1. guest \in [Contexts -> [Guests -> GuestType]]
    BY DEF TypeOK
  <1>2. \A g \in Guests : cmd(g) \in Command
    BY DEF Command, AnyCommand, Memory
  <1>3. \A g \in Guests : ~cmd(g).unknown
    OBVIOUS
  <1>4. guest' = [guest EXCEPT ![c] = [g \in Guests |-> m(g)]]
    BY DEF Queued
  <1>. HIDE DEF cmd
  <1>5. ASSUME NEW g \in Guests
        PROVE  m(g).queue = IF g \in gs THEN Append(Queue(c, g), cmd(g)) ELSE Queue(c, g)
    <2>1. guest[c][g] \in GuestType
      BY <1>1
    <2>. QED
      BY <2>1 DEF GuestType, Queue
  <1>. HIDE DEF m
  <1>6. \A d \in Contexts, g \in Guests :
           guest'[d][g].queue = IF d = c /\ g \in gs THEN Append(Queue(c, g), cmd(g)) ELSE Queue(d, g)
    BY <1>1, <1>4, <1>5 DEF Queue
  <1>7. ASSUME NEW d \in Contexts, NEW g \in Guests, NEW i \in 1..Len(guest'[d][g].queue),
               guest'[d][g].queue[i].unknown
        PROVE  i \in 1..Len(Queue(d, g)) /\ Queue(d, g)[i].unknown
    <2>1. CASE d = c /\ g \in gs
      <3>1. guest'[d][g].queue = Append(Queue(c, g), cmd(g)) /\ Queue(c, g) \in Seq(Command)
        BY <1>6, <2>1, QueueTyped
      <3>2. /\ Len(guest'[d][g].queue) = Len(Queue(c, g)) + 1
            /\ guest'[d][g].queue[Len(Queue(c, g)) + 1] = cmd(g)
            /\ \A n \in 1..Len(Queue(c, g)) : guest'[d][g].queue[n] = Queue(c, g)[n]
            /\ Len(Queue(c, g)) \in Nat
        BY <1>2, <2>1, <3>1, AppendedCommand
      <3>3. i # Len(Queue(c, g)) + 1
        BY <1>3, <1>7, <3>2
      <3>4. i \in 1..Len(Queue(c, g))
        BY <3>2, <3>3
      <3>. QED
        BY <1>7, <2>1, <3>2, <3>4
    <2>2. CASE ~(d = c /\ g \in gs)
      BY <1>6, <1>7, <2>2
    <2>. QED
      BY <2>1, <2>2
  <1>. QED
    BY <1>7 DEF Unmarked

\* With a signal that has not fired.
LEMMA WaitMarks ==
    ASSUME TypeOK, NEW k \in CallIds, NEW r \in CallType, ~r.aborted, NEW c \in Contexts,
           NEW gs \in SUBSET Guests, NEW now \in SUBSET gs,
           NEW do \in AnyCommand, NEW place \in Awaits, NEW arg \in Memory,
           Wait(k, r, c, gs, now, do, place, arg)
    PROVE  Unmarked /\ call'[k].asked = now /\ ~call'[k].failed
  <1>1. guest' = Queued(c, now, do, k, place, arg) /\ now \in SUBSET Guests
    BY DEF Wait
  <1>2. Unmarked
    BY <1>1, QueuedMarks
  <1>3. PICK no \in BOOLEAN : no = FALSE
    OBVIOUS
  <1>. DEFINE s == [r EXCEPT !.at = place, !.todo = gs, !.asked = now, !.failed = no]
  <1>4. call' = [call EXCEPT ![k] = s]
    BY <1>3 DEF Wait
  <1>5. s.asked = now /\ s.failed = no
    BY DEF CallType
  <1>. HIDE DEF s
  <1>6. call'[k] = s
    BY <1>4 DEF TypeOK
  <1>. QED
    BY <1>2, <1>3, <1>5, <1>6

LEMMA AskMarks ==
    ASSUME TypeOK, NEW k \in CallIds, NEW r \in CallType, ~r.aborted,
           NEW gs \in SUBSET Guests, NEW do \in AnyCommand, NEW place \in Awaits,
           Ask(k, r, r.ctx, gs, do, place)
    PROVE  Unmarked /\ call'[k].asked = gs /\ ~call'[k].failed
  <1>1. NoMemory \in Memory /\ r.ctx \in Contexts /\ gs \in SUBSET gs
    BY DEF NoMemory, Memory, CallType
  <1>. QED
    BY <1>1, WaitMarks DEF Ask

LEMMA AskNextMarks ==
    ASSUME TypeOK, NEW k \in CallIds, NEW r \in CallType, ~r.aborted,
           NEW gs \in SUBSET Guests, NEW do \in AnyCommand, NEW place \in Awaits,
           NEW arg \in Memory, AskNext(k, r, r.ctx, gs, do, place, arg)
    PROVE  Unmarked /\ ~call'[k].failed
  <1>1. r.ctx \in Contexts
    BY DEF CallType
  <1>2. CASE gs = {} /\ Wait(k, r, r.ctx, gs, {}, do, place, arg)
    <2>1. {} \in SUBSET gs
      OBVIOUS
    <2>. QED
      BY <1>1, <1>2, <2>1, WaitMarks
  <1>3. CASE \E g \in gs : Wait(k, r, r.ctx, gs, {g}, do, place, arg)
    <2>1. PICK g \in gs : Wait(k, r, r.ctx, gs, {g}, do, place, arg)
      BY <1>3
    <2>2. {g} \in SUBSET gs
      OBVIOUS
    <2>. QED
      BY <1>1, <2>1, <2>2, WaitMarks
  <1>. QED
    BY <1>2, <1>3 DEF AskNext

-----------------------------------------------------------------------------
(* The steps a call can take, by what they are made of *)

LEMMA AskAdvances ==
    ASSUME AlwaysInv, NEW k \in CallIds, NEW r \in CallType, ~r.aborted,
           NEW gs \in SUBSET Guests, NEW do \in AnyCommand, NEW place \in Awaits,
           Asks(place, do), do # "pause", Ask(k, r, r.ctx, gs, do, place),
           facade'.active = facade.active,
           At(k, {"pausing", "restoring", "booting"}) => call[k].asked = {},
           do = "boot" => At(k, NoCommandsYet),
           r.ctx \in {1, call[k].ctx, facade.active}
    PROVE  /\ Advance(k, gs, do) /\ Moved(k) /\ Carries(k, r, place)
           /\ call'[k].todo = gs /\ call'[k].asked = gs /\ ~call'[k].failed
           /\ Posted(k, r.ctx, gs, do, place)
  <1>1. TypeOK
    BY DEF AlwaysInv
  <1>2. /\ CallStep(k, call'[k].asked, do) /\ StatesKept /\ Carries(k, r, place)
        /\ Posted(k, r.ctx, call'[k].asked, do, place) /\ call'[k].todo = gs
    BY <1>1, AskSteps
  <1>3. Unmarked /\ call'[k].asked = gs /\ ~call'[k].failed
    BY <1>1, AskMarks
  <1>4. /\ call'[k].at = place /\ call'[k].ctx = r.ctx /\ ~call'[k].aborted
        /\ place \notin Besides \union {"pausing"}
    BY <1>2 DEF Carries, Asks, Besides
  <1>5. Posted(k, r.ctx, gs, do, place) /\ Moved(k) /\ GuestsTyped
    BY <1>2, <1>3 DEF CallStep
  <1>6. CallStep(k, gs, do)
    BY <1>3, <1>4, <1>5 DEF CallStep
  <1>7. StatesHold /\ Marked /\ CandidateKept(k)
    BY <1>2, <1>3, <1>4 DEF StatesKept, StatesHold, Unmarked, Marked, CandidateKept
  <1>8. Advance(k, gs, do)
    BY <1>4, <1>6, <1>7 DEF Advance
  <1>. QED
    BY <1>2, <1>3, <1>5, <1>8

LEMMA AskNextAdvances ==
    ASSUME AlwaysInv, NEW k \in CallIds, NEW r \in CallType, ~r.aborted,
           NEW gs \in SUBSET Guests, NEW do \in {"pause", "restore"}, NEW place \in Awaits,
           Asks(place, do), NEW arg \in Memory, AskNext(k, r, r.ctx, gs, do, place, arg),
           facade'.active = facade.active,
           At(k, {"pausing", "restoring", "booting"}) => call[k].asked = {},
           place = "pausing" => gs \subseteq r.ids,
           r.ctx \in {1, call[k].ctx, facade.active}
    PROVE  \E now \in SUBSET gs :
              /\ Advance(k, now, do) /\ Moved(k) /\ Carries(k, r, place)
              /\ call'[k].todo = gs /\ call'[k].asked = now /\ ~call'[k].failed
              /\ Posted(k, r.ctx, now, do, place)
  <1>1. TypeOK /\ do \in AnyCommand
    BY DEF AlwaysInv, AnyCommand
  <1>2. /\ CallStep(k, call'[k].asked, do) /\ StatesKept /\ Carries(k, r, place)
        /\ Posted(k, r.ctx, call'[k].asked, do, place) /\ call'[k].todo = gs
        /\ call'[k].asked \in SUBSET gs
    BY <1>1, AskNextSteps
  <1>3. Unmarked /\ ~call'[k].failed
    BY <1>1, AskNextMarks
  <1>4. PICK now \in SUBSET gs : call'[k].asked = now
    BY <1>2
  <1>5. /\ call'[k].at = place /\ call'[k].ctx = r.ctx /\ ~call'[k].aborted
        /\ call'[k].ids = r.ids /\ place \notin Besides
    BY <1>2 DEF Carries, Asks, Besides
  <1>6. Posted(k, r.ctx, now, do, place) /\ Moved(k) /\ GuestsTyped
    BY <1>2, <1>4 DEF CallStep
  <1>7. CallStep(k, now, do)
    BY <1>4, <1>5, <1>6 DEF CallStep
  <1>8. StatesHold /\ Marked /\ CandidateKept(k)
    BY <1>2, <1>3, <1>5 DEF StatesKept, StatesHold, Unmarked, Marked, CandidateKept
  <1>9. Advance(k, now, do)
    BY <1>2, <1>5, <1>7, <1>8 DEF Advance
  <1>. QED
    BY <1>2, <1>3, <1>4, <1>6, <1>9

LEMMA StillAdvances ==
    ASSUME AlwaysInv, NEW k \in CallIds, Moved(k), UNCHANGED guest,
           facade'.active = facade.active,
           At(k, {"pausing", "restoring", "booting"}) => call[k].asked = {},
           ~call'[k].aborted, call'[k].at # "pausing",
           call'[k].ctx \in {1, call[k].ctx, facade.active},
           call'[k].at \in Besides => At(k, Besides) /\ call'[k].cand = call[k].cand
    PROVE  Advance(k, {}, "none")
  <1>1. CallStep(k, {}, "none") /\ StatesKept
    BY StillSteps DEF AlwaysInv
  <1>2. StatesHold /\ Marked
    BY <1>1 DEF StatesKept, StatesHold, Marked, Queue
  <1>. QED
    BY <1>1, <1>2 DEF Advance, CandidateKept

LEMMA GoAdvances ==
    ASSUME AlwaysInv, NEW k \in CallIds, NEW r \in CallType, NEW place \in Awaits,
           Go(k, r, place), UNCHANGED guest, ~r.aborted,
           facade'.active = facade.active,
           At(k, {"pausing", "restoring", "booting"}) => call[k].asked = {},
           place # "pausing", r.ctx \in {1, call[k].ctx, facade.active},
           place \in Besides => At(k, Besides) /\ r.cand = call[k].cand
    PROVE  Advance(k, {}, "none") /\ Moved(k) /\ Carries(k, r, place)
  <1>1. TypeOK
    BY DEF AlwaysInv
  <1>2. Moved(k) /\ Carries(k, r, place)
    BY <1>1, GoMoves
  <1>. QED
    BY <1>2, StillAdvances DEF Carries

LEMMA FinishLeaves ==
    ASSUME TypeOK, NEW k \in CallIds, NEW r \in CallType, NEW error, Finish(k, r, error)
    PROVE  call'[k].ctx = 1 /\ call'[k].aborted = r.aborted
  <1>. DEFINE s == [NoCall EXCEPT !.kind = r.kind, !.at = "done", !.error = error,
                                  !.aborted = r.aborted, !.gen = r.gen]
  <1>1. s.ctx = 1 /\ s.aborted = r.aborted
    BY DEF NoCall
  <1>2. call' = [call EXCEPT ![k] = s]
    BY DEF Finish
  <1>. HIDE DEF s
  <1>. QED
    BY <1>1, <1>2 DEF TypeOK

LEMMA FinishAdvances ==
    ASSUME AlwaysInv, NEW k \in CallIds, NEW r \in CallType, NEW error \in BOOLEAN,
           Finish(k, r, error), UNCHANGED guest, ~r.aborted,
           facade'.active = facade.active,
           At(k, {"pausing", "restoring", "booting"}) => call[k].asked = {}
    PROVE  /\ Advance(k, {}, "none") /\ Moved(k)
           /\ call'[k].at = "done" /\ call'[k].kind = r.kind
  <1>1. TypeOK
    BY DEF AlwaysInv
  <1>2. Moved(k) /\ call'[k].at = "done" /\ call'[k].kind = r.kind
    BY <1>1, FinishMoves
  <1>3. call'[k].ctx = 1
    BY <1>1, FinishLeaves
  <1>4. ~call'[k].aborted
    <2>1. call'[k].aborted = r.aborted
      BY <1>1, FinishLeaves
    <2>. QED
      BY <2>1, Zenon
  <1>. QED
    BY <1>2, <1>3, <1>4, StillAdvances DEF Besides

\* A guest that is asked to resume.
LEMMA ResumesAsked ==
    ASSUME TypeOK, NEW k \in CallIds, NEW c \in Contexts, c = facade.active,
           NEW now, NEW place, Posted(k, c, now, "resume", place),
           facade'.active = facade.active, NEW g \in Guests, g \in now
    PROVE  ResumeAsked(g)'
  <1>1. Len(Queue(c, g)) \in Nat
    BY QueueTyped
  <1>2. PICK n : n = Len(Queue(c, g)) + 1
    OBVIOUS
  <1>3. Len(guest'[c][g].queue) = n /\ guest'[c][g].queue[n].do = "resume"
    BY <1>2 DEF Posted
  <1>4. Mine(g)' = guest'[c][g].queue /\ n \in 1..n
    BY <1>1, <1>2 DEF Mine, Queue
  <1>. QED
    BY <1>3, <1>4 DEF ResumeAsked

\* The facade neither wakes nor changes its computer, but for the call that may.
FacadeHolds(k) ==
    /\ facade'.active = facade.active /\ (Live' => Live)
    /\ facade'.life = "hot" =>
          facade.life = "hot" \/ (InFlight(k) /\ call[k].kind \in Wakers)

LEMMA ContinuedSettles ==
    ASSUME OneByOne, NEW k \in CallIds, Moved(k), InFlight(k),
           call'[k].kind = call[k].kind, FacadeHolds(k), Turning(k) => Unsettled'
    PROVE  OneByOne' /\ (Unsettled => Unsettled')
  <1>1. OneByOne'
    BY OneByOneStays
  <1>2. Unsettled => Unsettled'
    BY StaysUnsettled DEF FacadeHolds
  <1>. QED
    BY <1>1, <1>2

TurningAt == {"stopping", "releasing", "booting", "restoring", "resumingAll", "unbooting", "reading"}

LEMMA NotTurning ==
    ASSUME NEW k \in CallIds, ~At(k, TurningAt)
    PROVE  ~Turning(k)
  BY DEF At, TurningAt, Turning, Closing, Failing

\* A call goes on, or ends, and gives back what it paused.
LEMMA ContinuedBack ==
    ASSUME AlwaysInv, AlwaysInv', BackInv, NEW k \in CallIds, InFlight(k),
           NEW now \in SUBSET Guests, NEW do, Advance(k, now, do),
           call'[k].kind = call[k].kind, FacadeHolds(k),
           Turning(k) => Unsettled', Plain(k, now, do)
    PROVE  BackInv'
  <1>1. OneByOne /\ Moved(k)
    BY DEF BackInv, Advance, CallStep
  <1>2. OneByOne' /\ (Unsettled => Unsettled')
    BY <1>1, ContinuedSettles
  <1>. QED
    BY <1>2, PlainBack

LEMMA GoBack ==
    ASSUME AlwaysInv, AlwaysInv', BackInv, NEW k \in CallIds, InFlight(k),
           NEW r \in CallType, NEW place \in Awaits, Go(k, r, place), UNCHANGED guest,
           r.aborted = call[k].aborted, r.kind = call[k].kind, r.ctx = call[k].ctx,
           r.ids = call[k].ids, FacadeHolds(k),
           At(k, {"pausing"}) => call[k].asked = {},
           ~At(k, {"restoring", "booting"}), Turning(k) => Unsettled',
           place # "pausing", place \in Besides => At(k, Besides) /\ r.cand = call[k].cand,
           \A g \in Guests : GivesBack(k, g) =>
              place \in Held \/ (place = "pruning" /\ r.kind = "suspend")
    PROVE  BackInv'
  <1>1. ~r.aborted
    <2>1. ~call[k].aborted
      BY DEF BackInv, Unaborted
    <2>. QED
      BY <2>1, Zenon
  <1>2. At(k, {"pausing", "restoring", "booting"}) => call[k].asked = {}
    BY DEF At
  <1>3. Advance(k, {}, "none") /\ Moved(k) /\ Carries(k, r, place)
    BY <1>1, <1>2, GoAdvances DEF FacadeHolds
  <1>4. /\ call'[k].at = place /\ call'[k].kind = call[k].kind /\ call'[k].ctx = call[k].ctx
        /\ call'[k].ids = call[k].ids
    BY <1>3 DEF Carries
  <1>5. Plain(k, {}, "none")
    <2>1. ASSUME NEW g \in Guests, GivesBack(k, g) PROVE GivesBack(k, g)'
      <3>1. call[k].ctx = facade.active /\ g \in call[k].ids
        BY <2>1 DEF GivesBack
      <3>2. place \in Held \/ (place = "pruning" /\ r.kind = "suspend")
        BY <2>1
      <3>. QED
        BY <1>4, <3>1, <3>2 DEF GivesBack, At, FacadeHolds
    <2>. QED
      BY <2>1 DEF Plain
  <1>. QED
    BY <1>3, <1>4, <1>5, ContinuedBack

LEMMA FinishBack ==
    ASSUME AlwaysInv, AlwaysInv', BackInv, NEW k \in CallIds, InFlight(k),
           NEW error \in BOOLEAN, Finish(k, call[k], error), UNCHANGED guest, FacadeHolds(k),
           ~At(k, {"restoring", "booting", "pausing"}), Turning(k) => Unsettled',
           \A g \in Guests : ~GivesBack(k, g)
    PROVE  BackInv'
  <1>1. ~call[k].aborted /\ call[k] \in CallType
    BY DEF BackInv, Unaborted, AlwaysInv, TypeOK
  <1>2. At(k, {"pausing", "restoring", "booting"}) => call[k].asked = {}
    BY DEF At
  <1>3. /\ Advance(k, {}, "none") /\ Moved(k)
        /\ call'[k].at = "done" /\ call'[k].kind = call[k].kind
    BY <1>1, <1>2, FinishAdvances DEF FacadeHolds
  <1>4. Plain(k, {}, "none")
    BY DEF Plain, At
  <1>. QED
    BY <1>3, <1>4, ContinuedBack

LEMMA ResumeBack ==
    ASSUME AlwaysInv, AlwaysInv', BackInv, NEW k \in CallIds, InFlight(k),
           NEW r \in CallType, NEW gs \in SUBSET Guests, NEW place \in Awaits,
           Ask(k, r, r.ctx, gs, "resume", place),
           place \in {"unpausing", "resuming", "rollback"},
           r.aborted = call[k].aborted, r.kind = call[k].kind, r.ctx = call[k].ctx,
           FacadeHolds(k), At(k, {"pausing"}) => call[k].asked = {},
           ~At(k, {"restoring", "booting"}), Turning(k) => Unsettled',
           \A g \in Guests :
              guest[facade.active][g].state = "paused" /\ GivesBack(k, g) => g \in gs
    PROVE  BackInv'
  <1>1. ~r.aborted
    <2>1. ~call[k].aborted
      BY DEF BackInv, Unaborted
    <2>. QED
      BY <2>1, Zenon
  <1>2. /\ At(k, {"pausing", "restoring", "booting"}) => call[k].asked = {}
        /\ "resume" \in AnyCommand /\ Asks(place, "resume") /\ TypeOK
        /\ facade.active \in Contexts
    BY DEF At, AnyCommand, Asks, AlwaysInv, TypeOK, FacadeType
  <1>3. /\ Advance(k, gs, "resume") /\ Moved(k) /\ Carries(k, r, place)
        /\ Posted(k, r.ctx, gs, "resume", place)
    BY <1>1, <1>2, AskAdvances DEF FacadeHolds
  <1>4. call'[k].kind = call[k].kind
    BY <1>3 DEF Carries
  <1>5. ASSUME NEW g \in Guests, guest[facade.active][g].state = "paused", GivesBack(k, g)
        PROVE  ResumeAsked(g)'
    <2>1. g \in gs /\ r.ctx = facade.active
      BY <1>5 DEF GivesBack
    <2>. QED
      BY <1>2, <1>3, <2>1, ResumesAsked DEF FacadeHolds
  <1>6. Plain(k, gs, "resume")
    BY <1>5 DEF Plain
  <1>. QED
    BY <1>3, <1>4, <1>6, ContinuedBack

-----------------------------------------------------------------------------
(* Each step keeps it: the operations begin *)

LEMMA FreshStart ==
    ASSUME NEW kind \in AnyKind, NEW r, r = [NoCall EXCEPT !.kind = kind]
    PROVE  r \in CallType /\ r.kind = kind /\ r.ctx = 1 /\ ~r.aborted
  <1>1. NoCall \in CallType /\ NoCall.ctx = 1
    BY Constants_ DEF NoCall
  <1>2. ~NoCall.aborted
    BY DEF NoCall
  <1>3. r \in CallType
    BY <1>1 DEF CallType
  <1>4. r.kind = kind /\ r.ctx = 1
    BY <1>1 DEF CallType
  <1>5. r.aborted = NoCall.aborted
    BY <1>1 DEF CallType
  <1>6. ~r.aborted
    BY <1>2, <1>5, Zenon
  <1>. QED
    BY <1>3, <1>4, <1>6

LEMMA BeginsInTurn ==
    ASSUME AlwaysInv, OneByOne, NEW k \in CallIds, NEW kind, Begin(k, kind), inTurn',
           Moved(k), call'[k].kind = kind
    PROVE  /\ OneByOne'
           /\ kind \in LifeCycle => \A j \in CallIds : InFlight(j) => call[j].kind \notin LifeCycle
           /\ call[k].at = "idle" /\ call[k].kind = "none"
  <1>1. kind \in LifeCycle => \A j \in CallIds : InFlight(j) => call[j].kind \notin LifeCycle
    BY DEF Begin
  <1>2. OneByOne'
    BY <1>1, OneByOneStays
  <1>3. call[k].at = "idle" /\ call[k].kind = "none"
    BY DEF Begin, AlwaysInv, PlacesFit, Fits, Capturers, Closers
  <1>. QED
    BY <1>1, <1>2, <1>3

LEMMA BegunBack ==
    ASSUME AlwaysInv, AlwaysInv', BackInv, NEW k \in CallIds, NEW kind, Begin(k, kind), inTurn',
           NEW now \in SUBSET Guests, NEW do, Advance(k, now, do), call'[k].kind = kind,
           Live' => Live, facade'.life = "hot" => facade.life = "hot",
           kind \in Wakers => facade.life = "hot", do # "shutdown"
    PROVE  BackInv'
  <1>1. OneByOne /\ Moved(k)
    BY DEF BackInv, Advance, CallStep
  <1>2. OneByOne' /\ call[k].at = "idle"
    BY <1>1, BeginsInTurn
  <1>3. ~Turning(k)
    BY <1>2, NotTurning DEF At, TurningAt
  <1>4. Unsettled => Unsettled'
    BY <1>1, <1>3, StaysUnsettled
  <1>5. Plain(k, now, do)
    BY <1>2 DEF Plain, GivesBack, At, Held
  <1>. QED
    BY <1>2, <1>4, <1>5, PlainBack

LEMMA BeginPausingAdvances ==
    ASSUME AlwaysInv, NEW k \in CallIds, At(k, {"idle", "readingArchive"}),
           NEW kind \in Capturers, BeginPausing(k, kind), facade'.active = facade.active
    PROVE  \E now \in SUBSET Guests :
              Advance(k, now, "pause") /\ Moved(k) /\ call'[k].kind = kind
  <1>. DEFINE ids == In(facade.active, {"running"})
              r == [NoCall EXCEPT !.kind = kind, !.ctx = facade.active, !.ids = ids]
  <1>1. TypeOK /\ facade.active \in Contexts /\ kind \in AnyKind /\ 0 \in Nat
    BY DEF AlwaysInv, TypeOK, FacadeType, Capturers, AnyKind
  <1>2. ids \in SUBSET Guests
    BY Inside
  <1>3. AskNext(k, r, r.ctx, ids, "pause", "pausing", NoMemory)
    BY DEF BeginPausing
  <1>. HIDE DEF ids
  <1>4. r \in CallType /\ r.kind = kind /\ r.ctx = facade.active /\ r.ids = ids /\ ~r.aborted
    <2>1. NoCall \in CallType
      BY Constants_
    <2>2. r \in CallType /\ r.kind = kind /\ r.ctx = facade.active /\ r.ids = ids
      <3>. HIDE DEF NoCall
      <3>. QED
        BY <1>1, <1>2, <2>1 DEF CallType
    <2>3. ~r.aborted
      BY DEF NoCall
    <2>. QED
      BY <2>2, <2>3
  <1>. HIDE DEF r
  <1>5. /\ NoMemory \in Memory /\ "pause" \in {"pause", "restore"} /\ "pausing" \in Awaits
        /\ Asks("pausing", "pause") /\ ~At(k, {"pausing", "restoring", "booting"})
    BY Names DEF NoMemory, Memory, Asks, At
  <1>6. PICK now \in SUBSET ids :
           Advance(k, now, "pause") /\ Moved(k) /\ Carries(k, r, "pausing")
    BY <1>2, <1>3, <1>4, <1>5, AskNextAdvances
  <1>7. now \in SUBSET Guests /\ call'[k].kind = kind
    BY <1>2, <1>4, <1>6 DEF Carries
  <1>. QED
    BY <1>6, <1>7

LEMMA SaveBack ==
    ASSUME AlwaysInv, AlwaysInv', BackInv, NEW k \in CallIds, inTurn',
           Save(k) \/ ExportImage(k) \/ Suspend(k)
    PROVE  BackInv'
  <1>1. ASSUME NEW kind \in {"save", "exportImage", "suspend"}, Begin(k, kind), IsHot,
               BeginPausing(k, kind),
               facade' = IF kind = "suspend" THEN [facade EXCEPT !.life = "draining"]
                         ELSE facade
        PROVE  BackInv'
    <2>1. TypeOK /\ facade.life = "hot"
      BY <1>1 DEF AlwaysInv, IsHot
    <2>2. facade'.active = facade.active /\ (Live' => Live) /\ (facade'.life = "hot" => facade.life = "hot")
      BY <1>1, <2>1 DEF TypeOK, FacadeType, Live
    <2>3. At(k, {"idle", "readingArchive"}) /\ kind \in Capturers
      BY <1>1 DEF Begin, At, Capturers
    <2>4. PICK now \in SUBSET Guests :
             Advance(k, now, "pause") /\ Moved(k) /\ call'[k].kind = kind
      BY <1>1, <2>2, <2>3, BeginPausingAdvances
    <2>. QED
      BY <1>1, <2>1, <2>2, <2>4, BegunBack
  <1>2. CASE Save(k)
    BY <1>1, <1>2 DEF Save
  <1>3. CASE ExportImage(k)
    BY <1>1, <1>3 DEF ExportImage
  <1>4. CASE Suspend(k)
    BY <1>1, <1>4 DEF Suspend
  <1>. QED
    BY <1>2, <1>3, <1>4

LEMMA ImportImageBack ==
    ASSUME AlwaysInv, AlwaysInv', BackInv, NEW k \in CallIds, inTurn', ImportImage(k)
    PROVE  BackInv'
  <1>. DEFINE r == [NoCall EXCEPT !.kind = "importImage"]
  <1>1. TypeOK /\ "importImage" \in AnyKind /\ "readingArchive" \in Awaits
        /\ 1 \in Contexts /\ {} \in SUBSET Guests /\ 0 \in Nat
    BY Names, Constants_ DEF AlwaysInv, AnyKind
  <1>2. r \in CallType /\ r.kind = "importImage" /\ r.ctx = 1 /\ ~r.aborted
    <2>1. PICK kind : kind = "importImage"
      OBVIOUS
    <2>2. r = [NoCall EXCEPT !.kind = kind] /\ kind \in AnyKind
      BY <1>1, <2>1
    <2>. HIDE DEF r
    <2>. QED
      BY <1>1, <2>1, <2>2, FreshStart
  <1>3. Begin(k, "importImage") /\ UNCHANGED <<facade, guest>> /\ Go(k, r, "readingArchive")
    BY DEF ImportImage
  <1>. HIDE DEF r
  <1>4. call[k].at = "idle"
    BY <1>3 DEF Begin
  <1>5. Advance(k, {}, "none") /\ Carries(k, r, "readingArchive")
    BY <1>1, <1>2, <1>3, <1>4, GoAdvances DEF At, Besides
  <1>6. call'[k].kind = "importImage"
    BY <1>2, <1>5 DEF Carries
  <1>7. facade'.life = facade.life /\ (Live' => Live)
    BY <1>3 DEF Live
  <1>. QED
    BY <1>3, <1>5, <1>6, <1>7, BegunBack DEF Wakers

LEMMA ArchiveReadBack ==
    ASSUME AlwaysInv, AlwaysInv', BackInv, NEW k \in CallIds, ArchiveRead(k)
    PROVE  BackInv'
  <1>1. /\ InFlight(k) /\ call[k].at = "readingArchive" /\ FacadeHolds(k)
        /\ facade'.active = facade.active
    BY DEF ArchiveRead, InFlight, FacadeHolds, Live
  <1>2. call[k].kind = "importImage"
    BY <1>1 DEF AlwaysInv, PlacesFit, Fits, Capturers, Closers
  <1>3. ~Turning(k) /\ \A g \in Guests : ~GivesBack(k, g)
    BY <1>1, NotTurning DEF At, TurningAt, GivesBack, Held
  <1>4. CASE BeginPausing(k, "importImage")
    <2>1. PICK now \in SUBSET Guests :
             Advance(k, now, "pause") /\ Moved(k) /\ call'[k].kind = "importImage"
      BY <1>1, <1>4, BeginPausingAdvances DEF At, Capturers
    <2>2. Plain(k, now, "pause")
      BY <1>1, <1>3 DEF Plain, At
    <2>. QED
      BY <1>1, <1>2, <1>3, <2>1, <2>2, ContinuedBack
  <1>5. CASE Finish(k, call[k], TRUE) /\ UNCHANGED guest
    BY <1>1, <1>3, <1>5, FinishBack DEF At
  <1>. QED
    BY <1>4, <1>5 DEF ArchiveRead

\* The clean-up of a computer begins.
LEMMA BeginStoppingAdvances ==
    ASSUME AlwaysInv, NEW k \in CallIds, call[k].at = "idle",
           NEW kind \in AnyKind, BeginStopping(k, kind), facade'.active = facade.active
    PROVE  \E now \in SUBSET Guests :
              /\ Advance(k, now, "shutdown") /\ Moved(k)
              /\ call'[k].kind = kind /\ call'[k].at = "stopping"
  <1>. DEFINE c == facade.active
              r == [NoCall EXCEPT !.kind = kind, !.ctx = c, !.gen = facade.suspended]
  <1>1. TypeOK /\ c \in Contexts /\ facade.suspended \in Nat /\ {} \in SUBSET Guests
    BY DEF AlwaysInv, TypeOK, FacadeType
  <1>2. r \in CallType /\ r.kind = kind /\ r.ctx = c /\ ~r.aborted
    <2>1. NoCall \in CallType
      BY Constants_
    <2>2. r \in CallType /\ r.kind = kind /\ r.ctx = c
      <3>. HIDE DEF NoCall
      <3>. QED
        BY <1>1, <2>1 DEF CallType
    <2>3. ~r.aborted
      BY DEF NoCall
    <2>. QED
      BY <2>2, <2>3
  <1>3. Ask(k, r, c, NotStopped(c), "shutdown", "stopping")
    BY DEF BeginStopping
  <1>. HIDE DEF r
  <1>4. Ask(k, r, r.ctx, NotStopped(c), "shutdown", "stopping") /\ NotStopped(c) \in SUBSET Guests
    BY <1>2, <1>3, Inside
  <1>5. /\ "shutdown" \in AnyCommand /\ "stopping" \in Awaits /\ Asks("stopping", "shutdown")
        /\ ~At(k, {"pausing", "restoring", "booting"})
    BY Names DEF Asks, At
  <1>6. /\ Advance(k, NotStopped(c), "shutdown") /\ Moved(k) /\ Carries(k, r, "stopping")
    BY <1>2, <1>4, <1>5, AskAdvances
  <1>. QED
    BY <1>2, <1>4, <1>6 DEF Carries

LEMMA DisposeBack ==
    ASSUME AlwaysInv, AlwaysInv', BackInv, NEW k \in CallIds, inTurn',
           Initialize(k) \/ RetrySuspendCleanup(k) \/ Dispose(k)
    PROVE  BackInv'
  <1>1. TypeOK /\ OneByOne
    BY DEF AlwaysInv, BackInv
  <1>2. CASE Initialize(k)
    <2>. DEFINE r == [NoCall EXCEPT !.kind = "initialize"]
    <2>1. "initialize" \in AnyKind /\ "owning" \in Awaits
          /\ 1 \in Contexts /\ {} \in SUBSET Guests /\ 0 \in Nat
      BY Names, Constants_ DEF AnyKind
    <2>2. r \in CallType /\ r.kind = "initialize" /\ r.ctx = 1 /\ ~r.aborted
      <3>1. PICK kind : kind = "initialize"
        OBVIOUS
      <3>2. r = [NoCall EXCEPT !.kind = kind] /\ kind \in AnyKind
        BY <2>1, <3>1
      <3>. HIDE DEF r
      <3>. QED
        BY <2>1, <3>1, <3>2, FreshStart
    <2>3. /\ Begin(k, "initialize") /\ UNCHANGED guest /\ Go(k, r, "owning")
          /\ ~facade.initialized /\ facade' = [facade EXCEPT !.life = "waking"]
      BY <1>2 DEF Initialize
    <2>. HIDE DEF r
    <2>4. facade'.active = facade.active /\ ~Live'
      BY <1>1, <2>3 DEF TypeOK, FacadeType, Live
    <2>5. call[k].at = "idle"
      BY <2>3 DEF Begin
    <2>6. Advance(k, {}, "none") /\ Carries(k, r, "owning") /\ Moved(k)
      BY <2>1, <2>2, <2>3, <2>4, <2>5, GoAdvances DEF At, Besides
    <2>7. call'[k].kind = "initialize"
      BY <2>2, <2>6 DEF Carries
    <2>8. OneByOne'
      BY <1>1, <2>3, <2>6, <2>7, BeginsInTurn
    <2>. QED
      BY <2>4, <2>6, <2>8, UnsettledBack DEF Unsettled
  <1>3. CASE RetrySuspendCleanup(k)
    <2>1. /\ Begin(k, "retrySuspendCleanup") /\ BeginStopping(k, "retrySuspendCleanup")
          /\ UNCHANGED facade /\ facade.life = "cleanupIncomplete" /\ call[k].at = "idle"
          /\ "retrySuspendCleanup" \in AnyKind
      BY <1>3 DEF RetrySuspendCleanup, Begin, AnyKind
    <2>2. PICK now \in SUBSET Guests :
              /\ Advance(k, now, "shutdown") /\ Moved(k)
              /\ call'[k].kind = "retrySuspendCleanup"
      BY <2>1, BeginStoppingAdvances
    <2>3. OneByOne' /\ \A j \in CallIds : InFlight(j) => call[j].kind \notin LifeCycle
      BY <1>1, <2>1, <2>2, BeginsInTurn DEF LifeCycle
    <2>4. Stuck'
      BY <2>1, <2>2, <2>3 DEF Stuck, Moved, InFlight, LifeCycle, Wakers
    <2>. QED
      BY <2>2, <2>3, <2>4, UnsettledBack DEF Unsettled
  <1>4. CASE Dispose(k)
    <2>1. /\ Begin(k, "dispose") /\ BeginStopping(k, "dispose") /\ call[k].at = "idle"
          /\ facade' = [facade EXCEPT !.disposed = TRUE] /\ "dispose" \in AnyKind
      BY <1>4 DEF Dispose, Begin, AnyKind
    <2>2. facade'.active = facade.active
      BY <1>1, <2>1 DEF TypeOK, FacadeType
    <2>3. PICK now \in SUBSET Guests :
              /\ Advance(k, now, "shutdown") /\ Moved(k)
              /\ call'[k].kind = "dispose" /\ call'[k].at = "stopping"
      BY <2>1, <2>2, BeginStoppingAdvances
    <2>4. OneByOne'
      BY <1>1, <2>1, <2>3, BeginsInTurn
    <2>5. Turning(k)'
      BY <2>3 DEF Turning, Closing, At
    <2>. QED
      BY <2>3, <2>4, <2>5, UnsettledBack DEF Unsettled
  <1>. QED
    BY <1>2, <1>3, <1>4

-----------------------------------------------------------------------------
(* ... pause, capture and commit *)

LEMMA FacadeUnchanged ==
    ASSUME NEW k, UNCHANGED facade
    PROVE  FacadeHolds(k)
  BY DEF FacadeHolds, Live

LEMMA FacadeNoted ==
    ASSUME TypeOK, NEW k, NEW life \in AnyLife, NEW saved, NEW pending,
           life = "hot" => facade.life = "hot" \/ (InFlight(k) /\ call[k].kind \in Wakers),
           \/ facade' = [facade EXCEPT !.life = life]
           \/ facade' = [facade EXCEPT !.saved = saved, !.life = life]
           \/ facade' = [facade EXCEPT !.cleanupPending = pending, !.saved = saved]
           \/ facade' = [facade EXCEPT !.cleanupPending = pending, !.life = life]
           \/ facade' = [facade EXCEPT !.cleanupPending = pending]
           \/ facade' = [facade EXCEPT !.saved = saved]
    PROVE  FacadeHolds(k)
  <1>1. /\ facade'.active = facade.active /\ facade'.initialized = facade.initialized
        /\ facade'.token = facade.token /\ facade'.life \in {facade.life, life}
    BY DEF TypeOK, FacadeType
  <1>2. Live' => Live
    <2>1. ASSUME Live' PROVE facade.initialized
      BY <1>1, <2>1, Zenon DEF Live
    <2>. QED
      BY <1>1, <2>1 DEF Live
  <1>. QED
    BY <1>1, <1>2 DEF FacadeHolds

LEMMA ResumeIdsBack ==
    ASSUME AlwaysInv, AlwaysInv', BackInv, NEW k \in CallIds, InFlight(k),
           NEW r \in CallType, NEW place \in {"unpausing", "resuming", "rollback"},
           ResumeIds(k, r, place),
           r.aborted = call[k].aborted, r.kind = call[k].kind, r.ctx = call[k].ctx,
           r.ids = call[k].ids, FacadeHolds(k),
           At(k, {"pausing"}) => call[k].asked = {}, ~At(k, TurningAt)
    PROVE  BackInv'
  <1>. DEFINE gs == r.ids \cap In(r.ctx, {"paused"})
  <1>1. gs \in SUBSET Guests /\ place \in Awaits
    BY Inside, Names
  <1>2. Ask(k, r, r.ctx, gs, "resume", place)
    BY DEF ResumeIds
  <1>3. \A g \in Guests : guest[facade.active][g].state = "paused" /\ GivesBack(k, g) => g \in gs
    BY DEF GivesBack, In
  <1>4. ~At(k, {"restoring", "booting"}) /\ ~Turning(k)
    BY NotTurning DEF At, TurningAt
  <1>. HIDE DEF gs
  <1>. QED
    BY <1>1, <1>2, <1>3, <1>4, ResumeBack

LEMMA OperationFailsBack ==
    ASSUME AlwaysInv, AlwaysInv', BackInv, NEW k \in CallIds, InFlight(k),
           NEW r \in CallType, OperationFails(k, r),
           r.aborted = call[k].aborted, r.kind = call[k].kind, r.ctx = call[k].ctx,
           r.ids = call[k].ids,
           At(k, {"pausing"}) => call[k].asked = {}, ~At(k, TurningAt)
    PROVE  BackInv'
  <1>. DEFINE s == [r EXCEPT !.error = TRUE]
  <1>1. /\ s \in CallType /\ s.kind = r.kind /\ s.ctx = r.ctx /\ s.ids = r.ids
        /\ s.aborted = r.aborted
    BY Errored
  <1>2. TypeOK /\ "hot" \in AnyLife
    BY DEF AlwaysInv, AnyLife
  <1>. HIDE DEF s
  <1>3. CASE r.kind = "suspend"
    <2>1. ResumeIds(k, s, "rollback") /\ facade' = [facade EXCEPT !.saved = "unsaved", !.life = "hot"]
      BY <1>3 DEF OperationFails, s
    <2>2. FacadeHolds(k)
      BY <1>2, <1>3, <2>1, FacadeNoted DEF Wakers
    <2>. QED
      BY <1>1, <2>1, <2>2, ResumeIdsBack
  <1>4. CASE r.kind # "suspend"
    <2>1. ResumeIds(k, s, "resuming") /\ UNCHANGED facade
      BY <1>4 DEF OperationFails, s
    <2>2. FacadeHolds(k)
      BY <2>1, FacadeUnchanged
    <2>. QED
      BY <1>1, <2>1, <2>2, ResumeIdsBack
  <1>. QED
    BY <1>3, <1>4

LEMMA StartCaptureBack ==
    ASSUME AlwaysInv, AlwaysInv', BackInv, NEW k \in CallIds, InFlight(k),
           NEW r \in CallType, StartCapture(k, r),
           r.aborted = call[k].aborted, r.kind = call[k].kind, r.ctx = call[k].ctx,
           r.ids = call[k].ids,
           At(k, {"pausing"}) => call[k].asked = {}, ~At(k, TurningAt)
    PROVE  BackInv'
  <1>1. CASE OperationFails(k, r)
    BY <1>1, OperationFailsBack
  <1>2. CASE Go(k, r, "flushing") /\ UNCHANGED <<facade, guest>>
    <2>1. FacadeHolds(k) /\ "flushing" \in Awaits /\ "flushing" \in Held /\ "flushing" \notin Besides
      BY <1>2, FacadeUnchanged, Names DEF Held, Besides
    <2>2. ~At(k, {"restoring", "booting"}) /\ ~Turning(k)
      BY NotTurning DEF At, TurningAt
    <2>. QED
      BY <1>2, <2>1, <2>2, GoBack
  <1>. QED
    BY <1>1, <1>2 DEF StartCapture

\* What the invariant says of a call that goes on.
LEMMA Goes ==
    ASSUME AlwaysInv, BackInv, NEW k \in CallIds
    PROVE  /\ TypeOK /\ call[k] \in CallType /\ ~call[k].aborted
           /\ Fits(call[k].kind, call[k].at) /\ OneByOne
           /\ facade.active \in Contexts /\ call[k].ctx \in Contexts
  BY DEF AlwaysInv, BackInv, Unaborted, TypeOK, PlacesFit, FacadeType, CallType

LEMMA PauseNextBack ==
    ASSUME AlwaysInv, AlwaysInv', BackInv, NEW k \in CallIds, PauseNext(k)
    PROVE  BackInv'
  <1>. DEFINE r == call[k]
  <1>1. /\ InFlight(k) /\ UNCHANGED facade /\ r.at = "pausing" /\ r.asked = {}
        /\ AskNext(k, r, r.ctx, r.todo, "pause", "pausing", NoMemory)
    BY DEF PauseNext, InFlight, Answered
  <1>2. /\ TypeOK /\ r \in CallType /\ ~r.aborted /\ r.todo \in SUBSET Guests
        /\ r.todo \subseteq r.ids
    BY <1>1, Goes DEF CallType, BackInv, PausesFit, At
  <1>3. NoMemory \in Memory /\ "pause" \in {"pause", "restore"} /\ "pausing" \in Awaits
        /\ Asks("pausing", "pause")
    BY Names DEF NoMemory, Memory, Asks
  <1>3a. /\ facade'.active = facade.active /\ r.ctx \in {1, call[k].ctx, facade.active}
         /\ At(k, {"pausing", "restoring", "booting"}) => call[k].asked = {}
    BY <1>1
  <1>. DEFINE gs == r.todo
  <1>3b. /\ AskNext(k, r, r.ctx, gs, "pause", "pausing", NoMemory) /\ gs \in SUBSET Guests
         /\ gs \subseteq r.ids
    BY <1>1, <1>2
  <1>. HIDE DEF r, gs
  <1>4. PICK now \in SUBSET gs :
           /\ Advance(k, now, "pause") /\ Moved(k) /\ Carries(k, r, "pausing")
           /\ call'[k].todo = gs
    BY <1>2, <1>3, <1>3a, <1>3b, AskNextAdvances
  <1>5. /\ call'[k].kind = r.kind /\ call'[k].ctx = r.ctx /\ call'[k].ids = r.ids
        /\ call'[k].at = "pausing" /\ now \in SUBSET Guests /\ call'[k].todo = r.todo
    BY <1>2, <1>4 DEF Carries, gs
  <1>6. \A g \in Guests : GivesBack(k, g) => GivesBack(k, g)'
    BY <1>1, <1>5 DEF GivesBack, At, Held, r
  <1>7. ~At(k, TurningAt) /\ ~At(k, {"restoring", "booting"})
    BY <1>1 DEF At, TurningAt, r
  <1>8. Plain(k, now, "pause")
    BY <1>6, <1>7 DEF Plain
  <1>9. InFlight(k) /\ FacadeHolds(k) /\ ~Turning(k) /\ call'[k].kind = call[k].kind
    BY <1>1, <1>5, <1>7, NotTurning, FacadeUnchanged DEF r
  <1>10. now \in SUBSET Guests /\ Advance(k, now, "pause")
    BY <1>4, <1>5
  <1>. QED
    BY <1>8, <1>9, <1>10, ContinuedBack

LEMMA PausedAllBack ==
    ASSUME AlwaysInv, AlwaysInv', BackInv, NEW k \in CallIds, PausedAll(k)
    PROVE  BackInv'
  <1>1. InFlight(k) /\ call[k].at = "pausing" /\ call[k].asked = {}
    BY DEF PausedAll, InFlight, Answered
  <1>2. TypeOK /\ call[k] \in CallType /\ Fits(call[k].kind, call[k].at)
    BY Goes
  <1>3. call[k].kind \in {"exportImage", "importImage", "save", "suspend"}
    BY <1>1, <1>2 DEF Fits, Capturers
  <1>4. ~At(k, TurningAt) /\ ~At(k, {"restoring", "booting"}) /\ ~Turning(k)
    BY <1>1, NotTurning DEF At, TurningAt
  <1>5. ASSUME NEW place \in {"staging", "readingHead"}, Go(k, call[k], place),
               UNCHANGED guest, FacadeHolds(k)
        PROVE  BackInv'
    <2>1. place \in Awaits /\ place \in Held /\ place \notin Besides /\ place # "pausing"
      BY Names DEF Held, Besides
    <2>. QED
      BY <1>1, <1>2, <1>4, <1>5, <2>1, GoBack
  <1>6. CASE call[k].kind = "exportImage"
    <2>1. StartCapture(k, call[k])
      BY <1>6 DEF PausedAll
    <2>. QED
      BY <1>1, <1>2, <1>4, <2>1, StartCaptureBack
  <1>7. CASE call[k].kind = "importImage"
    <2>1. Go(k, call[k], "staging") /\ UNCHANGED <<facade, guest>>
      BY <1>7 DEF PausedAll
    <2>. QED
      BY <1>5, <2>1, FacadeUnchanged
  <1>8. CASE call[k].kind = "save"
    <2>1. Go(k, call[k], "readingHead") /\ UNCHANGED <<facade, guest>>
      BY <1>8 DEF PausedAll
    <2>. QED
      BY <1>5, <2>1, FacadeUnchanged
  <1>9. CASE call[k].kind = "suspend"
    <2>1. /\ Go(k, call[k], "readingHead") /\ UNCHANGED guest
          /\ facade' = [facade EXCEPT !.life = "committing"] /\ "committing" \in AnyLife
      BY <1>9 DEF PausedAll, AnyLife
    <2>2. FacadeHolds(k)
      BY <1>2, <2>1, FacadeNoted
    <2>. QED
      BY <1>5, <2>1, <2>2
  <1>. QED
    BY <1>3, <1>6, <1>7, <1>8, <1>9

LEMMA PauseFailedBack ==
    ASSUME AlwaysInv, AlwaysInv', BackInv, NEW k \in CallIds, PauseFailed(k)
    PROVE  BackInv'
  <1>. DEFINE r == call[k]
              gs == (r.ids \ r.todo) \cap In(r.ctx, {"paused"})
  <1>1. /\ InFlight(k) /\ UNCHANGED facade /\ r.at = "pausing" /\ r.asked = {}
        /\ Ask(k, r, r.ctx, gs, "resume", "unpausing")
    BY DEF PauseFailed, InFlight, Answered
  <1>2. r \in CallType /\ gs \in SUBSET Guests /\ "unpausing" \in Awaits /\ FacadeHolds(k)
    BY <1>1, Goes, Inside, Names, FacadeUnchanged
  <1>3. ~At(k, {"restoring", "booting"}) /\ ~Turning(k)
    BY <1>1, NotTurning DEF At, TurningAt
  <1>4. \A g \in Guests : guest[facade.active][g].state = "paused" /\ GivesBack(k, g) => g \in gs
    BY <1>1 DEF GivesBack, In, At, Held
  <1>. HIDE DEF gs, r
  <1>. QED
    BY <1>1, <1>2, <1>3, <1>4, ResumeBack DEF r

LEMMA UnpausedBack ==
    ASSUME AlwaysInv, AlwaysInv', BackInv, NEW k \in CallIds, Unpaused(k)
    PROVE  BackInv'
  <1>1. InFlight(k) /\ call[k].at = "unpausing"
    BY DEF Unpaused, InFlight, Answered
  <1>2. TypeOK /\ call[k] \in CallType /\ Fits(call[k].kind, call[k].at)
    BY Goes
  <1>3. call[k].kind \in {"exportImage", "importImage", "save", "suspend"}
    BY <1>1, <1>2 DEF Fits, Capturers
  <1>4. ~At(k, TurningAt) /\ ~At(k, {"restoring", "booting", "pausing"}) /\ ~Turning(k)
        /\ \A g \in Guests : ~GivesBack(k, g)
    BY <1>1, NotTurning DEF At, TurningAt, GivesBack, Held
  <1>5. CASE call[k].kind \in {"save", "exportImage"}
    <2>. DEFINE s == [call[k] EXCEPT !.error = TRUE]
    <2>1. /\ s \in CallType /\ s.kind = call[k].kind /\ s.ctx = call[k].ctx /\ s.ids = call[k].ids
          /\ s.aborted = call[k].aborted
      BY <1>2, Errored
    <2>2. ResumeIds(k, s, "resuming") /\ UNCHANGED facade
      BY <1>5 DEF Unpaused
    <2>. HIDE DEF s
    <2>. QED
      BY <1>1, <1>4, <2>1, <2>2, FacadeUnchanged, ResumeIdsBack DEF At
  <1>6. CASE call[k].kind = "suspend"
    <2>1. /\ Finish(k, call[k], TRUE) /\ UNCHANGED guest
          /\ facade' = [facade EXCEPT !.life = "hot"] /\ "hot" \in AnyLife
      BY <1>6 DEF Unpaused, AnyLife
    <2>2. FacadeHolds(k)
      BY <1>1, <1>2, <1>6, <2>1, FacadeNoted DEF Wakers
    <2>. QED
      BY <1>1, <1>4, <2>1, <2>2, FinishBack
  <1>7. CASE call[k].kind = "importImage"
    <2>1. Finish(k, call[k], TRUE) /\ UNCHANGED <<facade, guest>>
      BY <1>7 DEF Unpaused
    <2>. QED
      BY <1>1, <1>4, <2>1, FacadeUnchanged, FinishBack
  <1>. QED
    BY <1>3, <1>5, <1>6, <1>7

LEMMA ReadHeadBack ==
    ASSUME AlwaysInv, AlwaysInv', BackInv, NEW k \in CallIds, ReadHead(k)
    PROVE  BackInv'
  <1>. DEFINE r == [call[k] EXCEPT !.head = store.head, !.token = facade.token]
  <1>1. /\ InFlight(k) /\ call[k].at = "readingHead"
        /\ OperationFails(k, r) \/ StartCapture(k, r)
    BY DEF ReadHead, InFlight
  <1>2. TypeOK /\ call[k] \in CallType
    BY Goes
  <1>3. store.head \in Nat /\ facade.token \in Nat
    BY <1>2 DEF TypeOK, FacadeType
  <1>4. /\ r \in CallType /\ r.kind = call[k].kind /\ r.ctx = call[k].ctx /\ r.ids = call[k].ids
        /\ r.aborted = call[k].aborted
    BY <1>2, <1>3 DEF CallType
  <1>5. ~At(k, TurningAt) /\ (At(k, {"pausing"}) => call[k].asked = {})
    BY <1>1 DEF At, TurningAt
  <1>. HIDE DEF r
  <1>6. CASE OperationFails(k, r)
    BY <1>1, <1>4, <1>5, <1>6, OperationFailsBack
  <1>7. CASE StartCapture(k, r)
    BY <1>1, <1>4, <1>5, <1>7, StartCaptureBack
  <1>. QED
    BY <1>1, <1>6, <1>7

LEMMA FlushedBack ==
    ASSUME AlwaysInv, AlwaysInv', BackInv, NEW k \in CallIds, Flushed(k)
    PROVE  BackInv'
  <1>. DEFINE disk == [g \in Guests |-> guest[call[k].ctx][g].mem]
              r == [call[k] EXCEPT !.disk = disk]
  <1>1. /\ InFlight(k) /\ call[k].at = "flushing"
        /\ \/ /\ Ask(k, r, call[k].ctx, Guests, "snapshot", "capturing")
              /\ UNCHANGED facade
           \/ OperationFails(k, call[k])
    BY DEF Flushed, InFlight
  <1>2. TypeOK /\ call[k] \in CallType /\ call[k].ctx \in Contexts /\ ~call[k].aborted
    BY Goes
  <1>3. disk \in Memory
    BY <1>2 DEF TypeOK, GuestType, Memory
  <1>. HIDE DEF disk
  <1>4. /\ r \in CallType /\ r.kind = call[k].kind /\ r.ctx = call[k].ctx /\ r.ids = call[k].ids
        /\ r.aborted = call[k].aborted
    BY <1>2, <1>3 DEF CallType
  <1>5. /\ ~At(k, TurningAt) /\ (At(k, {"pausing"}) => call[k].asked = {})
        /\ ~At(k, {"pausing", "restoring", "booting"}) /\ ~At(k, {"restoring", "booting"})
        /\ ~Turning(k)
    BY <1>1, NotTurning DEF At, TurningAt
  <1>. HIDE DEF r
  <1>6. CASE OperationFails(k, call[k])
    BY <1>1, <1>2, <1>5, <1>6, OperationFailsBack
  <1>7. CASE Ask(k, r, call[k].ctx, Guests, "snapshot", "capturing") /\ UNCHANGED facade
    <2>1. PICK gs \in SUBSET Guests : gs = Guests
      OBVIOUS
    <2>2. /\ Ask(k, r, r.ctx, gs, "snapshot", "capturing") /\ facade'.active = facade.active
          /\ r.ctx \in {1, call[k].ctx, facade.active} /\ "snapshot" \in AnyCommand
          /\ "capturing" \in Awaits /\ Asks("capturing", "snapshot") /\ FacadeHolds(k)
      BY <1>4, <1>7, <2>1, Names, FacadeUnchanged DEF Asks
    <2>3. ~r.aborted
      BY <1>2, <1>4, Zenon
    <2>4. Advance(k, gs, "snapshot") /\ Carries(k, r, "capturing")
      BY <1>4, <1>5, <2>2, <2>3, AskAdvances
    <2>5. /\ call'[k].at = "capturing" /\ call'[k].kind = call[k].kind
          /\ call'[k].ctx = call[k].ctx /\ call'[k].ids = call[k].ids
      BY <1>4, <2>4 DEF Carries
    <2>6. Plain(k, gs, "snapshot")
      <3>1. \A g \in Guests : GivesBack(k, g) => GivesBack(k, g)'
        BY <2>2, <2>5 DEF GivesBack, At, Held
      <3>. QED
        BY <1>5, <3>1 DEF Plain
    <2>. QED
      BY <1>1, <1>5, <2>2, <2>4, <2>5, <2>6, ContinuedBack
  <1>. QED
    BY <1>1, <1>6, <1>7

LEMMA CapturedBack ==
    ASSUME AlwaysInv, AlwaysInv', BackInv, NEW k \in CallIds, Captured(k)
    PROVE  BackInv'
  <1>. DEFINE r == call[k]
  <1>1. /\ InFlight(k) /\ r.at = "capturing"
        /\ \/ OperationFails(k, r)
           \/ ResumeIds(k, r, "resuming") /\ UNCHANGED facade
           \/ Go(k, r, "committing") /\ UNCHANGED <<facade, guest>>
    BY DEF Captured, InFlight, Answered
  <1>2. r \in CallType
    BY Goes
  <1>3. /\ ~At(k, TurningAt) /\ (At(k, {"pausing"}) => call[k].asked = {})
        /\ ~At(k, {"restoring", "booting"}) /\ ~Turning(k)
    BY <1>1, NotTurning DEF At, TurningAt
  <1>. HIDE DEF r
  <1>4. CASE OperationFails(k, r)
    BY <1>1, <1>2, <1>3, <1>4, OperationFailsBack DEF r
  <1>5. CASE ResumeIds(k, r, "resuming") /\ UNCHANGED facade
    <2>1. "resuming" \in {"unpausing", "resuming", "rollback"} /\ FacadeHolds(k)
      BY <1>5, FacadeUnchanged
    <2>. QED
      BY <1>1, <1>2, <1>3, <1>5, <2>1, ResumeIdsBack DEF r
  <1>6. CASE Go(k, r, "committing") /\ UNCHANGED <<facade, guest>>
    <2>1. "committing" \in Awaits /\ "committing" \in Held /\ "committing" \notin Besides
          /\ FacadeHolds(k)
      BY <1>6, FacadeUnchanged, Names DEF Held, Besides
    <2>. QED
      BY <1>1, <1>2, <1>3, <1>6, <2>1, GoBack DEF r
  <1>. QED
    BY <1>1, <1>4, <1>5, <1>6

LEMMA CommitBack ==
    ASSUME AlwaysInv, AlwaysInv', BackInv, NEW k \in CallIds, Commit(k)
    PROVE  BackInv'
  <1>. DEFINE n == Len(store.gens) + 1
              done == [call[k] EXCEPT !.gen = n]
  <1>1. /\ InFlight(k) /\ call[k].at = "committing"
        /\ \/ OperationFails(k, call[k])
           \/ ResumeIds(k, done, "resuming") /\ UNCHANGED facade
           \/ Go(k, done, "verifying") /\ UNCHANGED <<facade, guest>>
    BY DEF Commit, InFlight
  <1>2. TypeOK /\ call[k] \in CallType
    BY Goes
  <1>3. n \in Nat
    BY <1>2, StoreTyped
  <1>. HIDE DEF n
  <1>4. /\ done \in CallType /\ done.kind = call[k].kind /\ done.ctx = call[k].ctx
        /\ done.ids = call[k].ids /\ done.aborted = call[k].aborted
    BY <1>2, <1>3 DEF CallType
  <1>5. /\ ~At(k, TurningAt) /\ (At(k, {"pausing"}) => call[k].asked = {})
        /\ ~At(k, {"restoring", "booting"}) /\ ~Turning(k)
    BY <1>1, NotTurning DEF At, TurningAt
  <1>. HIDE DEF done
  <1>6. CASE OperationFails(k, call[k])
    BY <1>1, <1>2, <1>5, <1>6, OperationFailsBack
  <1>7. CASE ResumeIds(k, done, "resuming") /\ UNCHANGED facade
    <2>1. "resuming" \in {"unpausing", "resuming", "rollback"} /\ FacadeHolds(k)
      BY <1>7, FacadeUnchanged
    <2>. QED
      BY <1>1, <1>4, <1>5, <1>7, <2>1, ResumeIdsBack
  <1>8. CASE Go(k, done, "verifying") /\ UNCHANGED <<facade, guest>>
    <2>1. "verifying" \in Awaits /\ "verifying" \in Held /\ "verifying" \notin Besides
          /\ FacadeHolds(k)
      BY <1>8, FacadeUnchanged, Names DEF Held, Besides
    <2>. QED
      BY <1>1, <1>4, <1>5, <1>8, <2>1, GoBack
  <1>. QED
    BY <1>1, <1>6, <1>7, <1>8

LEMMA VerifiedBack ==
    ASSUME AlwaysInv, AlwaysInv', BackInv, NEW k \in CallIds, Verified(k)
    PROVE  BackInv'
  <1>1. /\ InFlight(k) /\ call[k].at = "verifying"
        /\ \/ OperationFails(k, call[k])
           \/ Go(k, call[k], "pruning") /\ UNCHANGED <<facade, guest>>
    BY DEF Verified, InFlight
  <1>2. TypeOK /\ call[k] \in CallType /\ Fits(call[k].kind, call[k].at)
    BY Goes
  <1>3. call[k].kind = "suspend"
    BY <1>1, <1>2 DEF Fits, Capturers, Closers
  <1>4. /\ ~At(k, TurningAt) /\ (At(k, {"pausing"}) => call[k].asked = {})
        /\ ~At(k, {"restoring", "booting"}) /\ ~Turning(k)
    BY <1>1, NotTurning DEF At, TurningAt
  <1>5. CASE OperationFails(k, call[k])
    BY <1>1, <1>2, <1>4, <1>5, OperationFailsBack
  <1>6. CASE Go(k, call[k], "pruning") /\ UNCHANGED <<facade, guest>>
    <2>1. "pruning" \in Awaits /\ "pruning" \notin Besides /\ FacadeHolds(k)
      BY <1>6, FacadeUnchanged, Names DEF Besides
    <2>. QED
      BY <1>1, <1>2, <1>3, <1>4, <1>6, <2>1, GoBack
  <1>. QED
    BY <1>1, <1>5, <1>6

\* A call that was waiting for answers only, and goes on or ends.
LEMMA EndBack ==
    ASSUME AlwaysInv, AlwaysInv', BackInv, NEW k \in CallIds,
           call[k].at \in {"resuming", "rollback", "retiring", "pruning", "resumingAll"},
           call[k].at = "pruning" => call[k].kind # "suspend",
           call[k].at = "resumingAll" => ~call[k].failed,
           UNCHANGED guest, FacadeHolds(k),
           Go(k, call[k], "pruning") \/ \E error \in BOOLEAN : Finish(k, call[k], error)
    PROVE  BackInv'
  <1>1. TypeOK /\ call[k] \in CallType
    BY Goes
  <1>2. /\ InFlight(k) /\ (At(k, {"pausing"}) => call[k].asked = {})
        /\ ~At(k, {"restoring", "booting"}) /\ ~At(k, {"restoring", "booting", "pausing"})
        /\ ~Turning(k) /\ \A g \in Guests : ~GivesBack(k, g)
    BY DEF InFlight, At, Turning, Closing, Failing, GivesBack, Held
  <1>3. CASE Go(k, call[k], "pruning")
    <2>1. "pruning" \in Awaits /\ "pruning" \notin Besides
      BY Names DEF Besides
    <2>. QED
      BY <1>1, <1>2, <1>3, <2>1, GoBack
  <1>4. CASE \E error \in BOOLEAN : Finish(k, call[k], error)
    BY <1>2, <1>4, FinishBack
  <1>. QED
    BY <1>3, <1>4

LEMMA ResumedBack ==
    ASSUME AlwaysInv, AlwaysInv', BackInv, NEW k \in CallIds,
           Resumed(k) \/ RolledBack(k) \/ Retired(k) \/ ResumedAll(k)
    PROVE  BackInv'
  <1>1. TypeOK /\ call[k] \in CallType /\ call[k].error \in BOOLEAN /\ call[k].failed \in BOOLEAN
    BY Goes DEF CallType
  <1>2. PICK yes \in BOOLEAN : yes = TRUE
    OBVIOUS
  <1>3. UNCHANGED guest
    BY DEF Resumed, RolledBack, Retired, ResumedAll
  <1>4. CASE Resumed(k)
    <2>1. /\ call[k].at = "resuming"
          /\ facade' = [facade EXCEPT !.saved = "unsaved"] \/ UNCHANGED facade
      BY <1>4 DEF Resumed, Answered
    <2>2. Go(k, call[k], "pruning") \/ \E error \in BOOLEAN : Finish(k, call[k], error)
      <3>1. PICK error \in BOOLEAN : error = (call[k].error \/ call[k].failed)
        OBVIOUS
      <3>2. \/ Go(k, call[k], "pruning") \/ Finish(k, call[k], TRUE)
            \/ Finish(k, call[k], call[k].error \/ call[k].failed)
        BY <1>4 DEF Resumed
      <3>. QED
        BY <1>2, <3>1, <3>2, Zenon
    <2>3. "failed" \in AnyLife
      BY DEF AnyLife
    <2>4. FacadeHolds(k)
      BY <1>1, <2>1, <2>3, FacadeNoted, FacadeUnchanged
    <2>. QED
      BY <1>3, <2>1, <2>2, <2>4, EndBack
  <1>5. CASE RolledBack(k)
    <2>1. /\ call[k].at = "rollback" /\ Finish(k, call[k], yes)
          /\ facade' = [facade EXCEPT !.life = "failed"] \/ UNCHANGED facade
      BY <1>2, <1>5 DEF RolledBack, Answered
    <2>2. "failed" \in AnyLife
      BY DEF AnyLife
    <2>3. FacadeHolds(k)
      BY <1>1, <2>1, <2>2, FacadeNoted, FacadeUnchanged
    <2>. QED
      BY <1>3, <2>1, <2>3, EndBack
  <1>6. CASE Retired(k) \/ ResumedAll(k)
    <2>1. /\ call[k].at \in {"retiring", "resumingAll"} /\ Go(k, call[k], "pruning")
          /\ call[k].at = "resumingAll" => ~call[k].failed
          /\ UNCHANGED facade
      BY <1>6 DEF Retired, ResumedAll, Answered
    <2>. QED
      BY <1>3, <2>1, FacadeUnchanged, EndBack
  <1>. QED
    BY <1>4, <1>5, <1>6

LEMMA UnstagedBack ==
    ASSUME AlwaysInv, AlwaysInv', BackInv, NEW k \in CallIds, Unstaged(k)
    PROVE  BackInv'
  <1>. DEFINE s == [call[k] EXCEPT !.error = TRUE]
  <1>1. /\ InFlight(k) /\ call[k].at = "unstaging" /\ UNCHANGED facade
        /\ ResumeIds(k, s, "resuming")
    BY DEF Unstaged, InFlight
  <1>2. /\ s \in CallType /\ s.kind = call[k].kind /\ s.ctx = call[k].ctx /\ s.ids = call[k].ids
        /\ s.aborted = call[k].aborted
    BY Goes, Errored
  <1>3. /\ ~At(k, TurningAt) /\ (At(k, {"pausing"}) => call[k].asked = {}) /\ FacadeHolds(k)
        /\ "resuming" \in {"unpausing", "resuming", "rollback"}
    BY <1>1, FacadeUnchanged DEF At, TurningAt
  <1>. HIDE DEF s
  <1>. QED
    BY <1>1, <1>2, <1>3, ResumeIdsBack

\* A step after which the computer is not hot, or all its guests will be woken.
LEMMA ContinuedUnsettled ==
    ASSUME AlwaysInv, AlwaysInv', BackInv, NEW k \in CallIds, InFlight(k),
           NEW now \in SUBSET Guests, NEW do, Advance(k, now, do),
           call'[k].kind = call[k].kind, Unsettled'
    PROVE  BackInv'
  <1>1. OneByOne /\ Moved(k)
    BY DEF BackInv, Advance, CallStep
  <1>2. OneByOne'
    BY <1>1, OneByOneStays
  <1>. QED
    BY <1>2, UnsettledBack

LEMMA PrunedBack ==
    ASSUME AlwaysInv, AlwaysInv', BackInv, NEW k \in CallIds, Pruned(k)
    PROVE  BackInv'
  <1>. DEFINE r == call[k]
  <1>1. InFlight(k) /\ r.at = "pruning"
    BY DEF Pruned, InFlight
  <1>2. TypeOK /\ r \in CallType /\ Fits(r.kind, r.at) /\ ~r.aborted /\ facade \in FacadeType
    BY Goes DEF TypeOK
  <1>3. r.kind \in {"save", "importImage", "initialize", "suspend"}
    BY <1>1, <1>2 DEF Fits, Capturers, Closers
  <1>4. PICK pending \in BOOLEAN :
          LET f == [facade EXCEPT !.cleanupPending = pending] IN
          CASE r.kind = "save" ->
                 /\ facade' = [f EXCEPT !.saved = "clean"]
                 /\ Finish(k, r, FALSE) /\ UNCHANGED guest
            [] r.kind = "importImage" ->
                 facade' = f /\ Finish(k, r, FALSE) /\ UNCHANGED guest
            [] r.kind = "initialize" ->
                 /\ facade' = [f EXCEPT !.life = "hot"]
                 /\ Finish(k, r, FALSE) /\ UNCHANGED guest
            [] r.kind = "suspend" ->
                 /\ facade' = [f EXCEPT !.life = "stopping"]
                 /\ Ask(k, r, r.ctx, NotStopped(r.ctx), "shutdown", "stopping")
    BY DEF Pruned
  <1>5. PICK no \in BOOLEAN : no = FALSE
    OBVIOUS
  <1>6. "hot" \in AnyLife /\ "failed" \in AnyLife
    BY DEF AnyLife
  <1>7. ASSUME r.kind # "suspend", FacadeHolds(k), Finish(k, r, FALSE), UNCHANGED guest
        PROVE  BackInv'
    <2>1. \E error \in BOOLEAN : Finish(k, call[k], error)
      BY <1>5, <1>7
    <2>. QED
      BY <1>1, <1>7, <2>1, EndBack
  <1>8. CASE r.kind = "save"
    <2>1. /\ facade' = [[facade EXCEPT !.cleanupPending = pending] EXCEPT !.saved = "clean"]
          /\ Finish(k, r, FALSE) /\ UNCHANGED guest
      BY <1>4, <1>8
    <2>2. facade' = [facade EXCEPT !.cleanupPending = pending, !.saved = "clean"]
      BY <1>2, <2>1 DEF FacadeType
    <2>3. FacadeHolds(k)
      BY <1>2, <1>6, <2>2, FacadeNoted
    <2>. QED
      BY <1>7, <1>8, <2>1, <2>3
  <1>9. CASE r.kind = "importImage"
    <2>1. /\ facade' = [facade EXCEPT !.cleanupPending = pending]
          /\ Finish(k, r, FALSE) /\ UNCHANGED guest
      BY <1>4, <1>9
    <2>2. FacadeHolds(k)
      BY <1>2, <1>6, <2>1, FacadeNoted
    <2>. QED
      BY <1>7, <1>9, <2>1, <2>2
  <1>10. CASE r.kind = "initialize"
    <2>1. /\ facade' = [[facade EXCEPT !.cleanupPending = pending] EXCEPT !.life = "hot"]
          /\ Finish(k, r, FALSE) /\ UNCHANGED guest
      BY <1>4, <1>10
    <2>2. facade' = [facade EXCEPT !.cleanupPending = pending, !.life = "hot"]
      BY <1>2, <2>1 DEF FacadeType
    <2>3. FacadeHolds(k)
      BY <1>1, <1>2, <1>6, <1>10, <2>2, FacadeNoted DEF Wakers
    <2>. QED
      BY <1>7, <1>10, <2>1, <2>3
  <1>11. CASE r.kind = "suspend"
    <2>1. /\ facade' = [[facade EXCEPT !.cleanupPending = pending] EXCEPT !.life = "stopping"]
          /\ Ask(k, r, r.ctx, NotStopped(r.ctx), "shutdown", "stopping")
      BY <1>4, <1>11
    <2>2. facade'.active = facade.active
      BY <1>2, <2>1 DEF FacadeType
    <2>3. PICK gs \in SUBSET Guests : gs = NotStopped(r.ctx)
      BY Inside
    <2>4. /\ Ask(k, r, r.ctx, gs, "shutdown", "stopping") /\ "shutdown" \in AnyCommand
          /\ "stopping" \in Awaits /\ Asks("stopping", "shutdown")
          /\ ~At(k, {"pausing", "restoring", "booting"}) /\ r.ctx \in {1, call[k].ctx, facade.active}
      BY <1>1, <2>1, <2>3, Names DEF Asks, At
    <2>. HIDE DEF r
    <2>5. Advance(k, gs, "shutdown") /\ Carries(k, r, "stopping")
      BY <1>2, <2>2, <2>4, AskAdvances
    <2>6. call'[k].kind = r.kind /\ call'[k].at = "stopping"
      BY <2>5 DEF Carries
    <2>7. Unsettled'
      BY <1>11, <2>6 DEF Unsettled, Turning, Closing, At
    <2>. QED
      BY <1>1, <2>5, <2>6, <2>7, ContinuedUnsettled DEF r
  <1>. QED
    BY <1>3, <1>8, <1>9, <1>10, <1>11

-----------------------------------------------------------------------------
(* ... that take the lock, give it back, close the computer *)

\* What loses its owner while it runs is the first command of a guest.
LEMMA RefencedMarks ==
    ASSUME TypeOK, NEW c \in Contexts, guest' = Refenced(c),
           NEW d \in Contexts, NEW g \in Guests, NEW i \in 1..Len(guest'[d][g].queue),
           guest'[d][g].queue[i].unknown
    PROVE  (i \in 1..Len(Queue(d, g)) /\ Queue(d, g)[i].unknown) \/ i = 1
  <1>. DEFINE m(h) == IF guest[c][h].queue # <<>> /\ Head(guest[c][h].queue).do # "shutdown"
                      THEN [guest[c][h] EXCEPT !.queue[1].unknown = TRUE]
                      ELSE guest[c][h]
  <1>1. guest' = [guest EXCEPT ![c] = [h \in Guests |-> m(h)]]
    BY DEF Refenced
  <1>2. guest \in [Contexts -> [Guests -> GuestType]]
    BY DEF TypeOK
  <1>3. guest'[d][g] = IF d = c THEN m(g) ELSE guest[d][g]
    <2>. HIDE DEF m
    <2>. QED
      BY <1>1, <1>2
  <1>4. CASE guest'[d][g] = guest[d][g]
    BY <1>4 DEF Queue
  <1>5. CASE d = c /\ Queue(c, g) # <<>> /\ guest'[c][g] = [guest[c][g] EXCEPT !.queue[1].unknown = TRUE]
    <2>1. guest[c][g] \in GuestType /\ Queue(c, g) \in Seq(Command) /\ Queue(c, g) = guest[c][g].queue
      BY <1>2 DEF GuestType, Queue
    <2>2. guest'[c][g].queue = [Queue(c, g) EXCEPT ![1] = [@ EXCEPT !.unknown = TRUE]]
      BY <1>5, <2>1 DEF GuestType
    <2>3. /\ DOMAIN guest'[c][g].queue = DOMAIN Queue(c, g)
          /\ \A n \in 1..Len(Queue(c, g)) : n # 1 => guest'[c][g].queue[n] = Queue(c, g)[n]
          /\ Len(guest'[c][g].queue) = Len(Queue(c, g))
      <3>1. PICK q \in Seq(Command) : q = Queue(c, g)
        BY <2>1
      <3>2. PICK v : v = [q[1] EXCEPT !.unknown = TRUE]
        OBVIOUS
      <3>3. guest'[c][g].queue = [q EXCEPT ![1] = v]
        BY <2>2, <3>1, <3>2
      <3>4. /\ DOMAIN [q EXCEPT ![1] = v] = DOMAIN q /\ Len([q EXCEPT ![1] = v]) = Len(q)
            /\ \A n \in 1..Len(q) : n # 1 => [q EXCEPT ![1] = v][n] = q[n]
        <4>1. q # <<>> /\ Len(q) \in Nat /\ DOMAIN q = 1..Len(q)
          BY <1>5, <3>1
        <4>2. DOMAIN [q EXCEPT ![1] = v] = 1..Len(q)
          BY <4>1
        <4>3. Len([q EXCEPT ![1] = v]) = Len(q)
          BY <4>1, <4>2
        <4>. QED
          BY <4>1, <4>2, <4>3
      <3>. QED
        BY <3>1, <3>3, <3>4
    <2>. QED
      BY <1>5, <2>1, <2>3
  <1>. QED
    BY <1>3, <1>4, <1>5 DEF Queue

LEMMA StopAdvances ==
    ASSUME AlwaysInv, NEW k \in CallIds, NEW r \in CallType, ~r.aborted,
           NEW f \in FacadeType, f.active = facade.active,
           NEW co \in CoordType, NEW place \in {"releasing", "givingUp"},
           Stop(k, r, f, co, place),
           At(k, {"pausing", "restoring", "booting"}) => call[k].asked = {},
           r.ctx \in {1, call[k].ctx, facade.active}
    PROVE  /\ Advance(k, {}, "none")
           /\ call'[k].at = place /\ call'[k].kind = r.kind
           /\ facade'.life = f.life /\ facade'.active = facade.active
           /\ facade'.token \in {f.token, 0} /\ facade'.initialized = f.initialized
  <1>. DEFINE i == co.current
              state == IF i = 0 THEN "idle" ELSE co.state[i]
  <1>1. TypeOK /\ place \in Awaits /\ facade.active \in Contexts
    BY Names DEF AlwaysInv, TypeOK, FacadeType
  <1>2. StopsWith(k, r, f, co, place)
    BY <1>1, StopMoves
  <1>3. /\ call'[k].at = place /\ call'[k].kind = r.kind /\ call'[k].ctx = r.ctx
        /\ facade'.life = f.life /\ facade'.active = facade.active
        /\ facade'.token \in {f.token, 0} /\ facade'.initialized = f.initialized
        /\ Moved(k) /\ GuestsTyped /\ StatesKept /\ \A d, do, at : Posted(k, d, {}, do, at)
    BY <1>2 DEF StopsWith
  <1>4. ~call'[k].aborted
    <2>1. PICK first \in BOOLEAN : first <=> state \in {"owned", "failed"}
      OBVIOUS
    <2>. DEFINE s == [r EXCEPT !.stops = i, !.first = first]
    <2>2. Go(k, s, place)
      <3>1. (state \in {"owned", "failed"}) = first
        BY <2>1, Zenon
      <3>2. Go(k, [r EXCEPT !.stops = i, !.first = state \in {"owned", "failed"}], place)
        BY DEF Stop
      <3>. QED
        BY <3>1, <3>2, Zenon
    <2>3. i \in 0..MaxCalls
      BY DEF CoordType
    <2>4. s \in CallType /\ s.aborted = r.aborted
      BY <2>3 DEF CallType
    <2>. HIDE DEF s
    <2>5. Carries(k, s, place)
      BY <1>1, <2>2, <2>4, GoMoves
    <2>6. call'[k].aborted = r.aborted
      BY <2>4, <2>5 DEF Carries
    <2>. QED
      BY <2>6, Zenon
  <1>5. CallStep(k, {}, "none") /\ StatesHold
    BY <1>3 DEF CallStep, StatesKept, StatesHold
  <1>6. Marked
    <2>1. CASE state = "owned"
      <3>1. guest' = Refenced(facade.active) /\ facade' = [f EXCEPT !.token = 0]
        BY <2>1 DEF Stop
      <3>2. ~Live'
        BY <3>1 DEF FacadeType, Live
      <3>3. Unsettled'
        BY <3>2 DEF Unsettled
      <3>. QED
        BY <1>1, <3>1, <3>3, RefencedMarks DEF Marked
    <2>2. CASE state # "owned"
      <3>1. UNCHANGED guest
        BY <2>2 DEF Stop
      <3>. QED
        BY <3>1 DEF Marked, Queue
    <2>. QED
      BY <2>1, <2>2
  <1>7. CandidateKept(k)
    BY <1>3 DEF CandidateKept, Besides
  <1>. QED
    BY <1>3, <1>4, <1>5, <1>6, <1>7 DEF Advance

LEMMA InitFailsBack ==
    ASSUME AlwaysInv, AlwaysInv', BackInv, NEW k \in CallIds,
           call[k].at \in {"owning", "reading", "restoring", "resumingAll", "unbooting"},
           call[k].at = "restoring" => call[k].asked = {},
           NEW co \in CoordType, InitFails(k, co)
    PROVE  BackInv'
  <1>. DEFINE f == [facade EXCEPT !.initialized = FALSE, !.token = 0, !.life = "failed"]
  <1>1. TypeOK /\ call[k] \in CallType /\ ~call[k].aborted /\ facade \in FacadeType /\ InFlight(k)
    BY Goes DEF TypeOK, InFlight
  <1>2. PICK no \in BOOLEAN : no = FALSE
    OBVIOUS
  <1>3. f \in FacadeType /\ f.active = facade.active /\ f.token = 0
    <2>1. f = [facade EXCEPT !.initialized = no, !.token = 0, !.life = "failed"]
      BY <1>2
    <2>2. "failed" \in AnyLife
      BY DEF AnyLife
    <2>. HIDE DEF f
    <2>. QED
      BY <1>1, <2>1, <2>2 DEF FacadeType
  <1>4. /\ Stop(k, call[k], f, co, "givingUp") /\ "givingUp" \in {"releasing", "givingUp"}
        /\ call[k].ctx \in {1, call[k].ctx, facade.active}
        /\ At(k, {"pausing", "restoring", "booting"}) => call[k].asked = {}
    BY DEF InitFails, At
  <1>. HIDE DEF f
  <1>. DEFINE r == call[k]
  <1>4a. r \in CallType /\ ~r.aborted /\ Stop(k, r, f, co, "givingUp")
         /\ r.ctx \in {1, call[k].ctx, facade.active}
    BY <1>1, <1>4
  <1>. HIDE DEF r
  <1>5. /\ Advance(k, {}, "none") /\ call'[k].kind = r.kind /\ facade'.token \in {f.token, 0}
    BY <1>3, <1>4, <1>4a, StopAdvances
  <1>6. Unsettled'
    BY <1>3, <1>5 DEF Unsettled, Live
  <1>. QED
    BY <1>1, <1>5, <1>6, ContinuedUnsettled DEF r

LEMMA IncompleteBack ==
    ASSUME AlwaysInv, AlwaysInv', BackInv, NEW k \in CallIds,
           call[k].at \in {"stopping", "releasing"}, call[k].kind \in Closers,
           facade' = Incomplete(call[k]), NEW error \in BOOLEAN, Finish(k, call[k], error),
           UNCHANGED guest
    PROVE  BackInv'
  <1>1. TypeOK /\ call[k] \in CallType /\ ~call[k].aborted /\ OneByOne /\ InFlight(k)
        /\ ~At(k, {"pausing", "restoring", "booting"}) /\ ~At(k, {"restoring", "booting", "pausing"})
    BY Goes DEF InFlight, At
  <1>2. CASE call[k].kind = "suspend"
    <2>1. facade'.active = facade.active /\ facade'.life # "hot"
      BY <1>1, <1>2, IncompleteFacade
    <2>2. /\ Advance(k, {}, "none") /\ Moved(k) /\ call'[k].at = "done"
          /\ call'[k].kind = call[k].kind
      BY <1>1, <2>1, FinishAdvances
    <2>3. Unsettled'
      BY <1>1, <1>2, <2>1, <2>2, LeavesStuck DEF LifeCycle
    <2>. QED
      BY <1>1, <2>2, <2>3, ContinuedUnsettled
  <1>3. CASE call[k].kind = "retrySuspendCleanup"
    <2>1. PICK yes \in BOOLEAN : yes = TRUE
      OBVIOUS
    <2>2. facade' = [facade EXCEPT !.cleanupPending = yes] /\ "failed" \in AnyLife
      BY <1>3, <2>1 DEF Incomplete, AnyLife
    <2>3. FacadeHolds(k)
      BY <1>1, <2>2, FacadeNoted
    <2>4. ~Turning(k) /\ \A g \in Guests : ~GivesBack(k, g)
      BY <1>3 DEF Turning, Closing, Failing, At, GivesBack, Held
    <2>. QED
      BY <1>1, <2>3, <2>4, FinishBack
  <1>. QED
    BY <1>2, <1>3 DEF Closers

LEMMA StoppedBack ==
    ASSUME AlwaysInv, AlwaysInv', BackInv, NEW k \in CallIds, Stopped(k)
    PROVE  BackInv'
  <1>1. InFlight(k) /\ call[k].at = "stopping"
    BY DEF Stopped, InFlight, Answered
  <1>2. TypeOK /\ call[k] \in CallType /\ Fits(call[k].kind, call[k].at) /\ ~call[k].aborted
    BY Goes
  <1>3. call[k].kind \in Closers \union {"dispose"}
    BY <1>1, <1>2 DEF Fits, Capturers
  <1>4. CASE /\ call[k].kind # "dispose" /\ facade' = Incomplete(call[k])
             /\ Finish(k, call[k], TRUE) /\ UNCHANGED guest
    <2>1. PICK yes \in BOOLEAN : yes = TRUE
      OBVIOUS
    <2>2. call[k].kind \in Closers /\ Finish(k, call[k], yes)
      BY <1>3, <1>4, <2>1
    <2>. QED
      BY <1>1, <1>4, <2>2, IncompleteBack
  <1>5. CASE Stop(k, [call[k] EXCEPT !.error = call[k].failed], facade, coord, "releasing")
    <2>. DEFINE r == [call[k] EXCEPT !.error = call[k].failed]
    <2>1. /\ r \in CallType /\ r.kind = call[k].kind /\ r.ctx = call[k].ctx
          /\ r.aborted = call[k].aborted
      BY <1>2 DEF CallType
    <2>2. Stop(k, r, facade, coord, "releasing")
      BY <1>5
    <2>. HIDE DEF r
    <2>3. ~r.aborted
      BY <1>2, <2>1, Zenon
    <2>4. facade \in FacadeType /\ coord \in CoordType /\ "releasing" \in {"releasing", "givingUp"}
          /\ ~At(k, {"pausing", "restoring", "booting"}) /\ r.ctx \in {1, call[k].ctx, facade.active}
      BY <1>1, <1>2, <2>1, CoordTyped DEF TypeOK, At
    <2>5. /\ Advance(k, {}, "none")
          /\ call'[k].at = "releasing" /\ call'[k].kind = call[k].kind
          /\ facade'.life = facade.life /\ facade'.active = facade.active
          /\ facade'.token \in {facade.token, 0} /\ facade'.initialized = facade.initialized
      BY <2>1, <2>2, <2>3, <2>4, StopAdvances
    <2>6. CASE call[k].kind \in {"suspend", "dispose"}
      <3>1. Unsettled'
        BY <2>5, <2>6 DEF Unsettled, Turning, Closing, At
      <3>. QED
        BY <1>1, <2>5, <3>1, ContinuedUnsettled
    <2>7. CASE call[k].kind = "retrySuspendCleanup"
      <3>1. FacadeHolds(k)
        <4>1. Live' => facade.token # 0
          BY <2>5 DEF Live
        <4>2. Live' => facade.initialized
          <5>1. Live' => facade'.initialized
            BY DEF Live
          <5>. QED
            BY <2>5, <5>1, Zenon
        <4>. QED
          BY <2>5, <4>1, <4>2 DEF FacadeHolds, Live
      <3>2. ~Turning(k) /\ Plain(k, {}, "none")
        BY <1>1, <2>7 DEF Turning, Closing, Failing, At, GivesBack, Held, Plain
      <3>. QED
        BY <1>1, <2>5, <3>1, <3>2, ContinuedBack
    <2>. QED
      BY <1>3, <2>6, <2>7 DEF Closers
  <1>. QED
    BY <1>4, <1>5 DEF Stopped

LEMMA ReleaseBack ==
    ASSUME AlwaysInv, AlwaysInv', BackInv, NEW k \in CallIds, Release(k)
    PROVE  BackInv'
  <1>1. InFlight(k) /\ call[k].at = "releasing" /\ UNCHANGED guest
    BY DEF Release, InFlight
  <1>2. /\ TypeOK /\ call[k] \in CallType /\ Fits(call[k].kind, call[k].at) /\ ~call[k].aborted
        /\ ~At(k, {"pausing", "restoring", "booting"}) /\ call[k].error \in BOOLEAN
    BY <1>1, Goes DEF At, CallType
  <1>3. call[k].kind \in Closers \union {"dispose"}
    BY <1>1, <1>2 DEF Fits, Capturers
  <1>4. PICK error \in BOOLEAN : Finish(k, call[k], error)
    <2>1. PICK yes \in BOOLEAN : yes = TRUE
      OBVIOUS
    <2>. QED
      BY <1>2, <2>1 DEF Release
  <1>5. CASE facade' = Closed(call[k])
    <2>1. facade'.active = facade.active /\ facade'.token = 0
      BY <1>2, <1>3, <1>5, ClosedFacade
    <2>2. Advance(k, {}, "none") /\ call'[k].kind = call[k].kind
      BY <1>1, <1>2, <1>4, <2>1, FinishAdvances
    <2>3. Unsettled'
      BY <2>1 DEF Unsettled, Live
    <2>. QED
      BY <1>1, <2>2, <2>3, ContinuedUnsettled
  <1>6. CASE facade' = Incomplete(call[k]) /\ call[k].kind # "dispose"
    BY <1>1, <1>3, <1>4, <1>6, IncompleteBack
  <1>7. \/ facade' = Closed(call[k])
        \/ facade' = Incomplete(call[k]) /\ call[k].kind # "dispose"
    BY DEF Release
  <1>. QED
    BY <1>5, <1>6, <1>7

LEMMA GiveUpBack ==
    ASSUME AlwaysInv, AlwaysInv', BackInv, NEW k \in CallIds, GiveUp(k)
    PROVE  BackInv'
  <1>1. PICK yes \in BOOLEAN : yes = TRUE
    OBVIOUS
  <1>2. /\ InFlight(k) /\ call[k].at = "givingUp" /\ UNCHANGED guest /\ UNCHANGED facade
        /\ Finish(k, call[k], yes)
    BY <1>1 DEF GiveUp, InFlight
  <1>3. /\ ~At(k, {"restoring", "booting", "pausing"}) /\ ~Turning(k)
        /\ \A g \in Guests : ~GivesBack(k, g)
    BY <1>2, NotTurning DEF At, TurningAt, GivesBack, Held
  <1>. QED
    BY <1>2, <1>3, FacadeUnchanged, FinishBack

-----------------------------------------------------------------------------
(* ... that wake the computer *)

LEMMA OwnBack ==
    ASSUME AlwaysInv, AlwaysInv', BackInv, NEW k \in CallIds, Own(k)
    PROVE  BackInv'
  <1>1. /\ InFlight(k) /\ call[k].at = "owning" /\ guest' = Refenced(facade.active)
        /\ Go(k, call[k], "reading") /\ facade'.active = facade.active
    BY DEF Own, InFlight, AlwaysInv, TypeOK, FacadeType
  <1>2. TypeOK /\ call[k] \in CallType /\ ~call[k].aborted /\ facade.active \in Contexts
    BY Goes
  <1>3. Moved(k) /\ Carries(k, call[k], "reading")
    BY <1>1, <1>2, Names, GoMoves
  <1>4. /\ call'[k].kind = call[k].kind /\ call'[k].at = "reading" /\ call'[k].ctx = call[k].ctx
        /\ call'[k].aborted = call[k].aborted
    BY <1>3 DEF Carries
  <1>5. GuestsTyped /\ StatesKept /\ \A d, do, place : Posted(k, d, {}, do, place)
    BY <1>1, <1>2, RefencedPosts
  <1>6. CallStep(k, {}, "none") /\ StatesHold
    BY <1>3, <1>5 DEF CallStep, StatesKept, StatesHold
  <1>7. Unsettled'
    BY <1>4 DEF Unsettled, Turning, At
  <1>8. Marked
    BY <1>1, <1>2, <1>7, RefencedMarks DEF Marked
  <1>9. ~call'[k].aborted
    BY <1>2, <1>4, Zenon
  <1>10. Advance(k, {}, "none")
    BY <1>1, <1>4, <1>6, <1>8, <1>9 DEF Advance, CandidateKept, At, Besides
  <1>. QED
    BY <1>1, <1>4, <1>7, <1>10, ContinuedUnsettled

LEMMA GivesUpBack ==
    ASSUME AlwaysInv, AlwaysInv', BackInv, NEW k \in CallIds,
           OwnFails(k) \/ RestoreFailed(k) \/ Unbooted(k)
    PROVE  BackInv'
  <1>1. coord \in CoordType
    BY CoordTyped DEF AlwaysInv
  <1>2. CASE OwnFails(k)
    <2>1. [coord EXCEPT !.state[k] = "stopped"] \in CoordType
      BY <1>1 DEF CoordType
    <2>2. call[k].at = "owning" /\ InitFails(k, [coord EXCEPT !.state[k] = "stopped"])
      BY <1>2 DEF OwnFails
    <2>. QED
      BY <2>1, <2>2, InitFailsBack
  <1>3. CASE RestoreFailed(k) \/ Unbooted(k)
    <2>1. /\ call[k].at \in {"restoring", "resumingAll", "unbooting"} /\ call[k].asked = {}
          /\ InitFails(k, coord)
      BY <1>3 DEF RestoreFailed, Unbooted, Answered
    <2>. QED
      BY <1>1, <2>1, InitFailsBack
  <1>. QED
    BY <1>2, <1>3

\* A guest that is asked for a command will run it after those it already has.
LEMMA PostedLater ==
    ASSUME TypeOK, NEW k \in CallIds, NEW c \in Contexts, c = facade.active,
           NEW now, NEW place, NEW do, Posted(k, c, now, do, place),
           facade'.active = facade.active, NEW g \in Guests, g \in now,
           NEW i \in 0..Len(Mine(g))
    PROVE  Later(k, g, i, do)'
  <1>1. Len(Queue(c, g)) \in Nat /\ Mine(g) = Queue(c, g)
    BY QueueTyped DEF Mine
  <1>2. PICK n : n = Len(Queue(c, g)) + 1
    OBVIOUS
  <1>3. /\ Len(guest'[c][g].queue) = n /\ guest'[c][g].queue[n].do = do
        /\ guest'[c][g].queue[n].by = k
    BY <1>2 DEF Posted
  <1>4. Mine(g)' = guest'[c][g].queue /\ n \in 1..n /\ n > i
    BY <1>1, <1>2 DEF Mine, Queue
  <1>. QED
    BY <1>3, <1>4 DEF Later

\* A call that wakes the guests has all of them still to wake.
WakesAll(k) == \A g \in Guests : \A i \in 0..Len(Mine(g)) : Wakes(k, g, i)'

LEMMA WakesSees ==
    ASSUME NEW k \in CallIds, NEW now, NEW do, WakesAll(k), do # "shutdown",
           \A g \in Guests : ~Returns(k, g)
    PROVE  Sees(k, now, do)
  <1>1. \A g \in Guests : \A i \in 0..Len(Mine(g)) : Kept(g, i)'
    BY DEF WakesAll, Kept
  <1>. QED
    BY <1>1 DEF Sees

LEMMA WakeBack ==
    ASSUME AlwaysInv, AlwaysInv', BackInv, NEW k \in CallIds, Wake(k)
    PROVE  BackInv'
  <1>. DEFINE r == [call[k] EXCEPT !.ctx = facade.active]
  <1>1. InFlight(k) /\ call[k].at = "reading"
    BY DEF Wake, InFlight
  <1>2. /\ TypeOK /\ call[k] \in CallType /\ ~call[k].aborted /\ OneByOne
        /\ facade.active \in Contexts
    BY Goes
  <1>3. r \in CallType /\ r.kind = call[k].kind /\ r.ctx = facade.active /\ r.aborted = call[k].aborted
    BY <1>2 DEF CallType
  <1>4. ~r.aborted
    BY <1>2, <1>3, Zenon
  <1>5. /\ ~At(k, {"pausing", "restoring", "booting"}) /\ At(k, NoCommandsYet)
        /\ \A g \in Guests : ~Returns(k, g)
    BY <1>1 DEF At, NoCommandsYet, Returns, GivesBack, Restores, Held
  <1>6. PICK gs \in SUBSET Guests : gs = Guests
    OBVIOUS
  <1>7. CASE InitFails(k, coord)
    <2>1. coord \in CoordType
      BY <1>2, CoordTyped
    <2>. QED
      BY <1>1, <1>7, <2>1, InitFailsBack
  <1>8. ASSUME NEW now \in SUBSET Guests, NEW do, do # "shutdown", Advance(k, now, do), Moved(k),
               call'[k].kind = call[k].kind, WakesAll(k)
        PROVE  BackInv'
    <2>1. OneByOne'
      BY <1>1, <1>2, <1>8, OneByOneStays
    <2>2. Sees(k, now, do)
      BY <1>5, <1>8, WakesSees
    <2>. QED
      BY <1>8, <2>1, <2>2, AdvanceBack
  <1>9. CASE /\ Ask(k, r, r.ctx, Guests, "boot", "booting") /\ UNCHANGED facade
    <2>. HIDE DEF r
    <2>1. /\ Ask(k, r, r.ctx, gs, "boot", "booting") /\ "boot" \in AnyCommand
          /\ "booting" \in Awaits /\ Asks("booting", "boot") /\ facade'.active = facade.active
          /\ r.ctx \in {1, call[k].ctx, facade.active}
      BY <1>3, <1>6, <1>9, Names DEF Asks
    <2>2. /\ Advance(k, gs, "boot") /\ Moved(k) /\ Carries(k, r, "booting")
          /\ Posted(k, r.ctx, gs, "boot", "booting")
      BY <1>3, <1>4, <1>5, <2>1, AskAdvances
    <2>3. /\ call'[k].kind = call[k].kind /\ call'[k].ctx = facade.active /\ call'[k].at = "booting"
      BY <1>3, <2>2 DEF Carries
    <2>4. ASSUME NEW g \in Guests, NEW i \in 0..Len(Mine(g)) PROVE Wakes(k, g, i)'
      <3>1. Later(k, g, i, "boot")'
        BY <1>2, <1>3, <1>6, <2>1, <2>2, PostedLater
      <3>. QED
        BY <2>1, <2>3, <3>1 DEF Wakes, At
    <2>. QED
      BY <1>8, <2>2, <2>3, <2>4 DEF WakesAll
  <1>10. CASE /\ store.head # 0 /\ Source \in Readable /\ UNCHANGED facade
              /\ AskNext(k, [r EXCEPT !.gen = Source], r.ctx, Guests, "restore", "restoring",
                         store.gens[Source].mem)
    <2>1. Source \in 1..Len(store.gens)
      BY <1>10 DEF Readable
    <2>2. PICK n \in 1..Len(store.gens) : n = Source
      BY <2>1
    <2>3. store.gens[n] \in Record /\ n \in Nat
      BY <1>2, StoreTyped
    <2>4. PICK arg \in Memory : arg = store.gens[n].mem
      BY <2>3 DEF Record
    <2>. DEFINE s == [r EXCEPT !.gen = n]
    <2>5. s \in CallType /\ s.kind = r.kind /\ s.ctx = r.ctx /\ s.aborted = r.aborted
      BY <1>3, <2>3 DEF CallType
    <2>6. AskNext(k, s, r.ctx, Guests, "restore", "restoring", arg)
      BY <1>10, <2>2, <2>4
    <2>. HIDE DEF s, r
    <2>7. /\ AskNext(k, s, s.ctx, gs, "restore", "restoring", arg) /\ facade'.active = facade.active
          /\ "restore" \in {"pause", "restore"} /\ "restoring" \in Awaits
          /\ Asks("restoring", "restore") /\ s.ctx = facade.active
          /\ s.ctx \in {1, call[k].ctx, facade.active} /\ s.kind = call[k].kind
      BY <1>3, <1>6, <1>10, <2>5, <2>6, Names DEF Asks
    <2>8. ~s.aborted
      BY <1>4, <2>5, Zenon
    <2>9. PICK now \in SUBSET gs :
             /\ Advance(k, now, "restore") /\ Moved(k) /\ Carries(k, s, "restoring")
             /\ call'[k].todo = gs /\ call'[k].asked = now
             /\ Posted(k, s.ctx, now, "restore", "restoring")
      BY <1>5, <2>5, <2>7, <2>8, AskNextAdvances
    <2>10. /\ call'[k].kind = call[k].kind /\ call'[k].ctx = facade.active
           /\ call'[k].at = "restoring" /\ now \in SUBSET Guests
      BY <2>7, <2>9 DEF Carries
    <2>11. ASSUME NEW g \in Guests, NEW i \in 0..Len(Mine(g)) PROVE Wakes(k, g, i)'
      <3>1. g \in now => Later(k, g, i, "restore")'
        BY <1>2, <2>7, <2>9, PostedLater
      <3>. QED
        BY <1>6, <2>7, <2>9, <2>10, <3>1 DEF Wakes, At
    <2>. QED
      BY <1>8, <2>9, <2>10, <2>11 DEF WakesAll
  <1>. QED
    BY <1>7, <1>9, <1>10 DEF Wake

LEMMA RestoreNextBack ==
    ASSUME AlwaysInv, AlwaysInv', BackInv, NEW k \in CallIds, RestoreNext(k)
    PROVE  BackInv'
  <1>. DEFINE r == call[k]
  <1>1. /\ InFlight(k) /\ UNCHANGED facade /\ facade'.active = facade.active
        /\ r.at = "restoring" /\ r.asked = {} /\ ~r.failed
    BY DEF RestoreNext, InFlight, Answered
  <1>2. /\ TypeOK /\ r \in CallType /\ ~r.aborted /\ OneByOne
        /\ r.ctx \in Contexts /\ r.todo \in SUBSET Guests
    BY Goes DEF CallType
  <1>3. /\ At(k, {"pausing", "restoring", "booting"}) => call[k].asked = {}
        /\ ~Turning(k) /\ FacadeHolds(k) /\ r.ctx \in {1, call[k].ctx, facade.active}
        /\ \A g \in Guests : ~GivesBack(k, g)
    BY <1>1, FacadeUnchanged DEF Turning, Closing, Failing, At, GivesBack, Held
  <1>4. ASSUME NEW g \in Guests, NEW i \in 0..Len(Mine(g)), Wakes(k, g, i)
        PROVE  r.ctx = facade.active /\ g \in r.todo
    BY <1>1, <1>4 DEF Wakes, At
  <1>5. CASE r.todo # {}
    <2>1. AskNext(k, r, r.ctx, r.todo, "restore", "restoring", store.gens[r.gen].mem)
      BY <1>5 DEF RestoreNext
    <2>2. PICK arg \in Memory : arg = store.gens[r.gen].mem
      <3>1. r.gen \in 1..Len(store.gens)
        BY <1>1 DEF AlwaysInv, PlacesFit, At
      <3>2. store.gens[r.gen] \in Record
        BY <1>2, <3>1, StoreTyped
      <3>. QED
        BY <3>2 DEF Record
    <2>. DEFINE gs == r.todo
    <2>3. /\ AskNext(k, r, r.ctx, gs, "restore", "restoring", arg) /\ gs \in SUBSET Guests
          /\ "restore" \in {"pause", "restore"} /\ "restoring" \in Awaits
          /\ Asks("restoring", "restore")
      BY <1>2, <2>1, <2>2, Names DEF Asks
    <2>4. /\ r \in CallType /\ ~r.aborted /\ facade'.active = facade.active
          /\ r.ctx \in {1, call[k].ctx, facade.active}
          /\ At(k, {"pausing", "restoring", "booting"}) => call[k].asked = {}
      BY <1>1, <1>2, <1>3
    <2>. HIDE DEF r, gs
    <2>5. PICK now \in SUBSET gs :
             /\ Advance(k, now, "restore") /\ Moved(k) /\ Carries(k, r, "restoring")
             /\ call'[k].todo = gs /\ call'[k].asked = now
             /\ Posted(k, r.ctx, now, "restore", "restoring")
      BY <2>3, <2>4, AskNextAdvances
    <2>6. /\ call'[k].kind = call[k].kind /\ call'[k].ctx = r.ctx
          /\ call'[k].at = "restoring" /\ now \in SUBSET Guests
      BY <2>3, <2>5 DEF Carries, r
    <2>7. OneByOne' /\ (Unsettled => Unsettled')
      BY <1>1, <1>2, <1>3, <2>5, <2>6, ContinuedSettles
    <2>8. ASSUME NEW g \in Guests, NEW i \in 0..Len(Mine(g)), Unsettled \/ Wakes(k, g, i)
          PROVE  Kept(g, i)'
      <3>1. CASE Wakes(k, g, i)
        <4>1. r.ctx = facade.active /\ g \in gs
          BY <1>4, <3>1 DEF gs
        <4>2. g \in now => Later(k, g, i, "restore")'
          BY <1>1, <1>2, <2>5, <4>1, PostedLater
        <4>3. Wakes(k, g, i)'
          BY <2>4, <2>5, <2>6, <4>1, <4>2 DEF Wakes, At
        <4>. QED
          BY <4>3 DEF Kept
      <3>. QED
        BY <2>7, <2>8, <3>1 DEF Kept
    <2>9. ASSUME NEW g \in Guests, guest[facade.active][g].state = "paused", Returns(k, g)
          PROVE  Covered(g)'
      <3>1. Restores(k)
        BY <1>3, <2>9 DEF Returns
      <3>2. Restores(k)'
        BY <2>4, <2>6, <3>1 DEF Restores, At, r
      <3>3. guest'[facade'.active][g].state = "paused"
        BY <2>5, <2>6, <2>9, MineStay
      <3>. QED
        BY <3>2, <3>3 DEF Covered, Returns
    <2>10. Sees(k, now, "restore")
      BY <2>8, <2>9 DEF Sees
    <2>. QED
      BY <2>5, <2>6, <2>7, <2>10, AdvanceBack
  <1>6. CASE r.todo = {}
    <2>. DEFINE gs == In(r.ctx, {"paused"})
    <2>1. /\ Ask(k, r, r.ctx, gs, "resume", "resumingAll") /\ gs \in SUBSET Guests
          /\ "resume" \in AnyCommand /\ "resumingAll" \in Awaits /\ Asks("resumingAll", "resume")
      BY <1>6, Inside, Names DEF RestoreNext, Asks
    <2>2. \A g \in Guests :
             guest[facade.active][g].state = "paused" /\ r.ctx = facade.active => g \in gs
      BY DEF In
    <2>3. /\ r \in CallType /\ ~r.aborted /\ facade'.active = facade.active
          /\ r.ctx \in {1, call[k].ctx, facade.active}
          /\ At(k, {"pausing", "restoring", "booting"}) => call[k].asked = {}
      BY <1>1, <1>2, <1>3
    <2>. HIDE DEF r, gs
    <2>4. /\ Advance(k, gs, "resume") /\ Moved(k) /\ Carries(k, r, "resumingAll")
          /\ Posted(k, r.ctx, gs, "resume", "resumingAll")
      BY <2>1, <2>3, AskAdvances
    <2>5. call'[k].kind = call[k].kind
      BY <2>4 DEF Carries, r
    <2>6. OneByOne' /\ (Unsettled => Unsettled')
      BY <1>1, <1>2, <1>3, <2>4, <2>5, ContinuedSettles
    <2>7. ASSUME NEW g \in Guests, NEW i \in 0..Len(Mine(g)), Unsettled \/ Wakes(k, g, i)
          PROVE  Kept(g, i)'
      BY <1>4, <1>6, <2>6, <2>7 DEF Kept
    <2>8. ASSUME NEW g \in Guests, guest[facade.active][g].state = "paused", Returns(k, g)
          PROVE  Covered(g)'
      <3>1. r.ctx = facade.active /\ g \in gs
        BY <1>3, <2>2, <2>8 DEF Returns, Restores, r
      <3>2. ResumeAsked(g)'
        BY <1>2, <2>3, <2>4, <3>1, ResumesAsked
      <3>3. guest'[facade'.active][g].state = "paused"
        BY <2>1, <2>4, <2>8, MineStay
      <3>. QED
        BY <3>2, <3>3 DEF Covered
    <2>9. Sees(k, gs, "resume")
      BY <2>7, <2>8 DEF Sees
    <2>. QED
      BY <2>1, <2>4, <2>6, <2>9, AdvanceBack
  <1>. QED
    BY <1>5, <1>6

LEMMA BootedBack ==
    ASSUME AlwaysInv, AlwaysInv', BackInv, NEW k \in CallIds, Booted(k)
    PROVE  BackInv'
  <1>. DEFINE r == call[k]
  <1>1. InFlight(k) /\ r.at = "booting" /\ r.asked = {}
    BY DEF Booted, InFlight, Answered
  <1>2. TypeOK /\ r \in CallType /\ Fits(r.kind, r.at) /\ ~r.aborted /\ OneByOne /\ AllAwaited
    BY Goes DEF BackInv
  <1>3. r.kind = "initialize" /\ (At(k, {"pausing", "restoring", "booting"}) => call[k].asked = {})
    BY <1>1, <1>2 DEF Fits, Capturers, Closers
  <1>4. CASE r.failed
    <2>1. PICK gs \in SUBSET Guests : gs = NotStopped(r.ctx)
      BY Inside
    <2>2. /\ Ask(k, r, r.ctx, gs, "shutdown", "unbooting") /\ facade'.active = facade.active
          /\ "shutdown" \in AnyCommand /\ "unbooting" \in Awaits /\ Asks("unbooting", "shutdown")
          /\ r.ctx \in {1, call[k].ctx, facade.active}
      BY <1>4, <2>1, Names DEF Booted, Asks
    <2>. HIDE DEF r
    <2>3. Advance(k, gs, "shutdown") /\ Carries(k, r, "unbooting")
      BY <1>2, <1>3, <2>2, AskAdvances
    <2>4. call'[k].kind = call[k].kind /\ call'[k].at = "unbooting"
      BY <2>3 DEF Carries, r
    <2>5. Unsettled'
      BY <2>4 DEF Unsettled, Turning, Failing, At
    <2>. QED
      BY <1>1, <2>3, <2>4, <2>5, ContinuedUnsettled
  <1>5. CASE ~r.failed
    <2>1. PICK no \in BOOLEAN : no = FALSE
      OBVIOUS
    <2>2. Finish(k, r, no) /\ facade' = [facade EXCEPT !.life = "hot"] /\ UNCHANGED guest
      BY <1>5, <2>1 DEF Booted
    <2>3. FacadeHolds(k)
      <3>1. "hot" \in AnyLife
        BY DEF AnyLife
      <3>. QED
        BY <1>1, <1>2, <1>3, <2>2, <3>1, FacadeNoted DEF Wakers
    <2>4. ~Turning(k) /\ \A g \in Guests : ~Returns(k, g)
      BY <1>1, <1>5 DEF Turning, Closing, Failing, At, Returns, Restores, GivesBack, Held
    <2>. HIDE DEF r
    <2>5. /\ Advance(k, {}, "none") /\ Moved(k) /\ call'[k].kind = r.kind
      BY <1>2, <1>3, <2>2, <2>3, FinishAdvances DEF FacadeHolds
    <2>6. OneByOne' /\ (Unsettled => Unsettled')
      BY <1>1, <1>2, <2>3, <2>4, <2>5, ContinuedSettles DEF r
    <2>7. ASSUME NEW g \in Guests, NEW i \in 0..Len(Mine(g)) PROVE ~Wakes(k, g, i)
      <3>1. facade.active \in Contexts
        BY <1>2 DEF TypeOK, FacadeType
      <3>2. \A j \in 1..Len(Mine(g)) : Mine(g)[j].do = "boot" => g \in call[Mine(g)[j].by].asked
        BY <1>2, <3>1 DEF AllAwaited, Heard, Mine
      <3>. QED
        BY <1>1, <3>2 DEF Wakes, Later, At, r
    <2>8. Sees(k, {}, "none")
      BY <2>4, <2>6, <2>7 DEF Sees, Kept
    <2>. QED
      BY <2>5, <2>6, <2>8, AdvanceBack
  <1>. QED
    BY <1>4, <1>5

-----------------------------------------------------------------------------
(* ... and the candidate of an import *)

LEMMA CandidateStates ==
    ASSUME TypeOK, NEW c \in Contexts, c # facade.active,
           NEW state \in {"running", "paused", "stopped"}, guest' = Candidate(c, state)
    PROVE  /\ StatesHold /\ Marked /\ guest'[c][1].state = state
           /\ \A d \in Contexts, g \in Guests : guest'[d][g].queue = Queue(d, g)
  <1>. DEFINE m(g) == [guest[c][g] EXCEPT !.state = state]
  <1>1. guest' = [guest EXCEPT ![c] = [g \in Guests |-> m(g)]]
    BY DEF Candidate
  <1>2. guest \in [Contexts -> [Guests -> GuestType]] /\ 1 \in Guests
    BY Constants_ DEF TypeOK
  <1>3. ASSUME NEW g \in Guests PROVE m(g).state = state /\ m(g).queue = Queue(c, g)
    <2>1. guest[c][g] \in GuestType
      BY <1>2, <1>3
    <2>. QED
      BY <2>1 DEF GuestType, Queue
  <1>. HIDE DEF m
  <1>4. \A d \in Contexts, g \in Guests :
           /\ guest'[d][g].queue = Queue(d, g)
           /\ guest'[d][g].state = IF d = c THEN state ELSE guest[d][g].state
    BY <1>1, <1>2, <1>3 DEF Queue
  <1>5. StatesHold
    BY <1>4 DEF StatesHold
  <1>6. Marked
    BY <1>4 DEF Marked
  <1>. QED
    BY <1>2, <1>4, <1>5, <1>6

LEMMA CandidateBack ==
    ASSUME AlwaysInv, AlwaysInv', BackInv, NEW k \in CallIds,
           call[k].at \in {"staging", "pausingCandidate", "publishing"},
           NEW c \in Contexts, c # facade.active,
           NEW state \in {"running", "paused", "stopped"}, guest' = Candidate(c, state),
           UNCHANGED facade, NEW r \in CallType,
           NEW place \in {"pausingCandidate", "publishing", "unstaging"}, Go(k, r, place),
           r.aborted = call[k].aborted, r.kind = call[k].kind, r.ctx = call[k].ctx,
           r.ids = call[k].ids,
           place # "unstaging" =>
              \/ At(k, Besides) /\ r.cand = call[k].cand
              \/ ~Made(c) /\ r.cand = c
    PROVE  BackInv'
  <1>1. TypeOK /\ ~call[k].aborted /\ place \in Awaits /\ InFlight(k)
    BY Goes, Names DEF InFlight
  <1>2. Moved(k) /\ Carries(k, r, place)
    BY <1>1, GoMoves
  <1>3. /\ StatesHold /\ Marked /\ guest'[c][1].state # "absent"
    BY <1>1, CandidateStates
  <1>4. GuestsTyped /\ Posted(k, call'[k].ctx, {}, "none", call'[k].at)
    BY <1>1, CandidatePosts
  <1>5. CallStep(k, {}, "none")
    BY <1>2, <1>4 DEF CallStep
  <1>6. ~call'[k].aborted
    <2>1. call'[k].aborted = call[k].aborted
      BY <1>2 DEF Carries
    <2>. QED
      BY <1>1, <2>1, Zenon
  <1>7. /\ call'[k].at = place /\ call'[k].ctx = call[k].ctx /\ call'[k].kind = call[k].kind
        /\ call'[k].ids = call[k].ids /\ call'[k].cand = r.cand
    BY <1>2 DEF Carries
  <1>8. CandidateKept(k)
    BY <1>3, <1>7 DEF CandidateKept, Besides
  <1>9. Advance(k, {}, "none")
    BY <1>3, <1>5, <1>6, <1>7, <1>8 DEF Advance, At
  <1>10. FacadeHolds(k) /\ ~Turning(k) /\ ~At(k, {"restoring", "booting"})
    BY FacadeUnchanged, NotTurning DEF At, TurningAt
  <1>11. ASSUME NEW g \in Guests, GivesBack(k, g) PROVE GivesBack(k, g)'
    BY <1>7, <1>11 DEF GivesBack, At, Held
  <1>12. Plain(k, {}, "none")
    BY <1>10, <1>11 DEF Plain
  <1>. QED
    BY <1>1, <1>7, <1>9, <1>10, <1>12, ContinuedBack

LEMMA StagedBack ==
    ASSUME AlwaysInv, AlwaysInv', BackInv, NEW k \in CallIds, Staged(k)
    PROVE  BackInv'
  <1>1. InFlight(k) /\ call[k].at = "staging" /\ UNCHANGED facade
    BY DEF Staged, InFlight
  <1>2. TypeOK /\ call[k] \in CallType
    BY Goes
  <1>3. ASSUME NEW c \in Contexts, guest[c][1].state = "absent", guest' = Candidate(c, "running"),
               Go(k, [call[k] EXCEPT !.cand = c], "pausingCandidate")
        PROVE  BackInv'
    <2>. DEFINE r == [call[k] EXCEPT !.cand = c]
    <2>1. c \in Nat
      BY Constants_ DEF Contexts
    <2>2. /\ r \in CallType /\ r.kind = call[k].kind /\ r.ctx = call[k].ctx
          /\ r.ids = call[k].ids /\ r.aborted = call[k].aborted /\ r.cand = c
      BY <1>2, <2>1 DEF CallType
    <2>3. Go(k, r, "pausingCandidate")
      BY <1>3
    <2>. HIDE DEF r
    <2>4. ~Made(c) /\ c # facade.active
      BY <1>3 DEF Made, BackInv, ContextsMade
    <2>. QED
      BY <1>1, <1>3, <2>2, <2>3, <2>4, CandidateBack
  <1>4. CASE Go(k, call[k], "unstaging") /\ UNCHANGED guest
    <2>1. "unstaging" \in Awaits /\ "unstaging" \in Held /\ "unstaging" \notin Besides
          /\ FacadeHolds(k)
      BY <1>1, FacadeUnchanged, Names DEF Held, Besides
    <2>2. /\ ~At(k, {"restoring", "booting"}) /\ ~Turning(k)
          /\ At(k, {"pausing"}) => call[k].asked = {}
      BY <1>1, NotTurning DEF At, TurningAt
    <2>. QED
      BY <1>1, <1>2, <1>4, <2>1, <2>2, GoBack
  <1>. QED
    BY <1>3, <1>4 DEF Staged

LEMMA CandidateFailsBack ==
    ASSUME AlwaysInv, AlwaysInv', BackInv, NEW k \in CallIds,
           call[k].at \in {"pausingCandidate", "publishing"}, UNCHANGED facade,
           NEW r \in CallType, CandidateFails(k, r),
           r.aborted = call[k].aborted, r.kind = call[k].kind, r.ctx = call[k].ctx,
           r.ids = call[k].ids, r.cand = call[k].cand
    PROVE  BackInv'
  <1>1. r.cand \in Contexts /\ r.cand # facade.active
    BY DEF AlwaysInv, PlacesFit, At, BackInv, CandidatesApart, Besides
  <1>2. "unstaging" \in {"pausingCandidate", "publishing", "unstaging"}
        /\ "stopped" \in {"running", "paused", "stopped"}
    OBVIOUS
  <1>3. guest' = Candidate(r.cand, "stopped") /\ Go(k, r, "unstaging")
    BY DEF CandidateFails
  <1>. QED
    BY <1>1, <1>2, <1>3, CandidateBack

LEMMA CandidatePausedBack ==
    ASSUME AlwaysInv, AlwaysInv', BackInv, NEW k \in CallIds, CandidatePaused(k)
    PROVE  BackInv'
  <1>. DEFINE mem == [g \in Guests |-> guest[call[k].cand][g].mem]
              r == [call[k] EXCEPT !.head = store.head, !.token = facade.token,
                                   !.mem = mem, !.disk = mem]
  <1>1. /\ UNCHANGED facade /\ call[k].at = "pausingCandidate"
        /\ \/ CandidateFails(k, r)
           \/ Go(k, r, "publishing") /\ guest' = Candidate(r.cand, "paused")
    BY DEF CandidatePaused
  <1>2. TypeOK /\ call[k] \in CallType
    BY Goes
  <1>3. call[k].cand \in Contexts /\ call[k].cand # facade.active /\ At(k, Besides)
    BY <1>1 DEF AlwaysInv, PlacesFit, At, BackInv, CandidatesApart, Besides
  <1>4. mem \in Memory /\ store.head \in Nat /\ facade.token \in Nat
    BY <1>2, <1>3 DEF TypeOK, GuestType, Memory, FacadeType
  <1>. HIDE DEF mem
  <1>5. /\ r \in CallType /\ r.kind = call[k].kind /\ r.ctx = call[k].ctx
        /\ r.ids = call[k].ids /\ r.cand = call[k].cand /\ r.aborted = call[k].aborted
    BY <1>2, <1>4 DEF CallType
  <1>. HIDE DEF r
  <1>6. CASE CandidateFails(k, r)
    BY <1>1, <1>5, <1>6, CandidateFailsBack
  <1>7. CASE Go(k, r, "publishing") /\ guest' = Candidate(r.cand, "paused")
    <2>1. "publishing" \in {"pausingCandidate", "publishing", "unstaging"}
          /\ "paused" \in {"running", "paused", "stopped"} /\ r.cand \in Contexts
          /\ r.cand # facade.active
      BY <1>3, <1>5
    <2>. QED
      BY <1>1, <1>3, <1>5, <1>7, <2>1, CandidateBack
  <1>. QED
    BY <1>1, <1>6, <1>7

LEMMA CandidateCommitBack ==
    ASSUME AlwaysInv, AlwaysInv', BackInv, NEW k \in CallIds, CandidateCommit(k)
    PROVE  BackInv'
  <1>. DEFINE n == Len(store.gens) + 1
              done == [call[k] EXCEPT !.gen = n]
  <1>1. /\ InFlight(k) /\ call[k].at = "publishing" /\ UNCHANGED facade
        /\ \/ Go(k, done, "adopting") /\ UNCHANGED guest
           \/ CandidateFails(k, call[k])
    BY DEF CandidateCommit, InFlight
  <1>2. TypeOK /\ call[k] \in CallType
    BY Goes
  <1>3. n \in Nat
    BY <1>2, StoreTyped
  <1>. HIDE DEF n
  <1>4. /\ done \in CallType /\ done.kind = call[k].kind /\ done.ctx = call[k].ctx
        /\ done.ids = call[k].ids /\ done.aborted = call[k].aborted /\ done.cand = call[k].cand
    BY <1>2, <1>3 DEF CallType
  <1>. HIDE DEF done
  <1>5. CASE CandidateFails(k, call[k])
    BY <1>1, <1>2, <1>5, CandidateFailsBack
  <1>6. CASE Go(k, done, "adopting") /\ UNCHANGED guest
    <2>1. /\ "adopting" \in Awaits /\ "adopting" \in Held /\ At(k, Besides)
          /\ FacadeHolds(k)
      BY <1>1, FacadeUnchanged, Names DEF Held, Besides, At
    <2>2. /\ ~At(k, {"restoring", "booting"}) /\ ~Turning(k)
          /\ At(k, {"pausing"}) => call[k].asked = {}
      BY <1>1, NotTurning DEF At, TurningAt
    <2>. QED
      BY <1>1, <1>4, <1>6, <2>1, <2>2, GoBack
  <1>. QED
    BY <1>1, <1>5, <1>6

LEMMA AdoptedStates ==
    ASSUME TypeOK, NEW k \in CallIds, NEW c \in Contexts, NEW d \in Contexts, c # d,
           NEW now \in SUBSET Guests, NEW running, running = Candidate(d, "running"),
           guest' = [running EXCEPT ![c] =
                       Queued(c, now, "shutdown", k, "retiring", NoMemory)[c]]
    PROVE  /\ Unmarked
           /\ \A g \in Guests : guest'[d][g].state = "running" /\ guest'[d][g].queue = Queue(d, g)
           /\ \A e \in Contexts, g \in Guests :
                 /\ e # d => guest'[e][g].state = guest[e][g].state
                 /\ e # c => guest'[e][g].queue = Queue(e, g)
  <1>. DEFINE cmd == [do |-> "shutdown", by |-> k, place |-> "retiring", arg |-> 0,
                      unknown |-> FALSE, void |-> FALSE]
              old(g) == IF g \in now THEN [guest[c][g] EXCEPT !.queue = Append(@, cmd)]
                        ELSE guest[c][g]
              new(g) == [guest[d][g] EXCEPT !.state = "running"]
  <1>1. guest \in [Contexts -> [Guests -> GuestType]]
    BY DEF TypeOK
  <1>2. PICK no \in BOOLEAN : no = FALSE
    OBVIOUS
  <1>3. cmd \in Command /\ ~cmd.unknown
    <2>1. cmd = [do |-> "shutdown", by |-> k, place |-> "retiring", arg |-> 0,
                 unknown |-> no, void |-> no]
      BY <1>2
    <2>2. [do |-> "shutdown", by |-> k, place |-> "retiring", arg |-> 0,
           unknown |-> no, void |-> no] \in Command
      BY DEF Command, AnyCommand, Awaits
    <2>. QED
      BY <1>2, <2>1, <2>2
  <1>4. Queued(c, now, "shutdown", k, "retiring", NoMemory)[c] = [g \in Guests |-> old(g)]
    <2>1. \A g \in Guests : NoMemory[g] = 0
      BY DEF NoMemory
    <2>. QED
      BY <1>1, <2>1 DEF Queued
  <1>. HIDE DEF cmd
  <1>5. ASSUME NEW g \in Guests
        PROVE  /\ new(g).state = "running" /\ new(g).queue = Queue(d, g)
               /\ old(g).state = guest[c][g].state
               /\ old(g).queue = IF g \in now THEN Append(Queue(c, g), cmd) ELSE Queue(c, g)
    <2>1. guest[c][g] \in GuestType /\ guest[d][g] \in GuestType
      BY <1>1, <1>5
    <2>. QED
      BY <2>1 DEF GuestType, Queue
  <1>. HIDE DEF old, new
  <1>6. running = [guest EXCEPT ![d] = [g \in Guests |-> new(g)]]
    BY DEF Candidate, new
  <1>7. guest' = [running EXCEPT ![c] = [g \in Guests |-> old(g)]]
    BY <1>4
  <1>8. \A e \in Contexts, g \in Guests :
           guest'[e][g] = IF e = c THEN old(g) ELSE IF e = d THEN new(g) ELSE guest[e][g]
    BY <1>1, <1>6, <1>7
  <1>9. /\ \A g \in Guests : guest'[d][g].state = "running" /\ guest'[d][g].queue = Queue(d, g)
        /\ \A e \in Contexts, g \in Guests :
              /\ e # d => guest'[e][g].state = guest[e][g].state
              /\ e # c => guest'[e][g].queue = Queue(e, g)
              /\ e = c => guest'[e][g].queue =
                    IF g \in now THEN Append(Queue(e, g), cmd) ELSE Queue(e, g)
    BY <1>5, <1>8 DEF Queue
  <1>10. ASSUME NEW e \in Contexts, NEW g \in Guests, NEW i \in 1..Len(guest'[e][g].queue),
                guest'[e][g].queue[i].unknown
         PROVE  i \in 1..Len(Queue(e, g)) /\ Queue(e, g)[i].unknown
    <2>1. CASE e = c /\ g \in now
      <3>1. guest'[e][g].queue = Append(Queue(e, g), cmd) /\ Queue(e, g) \in Seq(Command)
        <4>1. Queue(e, g) \in Seq(Command)
          BY QueueTyped
        <4>2. guest'[e][g].queue = Append(Queue(e, g), cmd)
          BY <1>9, <2>1
        <4>. QED
          BY <4>1, <4>2
      <3>2. /\ Len(guest'[e][g].queue) = Len(Queue(e, g)) + 1
            /\ guest'[e][g].queue[Len(Queue(e, g)) + 1] = cmd
            /\ \A n \in 1..Len(Queue(e, g)) : guest'[e][g].queue[n] = Queue(e, g)[n]
            /\ Len(Queue(e, g)) \in Nat
        BY <1>3, <3>1, AppendedCommand
      <3>3. i # Len(Queue(e, g)) + 1
        BY <1>3, <1>10, <3>2
      <3>4. i \in 1..Len(Queue(e, g))
        BY <3>2, <3>3
      <3>. QED
        BY <1>10, <3>2, <3>4
    <2>2. CASE ~(e = c /\ g \in now)
      BY <1>9, <1>10, <2>2
    <2>. QED
      BY <2>1, <2>2
  <1>. QED
    BY <1>9, <1>10 DEF Unmarked

\* The active guests are then those of the candidate, which run and have no commands.
LEMMA AdoptBack ==
    ASSUME AlwaysInv, AlwaysInv', BackInv, Harmless', NEW k \in CallIds, Adopt(k)
    PROVE  BackInv'
  <1>. DEFINE r == call[k]
              old == Queued(r.ctx, NotStopped(r.ctx), "shutdown", k, "retiring", NoMemory)
              s == [r EXCEPT !.at = "retiring", !.failed = r.aborted,
                             !.asked = IF r.aborted THEN {} ELSE NotStopped(r.ctx)]
  <1>1. /\ TypeOK /\ call[k] \in CallType /\ ~call[k].aborted /\ Fits(call[k].kind, call[k].at)
        /\ call[k].at = "adopting" /\ At(k, Besides) /\ InFlight(k)
    BY Goes DEF Adopt, At, Besides, InFlight
  <1>2. /\ r.cand \in Contexts /\ r.ctx \in Contexts /\ call[k].kind = "importImage"
    BY <1>1 DEF AlwaysInv, PlacesFit, At, CallType, Fits, Capturers, Closers
  <1>3. /\ OneByOne /\ Unaborted /\ AllAwaited /\ MarkedFirst /\ OneBootEach /\ PausesFit
        /\ ContextsMade /\ CandidatesApart
    BY DEF BackInv
  <1>4. /\ Made(r.cand) /\ Unasked(r.cand) /\ r.cand # 1 /\ r.cand # facade.active
        /\ \A j \in CallIds : /\ call[j].ctx # r.cand
                              /\ At(j, Besides) /\ call[j].cand = r.cand => j = k
    BY <1>1, <1>3 DEF CandidatesApart
  <1>5. ~Fault("resume")
    BY DEF Fault, Harmless
  <1>6. /\ facade' = [facade EXCEPT !.active = r.cand, !.saved = "clean"]
        /\ guest' = [Candidate(r.cand, "running") EXCEPT ![r.ctx] = old[r.ctx]]
        /\ call' = [call EXCEPT ![k] = s]
    BY <1>1, <1>5 DEF Adopt
  <1>7. facade'.active = r.cand
    BY <1>1, <1>6 DEF TypeOK, FacadeType
  <1>8. PICK now \in SUBSET Guests : now = NotStopped(r.ctx)
    BY Inside
  <1>9. /\ s \in CallType /\ s.at = "retiring" /\ s.kind = r.kind /\ s.ctx = r.ctx
        /\ s.cand = r.cand /\ s.aborted = r.aborted
    BY <1>1, <1>8, Names DEF CallType
  <1>10. s.asked = now
    BY <1>1, <1>8
  <1>. HIDE DEF s
  <1>11. Moved(k) /\ call'[k] = s
    BY <1>1, <1>6, <1>9 DEF TypeOK, Moved
  <1>12. /\ GuestsTyped /\ Posted(k, r.ctx, now, "shutdown", "retiring") /\ Unmarked
         /\ \A g \in Guests : /\ guest'[r.cand][g].state = "running"
                              /\ guest'[r.cand][g].queue = Queue(r.cand, g)
         /\ \A e \in Contexts, g \in Guests :
               /\ e # r.cand => guest'[e][g].state = guest[e][g].state
               /\ e # r.ctx => guest'[e][g].queue = Queue(e, g)
    <2>1. r.ctx # r.cand
      BY <1>4
    <2>. HIDE DEF r
    <2>2. PICK running : running = Candidate(r.cand, "running")
      OBVIOUS
    <2>3. guest' = [running EXCEPT ![r.ctx] =
                      Queued(r.ctx, now, "shutdown", k, "retiring", NoMemory)[r.ctx]]
      BY <1>6, <1>8, <2>2
    <2>4. GuestsTyped /\ Posted(k, r.ctx, now, "shutdown", "retiring")
      BY <1>1, <1>2, <2>2, <2>3, AdoptedPosts
    <2>5. /\ Unmarked
          /\ \A g \in Guests : /\ guest'[r.cand][g].state = "running"
                               /\ guest'[r.cand][g].queue = Queue(r.cand, g)
          /\ \A e \in Contexts, g \in Guests :
                /\ e # r.cand => guest'[e][g].state = guest[e][g].state
                /\ e # r.ctx => guest'[e][g].queue = Queue(e, g)
      BY <1>1, <1>2, <2>1, <2>2, <2>3, AdoptedStates
    <2>. QED
      BY <2>4, <2>5
  <1>13. ~call'[k].aborted
    BY <1>1, <1>9, <1>11, Zenon
  <1>14. Stepping(k, now, "shutdown")
    <2>1. CallStep(k, now, "shutdown")
      BY <1>9, <1>10, <1>11, <1>12 DEF CallStep, Asks
    <2>2. Marked
      BY <1>12 DEF Unmarked, Marked
    <2>. QED
      BY <1>1, <1>9, <1>11, <1>13, <2>1, <2>2 DEF Stepping, At
  <1>15. Unaborted' /\ AllAwaited' /\ MarkedFirst' /\ OneBootEach' /\ PausesFit'
    BY <1>3, <1>14, StepUnaborted, StepAwaited, StepMarks, StepBoots, StepPauses
  <1>16. OneByOne'
    BY <1>1, <1>2, <1>3, <1>9, <1>11, OneByOneStays
  <1>17. \A j \in CallIds : call'[j].ctx = call[j].ctx /\ call'[j].cand = call[j].cand
    BY <1>9, <1>11 DEF Moved
  <1>18. \A c \in Contexts : Made(c) => Made(c)'
    BY <1>12, Constants_ DEF Made
  <1>19. \A c \in Contexts : Unasked(c) /\ c # r.ctx => Unasked(c)'
    BY <1>12 DEF Unasked, Queue
  <1>20. ContextsMade'
    <2>1. \A c \in Contexts : (Made(c) \/ Unasked(c))'
      <3>. SUFFICES ASSUME NEW c \in Contexts, ~Made(c)' PROVE Unasked(c)'
        BY Zenon
      <3>. QED
        BY <1>3, <1>18, <1>19 DEF ContextsMade
    <2>2. ASSUME NEW j \in CallIds PROVE Made(call[j].ctx)'
      <3>1. PICK c \in Contexts : c = call[j].ctx
        BY <1>1 DEF TypeOK, CallType
      <3>2. Made(c)'
        BY <1>3, <1>18, <3>1 DEF ContextsMade
      <3>3. c = call'[j].ctx
        BY <1>17, <3>1
      <3>. QED
        BY <3>2, <3>3
    <2>3. Made(1)'
      BY <1>3, <1>18, Constants_ DEF ContextsMade
    <2>4. PICK c \in Contexts : c = r.cand
      BY <1>2
    <2>5. Made(c)' /\ c = facade'.active
      BY <1>4, <1>7, <1>18, <2>4
    <2>6. (Made(facade.active))'
      BY <2>5
    <2>. QED
      BY <2>1, <2>2, <2>3, <2>6 DEF ContextsMade
  <1>21. CandidatesApart'
    <2>1. \A j \in CallIds : At(j, Besides)' => At(j, Besides) /\ j # k /\ call[j].cand \in Contexts
      BY <1>9, <1>11 DEF Moved, At, Besides, AlwaysInv, PlacesFit
    <2>2. ASSUME NEW j \in CallIds, At(j, Besides)', NEW c \in Contexts, c = call'[j].cand
          PROVE  /\ Made(c)' /\ Unasked(c)' /\ c # 1 /\ c # facade'.active
                 /\ \A i \in CallIds : call'[i].ctx # c
      <3>1. c = call[j].cand /\ At(j, Besides) /\ j # k
        BY <1>17, <2>1, <2>2
      <3>2. /\ Made(c) /\ Unasked(c) /\ c # 1 /\ \A i \in CallIds : call[i].ctx # c
        BY <1>3, <3>1 DEF CandidatesApart
      <3>3. c # r.cand
        BY <1>4, <3>1
      <3>. QED
        BY <1>7, <1>17, <1>18, <1>19, <3>2, <3>3
    <2>3. ASSUME NEW i \in CallIds, NEW j \in CallIds, At(i, Besides)', At(j, Besides)',
                 call'[i].cand = call'[j].cand
          PROVE  i = j
      BY <1>3, <1>17, <2>1, <2>3 DEF CandidatesApart
    <2>4. ASSUME NEW j \in CallIds, At(j, Besides)'
          PROVE  (/\ Made(call[j].cand) /\ Unasked(call[j].cand)
                  /\ call[j].cand # 1 /\ call[j].cand # facade.active
                  /\ \A i \in CallIds : call[i].ctx # call[j].cand)'
      BY <1>17, <2>1, <2>2, <2>4
    <2>. QED
      BY <2>3, <2>4 DEF CandidatesApart
  <1>22. \A g \in Guests : Len(Mine(g)') = 0
    BY <1>2, <1>4, <1>7, <1>12 DEF Mine, Queue, Unasked
  <1>23. ShutdownsKept' /\ MarksKept'
    BY <1>22 DEF ShutdownsKept, MarksKept
  <1>24. AllCovered'
    BY <1>7, <1>12 DEF AllCovered, Covered
  <1>. QED
    BY <1>15, <1>16, <1>20, <1>21, <1>23, <1>24 DEF BackInv

-----------------------------------------------------------------------------
(* A command runs: what the guest and the call that waits for it make of it *)

\* More of an answer than Hears says.
LEMMA AnswerSays ==
    ASSUME TypeOK, NEW c \in Contexts, NEW g \in Guests, NEW cmd \in Command,
           NEW ok \in BOOLEAN, Answer(cmd, c, g, ok), ~cmd.void
    PROVE  /\ \A j \in CallIds : call'[j].aborted = call[j].aborted
           /\ Waits(cmd, g) =>
                 /\ call[cmd.by].at \in Settled =>
                       call'[cmd.by].asked = call[cmd.by].asked \ {g}
                 /\ ok => call'[cmd.by].todo = call[cmd.by].todo \ {g}
  <1>. DEFINE b == cmd.by
              r == call[b]
  <1>1. /\ call \in [CallIds -> CallType] /\ b \in CallIds /\ r \in CallType
        /\ guest[c][g].mem \in Nat
    BY DEF TypeOK, Command, GuestType
  <1>2. CASE r.at # cmd.place \/ g \notin r.asked
    <2>1. call' = call
      BY <1>2 DEF Answer
    <2>. QED
      BY <1>2, <2>1 DEF Waits
  <1>3. CASE r.at = cmd.place /\ g \in r.asked /\ ok
    <2>. DEFINE s == [r EXCEPT !.asked = @ \ {g}, !.todo = @ \ {g},
                               !.mem = IF cmd.do = "snapshot"
                                       THEN [@ EXCEPT ![g] = guest[c][g].mem] ELSE @]
    <2>1. call' = [call EXCEPT ![b] = s]
      BY <1>3 DEF Answer
    <2>2. s.asked = r.asked \ {g} /\ s.todo = r.todo \ {g} /\ s.aborted = r.aborted
      BY <1>1 DEF CallType
    <2>. HIDE DEF b, r, s
    <2>3. /\ call'[b] = s /\ \A j \in CallIds : j # b => call'[j] = call[j]
      BY <1>1, <2>1
    <2>4. call'[b].aborted = call[b].aborted
      BY <2>2, <2>3, Zenon DEF r
    <2>5. \A j \in CallIds : call'[j].aborted = call[j].aborted
      BY <2>3, <2>4, Zenon
    <2>. QED
      BY <2>2, <2>3, <2>5 DEF b, r
  <1>4. CASE r.at = cmd.place /\ g \in r.asked /\ ~ok
    <2>. DEFINE s == [r EXCEPT !.failed = TRUE,
                               !.asked = IF r.at \in Settled THEN @ \ {g} ELSE {}]
    <2>1. call' = [call EXCEPT ![b] = s]
      BY <1>4 DEF Answer
    <2>2. (r.at \in Settled => s.asked = r.asked \ {g}) /\ s.aborted = r.aborted
      BY <1>1 DEF CallType
    <2>. HIDE DEF b, r, s
    <2>3. /\ call'[b] = s /\ \A j \in CallIds : j # b => call'[j] = call[j]
      BY <1>1, <2>1
    <2>4. call'[b].aborted = call[b].aborted
      BY <2>2, <2>3, Zenon DEF r
    <2>5. \A j \in CallIds : call'[j].aborted = call[j].aborted
      BY <2>3, <2>4, Zenon
    <2>. QED
      BY <1>4, <2>2, <2>3, <2>5 DEF b, r
  <1>. QED
    BY <1>2, <1>3, <1>4

\* What else a command does that runs.
Ran(c, g) ==
    LET cmd == Queue(c, g)[1]
        m == guest[c][g]
    IN /\ \A j \in CallIds : call'[j].aborted = call[j].aborted
       /\ Waits(cmd, g) =>
             /\ call[cmd.by].at \in Settled =>
                   call'[cmd.by].asked = call[cmd.by].asked \ {g}
             /\ cmd.do = "pause" /\ guest'[c][g].state # m.state /\ ~cmd.unknown =>
                   call'[cmd.by].todo = call[cmd.by].todo \ {g}
       /\ cmd.do = "resume" /\ m.state = "paused" =>
             guest'[c][g].state = "running" \/ "resume" \in faults'

LEMMA RunsOn ==
    ASSUME TypeOK, NEW c \in Contexts, NEW g \in Guests, RunCommand(c, g)
    PROVE  Ran(c, g)
  <1>. DEFINE old == guest[c][g]
              q == Queue(c, g)
              cmd == q[1]
              next == [old EXCEPT !.queue = Tail(@)]
              m == [next EXCEPT !.state = After[cmd.do],
                                !.mem = IF cmd.do = "restore" THEN cmd.arg ELSE @]
  <1>1. /\ guest \in [Contexts -> [Guests -> GuestType]] /\ q \in Seq(Command)
        /\ old \in GuestType /\ old.queue = q
    BY QueueTyped DEF TypeOK, Queue
  <1>2. q # <<>> /\ Head(old.queue) = cmd /\ ~cmd.void
    <2>1. q # <<>> /\ ~Head(q).void
      BY DEF RunCommand, Queue
    <2>. QED
      BY <1>1, <2>1, TailOf
  <1>3. /\ cmd \in Command /\ Tail(q) \in Seq(Command)
        /\ cmd.arg \in Nat /\ cmd.unknown \in BOOLEAN /\ cmd.do \in AnyCommand
    BY <1>1, <1>2, TailOf DEF Command
  <1>4. /\ next \in GuestType /\ next.queue = Tail(q) /\ next.state = old.state
    BY <1>1, <1>3 DEF GuestType
  <1>5. \/ /\ old.state \in Allowed[cmd.do]
           /\ guest' = [guest EXCEPT ![c][g] = m]
           /\ Answer(cmd, c, g, ~cmd.unknown)
        \/ /\ old.state \notin Allowed[cmd.do]
           /\ guest' = [guest EXCEPT ![c][g] = next]
           /\ Answer(cmd, c, g, FALSE)
        \/ /\ old.state \in Allowed[cmd.do]
           /\ Fault(cmd.do)
           /\ guest' = [guest EXCEPT ![c][g] =
                    [next EXCEPT !.state = IF cmd.do = "boot" THEN "failed" ELSE @]]
           /\ Answer(cmd, c, g, FALSE)
    BY <1>2 DEF RunCommand
  <1>6. After[cmd.do] \in {"running", "paused", "stopped"} /\ After["resume"] = "running"
    BY <1>3 DEF After, AnyCommand
  <1>7. Allowed["resume"] = {"paused"}
    BY DEF Allowed
  <1>8. m.state = After[cmd.do]
    BY <1>4 DEF GuestType
  <1>. HIDE DEF cmd, m
  <1>9. CASE /\ old.state \in Allowed[cmd.do]
             /\ guest' = [guest EXCEPT ![c][g] = m]
             /\ Answer(cmd, c, g, ~cmd.unknown)
    <2>1. guest'[c][g].state = After[cmd.do]
      BY <1>1, <1>8, <1>9
    <2>2. PICK ok \in BOOLEAN : ok = ~cmd.unknown
      BY <1>3
    <2>3. Answer(cmd, c, g, ok)
      BY <1>9, <2>2, Zenon
    <2>4. /\ \A j \in CallIds : call'[j].aborted = call[j].aborted
          /\ Waits(cmd, g) =>
                /\ call[cmd.by].at \in Settled =>
                      call'[cmd.by].asked = call[cmd.by].asked \ {g}
                /\ ok => call'[cmd.by].todo = call[cmd.by].todo \ {g}
      BY <1>2, <1>3, <2>3, AnswerSays
    <2>5. ~cmd.unknown => ok
      BY <2>2, Zenon
    <2>. QED
      BY <1>6, <2>1, <2>4, <2>5 DEF Ran, cmd
  <1>10. CASE /\ Answer(cmd, c, g, FALSE)
              /\ \/ /\ old.state \notin Allowed[cmd.do]
                    /\ guest' = [guest EXCEPT ![c][g] = next]
                 \/ /\ Fault(cmd.do)
                    /\ guest' = [guest EXCEPT ![c][g] =
                          [next EXCEPT !.state = IF cmd.do = "boot" THEN "failed" ELSE @]]
    <2>. DEFINE f == [next EXCEPT !.state = IF cmd.do = "boot" THEN "failed" ELSE @]
    <2>1. f.state = IF cmd.do = "boot" THEN "failed" ELSE old.state
      BY <1>4 DEF GuestType
    <2>2. guest' = [guest EXCEPT ![c][g] = next] \/ guest' = [guest EXCEPT ![c][g] = f]
      BY <1>10
    <2>. HIDE DEF f, next
    <2>3. cmd.do = "pause" => guest'[c][g].state = old.state
      BY <1>1, <1>4, <2>1, <2>2
    <2>4. cmd.do = "resume" /\ old.state = "paused" => "resume" \in faults'
      BY <1>7, <1>10 DEF Fault
    <2>5. PICK ok \in BOOLEAN : ok = FALSE
      OBVIOUS
    <2>6. Answer(cmd, c, g, ok)
      BY <1>10, <2>5, Zenon
    <2>7. /\ \A j \in CallIds : call'[j].aborted = call[j].aborted
          /\ Waits(cmd, g) /\ call[cmd.by].at \in Settled =>
                   call'[cmd.by].asked = call[cmd.by].asked \ {g}
      BY <1>2, <1>3, <2>6, AnswerSays
    <2>. QED
      BY <2>3, <2>4, <2>7 DEF Ran, cmd
  <1>. QED
    BY <1>5, <1>9, <1>10

\* The first command of a queue, and those behind it.
LEMMA FirstCommand ==
    ASSUME AlwaysInv, NEW c \in Contexts, NEW g \in Guests, Turned(c, g)
    PROVE  /\ TypeOK /\ Popped(c, g) /\ CallsStay
           /\ 1 \in 1..Len(Queue(c, g)) /\ Len(Queue(c, g)) \in Nat
           /\ Queue(c, g)[1] \in Command /\ Queue(c, g)[1].by \in CallIds
           /\ Asks(Queue(c, g)[1].place, Queue(c, g)[1].do)
           /\ Waits(Queue(c, g)[1], g) => call[Queue(c, g)[1].by].ctx = c
           /\ Queue(c, g)[1].unknown \in BOOLEAN
  <1>1. TypeOK /\ CommandsFit /\ Popped(c, g) /\ CallsStay
    BY DEF AlwaysInv, Turned
  <1>2. 1 \in 1..Len(Queue(c, g)) /\ Len(Queue(c, g)) \in Nat
    BY <1>1, QueueTyped DEF Popped
  <1>3. Queue(c, g)[1] \in Command /\ Queue(c, g)[1].by \in CallIds
    BY <1>1, <1>2, QueueTyped
  <1>4. /\ Asks(Queue(c, g)[1].place, Queue(c, g)[1].do)
        /\ InFlight(Queue(c, g)[1].by) => call[Queue(c, g)[1].by].ctx = c
    BY <1>1, <1>2 DEF CommandsFit
  <1>5. Waits(Queue(c, g)[1], g) => InFlight(Queue(c, g)[1].by)
    BY <1>4 DEF Waits, InFlight, Asks
  <1>6. Queue(c, g)[1].unknown \in BOOLEAN
    BY <1>3 DEF Command
  <1>. QED
    BY <1>1, <1>2, <1>3, <1>4, <1>5, <1>6

LEMMA FirstHeard ==
    ASSUME AlwaysInv, Unaborted, AllAwaited, NEW c \in Contexts, NEW g \in Guests, Turned(c, g),
           NEW cmd, cmd = Queue(c, g)[1], cmd.do \in Heard
    PROVE  Waits(cmd, g) /\ Hears(cmd, c, g) /\ call[cmd.by].ctx = c /\ call[cmd.by].at = cmd.place
  <1>1. 1 \in 1..Len(Queue(c, g))
    BY FirstCommand
  <1>2. ~cmd.void /\ call[cmd.by].at = cmd.place /\ g \in call[cmd.by].asked
    BY <1>1 DEF Unaborted, AllAwaited
  <1>3. Waits(cmd, g)
    BY <1>2 DEF Waits
  <1>. QED
    BY <1>2, <1>3, FirstCommand DEF Turned

LEMMA RanUnaborted ==
    ASSUME AlwaysInv, Unaborted, NEW c \in Contexts, NEW g \in Guests, Turned(c, g), Ran(c, g)
    PROVE  Unaborted'
  <1>1. TypeOK /\ Popped(c, g)
    BY FirstCommand
  <1>2. \A k \in CallIds : ~call'[k].aborted
    BY Zenon DEF Unaborted, Ran
  <1>3. ASSUME NEW d \in Contexts, NEW h \in Guests, NEW i \in 1..Len(Queue(d, h)')
        PROVE  ~Queue(d, h)'[i].void
    BY <1>1, LeftCommands DEF Unaborted
  <1>. QED
    BY <1>2, <1>3 DEF Unaborted

LEMMA RanMarks ==
    ASSUME AlwaysInv, MarkedFirst, NEW c \in Contexts, NEW g \in Guests, Turned(c, g)
    PROVE  MarkedFirst'
  <1>1. TypeOK /\ Popped(c, g)
    BY FirstCommand
  <1>2. ASSUME NEW d \in Contexts, NEW h \in Guests, NEW i \in 1..Len(Queue(d, h)'),
               Queue(d, h)'[i].unknown
        PROVE  i = 1
    <2>1. PICK j \in 1..Len(Queue(d, h)) :
             /\ Queue(d, h)'[i] = Queue(d, h)[j]
             /\ j = IF d = c /\ h = g THEN i + 1 ELSE i
      BY <1>1, LeftCommands
    <2>2. j = 1
      BY <1>2, <2>1 DEF MarkedFirst
    <2>. QED
      BY <2>1, <2>2
  <1>. QED
    BY <1>2 DEF MarkedFirst

LEMMA RanBoots ==
    ASSUME AlwaysInv, OneBootEach, NEW c \in Contexts, NEW g \in Guests, Turned(c, g)
    PROVE  OneBootEach'
  <1>1. TypeOK /\ Popped(c, g)
    BY FirstCommand
  <1>2. ASSUME NEW d \in Contexts, NEW h \in Guests, NEW i \in 1..Len(Queue(d, h)'),
               NEW j \in 1..Len(Queue(d, h)'),
               Queue(d, h)'[i].do = "boot", Queue(d, h)'[j].do = "boot",
               Queue(d, h)'[i].by = Queue(d, h)'[j].by
        PROVE  i = j
    <2>1. PICK m \in 1..Len(Queue(d, h)) :
             /\ Queue(d, h)'[i] = Queue(d, h)[m]
             /\ m = IF d = c /\ h = g THEN i + 1 ELSE i
      BY <1>1, LeftCommands
    <2>2. PICK n \in 1..Len(Queue(d, h)) :
             /\ Queue(d, h)'[j] = Queue(d, h)[n]
             /\ n = IF d = c /\ h = g THEN j + 1 ELSE j
      BY <1>1, LeftCommands
    <2>3. m = n
      BY <1>2, <2>1, <2>2 DEF OneBootEach
    <2>. QED
      BY <2>1, <2>2, <2>3
  <1>. QED
    BY <1>2 DEF OneBootEach

\* The calls only learn: they wait for fewer guests.
LEMMA CallsLearn ==
    ASSUME AlwaysInv, NEW c \in Contexts, NEW g \in Guests, Turned(c, g), NEW k \in CallIds
    PROVE  /\ call'[k].at = call[k].at /\ call'[k].kind = call[k].kind
           /\ call'[k].ctx = call[k].ctx /\ call'[k].ids = call[k].ids
           /\ call'[k].cand = call[k].cand
           /\ call'[k].asked \subseteq call[k].asked /\ call'[k].todo \subseteq call[k].todo
           /\ call[k].failed => call'[k].failed
           /\ \A h \in Guests \ {g} : h \in call[k].todo => h \in call'[k].todo
  <1>. DEFINE cmd == Queue(c, g)[1]
  <1>1. CallsStay /\ (call' = call \/ Hears(cmd, c, g))
    BY DEF Turned
  <1>. HIDE DEF cmd
  <1>2. /\ call'[k].at = call[k].at /\ call'[k].kind = call[k].kind
        /\ call'[k].ctx = call[k].ctx /\ call'[k].ids = call[k].ids
        /\ call'[k].cand = call[k].cand
    BY <1>1 DEF CallsStay
  <1>3. CASE call'[k] = call[k]
    BY <1>2, <1>3, Zenon
  <1>4. CASE Hears(cmd, c, g) /\ k = cmd.by
    <2>1. CASE /\ call'[k].asked = call[k].asked \ {g} /\ call'[k].todo = call[k].todo \ {g}
               /\ call'[k].failed = call[k].failed
      <3>1. call[k].failed => call'[k].failed
        BY <2>1, Zenon
      <3>. QED
        BY <1>2, <2>1, <3>1
    <2>2. CASE /\ call'[k].asked \subseteq call[k].asked /\ call'[k].todo = call[k].todo
               /\ call'[k].failed
      BY <1>2, <2>2
    <2>. QED
      BY <1>4, <2>1, <2>2 DEF Hears
  <1>. QED
    BY <1>1, <1>3, <1>4 DEF Hears

LEMMA RanPauses ==
    ASSUME AlwaysInv, PausesFit, NEW c \in Contexts, NEW g \in Guests, Turned(c, g)
    PROVE  PausesFit'
  BY CallsLearn DEF PausesFit, At

LEMMA RanOneByOne ==
    ASSUME AlwaysInv, OneByOne, NEW c \in Contexts, NEW g \in Guests, Turned(c, g)
    PROVE  OneByOne'
  BY CallsLearn DEF OneByOne, InFlight

LEMMA RanAwaited ==
    ASSUME AlwaysInv, Unaborted, AllAwaited, OneBootEach, NEW c \in Contexts, NEW g \in Guests,
           Turned(c, g), Ran(c, g)
    PROVE  AllAwaited'
  <1>. DEFINE first == Queue(c, g)[1]
  <1>1. /\ TypeOK /\ Popped(c, g) /\ 1 \in 1..Len(Queue(c, g)) /\ first.by \in CallIds
        /\ Asks(first.place, first.do) /\ (Waits(first, g) => call[first.by].ctx = c)
    BY FirstCommand
  <1>2. CommandsFit /\ OneTurnEach /\ AskedInTurn
    BY DEF AlwaysInv, TurnsTaken
  <1>. SUFFICES ASSUME NEW d \in Contexts, NEW h \in Guests, NEW i \in 1..Len(Queue(d, h)'),
                       Queue(d, h)'[i].do \in Heard
                PROVE  /\ call'[Queue(d, h)'[i].by].at = Queue(d, h)'[i].place
                       /\ h \in call'[Queue(d, h)'[i].by].asked
    BY DEF AllAwaited
  <1>3. PICK j \in 1..Len(Queue(d, h)) :
           /\ Queue(d, h)'[i] = Queue(d, h)[j]
           /\ j = IF d = c /\ h = g THEN i + 1 ELSE i
    BY <1>1, LeftCommands
  <1>. DEFINE cmd == Queue(d, h)[j]
              b == cmd.by
  <1>4. /\ b \in CallIds /\ call[b].at = cmd.place /\ h \in call[b].asked
        /\ InFlight(b) => call[b].ctx = d
    BY <1>1, <1>2, <1>3, QueueTyped DEF AllAwaited, CommandsFit
  <1>5. cmd.do \in Heard /\ call[b].at = cmd.place /\ Asks(cmd.place, cmd.do)
    BY <1>1, <1>2, <1>3 DEF AllAwaited, CommandsFit
  <1>6. call'[b].at = cmd.place
    BY <1>4, <1>5, CallsLearn
  <1>7. h \in call'[b].asked
    <2>1. CASE call'[b] = call[b]
      BY <1>4, <2>1
    <2>2. CASE Hears(first, c, g) /\ first.by = b
      <3>1. Waits(first, g) /\ call[b].at = first.place /\ g \in call[b].asked
        BY <2>2 DEF Hears, Waits
      <3>2. first.place = cmd.place /\ first.do = cmd.do
        BY <1>1, <1>5, <3>1 DEF Asks, Heard
      <3>3. InFlight(b) /\ d = c
        BY <1>1, <1>4, <1>5, <2>2, <3>1 DEF InFlight, Asks
      <3>4. h # g
        <4>1. SUFFICES ASSUME h = g PROVE FALSE
          OBVIOUS
        <4>2. j \in 1..Len(Queue(c, g)) /\ j # 1 /\ cmd = Queue(c, g)[j]
          BY <1>3, <3>3, <4>1
        <4>3. cmd.do = "boot" => j = 1
          BY <1>1, <2>2, <3>2, <4>2 DEF OneBootEach
        <4>4. Turn(cmd) => j = 1
          BY <1>1, <1>2, <2>2, <3>2, <4>2 DEF OneTurnEach, Turn
        <4>. QED
          BY <1>5, <4>2, <4>3, <4>4 DEF Heard, Turn
      <3>5. CASE cmd.place = "booting"
        BY <1>4, <1>5, <2>2, <3>1, <3>4, <3>5 DEF Ran, Settled
      <3>6. CASE cmd.place # "booting"
        <4>1. At(b, {"pausing", "restoring"})
          BY <1>5, <3>6 DEF Asks, Heard, At
        <4>. QED
          BY <1>2, <1>4, <3>1, <3>4, <4>1 DEF AskedInTurn
      <3>. QED
        BY <3>5, <3>6
    <2>. QED
      BY <1>4, <2>1, <2>2 DEF Turned, Hears
  <1>. QED
    BY <1>3, <1>6, <1>7

LEMMA RanContexts ==
    ASSUME AlwaysInv, ContextsMade, CandidatesApart, UNCHANGED facade,
           NEW c \in Contexts, NEW g \in Guests, Turned(c, g)
    PROVE  ContextsMade' /\ CandidatesApart'
  <1>1. TypeOK /\ Popped(c, g) /\ PlacesFit
    BY FirstCommand DEF AlwaysInv
  <1>2. \A k \in CallIds : /\ call'[k].ctx = call[k].ctx /\ call'[k].cand = call[k].cand
                           /\ call'[k].at = call[k].at
    BY CallsLearn
  <1>3. ASSUME NEW d \in Contexts, Made(d) PROVE Made(d)'
    <2>1. 1 \in Guests
      BY Constants_
    <2>2. CASE d = c /\ g = 1
      BY <1>3, <2>1, <2>2 DEF Turned, Becomes, Made
    <2>3. CASE ~(d = c /\ g = 1)
      <3>1. guest'[d][1] = guest[d][1]
        BY <1>1, <2>1, <2>3 DEF Popped
      <3>. QED
        BY <1>3, <3>1 DEF Made
    <2>. QED
      BY <2>2, <2>3
  <1>4. ASSUME NEW d \in Contexts, Unasked(d) PROVE Unasked(d)'
    <2>1. d # c
      BY <1>1, <1>4 DEF Popped, Unasked
    <2>. QED
      BY <1>1, <1>4, <2>1 DEF Popped, Unasked, Queue
  <1>5. /\ facade' = facade /\ facade.active \in Contexts /\ 1 \in Contexts
        /\ \A k \in CallIds : call[k].ctx \in Contexts
    BY <1>1, Constants_ DEF TypeOK, FacadeType, CallType
  <1>6. ContextsMade'
    <2>1. \A d \in Contexts : (Made(d) \/ Unasked(d))'
      <3>. SUFFICES ASSUME NEW d \in Contexts, ~Made(d)' PROVE Unasked(d)'
        BY Zenon
      <3>. QED
        BY <1>3, <1>4 DEF ContextsMade
    <2>2. ASSUME NEW k \in CallIds PROVE Made(call[k].ctx)'
      <3>1. PICK d \in Contexts : d = call[k].ctx
        BY <1>5
      <3>2. Made(d)' /\ d = call'[k].ctx
        BY <1>2, <1>3, <3>1 DEF ContextsMade
      <3>. QED
        BY <3>2
    <2>3. Made(1)'
      BY <1>3, <1>5 DEF ContextsMade
    <2>4. (Made(facade.active))'
      <3>1. PICK d \in Contexts : d = facade.active
        BY <1>5
      <3>2. Made(d)' /\ d = facade'.active
        BY <1>3, <1>5, <3>1 DEF ContextsMade
      <3>. QED
        BY <3>2
    <2>. QED
      BY <2>1, <2>2, <2>3, <2>4 DEF ContextsMade
  <1>7. CandidatesApart'
    <2>1. ASSUME NEW k \in CallIds, At(k, Besides)'
          PROVE  (/\ Made(call[k].cand) /\ Unasked(call[k].cand)
                  /\ call[k].cand # 1 /\ call[k].cand # facade.active
                  /\ \A j \in CallIds :
                        /\ call[j].ctx # call[k].cand
                        /\ At(j, Besides) /\ call[j].cand = call[k].cand => j = k)'
      <3>1. At(k, Besides)
        BY <1>2, <2>1 DEF At
      <3>2. PICK d \in Contexts : d = call[k].cand
        BY <1>1, <3>1 DEF PlacesFit, At, Besides
      <3>3. /\ Made(d) /\ Unasked(d) /\ d # 1 /\ d # facade.active
            /\ \A j \in CallIds : /\ call[j].ctx # d
                                  /\ At(j, Besides) /\ call[j].cand = d => j = k
        BY <3>1, <3>2 DEF CandidatesApart
      <3>4. /\ Made(d)' /\ Unasked(d)' /\ d # facade'.active /\ d = call'[k].cand
            /\ \A j \in CallIds : /\ call'[j].ctx # d
                                  /\ At(j, Besides)' /\ call'[j].cand = d => j = k
        BY <1>2, <1>3, <1>4, <1>5, <3>2, <3>3 DEF At
      <3>. QED
        BY <3>3, <3>4
    <2>. QED
      BY <2>1 DEF CandidatesApart
  <1>. QED
    BY <1>6, <1>7

\* Where the i-th command of an active guest is after the first one of g has left.
Shifted(c, g, h, i) == IF c = facade.active /\ h = g THEN i - 1 ELSE i

LEMMA MineLeft ==
    ASSUME AlwaysInv, UNCHANGED facade, NEW c \in Contexts, NEW g \in Guests, Turned(c, g),
           NEW h \in Guests
    PROVE  /\ facade.active \in Contexts /\ Len(Mine(h)) \in Nat
           /\ \A i \in 1..Len(Mine(h)) : Shifted(c, g, h, i) # 0 =>
                 /\ Shifted(c, g, h, i) \in 1..Len(Mine(h)')
                 /\ Mine(h)'[Shifted(c, g, h, i)] = Mine(h)[i]
           /\ \A n \in 1..Len(Mine(h)') : \E i \in 1..Len(Mine(h)) :
                 n = Shifted(c, g, h, i) /\ Mine(h)'[n] = Mine(h)[i]
           /\ ~(c = facade.active /\ h = g) =>
                 guest'[facade'.active][h].state = guest[facade.active][h].state
  <1>1. TypeOK /\ Popped(c, g)
    BY FirstCommand
  <1>2. facade.active \in Contexts /\ facade' = facade
    BY <1>1 DEF TypeOK, FacadeType
  <1>3. /\ Mine(h) = Queue(facade.active, h) /\ Mine(h)' = guest'[facade.active][h].queue
        /\ Len(Mine(h)) \in Nat
    BY <1>1, <1>2, QueueTyped DEF Mine, Queue
  <1>4. CASE c = facade.active /\ h = g
    <2>1. /\ Len(Mine(h)') = Len(Mine(h)) - 1
          /\ \A i \in 1..(Len(Mine(h)) - 1) : Mine(h)'[i] = Mine(h)[i + 1]
      BY <1>1, <1>3, <1>4 DEF Popped
    <2>2. \A i : Shifted(c, g, h, i) = i - 1
      BY <1>4 DEF Shifted
    <2>3. ASSUME NEW i \in 1..Len(Mine(h)), i - 1 # 0
          PROVE  i - 1 \in 1..Len(Mine(h)') /\ Mine(h)'[i - 1] = Mine(h)[i]
      <3>1. PICK n \in 1..(Len(Mine(h)) - 1) : i = n + 1
        BY <1>3, <2>3
      <3>2. n \in 1..Len(Mine(h)') /\ Mine(h)'[n] = Mine(h)[n + 1]
        BY <1>3, <2>1
      <3>3. i - 1 = n /\ Mine(h)[n + 1] = Mine(h)[i]
        BY <3>1
      <3>. QED
        BY <3>2, <3>3
    <2>4. ASSUME NEW n \in 1..Len(Mine(h)')
          PROVE  n + 1 \in 1..Len(Mine(h)) /\ n = (n + 1) - 1 /\ Mine(h)'[n] = Mine(h)[n + 1]
      BY <1>3, <2>1
    <2>. QED
      BY <1>2, <1>3, <1>4, <2>2, <2>3, <2>4
  <1>5. CASE ~(c = facade.active /\ h = g)
    <2>1. guest'[facade.active][h] = guest[facade.active][h]
      BY <1>1, <1>2, <1>5 DEF Popped
    <2>2. \A i : Shifted(c, g, h, i) = i
      BY <1>5 DEF Shifted
    <2>3. Mine(h)' = Mine(h)
      BY <1>3, <2>1 DEF Queue
    <2>. QED
      BY <1>2, <1>3, <2>1, <2>2, <2>3
  <1>. QED
    BY <1>4, <1>5

LEMMA RanLater ==
    ASSUME AlwaysInv, UNCHANGED facade, NEW c \in Contexts, NEW g \in Guests, Turned(c, g),
           NEW k, NEW h \in Guests, NEW i \in Nat, NEW do, Later(k, h, i, do),
           c = facade.active /\ h = g => i >= 1
    PROVE  Later(k, h, Shifted(c, g, h, i), do)'
  <1>1. PICK j \in 1..Len(Mine(h)) : j > i /\ Mine(h)[j].do = do /\ Mine(h)[j].by = k
    BY DEF Later
  <1>2. Len(Mine(h)) \in Nat
    BY MineLeft
  <1>3. PICK n : n = Shifted(c, g, h, j)
    OBVIOUS
  <1>4. PICK m : m = Shifted(c, g, h, i)
    OBVIOUS
  <1>5. n > m /\ n # 0
    BY <1>1, <1>2, <1>3, <1>4 DEF Shifted
  <1>6. n \in 1..Len(Mine(h)') /\ Mine(h)'[n] = Mine(h)[j]
    BY <1>3, <1>5, MineLeft
  <1>7. m = Shifted(c, g, h, i)'
    BY <1>4 DEF Shifted
  <1>8. \E x \in 1..Len(Mine(h)') : x > m /\ Mine(h)'[x].do = do /\ Mine(h)'[x].by = k
    BY <1>1, <1>5, <1>6
  <1>. QED
    BY <1>7, <1>8 DEF Later

LEMMA RanUnsettled ==
    ASSUME AlwaysInv, UNCHANGED facade, NEW c \in Contexts, NEW g \in Guests, Turned(c, g),
           Unsettled
    PROVE  Unsettled'
  <1>1. \A k \in CallIds : /\ call'[k].at = call[k].at /\ call'[k].kind = call[k].kind
                           /\ call[k].failed => call'[k].failed
    BY CallsLearn
  <1>2. Live' = Live
    BY DEF Live
  <1>3. Stuck => Stuck'
    BY <1>1 DEF Stuck, InFlight
  <1>4. \A k \in CallIds : Turning(k) => Turning(k)'
    BY <1>1 DEF Turning, Closing, Failing, At
  <1>. QED
    BY <1>2, <1>3, <1>4 DEF Unsettled

LEMMA RanWakes ==
    ASSUME AlwaysInv, UNCHANGED facade, NEW c \in Contexts, NEW g \in Guests, Turned(c, g),
           NEW k \in CallIds, NEW h \in Guests, NEW i \in Nat, Wakes(k, h, i),
           c = facade.active /\ h = g => i >= 1
    PROVE  Wakes(k, h, Shifted(c, g, h, i))'
  <1>1. /\ call'[k].at = call[k].at /\ call'[k].ctx = call[k].ctx
        /\ call'[k].asked \subseteq call[k].asked
        /\ h # g => (h \in call[k].todo => h \in call'[k].todo)
    BY CallsLearn
  <1>2. \A do : Later(k, h, i, do) => Later(k, h, Shifted(c, g, h, i), do)'
    BY RanLater
  <1>3. call'[k].ctx = facade'.active
    BY <1>1 DEF Wakes
  <1>4. CASE At(k, {"booting"}) /\ Later(k, h, i, "boot")
    BY <1>1, <1>2, <1>3, <1>4 DEF Wakes, At
  <1>5. CASE /\ At(k, {"restoring"}) /\ h \in call[k].todo
             /\ h \in call[k].asked => Later(k, h, i, "restore")
    <2>1. h \in call'[k].todo
      <3>1. SUFFICES ASSUME call'[k] # call[k], h = g PROVE FALSE
        BY <1>1, <1>5
      <3>. DEFINE cmd == Queue(c, g)[1]
      <3>2. Hears(cmd, c, g) /\ k = cmd.by /\ Waits(cmd, g)
        BY <3>1 DEF Turned, Hears
      <3>3. /\ 1 \in 1..Len(Queue(c, g)) /\ Asks(cmd.place, cmd.do) /\ call[cmd.by].ctx = c
        BY <3>2, FirstCommand
      <3>4. cmd.do = "restore" /\ g \in call[k].asked /\ c = facade.active
        BY <1>5, <3>2, <3>3 DEF Asks, At, Waits, Wakes
      <3>. HIDE DEF cmd
      <3>5. PICK j \in 1..Len(Mine(g)) : j > i /\ Mine(g)[j].do = "restore" /\ Mine(g)[j].by = k
        BY <1>5, <3>1, <3>4 DEF Later
      <3>6. Mine(g) = Queue(c, g)
        BY <3>4 DEF Mine
      <3>7. j = 1
        BY <3>2, <3>3, <3>4, <3>5, <3>6 DEF cmd, AlwaysInv, TurnsTaken, OneTurnEach, Turn
      <3>. QED
        BY <3>1, <3>4, <3>5, <3>7
    <2>2. h \in call'[k].asked => Later(k, h, Shifted(c, g, h, i), "restore")'
      BY <1>1, <1>2, <1>5
    <2>. QED
      BY <1>1, <1>3, <1>5, <2>1, <2>2 DEF Wakes, At
  <1>. QED
    BY <1>4, <1>5 DEF Wakes

LEMMA RanKept ==
    ASSUME AlwaysInv, UNCHANGED facade, NEW c \in Contexts, NEW g \in Guests, Turned(c, g),
           NEW h \in Guests, NEW i \in Nat, Kept(h, i), c = facade.active /\ h = g => i >= 1
    PROVE  Kept(h, Shifted(c, g, h, i))'
  <1>1. CASE Unsettled
    BY <1>1, RanUnsettled DEF Kept
  <1>2. CASE \E k \in CallIds : Wakes(k, h, i)
    BY <1>2, RanWakes DEF Kept
  <1>. QED
    BY <1>1, <1>2 DEF Kept

LEMMA RanKeeps ==
    ASSUME AlwaysInv, MarkedFirst, ShutdownsKept, MarksKept, UNCHANGED facade,
           NEW c \in Contexts, NEW g \in Guests, Turned(c, g)
    PROVE  ShutdownsKept' /\ MarksKept'
  <1>1. ASSUME NEW h \in Guests, NEW n \in 1..Len(Mine(h)')
        PROVE  \E i \in 1..Len(Mine(h)) :
                  /\ Mine(h)'[n] = Mine(h)[i] /\ n = Shifted(c, g, h, i)
                  /\ Kept(h, i) => Kept(h, n)'
    <2>1. PICK i \in 1..Len(Mine(h)) : n = Shifted(c, g, h, i) /\ Mine(h)'[n] = Mine(h)[i]
      BY MineLeft
    <2>2. i \in Nat /\ i >= 1 /\ Len(Mine(h)) \in Nat
      BY MineLeft
    <2>3. ASSUME Kept(h, i) PROVE Kept(h, n)'
      <3>1. Kept(h, Shifted(c, g, h, i))'
        BY <2>2, <2>3, RanKept
      <3>2. Shifted(c, g, h, i)' = n
        BY <2>1 DEF Shifted
      <3>. QED
        BY <3>1, <3>2
    <2>. QED
      BY <2>1, <2>3
  <1>2. ShutdownsKept'
    BY <1>1 DEF ShutdownsKept
  <1>3. ASSUME NEW h \in Guests, Len(Mine(h)') > 0, Mine(h)'[1].do = "pause", Mine(h)'[1].unknown
        PROVE  Kept(h, 1)'
    <2>1. facade.active \in Contexts /\ facade' = facade
      BY MineLeft
    <2>2. 1 \in 1..Len(Mine(h)')
      <3>1. Len(Mine(h)') \in Nat
        BY FirstCommand, <2>1 DEF Mine, Queue, Popped, GuestsTyped, GuestType
      <3>. QED
        BY <1>3, <3>1
    <2>3. PICK i \in 1..Len(Mine(h)) :
             /\ Mine(h)'[1] = Mine(h)[i] /\ 1 = Shifted(c, g, h, i)
             /\ Kept(h, i) => Kept(h, 1)'
      BY <1>1, <2>2
    <2>4. i = 1
      BY <1>3, <2>1, <2>3 DEF MarkedFirst, Mine
    <2>5. Len(Mine(h)) > 0 /\ Mine(h)[1].do = "pause" /\ Mine(h)[1].unknown
      <3>1. Len(Mine(h)) \in Nat
        BY MineLeft
      <3>. QED
        BY <1>3, <2>3, <2>4, <3>1
    <2>. QED
      BY <2>3, <2>4, <2>5 DEF MarksKept
  <1>4. MarksKept'
    BY <1>3 DEF MarksKept
  <1>. QED
    BY <1>2, <1>4

LEMMA RanReturns ==
    ASSUME AlwaysInv, UNCHANGED facade, NEW c \in Contexts, NEW g \in Guests, Turned(c, g),
           NEW k \in CallIds, NEW h \in Guests, Returns(k, h)
    PROVE  Returns(k, h)'
  <1>1. /\ call'[k].at = call[k].at /\ call'[k].kind = call[k].kind
        /\ call'[k].ctx = call[k].ctx /\ call'[k].ids = call[k].ids
        /\ call'[k].todo \subseteq call[k].todo
    BY CallsLearn
  <1>2. facade' = facade
    OBVIOUS
  <1>. QED
    BY <1>1, <1>2 DEF Returns, GivesBack, Restores, At

LEMMA OthersCovered ==
    ASSUME AlwaysInv, UNCHANGED facade, NEW c \in Contexts, NEW g \in Guests, Turned(c, g),
           NEW h \in Guests, ~(c = facade.active /\ h = g), Covered(h)
    PROVE  Covered(h)'
  <1>1. /\ guest'[facade'.active][h].state = guest[facade.active][h].state
        /\ \A i : Shifted(c, g, h, i) = i /\ Shifted(c, g, h, i)' = i
    BY MineLeft DEF Shifted
  <1>2. CASE guest[facade.active][h].state = "running"
    BY <1>1, <1>2 DEF Covered
  <1>3. CASE Kept(h, 0)
    <2>1. Kept(h, Shifted(c, g, h, 0))'
      BY <1>3, RanKept
    <2>. QED
      BY <1>1, <2>1 DEF Covered
  <1>4. CASE guest[facade.active][h].state = "paused" /\ ResumeAsked(h)
    <2>1. PICK i \in 1..Len(Mine(h)) : Mine(h)[i].do = "resume"
      BY <1>4 DEF ResumeAsked
    <2>2. i \in 1..Len(Mine(h)') /\ Mine(h)'[i].do = "resume"
      <3>1. i # 0
        BY MineLeft
      <3>. QED
        BY <1>1, <2>1, <3>1, MineLeft
    <2>3. ResumeAsked(h)'
      BY <2>2 DEF ResumeAsked
    <2>. QED
      BY <1>1, <1>4, <2>3 DEF Covered
  <1>5. CASE guest[facade.active][h].state = "paused" /\ \E k \in CallIds : Returns(k, h)
    BY <1>1, <1>5, RanReturns DEF Covered
  <1>. QED
    BY <1>2, <1>3, <1>4, <1>5 DEF Covered

\* A restore or boot that ran, or failed.
LEMMA RanRestore ==
    ASSUME AlwaysInv, Unaborted, AllAwaited, UNCHANGED facade, NEW g \in Guests,
           NEW c \in Contexts, c = facade.active, Turned(c, g),
           Queue(c, g)[1].do \in {"restore", "boot"}
    PROVE  Covered(g)'
  <1>. DEFINE cmd == Queue(c, g)[1]
  <1>1. /\ cmd.by \in CallIds /\ Asks(cmd.place, cmd.do)
        /\ Hears(cmd, c, g) /\ call[cmd.by].ctx = c /\ call[cmd.by].at = cmd.place
    BY FirstCommand, FirstHeard DEF Heard
  <1>0. PICK b \in CallIds : b = cmd.by
    BY <1>1
  <1>2. /\ call'[b].at = call[b].at /\ call'[b].ctx = facade'.active
        /\ At(b, {"restoring", "booting"})
        /\ cmd.do = "restore" => At(b, {"restoring"})
    BY <1>0, <1>1, CallsLearn DEF Asks, At
  <1>. HIDE DEF cmd
  <1>3. CASE guest'[c][g].state = After[cmd.do]
    <2>1. CASE cmd.do = "boot"
      BY <1>3, <2>1 DEF After, Covered
    <2>2. CASE cmd.do = "restore"
      <3>1. guest'[facade'.active][g].state = "paused"
        BY <1>3, <2>2 DEF After
      <3>2. Restores(b)'
        BY <1>2, <2>2 DEF Restores, At
      <3>. QED
        BY <3>1, <3>2 DEF Covered, Returns
    <2>. QED
      BY <2>1, <2>2 DEF cmd
  <1>4. CASE call'[b].failed
    <2>1. Failing(b)'
      BY <1>2, <1>4 DEF Failing, At
    <2>. QED
      BY <2>1 DEF Covered, Kept, Unsettled, Turning
  <1>. QED
    BY <1>0, <1>1, <1>3, <1>4 DEF Hears

LEMMA RanKeptBefore ==
    ASSUME AlwaysInv, Unaborted, AllAwaited, UNCHANGED facade, NEW g \in Guests,
           NEW c \in Contexts, c = facade.active, Turned(c, g), Kept(g, 0) \/ Kept(g, 1)
    PROVE  Covered(g)'
  <1>1. CASE Kept(g, 1)
    <2>1. Kept(g, Shifted(c, g, g, 1))'
      BY <1>1, RanKept
    <2>2. Shifted(c, g, g, 1)' = 0
      BY DEF Shifted
    <2>. QED
      BY <2>1, <2>2 DEF Covered
  <1>2. CASE Queue(c, g)[1].do \in {"restore", "boot"}
    BY <1>2, RanRestore
  <1>3. CASE Kept(g, 0) /\ Queue(c, g)[1].do \notin {"restore", "boot"}
    <2>1. Len(Mine(g)) \in Nat /\ Mine(g) = Queue(c, g)
      BY MineLeft DEF Mine
    <2>2. ASSUME NEW k, NEW do \in {"restore", "boot"}, Later(k, g, 0, do) PROVE Later(k, g, 1, do)
      BY <1>3, <2>1, <2>2 DEF Later
    <2>3. \A k \in CallIds : Wakes(k, g, 0) => Wakes(k, g, 1)
      BY <2>2 DEF Wakes
    <2>. QED
      BY <1>1, <1>3, <2>3 DEF Kept
  <1>. QED
    BY <1>1, <1>2, <1>3

LEMMA RanCovered ==
    ASSUME AlwaysInv, Unaborted, AllAwaited, PausesFit, ShutdownsKept, MarksKept, AllCovered,
           Harmless', UNCHANGED facade, NEW g \in Guests,
           NEW c \in Contexts, c = facade.active, Turned(c, g), Ran(c, g)
    PROVE  Covered(g)'
  <1>. DEFINE m == guest[c][g]
              cmd == Queue(c, g)[1]
              state == guest'[c][g].state
  <1>1. /\ 1 \in 1..Len(Queue(c, g)) /\ cmd.by \in CallIds /\ Asks(cmd.place, cmd.do)
        /\ Mine(g) = Queue(c, g) /\ cmd.unknown \in BOOLEAN
    BY FirstCommand DEF Mine
  <1>2. /\ Becomes(m, state, guest'[c][g].mem) /\ m.queue[1] = cmd
    BY DEF Turned, Queue
  <1>3. Covered(g) /\ facade'.active = c
    BY DEF AllCovered
  <1>. HIDE DEF m, cmd, state
  <1>4. CASE state = "running"
    BY <1>3, <1>4 DEF Covered, state
  <1>5. CASE Kept(g, 0) \/ Kept(g, 1)
    BY <1>5, RanKeptBefore
  <1>6. CASE cmd.do \in {"restore", "boot"}
    BY <1>6, RanRestore DEF cmd
  <1>7. CASE cmd.do = "shutdown"
    <2>1. Kept(g, 1)
      BY <1>1, <1>7 DEF ShutdownsKept, cmd
    <2>. QED
      BY <1>5, <2>1
  <1>8. CASE cmd.do = "pause" /\ state # m.state
    <2>1. CASE cmd.unknown
      <3>1. Kept(g, 1)
        BY <1>1, <1>8, <2>1 DEF MarksKept, cmd
      <3>. QED
        BY <1>5, <3>1
    <2>2. CASE ~cmd.unknown
      <3>0. PICK b \in CallIds : b = cmd.by
        BY <1>1
      <3>1. /\ Waits(cmd, g) /\ call[b].ctx = c /\ call[b].at = cmd.place
        BY <1>8, <3>0, FirstHeard DEF Heard, cmd
      <3>2. At(b, {"pausing"}) /\ g \in call[b].asked
        BY <1>1, <1>8, <3>0, <3>1 DEF Asks, At, Waits
      <3>3. g \in call[b].ids
        BY <3>2 DEF AlwaysInv, TurnsTaken, AskedInTurn, PausesFit, At
      <3>4. g \notin call'[b].todo
        BY <1>8, <2>2, <3>0, <3>1 DEF Ran, cmd, m, state
      <3>5. /\ call'[b].at = "pausing" /\ call'[b].ctx = c /\ call'[b].ids = call[b].ids
        BY <3>1, <3>2, CallsLearn DEF At
      <3>6. GivesBack(b, g)'
        BY <1>3, <3>3, <3>4, <3>5 DEF GivesBack, At
      <3>7. state = "paused"
        BY <1>2, <1>8 DEF Becomes
      <3>. QED
        BY <1>3, <3>6, <3>7 DEF Covered, Returns, state
    <2>. QED
      BY <2>1, <2>2
  <1>9. CASE cmd.do = "resume" /\ m.state = "paused"
    <2>1. state = "running"
      BY <1>9 DEF Ran, Harmless, cmd, m, state
    <2>. QED
      BY <1>4, <2>1
  <1>10. CASE state = m.state /\ ~(cmd.do = "resume" /\ m.state = "paused")
    <2>1. CASE m.state = "running"
      BY <1>4, <1>10, <2>1
    <2>2. CASE m.state = "paused" /\ ResumeAsked(g)
      <3>1. PICK i \in 1..Len(Mine(g)) : Mine(g)[i].do = "resume"
        BY <2>2 DEF ResumeAsked
      <3>2. i # 1 /\ Shifted(c, g, g, i) = i - 1 /\ i - 1 # 0
        <4>1. i # 1
          BY <1>1, <1>10, <2>2, <3>1 DEF cmd
        <4>2. Len(Mine(g)) \in Nat
          BY MineLeft
        <4>. QED
          BY <4>1, <4>2 DEF Shifted
      <3>3. PICK n : n = Shifted(c, g, g, i)
        OBVIOUS
      <3>4. n # 0 /\ n \in 1..Len(Mine(g)') /\ Mine(g)'[n] = Mine(g)[i]
        BY <3>2, <3>3, MineLeft
      <3>5. ResumeAsked(g)'
        BY <3>1, <3>4 DEF ResumeAsked
      <3>. QED
        BY <1>3, <1>10, <2>2, <3>5 DEF Covered, state
    <2>3. CASE m.state = "paused" /\ \E k \in CallIds : Returns(k, g)
      <3>1. PICK k \in CallIds : Returns(k, g)
        BY <2>3
      <3>2. Returns(k, g)'
        BY <3>1, RanReturns
      <3>. QED
        BY <1>3, <1>10, <2>3, <3>2 DEF Covered, state
    <2>. QED
      BY <1>3, <1>5, <2>1, <2>2, <2>3 DEF Covered, m
  <1>. QED
    BY <1>2, <1>4, <1>6, <1>7, <1>8, <1>9, <1>10 DEF Becomes

LEMMA RunBack ==
    ASSUME AlwaysInv, BackInv, Harmless', NEW c \in Contexts, NEW g \in Guests, RunCommand(c, g)
    PROVE  BackInv'
  <1>1. /\ OneByOne /\ Unaborted /\ AllAwaited /\ MarkedFirst /\ OneBootEach /\ PausesFit
        /\ ContextsMade /\ CandidatesApart /\ ShutdownsKept /\ MarksKept /\ AllCovered
    BY DEF BackInv
  <1>2. TypeOK /\ Turned(c, g) /\ Ran(c, g) /\ UNCHANGED facade
    BY RunTurns, RunsOn DEF AlwaysInv
  <1>3. OneByOne' /\ Unaborted' /\ AllAwaited' /\ MarkedFirst' /\ OneBootEach' /\ PausesFit'
    BY <1>1, <1>2, RanOneByOne, RanUnaborted, RanAwaited, RanMarks, RanBoots, RanPauses
  <1>4. ContextsMade' /\ CandidatesApart' /\ ShutdownsKept' /\ MarksKept'
    BY <1>1, <1>2, RanContexts, RanKeeps
  <1>5. ASSUME NEW h \in Guests PROVE Covered(h)'
    <2>1. CASE c = facade.active /\ h = g
      BY <1>1, <1>2, <2>1, RanCovered
    <2>2. CASE ~(c = facade.active /\ h = g)
      BY <1>1, <1>2, <2>2, OthersCovered DEF AllCovered
    <2>. QED
      BY <2>1, <2>2
  <1>6. AllCovered'
    BY <1>5 DEF AllCovered
  <1>. QED
    BY <1>3, <1>4, <1>6 DEF BackInv

-----------------------------------------------------------------------------
(* The guests come back *)

\* A fault that has happened, and an overlap, stay in the history.
Remembers == faults \subseteq faults' /\ (inTurn' => inTurn)

LEMMA FaultRemembers ==
    ASSUME NEW what, NEW must, UNCHANGED faults \/ Fault(what) \/ Fails(must, what)
    PROVE  faults \subseteq faults'
  BY DEF Fault, Fails

LEMMA RequestsRemember ==
    ASSUME NEW k \in CallIds, Requests(k)
    PROVE  Remembers
  BY DEF Requests, Initialize, Save, Suspend, RetrySuspendCleanup, ExportImage, ImportImage,
         Dispose, Begin, Remembers

LEMMA CapturingRemembers ==
    ASSUME NEW k \in CallIds, Capturing(k)
    PROVE  Remembers
  <1>1. CASE \/ PauseNext(k) \/ PausedAll(k) \/ PauseFailed(k) \/ Unpaused(k) \/ ReadHead(k)
             \/ Captured(k) \/ Resumed(k)
    <2>1. CASE PauseNext(k)
      BY <2>1 DEF PauseNext, Remembers
    <2>2. CASE PausedAll(k)
      BY <2>2 DEF PausedAll, Remembers
    <2>3. CASE PauseFailed(k)
      BY <2>3 DEF PauseFailed, Remembers
    <2>4. CASE Unpaused(k)
      BY <2>4 DEF Unpaused, Remembers
    <2>5. CASE ReadHead(k)
      BY <2>5 DEF ReadHead, Remembers
    <2>6. CASE Captured(k)
      BY <2>6 DEF Captured, Remembers
    <2>7. CASE Resumed(k)
      BY <2>7 DEF Resumed, Remembers
    <2>. QED
      BY <1>1, <2>1, <2>2, <2>3, <2>4, <2>5, <2>6, <2>7
  <1>2. CASE Flushed(k)
    BY <1>2, FaultRemembers DEF Flushed, Remembers
  <1>3. CASE Commit(k)
    BY <1>3, FaultRemembers DEF Commit, Remembers
  <1>4. CASE Pruned(k)
    BY <1>4, FaultRemembers DEF Pruned, Remembers
  <1>. QED
    BY <1>1, <1>2, <1>3, <1>4 DEF Capturing

LEMMA SuspendingRemembers ==
    ASSUME NEW k \in CallIds, Suspending(k)
    PROVE  Remembers
  <1>1. CASE Verified(k)
    BY <1>1, FaultRemembers DEF Verified, Remembers
  <1>2. CASE RolledBack(k) \/ Stopped(k)
    <2>1. CASE RolledBack(k)
      BY <2>1 DEF RolledBack, Remembers
    <2>2. CASE Stopped(k)
      BY <2>2 DEF Stopped, Remembers
    <2>. QED
      BY <1>2, <2>1, <2>2
  <1>3. CASE Release(k)
    BY <1>3, FaultRemembers DEF Release, StopThrows, Remembers
  <1>. QED
    BY <1>1, <1>2, <1>3 DEF Suspending

LEMMA ImportingRemembers ==
    ASSUME NEW k \in CallIds, Importing(k)
    PROVE  Remembers
  <1>1. CASE ArchiveRead(k)
    BY <1>1, FaultRemembers DEF ArchiveRead, Remembers
  <1>2. CASE Staged(k)
    BY <1>2, FaultRemembers DEF Staged, Remembers
  <1>3. CASE CandidatePaused(k) \/ Retired(k) \/ Unstaged(k)
    BY <1>3 DEF CandidatePaused, Retired, Unstaged, Remembers
  <1>4. CASE CandidateCommit(k)
    BY <1>4, FaultRemembers DEF CandidateCommit, Remembers
  <1>5. CASE Adopt(k)
    BY <1>5, FaultRemembers DEF Adopt, Remembers
  <1>. QED
    BY <1>1, <1>2, <1>3, <1>4, <1>5 DEF Importing

LEMMA WakingRemembers ==
    ASSUME NEW k \in CallIds, Waking(k)
    PROVE  Remembers
  <1>1. CASE OwnFails(k)
    BY <1>1, FaultRemembers DEF OwnFails, Remembers
  <1>2. CASE GiveUp(k)
    BY <1>2, FaultRemembers DEF GiveUp, StopThrows, Remembers
  <1>3. CASE \/ Own(k) \/ Wake(k) \/ RestoreNext(k) \/ ResumedAll(k) \/ RestoreFailed(k)
             \/ Booted(k) \/ Unbooted(k)
    <2>1. CASE Own(k)
      BY <2>1 DEF Own, Remembers
    <2>2. CASE Wake(k)
      BY <2>2 DEF Wake, Remembers
    <2>3. CASE RestoreNext(k)
      BY <2>3 DEF RestoreNext, Remembers
    <2>4. CASE ResumedAll(k)
      BY <2>4 DEF ResumedAll, Remembers
    <2>5. CASE RestoreFailed(k)
      BY <2>5 DEF RestoreFailed, Remembers
    <2>6. CASE Booted(k)
      BY <2>6 DEF Booted, Remembers
    <2>7. CASE Unbooted(k)
      BY <2>7 DEF Unbooted, Remembers
    <2>. QED
      BY <1>3, <2>1, <2>2, <2>3, <2>4, <2>5, <2>6, <2>7
  <1>. QED
    BY <1>1, <1>2, <1>3 DEF Waking

LEMMA OthersRemember ==
    ASSUME \/ \E k \in CallIds : Abort(k)
           \/ \E c \in Contexts, g \in Guests :
                 RunCommand(c, g) \/ SkipCommand(c, g) \/ Work(c, g)
           \/ Damage \/ UNCHANGED vars
    PROVE  Remembers
  <1>1. ASSUME NEW k \in CallIds, Abort(k) PROVE Remembers
    <2>1. Fault("abort") /\ UNCHANGED inTurn
      BY <1>1 DEF Abort
    <2>. QED
      BY <2>1 DEF Fault, Remembers
  <1>2. ASSUME NEW c \in Contexts, NEW g \in Guests,
               RunCommand(c, g) \/ SkipCommand(c, g) \/ Work(c, g)
        PROVE  Remembers
    <2>1. CASE RunCommand(c, g)
      <3>1. UNCHANGED inTurn
        BY <2>1 DEF RunCommand
      <3>2. UNCHANGED faults \/ \E what : Fault(what)
        BY <2>1 DEF RunCommand
      <3>3. faults \subseteq faults'
        BY <3>2 DEF Fault
      <3>. QED
        BY <3>1, <3>3 DEF Remembers
    <2>2. CASE SkipCommand(c, g)
      BY <2>2 DEF SkipCommand, Remembers
    <2>3. CASE Work(c, g)
      BY <2>3 DEF Work, Remembers
    <2>. QED
      BY <1>2, <2>1, <2>2, <2>3
  <1>3. CASE Damage
    BY <1>3, FaultRemembers DEF Damage, Remembers
  <1>4. CASE UNCHANGED vars
    BY <1>4 DEF vars, Remembers
  <1>. QED
    BY <1>1, <1>2, <1>3, <1>4

LEMMA NextRemembers ==
    ASSUME [Next]_vars
    PROVE  Remembers
  <1>1. CASE \E k \in CallIds : Requests(k) \/ Continue(k)
    BY <1>1, RequestsRemember, CapturingRemembers, SuspendingRemembers, ImportingRemembers,
       WakingRemembers DEF Continue
  <1>. QED
    BY <1>1, OthersRemember DEF Next

\* A step that changes no state, no queue and no call.
LEMMA SameBack ==
    ASSUME AlwaysInv, BackInv, UNCHANGED <<facade, call>>,
           \A c \in Contexts, g \in Guests :
              guest'[c][g].state = guest[c][g].state /\ guest'[c][g].queue = guest[c][g].queue
    PROVE  BackInv'
  <1>1. /\ TypeOK /\ PlacesFit /\ facade.active \in Contexts /\ 1 \in Contexts /\ 1 \in Guests
        /\ \A k \in CallIds : call[k].ctx \in Contexts
    BY Constants_ DEF AlwaysInv, TypeOK, FacadeType, CallType
  <1>2. /\ facade' = facade /\ call' = call
        /\ \A c \in Contexts, g \in Guests : Queue(c, g)' = Queue(c, g)
        /\ \A g \in Guests : guest'[facade.active][g].state = guest[facade.active][g].state
    BY <1>1 DEF Queue
  <1>3. \A c \in Contexts : (Made(c)' <=> Made(c)) /\ (Unasked(c)' <=> Unasked(c))
    BY <1>1, <1>2 DEF Made, Unasked
  <1>4. /\ OneByOne /\ Unaborted /\ AllAwaited /\ MarkedFirst /\ OneBootEach /\ PausesFit
        /\ ContextsMade /\ CandidatesApart /\ ShutdownsKept /\ MarksKept /\ AllCovered
    BY DEF BackInv
  <1>5. OneByOne' /\ PausesFit'
    BY <1>2, <1>4 DEF OneByOne, InFlight, PausesFit, At
  <1>6. Unaborted' /\ AllAwaited' /\ MarkedFirst' /\ OneBootEach'
    BY <1>2, <1>4 DEF Unaborted, AllAwaited, MarkedFirst, OneBootEach
  <1>7. ContextsMade'
    <2>1. \A c \in Contexts : (Made(c) \/ Unasked(c))'
      BY <1>3, <1>4, Zenon DEF ContextsMade
    <2>2. ASSUME NEW c \in Contexts, Made(c) PROVE Made(c)'
      BY <1>3, <2>2
    <2>3. Made(1)' /\ \A k \in CallIds : Made(call[k].ctx)'
      BY <1>1, <1>2, <1>4, <2>2 DEF ContextsMade, Made
    <2>4. (Made(facade.active))'
      BY <1>1, <1>2, <1>4, <2>2 DEF ContextsMade, Made
    <2>. QED
      BY <2>1, <2>3, <2>4 DEF ContextsMade
  <1>8. CandidatesApart'
    <2>1. ASSUME NEW k \in CallIds, At(k, Besides)'
          PROVE  (/\ Made(call[k].cand) /\ Unasked(call[k].cand)
                  /\ call[k].cand # 1 /\ call[k].cand # facade.active
                  /\ \A j \in CallIds :
                        /\ call[j].ctx # call[k].cand
                        /\ At(j, Besides) /\ call[j].cand = call[k].cand => j = k)'
      <3>1. At(k, Besides) /\ \A j \in CallIds : At(j, Besides)' => At(j, Besides)
        BY <1>2, <2>1 DEF At
      <3>2. PICK c \in Contexts : c = call[k].cand
        BY <1>1, <3>1 DEF PlacesFit, At, Besides
      <3>3. Made(c)' /\ Unasked(c)' /\ c = call'[k].cand
        BY <1>2, <1>3, <1>4, <3>1, <3>2 DEF CandidatesApart
      <3>. QED
        BY <1>2, <1>4, <3>1, <3>3 DEF CandidatesApart
    <2>. QED
      BY <2>1 DEF CandidatesApart
  <1>9. \A g \in Guests : Mine(g)' = Mine(g)
    BY <1>1, <1>2 DEF Mine
  <1>10. Unsettled' <=> Unsettled
    BY <1>2 DEF Unsettled, Live, Stuck, InFlight, Turning, Closing, Failing, At
  <1>11. \A g \in Guests : \A k, i : Wakes(k, g, i) => Wakes(k, g, i)'
    BY <1>2, <1>9 DEF Wakes, Later, At
  <1>12. \A g \in Guests : \A i : Kept(g, i) => Kept(g, i)'
    BY <1>10, <1>11 DEF Kept
  <1>13. ShutdownsKept' /\ MarksKept'
    BY <1>4, <1>9, <1>12 DEF ShutdownsKept, MarksKept
  <1>14. ASSUME NEW g \in Guests PROVE Covered(g)'
    <2>1. ResumeAsked(g) => ResumeAsked(g)'
      BY <1>9 DEF ResumeAsked
    <2>2. \A k \in CallIds : Returns(k, g) => Returns(k, g)'
      BY <1>2 DEF Returns, GivesBack, Restores, At
    <2>3. guest'[facade'.active][g].state = guest[facade.active][g].state /\ Covered(g)
      BY <1>2, <1>4 DEF AllCovered
    <2>. QED
      BY <1>12, <2>1, <2>2, <2>3 DEF Covered
  <1>15. AllCovered'
    BY <1>14 DEF AllCovered
  <1>. QED
    BY <1>5, <1>6, <1>7, <1>8, <1>13, <1>15 DEF BackInv

LEMMA InitBack == Init => BackInv
  <1>. SUFFICES ASSUME Init PROVE BackInv
    OBVIOUS
  <1>1. /\ \A k \in CallIds : call[k] = NoCall
        /\ \A c \in Contexts, g \in Guests : Queue(c, g) = <<>> /\ Len(Queue(c, g)) = 0
        /\ facade.active = 1 /\ 1 \in Contexts /\ 1 \in Guests
        /\ guest[1][1].state = "created"
    BY Constants_ DEF Init, Queue
  <1>2. ~facade.initialized
    BY DEF Init
  <1>3. /\ \A k \in CallIds : call[k].at = "idle" /\ call[k].ctx = 1
        /\ \A k \in CallIds : ~call[k].aborted
    BY <1>1 DEF NoCall
  <1>4. OneByOne /\ Unaborted /\ PausesFit /\ CandidatesApart
    BY <1>1, <1>3 DEF OneByOne, Unaborted, PausesFit, CandidatesApart, InFlight, At, Besides
  <1>5. AllAwaited /\ MarkedFirst /\ OneBootEach
    BY <1>1 DEF AllAwaited, MarkedFirst, OneBootEach
  <1>6. ContextsMade
    BY <1>1, <1>3 DEF ContextsMade, Made, Unasked
  <1>7. Unsettled
    BY <1>2 DEF Unsettled, Live
  <1>8. ShutdownsKept /\ MarksKept /\ AllCovered
    BY <1>7 DEF ShutdownsKept, MarksKept, AllCovered, Covered, Kept
  <1>. QED
    BY <1>4, <1>5, <1>6, <1>8 DEF BackInv

\* As long as Only has held, a step keeps BackInv.
LEMMA BackStep ==
    ASSUME AlwaysInv, AlwaysInv', Only => BackInv, [Next]_vars, Only'
    PROVE  BackInv'
  <1>1. Only
    BY NextRemembers DEF Only, Harmless, Remembers
  <1>2. BackInv /\ inTurn' /\ Harmless'
    BY <1>1 DEF Only
  <1>3. ASSUME NEW k \in CallIds, Requests(k) PROVE BackInv'
    BY <1>2, <1>3, SaveBack, ImportImageBack, DisposeBack DEF Requests
  <1>4. ASSUME NEW k \in CallIds, Capturing(k) PROVE BackInv'
    BY <1>2, <1>4, PauseNextBack, PausedAllBack, PauseFailedBack, UnpausedBack, ReadHeadBack,
       FlushedBack, CapturedBack, CommitBack, ResumedBack, PrunedBack DEF Capturing
  <1>5. ASSUME NEW k \in CallIds, Suspending(k) PROVE BackInv'
    BY <1>2, <1>5, VerifiedBack, ResumedBack, StoppedBack, ReleaseBack DEF Suspending
  <1>6. ASSUME NEW k \in CallIds, Importing(k) PROVE BackInv'
    BY <1>2, <1>6, ArchiveReadBack, StagedBack, CandidatePausedBack, CandidateCommitBack,
       AdoptBack, ResumedBack, UnstagedBack DEF Importing
  <1>7. ASSUME NEW k \in CallIds, Waking(k) PROVE BackInv'
    BY <1>2, <1>7, OwnBack, GivesUpBack, WakeBack, RestoreNextBack, ResumedBack, BootedBack,
       GiveUpBack DEF Waking
  <1>8. ~\E k \in CallIds : Abort(k)
    BY <1>2 DEF Abort, Fault, Harmless
  <1>9. ASSUME NEW c \in Contexts, NEW g \in Guests,
               RunCommand(c, g) \/ SkipCommand(c, g) \/ Work(c, g)
        PROVE  BackInv'
    <2>1. CASE RunCommand(c, g)
      BY <1>2, <2>1, RunBack
    <2>2. ~SkipCommand(c, g)
      <3>1. Queue(c, g) \in Seq(Command)
        BY QueueTyped DEF AlwaysInv
      <3>2. Queue(c, g) # <<>> => 1 \in 1..Len(Queue(c, g)) /\ Head(Queue(c, g)) = Queue(c, g)[1]
        BY <3>1, TailOf
      <3>. QED
        BY <1>2, <3>2 DEF BackInv, Unaborted, SkipCommand, Queue
    <2>3. CASE Work(c, g)
      <3>1. Worked(c, g) /\ UNCHANGED <<facade, call>>
        BY <2>3, WorkWorks DEF AlwaysInv
      <3>. QED
        BY <1>2, <3>1, SameBack DEF Worked
    <2>. QED
      BY <1>9, <2>1, <2>2, <2>3
  <1>10. CASE Damage \/ UNCHANGED vars
    <2>1. UNCHANGED <<facade, guest, call>>
      BY <1>10 DEF Damage, vars
    <2>. QED
      BY <1>2, <2>1, SameBack
  <1>. QED
    BY <1>3, <1>4, <1>5, <1>6, <1>7, <1>8, <1>9, <1>10 DEF Next, Continue

\* Where nothing is under way, a hot computer is not unsettled, and no call or
\* command is left to wake or resume a guest.
LEMMA BackAtRest ==
    ASSUME AlwaysInv, Only => BackInv
    PROVE  GuestsComeBack
  <1>. SUFFICES ASSUME Quiet, IsHot, inTurn, faults \cap {"abort", "resume"} = {},
                       NEW g \in Guests
                PROVE  guest[facade.active][g].state = "running"
    BY DEF GuestsComeBack
  <1>1. Covered(g)
    BY DEF Only, Harmless, BackInv, AllCovered
  <1>2. Live /\ facade.life = "hot" /\ \A k \in CallIds : ~InFlight(k)
    BY DEF IsHot, Live, Quiet
  <1>3. facade.active \in Contexts
    BY DEF AlwaysInv, TypeOK, FacadeType
  <1>4. Len(Mine(g)) = 0
    <2>1. Mine(g) = <<>>
      BY <1>3 DEF Quiet, Mine, Queue
    <2>. QED
      BY <2>1
  <1>5. ~Unsettled
    BY <1>2 DEF Unsettled, Stuck, Turning, Closing, Failing, At, InFlight
  <1>6. \A k \in CallIds : ~Wakes(k, g, 0) /\ ~Returns(k, g)
    BY <1>2 DEF Wakes, Returns, GivesBack, Restores, At, Held, InFlight
  <1>7. ~ResumeAsked(g)
    BY <1>4 DEF ResumeAsked
  <1>. QED
    BY <1>1, <1>5, <1>6, <1>7 DEF Covered, Kept

\* In a hot computer with nothing under way every guest runs, however saves,
\* exports and imports overlapped one another and the operation that wakes or
\* closes the computer, and whatever failed, but for signals and for guests
\* that did not resume.
THEOREM GuestsDoComeBack == Spec => []GuestsComeBack
  <1>1. Init => (Only => BackInv)
    BY InitBack
  <1>2. IInv /\ IInv' /\ (Only => BackInv) /\ [Next]_vars => (Only => BackInv)'
    BY BackStep DEF IInv
  <1>3. IInv /\ (Only => BackInv) => GuestsComeBack
    BY BackAtRest DEF IInv
  <1>. QED
    BY <1>1, <1>2, <1>3, ComputerAlways, PTL DEF Spec
=============================================================================
