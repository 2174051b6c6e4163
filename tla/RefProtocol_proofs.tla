------------------------- MODULE RefProtocol_proofs -------------------------
(***************************************************************************)
(* Theorems about RefProtocol: the store's state keeps its shape; no ref   *)
(* points to a generation that is not all there; under one controller PREV *)
(* is what HEAD was, and one harm leaves a generation that opens.  They    *)
(* are for any generations, objects, crashes and failed writes.            *)
(***************************************************************************)
EXTENDS RefProtocol, FiniteSetTheorems, TLAPS

(* A writer that has begun knows its commit and its ref, and the head it    *)
(* saves as PREV is a commit.                                               *)
Equipped ==
    \A w \in Writers :
        /\ writer[w].pc \notin {"idle", "failed"} =>
              writer[w].commit \in Commits /\ writer[w].ref \in Names
        /\ writer[w].pc = "prev" => writer[w].head \in Commits

Typed == TypeOK /\ Equipped

LEMMA ReachIsObjects ==
    \A c \in Commits : Reach(c) \subseteq Objects /\ c \in Objects
                       /\ Tree(c) \in Objects /\ Payloads(c) \subseteq Objects
  BY DEF Objects, Reach

LEMMA QuietIsCall == Quiet \in Calls /\ Quiet.pc = "idle"
  BY DEF Quiet, Calls, Phases

LEMMA StoreStays == [Next]_vars => store' = store
  BY ZenonT(60) DEF Next, vars, Step, Begin, HasObject, CreateObject, WriteObject,
         WriteFails, PhaseDone, Forget, CheckFence, ReadRef, CreateRef,
         WritePrev, WriteRef, ClaimOwner, Crash, HarmObject, HarmRef

LEMMA InitTyped == Init => Typed
  BY QuietIsCall DEF Init, Typed, TypeOK, Equipped, Calls, Quiet

LEMMA NextTyped == Typed /\ [Next]_vars => Typed'
<1> SUFFICES ASSUME Typed, [Next]_vars PROVE Typed'
  OBVIOUS
<1> USE DEF Typed
<1>0. store' = store
  BY StoreStays
<1>1. TypeOK /\ Equipped
  OBVIOUS
<1>2. ASSUME NEW w \in Writers, Step(w) PROVE Typed'
  <2>1. writer[w] \in Calls
    BY <1>1 DEF TypeOK, Calls
  <2>2. ASSUME NEW c \in Commits, NEW n \in Names, NEW f \in 0..owner,
               Begin(w, c, n, f)
        PROVE  Typed'
    <3>1. writer'[w] = [Quiet EXCEPT !.pc = "payloads", !.commit = c,
                          !.ref = n, !.fence = f, !.todo = Payloads(c)]
      BY <1>0, <1>1, <2>2 DEF Begin, TypeOK
    <3> f \in Nat /\ Payloads(c) \in SUBSET Objects
      BY <1>0, <1>1, ReachIsObjects DEF TypeOK
    <3>2. writer'[w] \in Calls
      BY <3>1 DEF Quiet, Calls, Phases
    <3>3. writer' = [writer EXCEPT ![w] = writer'[w]]
      BY <2>2, <1>1 DEF Begin, TypeOK
    <3>4. TypeOK'
      BY <1>0, <1>1, <2>2, <3>2, <3>3 DEF Begin, TypeOK
    <3>5. writer'[w].pc = "payloads" /\ writer'[w].commit = c /\ writer'[w].ref = n
      BY <3>1 DEF Quiet
    <3> QED
      BY <1>0, <1>1, <3>3, <3>4, <3>5 DEF Equipped, TypeOK
  <2>3. ASSUME NEW o \in Objects, HasObject(w, o) PROVE Typed'
    BY <1>0, <1>1, <2>1, <2>3, ZenonT(60) DEF HasObject, TypeOK, Equipped, Calls
  <2>4. ASSUME NEW o \in Objects, CreateObject(w, o) PROVE Typed'
    BY <1>0, <1>1, <2>1, <2>4 DEF CreateObject, TypeOK, Equipped, Calls
  <2>5. ASSUME NEW o \in Objects, WriteObject(w, o) PROVE Typed'
    BY <1>0, <1>1, <2>1, <2>5 DEF WriteObject, TypeOK, Equipped, Calls
  <2>6. ASSUME NEW o \in Objects, WriteFails(w, o) PROVE Typed'
    <3>1. writer'[w] \in Calls /\ writer'[w].pc = "failed"
      BY <1>0, <1>1, <2>1, <2>6 DEF WriteFails, TypeOK, Calls
    <3>2. TypeOK'
      BY <1>0, <1>1, <2>6, <3>1 DEF WriteFails, TypeOK
    <3> QED
      BY <1>0, <1>1, <2>6, <3>1, <3>2 DEF WriteFails, TypeOK, Equipped
  <2>7. ASSUME PhaseDone(w) PROVE Typed'
    <3> DEFINE next == NextPhase(writer[w].pc)
               todo == IF next = "fence" THEN {}
                       ELSE PhaseObjects(writer[w].commit, next)
    <3>1. next \in {"tree", "commit", "fence"}
      BY DEF NextPhase
    <3>2. writer[w].pc \in Phases /\ writer[w].commit \in Commits
      BY <1>0, <1>1, <2>7 DEF PhaseDone, Equipped, Phases
    <3>3. todo \in SUBSET Objects
      BY <3>2, ReachIsObjects DEF PhaseObjects
    <3>4. writer' = [writer EXCEPT ![w].pc = next, ![w].todo = todo]
      BY <2>7 DEF PhaseDone
    <3> HIDE DEF next, todo
    <3>5. /\ writer'[w] \in Calls
          /\ writer'[w].commit = writer[w].commit
          /\ writer'[w].ref = writer[w].ref
          /\ writer'[w].pc = next
      BY <1>0, <1>1, <2>1, <3>1, <3>3, <3>4 DEF Calls, Phases, TypeOK
    <3>6. TypeOK'
      BY <1>0, <1>1, <2>7, <3>4, <3>5 DEF PhaseDone, TypeOK
    <3> QED
      BY <1>0, <1>1, <3>1, <3>2, <3>4, <3>5, <3>6 DEF Equipped, Phases, TypeOK
  <2>8. ASSUME Forget(w) PROVE Typed'
    BY <1>0, <1>1, <2>8, QuietIsCall DEF Forget, GiveUp, TypeOK, Equipped
  <2>9. ASSUME CheckFence(w) PROVE Typed'
    <3>1. CASE GiveUp(w)
      BY <1>0, <1>1, <2>9, <3>1, QuietIsCall
      DEF CheckFence, GiveUp, TypeOK, Equipped
    <3>2. CASE Go(w, "readRef")
      BY <1>0, <1>1, <2>1, <2>9, <3>2
      DEF CheckFence, Go, At, TypeOK, Equipped, Calls
    <3> QED
      BY <2>9, <3>1, <3>2 DEF CheckFence
  <2>10. ASSUME ReadRef(w) PROVE Typed'
    BY <1>0, <1>1, <2>1, <2>10, QuietIsCall
    DEF ReadRef, Go, GiveUp, At, TypeOK, Equipped, Calls, Quiet
  <2>11. ASSUME NEW n \in Names, CreateRef(w, n) PROVE Typed'
    BY <1>0, <1>1, <2>1, <2>11 DEF CreateRef, At, TypeOK, Equipped, Calls
  <2>12. ASSUME WritePrev(w) PROVE Typed'
    BY <1>0, <1>1, <2>1, <2>12 DEF WritePrev, Go, At, TypeOK, Equipped, Calls
  <2>13. ASSUME WriteRef(w) PROVE Typed'
    BY <1>0, <1>1, <2>1, <2>13, QuietIsCall
    DEF WriteRef, GiveUp, At, TypeOK, Equipped, Calls, Quiet
  <2> QED
    BY <1>2, <2>2, <2>3, <2>4, <2>5, <2>6, <2>7, <2>8, <2>9, <2>10, <2>11,
       <2>12, <2>13 DEF Step
<1>3. ASSUME ClaimOwner PROVE Typed'
  BY <1>0, <1>1, <1>3 DEF ClaimOwner, TypeOK, Equipped
<1>4. ASSUME Crash PROVE Typed'
  BY <1>0, <1>1, <1>4, QuietIsCall DEF Crash, TypeOK, Equipped, Calls, Quiet
<1>5. ASSUME NEW o \in Objects, HarmObject(o) PROVE Typed'
  BY <1>0, <1>1, <1>5 DEF HarmObject, TypeOK, Equipped
<1>6. ASSUME NEW n \in Names, HarmRef(n) PROVE Typed'
  BY <1>0, <1>1, <1>6 DEF HarmRef, TypeOK, Equipped
<1>7. CASE UNCHANGED vars
  BY <1>0, <1>1, <1>7 DEF vars, TypeOK, Equipped
<1> QED
  BY <1>2, <1>3, <1>4, <1>5, <1>6, <1>7 DEF Next

(* The store and the calls keep their shape: in particular PREV is only     *)
(* ever given a commit, never the reading of a ref that was missing.        *)
THEOREM TypeCorrect == Spec => []TypeOK
<1>1. Init => Typed
  BY InitTyped
<1>2. Typed /\ [Next]_vars => Typed'
  BY NextTyped
<1> QED
  BY <1>1, <1>2, PTL DEF Spec, Typed

-----------------------------------------------------------------------------
(* The write order.  An object is good when it is whole, or was until the   *)
(* storage harmed it.  Where writes are atomic, or one controller runs that *)
(* is not cut off, no step makes a good object bad, so what one phase has   *)
(* written is still good when the ref is replaced.                          *)

OneController == \A v, w \in Writers : v = w

Intact == store.atomic \/ (OneController /\ store.maxCrashes = 0)

Good(o) == disk[o] = "whole" \/ o \in harmed

\* An empty file belongs to the call that created it.
Accounted(o) ==
    disk[o] = "absent" \/ Good(o) \/ \E w \in Writers : o \in writer[w].made

Complete(c) == \A o \in Reach(c) : Good(o)

\* The files a call has open are empty, and are closed when the call ends.
Lanes(w) ==
    LET call == writer[w] IN
    /\ call.made \subseteq call.writing
    /\ call.todo \cap call.writing = {}
    /\ store.atomic => call.made = {}
    /\ \A o \in call.made : disk[o] = "empty"
    /\ call.pc \notin Phases \cup {"failed"} => call.todo = {} /\ call.writing = {}

InOrder(w) ==
    LET call == writer[w] IN
    /\ call.pc \in Phases =>
          \A o \in PhaseObjects(call.commit, call.pc) :
              o \in call.todo \cup call.writing \/ Good(o)
    /\ call.pc \in {"tree", "commit"} =>
          \A o \in Payloads(call.commit) : Good(o)
    /\ call.pc = "commit" => Good(Tree(call.commit))
    /\ call.pc \in {"fence", "readRef", "prev", "ref"} => Complete(call.commit)
    /\ call.pc = "prev" => Complete(call.head)

WriteOrder ==
    /\ Typed
    /\ \A o \in Objects : Accounted(o)
    /\ \A w \in Writers : Lanes(w)
    /\ \A w \in Writers : InOrder(w)
    /\ \A n \in Names : refs[n] \in Commits => Complete(refs[n])

\* The steps of a call either leave the objects alone or write one.
ObjectsKept ==
    \A o \in Objects :
        /\ Good(o) => Good(o)'
        /\ Accounted(o) => Accounted(o)'

\* What was good for a call still is, if what it no longer has to write is.
LEMMA OrderKept ==
    ASSUME Typed, ObjectsKept, NEW w \in Writers, InOrder(w),
           writer'[w].pc = writer[w].pc, writer'[w].commit = writer[w].commit,
           writer'[w].head = writer[w].head,
           \A o \in writer[w].todo \cup writer[w].writing :
               o \in writer'[w].todo \cup writer'[w].writing \/ Good(o)'
    PROVE  InOrder(w)'
<1>1. writer[w].pc \notin {"idle", "failed"} => writer[w].commit \in Commits
  BY DEF Typed, Equipped
<1>2. writer[w].pc = "prev" => writer[w].head \in Commits
  BY DEF Typed, Equipped
<1>3. \A o \in Objects : Good(o) => Good(o)'
  BY DEF ObjectsKept
<1>4. \A c \in Commits : Complete(c) => Complete(c)'
  BY <1>3, ReachIsObjects DEF Complete
<1>5. \A c \in Commits : \A o \in PhaseObjects(c, writer[w].pc) : o \in Objects
  BY ReachIsObjects DEF PhaseObjects
<1>6. PhaseObjects(writer[w].commit, writer[w].pc)'
      = PhaseObjects(writer[w].commit, writer[w].pc)
  BY DEF PhaseObjects
<1> QED
  BY <1>1, <1>2, <1>3, <1>4, <1>5, <1>6, ReachIsObjects DEF InOrder, Phases

\* A call only has files of its own open, so one it has yet to look at is
\* not empty.
LEMMA NothingOpenInTodo ==
    ASSUME Intact, \A v \in Writers : Lanes(v), NEW w \in Writers,
           NEW o \in writer[w].todo, NEW v \in Writers
    PROVE  o \notin writer[v].made
  BY DEF Intact, OneController, Lanes

LEMMA LanesKept ==
    ASSUME Typed, Intact, [Next]_vars, \A w \in Writers : Lanes(w)
    PROVE  \A w \in Writers : Lanes(w)'
<1>1. store' = store /\ writer \in [Writers -> Calls]
  BY StoreStays DEF Typed, TypeOK
<1>2. ASSUME NEW v \in Writers, writer'[v] = writer[v],
             \A o \in writer[v].made : disk'[o] = disk[o]
      PROVE  Lanes(v)'
  BY <1>1, <1>2 DEF Lanes
<1>3. ASSUME NEW v \in Writers, writer'[v] = Quiet PROVE Lanes(v)'
  BY <1>3 DEF Lanes, Quiet
\* A step of one call: no other call has a file open.
<1>4. ASSUME NEW w \in Writers, \A v \in Writers \ {w} : writer'[v] = writer[v],
             Lanes(w)'
      PROVE  \A v \in Writers : Lanes(v)'
  <2> SUFFICES ASSUME NEW v \in Writers, v # w PROVE Lanes(v)'
    BY <1>4
  <2>1. writer[v].made = {}
    BY DEF Intact, OneController, Lanes
  <2> QED
    BY <1>2, <1>4, <2>1
<1>5. ASSUME NEW w \in Writers, Step(w) PROVE \A v \in Writers : Lanes(v)'
  <2>1. writer[w] \in Calls /\ Lanes(w)
    BY <1>1
  <2>2. ASSUME NEW o \in Objects, HasObject(w, o) PROVE Lanes(w)'
    <3>1. writer'[w] = [writer[w] EXCEPT
             !.todo = @ \ {o},
             !.writing = IF disk[o] = "absent" THEN @ \cup {o} ELSE @]
      BY <1>1, <2>2 DEF HasObject
    <3>2. /\ writer'[w].pc = writer[w].pc /\ writer'[w].made = writer[w].made
          /\ writer'[w].todo = writer[w].todo \ {o}
          /\ writer'[w].writing \in {writer[w].writing, writer[w].writing \cup {o}}
      BY <2>1, <3>1 DEF Calls
    <3> QED
      BY <1>1, <2>1, <2>2, <3>2 DEF Lanes, HasObject
  <2>3. ASSUME NEW o \in Objects, CreateObject(w, o) PROVE Lanes(w)'
    <3>1. writer'[w] = [writer[w] EXCEPT !.made = @ \cup {o}]
      BY <1>1, <2>3 DEF CreateObject
    <3>2. /\ writer'[w].pc = writer[w].pc /\ writer'[w].todo = writer[w].todo
          /\ writer'[w].writing = writer[w].writing
          /\ writer'[w].made = writer[w].made \cup {o}
      BY <2>1, <3>1 DEF Calls
    <3>3. disk'[o] = "empty" /\ \A p \in Objects \ {o} : disk'[p] = disk[p]
      BY <2>3 DEF CreateObject, Typed, TypeOK
    <3>4. writer[w].made \subseteq Objects
      BY <2>1 DEF Calls
    <3> QED
      BY <1>1, <2>1, <2>3, <3>2, <3>3, <3>4 DEF Lanes, CreateObject
  <2>4. ASSUME NEW o \in Objects, WriteObject(w, o) \/ WriteFails(w, o)
        PROVE  Lanes(w)'
    <3>1. \/ writer'[w] = [writer[w] EXCEPT !.writing = @ \ {o}, !.made = @ \ {o}]
          \/ writer'[w] = [writer[w] EXCEPT !.writing = @ \ {o}, !.made = @ \ {o},
                                            !.pc = "failed"]
      BY <1>1, <2>4 DEF WriteObject, WriteFails
    <3>2. /\ writer'[w].pc \in {writer[w].pc, "failed"}
          /\ writer'[w].todo = writer[w].todo
          /\ writer'[w].writing = writer[w].writing \ {o}
          /\ writer'[w].made = writer[w].made \ {o}
      BY <2>1, <3>1 DEF Calls
    <3>3. \A p \in Objects \ {o} : disk'[p] = disk[p]
      BY <2>4 DEF WriteObject, WriteFails, Typed, TypeOK
    <3>4. writer[w].made \subseteq Objects
      BY <2>1 DEF Calls
    <3> QED
      BY <1>1, <2>1, <3>2, <3>3, <3>4 DEF Lanes
  <2>5. ASSUME NEW c \in Commits, NEW n \in Names, NEW f \in 0..owner,
               Begin(w, c, n, f)
        PROVE  Lanes(w)'
    <3>1. writer'[w] = [Quiet EXCEPT !.pc = "payloads", !.commit = c,
                          !.ref = n, !.fence = f, !.todo = Payloads(c)]
      BY <1>1, <2>5 DEF Begin
    <3> QED
      BY <3>1 DEF Lanes, Quiet, Phases
  <2>6. ASSUME PhaseDone(w) PROVE Lanes(w)'
    <3> DEFINE next == NextPhase(writer[w].pc)
               todo == IF next = "fence" THEN {}
                       ELSE PhaseObjects(writer[w].commit, next)
    <3>1. next \in {"tree", "commit", "fence"}
      BY DEF NextPhase
    <3>2. writer'[w] = [writer[w] EXCEPT !.pc = next, !.todo = todo]
      BY <1>1, <2>6 DEF PhaseDone
    <3>3. next = "fence" => todo = {}
      OBVIOUS
    <3>4. writer[w].writing = {} /\ disk' = disk
      BY <2>6 DEF PhaseDone
    <3> HIDE DEF next, todo
    <3>5. /\ writer'[w].pc = next /\ writer'[w].todo = todo
          /\ writer'[w].writing = {} /\ writer'[w].made = writer[w].made
      BY <2>1, <3>2, <3>4 DEF Calls
    <3> QED
      BY <1>1, <2>1, <3>1, <3>3, <3>4, <3>5 DEF Lanes, Phases
  <2>7. ASSUME writer' = [writer EXCEPT ![w] = Quiet] PROVE Lanes(w)'
    BY <1>1, <1>3, <2>7
  <2>8. ASSUME disk' = disk, writer[w].pc \in {"fence", "readRef", "prev", "ref"},
               writer'[w].pc \in {"fence", "readRef", "prev", "ref"},
               writer'[w].todo = writer[w].todo, writer'[w].made = writer[w].made,
               writer'[w].writing = writer[w].writing
        PROVE  Lanes(w)'
    BY <1>1, <2>1, <2>8 DEF Lanes, Phases
  <2>9. ASSUME Forget(w) PROVE Lanes(w)'
    BY <2>7, <2>9 DEF Forget, GiveUp
  <2>10. ASSUME CheckFence(w) PROVE Lanes(w)'
    <3>1. CASE GiveUp(w)
      BY <2>7, <3>1 DEF GiveUp
    <3>2. CASE Go(w, "readRef")
      <4>1. writer'[w] = [writer[w] EXCEPT !.pc = "readRef"]
        BY <1>1, <3>2 DEF Go
      <4> QED
        BY <2>1, <2>8, <2>10, <4>1 DEF CheckFence, At, Calls
    <3> QED
      BY <2>10, <3>1, <3>2 DEF CheckFence
  <2>11. ASSUME ReadRef(w) PROVE Lanes(w)'
    <3>1. CASE GiveUp(w)
      BY <2>7, <3>1 DEF GiveUp
    <3>2. CASE Go(w, "ref")
      <4>1. writer'[w] = [writer[w] EXCEPT !.pc = "ref"]
        BY <1>1, <3>2 DEF Go
      <4> QED
        BY <2>1, <2>8, <2>11, <4>1 DEF ReadRef, At, Calls
    <3>3. CASE writer' = [writer EXCEPT ![w].pc = "prev",
                                        ![w].head = refs[writer[w].ref]]
      <4>1. writer'[w] = [writer[w] EXCEPT !.pc = "prev",
                                           !.head = refs[writer[w].ref]]
        BY <1>1, <3>3
      <4> QED
        BY <2>1, <2>8, <2>11, <4>1 DEF ReadRef, At, Calls
    <3> QED
      BY <2>11, <3>1, <3>2, <3>3 DEF ReadRef
  <2>12. ASSUME NEW n \in Names, CreateRef(w, n) PROVE Lanes(w)'
    BY <1>2, <2>12 DEF CreateRef
  <2>13. ASSUME WritePrev(w) PROVE Lanes(w)'
    <3>1. writer'[w] = [writer[w] EXCEPT !.pc = "ref"]
      BY <1>1, <2>13 DEF WritePrev, Go
    <3> QED
      BY <2>1, <2>8, <2>13, <3>1 DEF WritePrev, At, Calls
  <2>14. ASSUME WriteRef(w) PROVE Lanes(w)'
    BY <2>7, <2>14 DEF WriteRef, GiveUp
  <2>15. Lanes(w)'
    BY <1>5, <2>2, <2>3, <2>4, <2>5, <2>6, <2>9, <2>10, <2>11, <2>12, <2>13,
       <2>14 DEF Step
  <2>16. \A v \in Writers \ {w} : writer'[v] = writer[v]
    BY <1>1, <1>5, ZenonT(60)
    DEF Step, Begin, HasObject, CreateObject, WriteObject, WriteFails, PhaseDone,
        Forget, CheckFence, ReadRef, CreateRef, WritePrev, WriteRef, Go, GiveUp
  <2> QED
    BY <1>4, <2>15, <2>16
<1>6. ASSUME NEW o \in Objects, HarmObject(o), NEW w \in Writers PROVE Lanes(w)'
  <2>1. o \notin writer[w].made
    BY <1>6 DEF HarmObject, Lanes
  <2>2. writer' = writer /\ \A p \in Objects \ {o} : disk'[p] = disk[p]
    BY <1>6 DEF HarmObject, Typed, TypeOK
  <2>3. writer[w].made \subseteq Objects
    BY <1>1 DEF Calls
  <2> QED
    BY <1>2, <2>1, <2>2, <2>3
<1>7. ASSUME \/ \E n \in Names : HarmRef(n)
             \/ ClaimOwner \/ UNCHANGED vars,
             NEW w \in Writers
      PROVE  Lanes(w)'
  BY <1>2, <1>7 DEF HarmRef, ClaimOwner, vars
<1>8. ASSUME Crash, NEW w \in Writers PROVE Lanes(w)'
  BY <1>3, <1>8 DEF Crash
<1> QED
  BY <1>5, <1>6, <1>7, <1>8 DEF Next

LEMMA GoodStaysGood ==
    ASSUME Typed, Intact, [Next]_vars, \A w \in Writers : Lanes(w)
    PROVE  ObjectsKept
<1>1. store' = store /\ writer \in [Writers -> Calls]
  BY StoreStays DEF Typed, TypeOK
<1>2. ASSUME disk' = disk, \A o \in Objects : o \in harmed => o \in harmed',
             \A v \in Writers : writer[v].made \subseteq writer'[v].made
      PROVE  ObjectsKept
  BY <1>2 DEF ObjectsKept, Accounted, Good
\* A call that ends has closed its files.
<1>3. ASSUME NEW w \in Writers,
             \/ writer[w].writing = {}
             \/ writer[w].pc \notin Phases \cup {"failed"},
             \A v \in Writers \ {w} : writer'[v] = writer[v]
      PROVE  \A v \in Writers : writer[v].made \subseteq writer'[v].made
  <2>1. writer[w].made = {}
    BY <1>3 DEF Lanes
  <2> QED
    BY <1>3, <2>1
<1>4. ASSUME NEW w \in Writers, Step(w) PROVE ObjectsKept
  <2>0. writer[w] \in Calls /\ Lanes(w)
    BY <1>1
  <2>1. \A v \in Writers \ {w} : writer'[v] = writer[v]
    BY <1>1, <1>4, ZenonT(60)
    DEF Step, Begin, HasObject, CreateObject, WriteObject, WriteFails, PhaseDone,
        Forget, CheckFence, ReadRef, CreateRef, WritePrev, WriteRef, Go, GiveUp
  <2>2. ASSUME NEW o \in Objects, WriteObject(w, o) PROVE ObjectsKept
    <3>1. writer'[w] = [writer[w] EXCEPT !.writing = @ \ {o}, !.made = @ \ {o}]
      BY <1>1, <2>2 DEF WriteObject
    <3>2. writer'[w].made = writer[w].made \ {o}
      BY <2>0, <3>1 DEF Calls
    <3>3. /\ disk'[o] = "whole" /\ harmed' = harmed \ {o}
          /\ \A p \in Objects \ {o} : disk'[p] = disk[p]
      BY <2>2 DEF WriteObject, Typed, TypeOK
    <3>4. \A v \in Writers : writer[v].made \subseteq writer'[v].made \cup {o}
      BY <2>1, <3>2
    <3> QED
      BY <3>3, <3>4 DEF ObjectsKept, Accounted, Good
  <2>3. ASSUME NEW o \in Objects, WriteFails(w, o) PROVE ObjectsKept
    <3>1. writer'[w] = [writer[w] EXCEPT !.writing = @ \ {o}, !.made = @ \ {o},
                                         !.pc = "failed"]
      BY <1>1, <2>3 DEF WriteFails
    <3>2. writer'[w].made = writer[w].made \ {o}
      BY <2>0, <3>1 DEF Calls
    <3>3. /\ disk'[o] = IF o \in writer[w].made THEN "absent" ELSE disk[o]
          /\ \A p \in Objects \ {o} : disk'[p] = disk[p]
          /\ harmed' = harmed
      BY <2>3 DEF WriteFails, Typed, TypeOK
    <3>4. \A v \in Writers : writer[v].made \subseteq writer'[v].made \cup {o}
      BY <2>1, <3>2
    <3>5. \A p \in Objects \ {o} : (Good(p) => Good(p)')
                                   /\ (Accounted(p) => Accounted(p)')
      BY <3>3, <3>4 DEF Accounted, Good
    <3>6. CASE o \in writer[w].made
      BY <2>0, <3>3, <3>5, <3>6 DEF ObjectsKept, Accounted, Good, Lanes
    <3>7. CASE o \notin writer[w].made
      <4>1. \A v \in Writers : writer[v].made \subseteq writer'[v].made
        BY <2>1, <3>2, <3>7
      <4> QED
        BY <3>3, <3>5, <3>7, <4>1 DEF ObjectsKept, Accounted, Good
    <3> QED
      BY <3>6, <3>7
  <2>4. ASSUME NEW o \in Objects, HasObject(w, o) PROVE ObjectsKept
    <3>1. writer'[w] = [writer[w] EXCEPT
             !.todo = @ \ {o},
             !.writing = IF disk[o] = "absent" THEN @ \cup {o} ELSE @]
      BY <1>1, <2>4 DEF HasObject
    <3>2. writer'[w].made = writer[w].made
      BY <2>0, <3>1 DEF Calls
    <3> QED
      BY <1>2, <2>1, <2>4, <3>2 DEF HasObject
  <2>5. ASSUME NEW o \in Objects, CreateObject(w, o) PROVE ObjectsKept
    <3>1. writer'[w] = [writer[w] EXCEPT !.made = @ \cup {o}]
      BY <1>1, <2>5 DEF CreateObject
    <3>2. writer'[w].made = writer[w].made \cup {o}
      BY <2>0, <3>1 DEF Calls
    <3>3. /\ disk[o] = "absent" /\ harmed' = harmed
          /\ \A p \in Objects \ {o} : disk'[p] = disk[p]
      BY <2>5 DEF CreateObject, Typed, TypeOK
    <3> QED
      BY <2>1, <3>2, <3>3 DEF ObjectsKept, Accounted, Good
  <2>6. ASSUME WritePrev(w) PROVE ObjectsKept
    <3>1. \A v \in Writers : writer[v].made \subseteq writer'[v].made
      BY <1>3, <2>1, <2>6 DEF WritePrev, At, Phases
    <3> QED
      BY <1>2, <2>6, <3>1, NameAssumption DEF WritePrev, Names
  <2>7. ASSUME WriteRef(w) PROVE ObjectsKept
    <3>1. \A v \in Writers : writer[v].made \subseteq writer'[v].made
      BY <1>3, <2>1, <2>7 DEF WriteRef, At, Phases
    <3>2. writer[w].ref \in Names
      BY <2>7 DEF WriteRef, At, Typed, Equipped
    <3> QED
      BY <1>2, <2>7, <3>1, <3>2, NameAssumption DEF WriteRef
  <2>8. ASSUME NEW c \in Commits, NEW n \in Names, NEW f \in 0..owner,
               Begin(w, c, n, f)
        PROVE  ObjectsKept
    <3>1. \A v \in Writers : writer[v].made \subseteq writer'[v].made
      BY <1>3, <2>1, <2>8 DEF Begin, At, Phases
    <3> QED
      BY <1>2, <2>8, <3>1 DEF Begin
  <2>9. ASSUME PhaseDone(w) \/ Forget(w) PROVE ObjectsKept
    <3>1. \A v \in Writers : writer[v].made \subseteq writer'[v].made
      BY <1>3, <2>1, <2>9 DEF PhaseDone, Forget
    <3> QED
      BY <1>2, <2>9, <3>1 DEF PhaseDone, Forget
  <2>10. ASSUME CheckFence(w) \/ ReadRef(w) PROVE ObjectsKept
    <3>1. \A v \in Writers : writer[v].made \subseteq writer'[v].made
      BY <1>3, <2>1, <2>10 DEF CheckFence, ReadRef, At, Phases
    <3> QED
      BY <1>2, <2>10, <3>1 DEF CheckFence, ReadRef
  <2>11. ASSUME NEW n \in Names, CreateRef(w, n) PROVE ObjectsKept
    BY <1>2, <2>11 DEF CreateRef
  <2> QED
    BY <1>4, <2>2, <2>3, <2>4, <2>5, <2>6, <2>7, <2>8, <2>9, <2>10, <2>11 DEF Step
<1>5. ASSUME NEW o \in Objects, HarmObject(o) PROVE ObjectsKept
  BY <1>5 DEF HarmObject, ObjectsKept, Accounted, Good, Typed, TypeOK
<1>6. ASSUME Crash PROVE ObjectsKept
  <2>1. store.atomic
    BY <1>6, StoreAssumption DEF Crash, Intact, Typed, TypeOK
  <2>2. \A v \in Writers : writer[v].made \subseteq writer'[v].made
    BY <2>1 DEF Lanes
  <2> QED
    BY <1>2, <1>6, <2>2 DEF Crash
<1>7. ASSUME \/ \E n \in Names : HarmRef(n)
             \/ ClaimOwner \/ UNCHANGED vars
      PROVE  ObjectsKept
  BY <1>2, <1>7 DEF HarmRef, ClaimOwner, vars
<1> QED
  BY <1>4, <1>5, <1>6, <1>7 DEF Next

LEMMA InitWriteOrder == Init => WriteOrder
<1> SUFFICES ASSUME Init PROVE WriteOrder
  OBVIOUS
<1>1. Typed /\ \A o \in Objects : disk[o] = "absent"
  BY InitTyped DEF Init
<1>2. ASSUME NEW w \in Writers PROVE Lanes(w) /\ InOrder(w)
  BY DEF Init, Lanes, InOrder, Quiet, Phases
<1>3. \A n \in Names : refs[n] \notin Commits
  BY NoneAssumption DEF Init
<1> QED
  BY <1>1, <1>2, <1>3 DEF WriteOrder, Accounted

LEMMA NextWriteOrder ==
    Intact /\ WriteOrder /\ [Next]_vars => WriteOrder'
<1> SUFFICES ASSUME Intact, WriteOrder, [Next]_vars PROVE WriteOrder'
  OBVIOUS
<1>1. Typed /\ Typed'
  BY NextTyped DEF WriteOrder
<1>2. ObjectsKept
  BY <1>1, GoodStaysGood DEF WriteOrder
<1>3. /\ \A o \in Objects : Accounted(o)'
      /\ \A v \in Writers : Lanes(v)'
  BY <1>1, <1>2, LanesKept DEF ObjectsKept, WriteOrder
<1>4. \A c \in Commits : Complete(c) => Complete(c)'
  BY <1>2, ReachIsObjects DEF Complete, ObjectsKept
<1>5. ASSUME NEW w \in Writers, writer'[w] = writer[w] PROVE InOrder(w)'
  BY <1>1, <1>2, <1>5, OrderKept DEF WriteOrder, ObjectsKept
<1>6. ASSUME NEW w \in Writers, writer'[w] = Quiet PROVE InOrder(w)'
  BY <1>6 DEF InOrder, Quiet, Phases
<1>7. ASSUME NEW n \in Names, refs'[n] = refs[n], refs'[n] \in Commits
      PROVE  Complete(refs[n])'
  BY <1>4, <1>7 DEF WriteOrder
\* A step of one call: the others are left alone.
<1>8. ASSUME NEW w \in Writers, \A v \in Writers \ {w} : writer'[v] = writer[v],
             InOrder(w)',
             \A n \in Names : refs'[n] \in Commits => Complete(refs[n])'
      PROVE  WriteOrder'
  <2>1. \A v \in Writers : InOrder(v)'
    BY <1>5, <1>8
  <2> QED
    BY <1>1, <1>3, <1>8, <2>1 DEF WriteOrder
<1>9. ASSUME NEW w \in Writers, Step(w) PROVE WriteOrder'
  <2>1. InOrder(w) /\ writer[w] \in Calls /\ writer \in [Writers -> Calls]
    BY <1>1 DEF WriteOrder, Typed, TypeOK
  <2>2. ASSUME refs' = refs, InOrder(w)',
               \A v \in Writers \ {w} : writer'[v] = writer[v]
        PROVE  WriteOrder'
    BY <1>7, <1>8, <2>2
  <2>3. ASSUME NEW c \in Commits, NEW n \in Names, NEW f \in 0..owner,
               Begin(w, c, n, f)
        PROVE  WriteOrder'
    <3>1. writer'[w] = [Quiet EXCEPT !.pc = "payloads", !.commit = c,
                          !.ref = n, !.fence = f, !.todo = Payloads(c)]
      BY <2>1, <2>3 DEF Begin
    <3>2. InOrder(w)'
      BY <3>1 DEF InOrder, Quiet, Phases, PhaseObjects
    <3> QED
      BY <2>1, <2>2, <2>3, <3>2 DEF Begin
  <2>4. ASSUME NEW o \in Objects, HasObject(w, o) PROVE WriteOrder'
    <3>1. writer'[w] = [writer[w] EXCEPT
             !.todo = @ \ {o},
             !.writing = IF disk[o] = "absent" THEN @ \cup {o} ELSE @]
      BY <2>1, <2>4 DEF HasObject
    <3>2. disk[o] # "absent" => Good(o)'
      BY <1>1, <1>2, <2>4, NothingOpenInTodo
      DEF WriteOrder, ObjectsKept, Accounted, HasObject
    <3>3. \A p \in writer[w].todo \cup writer[w].writing :
              p \in writer'[w].todo \cup writer'[w].writing \/ Good(p)'
      BY <2>1, <3>1, <3>2 DEF Calls
    <3>4. /\ writer'[w].pc = writer[w].pc /\ writer'[w].commit = writer[w].commit
          /\ writer'[w].head = writer[w].head
      BY <2>1, <3>1 DEF Calls
    <3>5. InOrder(w)'
      BY <1>1, <1>2, <2>1, <3>3, <3>4, OrderKept
    <3> QED
      BY <2>1, <2>2, <2>4, <3>5 DEF HasObject
  <2>5. ASSUME NEW o \in Objects, CreateObject(w, o) PROVE WriteOrder'
    <3>1. writer'[w] = [writer[w] EXCEPT !.made = @ \cup {o}]
      BY <2>1, <2>5 DEF CreateObject
    <3>2. /\ writer'[w].pc = writer[w].pc /\ writer'[w].commit = writer[w].commit
          /\ writer'[w].head = writer[w].head /\ writer'[w].todo = writer[w].todo
          /\ writer'[w].writing = writer[w].writing
      BY <2>1, <3>1 DEF Calls
    <3>3. InOrder(w)'
      BY <1>1, <1>2, <2>1, <3>2, OrderKept
    <3> QED
      BY <2>1, <2>2, <2>5, <3>3 DEF CreateObject
  <2>6. ASSUME NEW o \in Objects, WriteObject(w, o) PROVE WriteOrder'
    <3>1. writer'[w] = [writer[w] EXCEPT !.writing = @ \ {o}, !.made = @ \ {o}]
      BY <2>1, <2>6 DEF WriteObject
    <3>2. Good(o)'
      BY <1>1, <2>6 DEF WriteObject, Good, Typed, TypeOK
    <3>4. \A p \in writer[w].todo \cup writer[w].writing :
              p \in writer'[w].todo \cup writer'[w].writing \/ Good(p)'
      BY <2>1, <3>1, <3>2 DEF Calls
    <3>5. /\ writer'[w].pc = writer[w].pc /\ writer'[w].commit = writer[w].commit
          /\ writer'[w].head = writer[w].head
      BY <2>1, <3>1 DEF Calls
    <3>6. InOrder(w)'
      BY <1>1, <1>2, <2>1, <3>4, <3>5, OrderKept
    <3> QED
      BY <2>1, <2>2, <2>6, <3>6 DEF WriteObject
  <2>7. ASSUME NEW o \in Objects, WriteFails(w, o) PROVE WriteOrder'
    <3>1. writer'[w].pc = "failed"
      BY <2>1, <2>7 DEF WriteFails, Calls
    <3>2. InOrder(w)'
      BY <3>1 DEF InOrder, Phases
    <3> QED
      BY <2>1, <2>2, <2>7, <3>2 DEF WriteFails
  <2>8. ASSUME PhaseDone(w) PROVE WriteOrder'
    <3> SUFFICES InOrder(w)'
      BY <2>1, <2>2, <2>8 DEF PhaseDone
    <3> PICK c \in Commits : c = writer[w].commit
      BY <1>1, <2>8 DEF PhaseDone, Typed, Equipped, Phases
    <3> DEFINE next == NextPhase(writer[w].pc)
    <3>1. writer[w].pc \in Phases
      BY <2>8 DEF PhaseDone
    <3>2. \A o \in PhaseObjects(c, writer[w].pc) : Good(o)
      BY <2>1, <2>8, <3>1 DEF PhaseDone, InOrder
    <3>3. writer'[w] = [writer[w] EXCEPT
             !.pc = next,
             !.todo = IF next = "fence" THEN {} ELSE PhaseObjects(c, next)]
      BY <2>1, <2>8 DEF PhaseDone
    <3>4. \A o \in Objects : Good(o) => Good(o)'
      BY <1>2 DEF ObjectsKept
    <3>5. writer'[w].commit = c
      BY <2>1, <3>3 DEF Calls
    <3>6. CASE writer[w].pc = "payloads"
      <4>1. next = "tree" /\ \A o \in Payloads(c) : Good(o)'
        BY <3>2, <3>4, <3>6, ReachIsObjects DEF NextPhase, PhaseObjects
      <4>2. writer'[w].pc = "tree" /\ writer'[w].todo = {Tree(c)}
        BY <2>1, <3>3, <4>1 DEF Calls, PhaseObjects
      <4> QED
        BY <3>5, <4>1, <4>2 DEF InOrder, Phases, PhaseObjects
    <3>7. CASE writer[w].pc = "tree"
      <4>1. /\ next = "commit" /\ Good(Tree(c))'
            /\ \A o \in Payloads(c) : Good(o)'
        BY <2>1, <3>2, <3>4, <3>7, ReachIsObjects
        DEF NextPhase, PhaseObjects, InOrder
      <4>2. writer'[w].pc = "commit" /\ writer'[w].todo = {c}
        BY <2>1, <3>3, <4>1 DEF Calls, PhaseObjects
      <4> QED
        BY <3>5, <4>1, <4>2 DEF InOrder, Phases, PhaseObjects
    <3>8. CASE writer[w].pc = "commit"
      <4>1. next = "fence" /\ Complete(c)
        BY <2>1, <3>2, <3>8 DEF NextPhase, PhaseObjects, InOrder, Complete, Reach
      <4>2. Complete(c)' /\ writer'[w].pc = "fence"
        BY <1>4, <2>1, <3>3, <4>1 DEF Calls
      <4> QED
        BY <3>5, <4>2 DEF InOrder, Phases
    <3> QED
      BY <3>1, <3>6, <3>7, <3>8 DEF Phases
  <2>9. ASSUME refs' = refs, writer' = [writer EXCEPT ![w] = Quiet]
        PROVE  WriteOrder'
    BY <1>6, <2>1, <2>2, <2>9
  <2>10. ASSUME writer[w].pc \in {"fence", "readRef", "prev", "ref"}
         PROVE  \E c \in Commits : c = writer[w].commit /\ Complete(c)'
    BY <1>1, <1>4, <2>1, <2>10 DEF InOrder, Typed, Equipped
  <2>11. ASSUME Forget(w) PROVE WriteOrder'
    BY <2>9, <2>11 DEF Forget, GiveUp
  <2>12. ASSUME CheckFence(w) PROVE WriteOrder'
    <3>1. CASE GiveUp(w)
      BY <2>9, <2>12, <3>1 DEF CheckFence, GiveUp
    <3>2. CASE Go(w, "readRef")
      <4> PICK c \in Commits : c = writer[w].commit /\ Complete(c)'
        BY <2>10, <2>12 DEF CheckFence, At
      <4>1. writer'[w] = [writer[w] EXCEPT !.pc = "readRef"]
        BY <2>1, <3>2 DEF Go
      <4>2. InOrder(w)'
        BY <2>1, <4>1 DEF InOrder, Calls, Phases
      <4> QED
        BY <2>1, <2>2, <2>12, <3>2, <4>2 DEF CheckFence, Go
    <3> QED
      BY <2>12, <3>1, <3>2 DEF CheckFence
  <2>13. ASSUME ReadRef(w) PROVE WriteOrder'
    <3> PICK c \in Commits : c = writer[w].commit /\ Complete(c)'
      BY <2>10, <2>13 DEF ReadRef, At
    <3> PICK name \in Names : name = writer[w].ref
      BY <1>1, <2>13 DEF ReadRef, At, Typed, Equipped
    <3>1. CASE GiveUp(w)
      BY <2>9, <2>13, <3>1 DEF ReadRef, GiveUp
    <3>2. CASE Go(w, "ref")
      <4>1. writer'[w] = [writer[w] EXCEPT !.pc = "ref"]
        BY <2>1, <3>2 DEF Go
      <4>2. InOrder(w)'
        BY <2>1, <4>1 DEF InOrder, Calls, Phases
      <4> QED
        BY <2>1, <2>2, <2>13, <3>2, <4>2 DEF ReadRef, Go
    <3>3. CASE /\ refs[name] \notin {"corrupt", "missing"}
               /\ writer' = [writer EXCEPT ![w].pc = "prev",
                                           ![w].head = refs[name]]
      <4> PICK head \in Commits : head = refs[name]
        BY <1>1, <3>3 DEF Typed, TypeOK
      <4>1. Complete(head)'
        BY <1>4 DEF WriteOrder
      <4>2. writer'[w] = [writer[w] EXCEPT !.pc = "prev", !.head = head]
        BY <2>1, <3>3
      <4>3. InOrder(w)'
        BY <2>1, <4>1, <4>2 DEF InOrder, Calls, Phases
      <4> QED
        BY <2>1, <2>2, <2>13, <3>3, <4>3 DEF ReadRef
    <3> QED
      BY <2>13, <3>1, <3>2, <3>3 DEF ReadRef
  <2>14. ASSUME NEW n \in Names, CreateRef(w, n) PROVE WriteOrder'
    <3>1. \A m \in Names : refs'[m] \in Commits => refs'[m] = refs[m]
      BY <1>1, <2>14, NoneAssumption DEF CreateRef, Typed, TypeOK
    <3>2. writer' = writer /\ InOrder(w)'
      BY <1>5, <2>14 DEF CreateRef
    <3>3. \A m \in Names : refs'[m] \in Commits => Complete(refs[m])'
      BY <1>7, <3>1
    <3> QED
      BY <1>8, <3>2, <3>3
  <2>15. ASSUME WritePrev(w) PROVE WriteOrder'
    <3> PICK c \in Commits : c = writer[w].commit /\ Complete(c)'
      BY <2>10, <2>15 DEF WritePrev, At
    <3> PICK head \in Commits : head = writer[w].head /\ Complete(head)'
      BY <1>1, <1>4, <2>1, <2>15 DEF WritePrev, At, InOrder, Typed, Equipped
    <3>1. writer'[w] = [writer[w] EXCEPT !.pc = "ref"]
      BY <2>1, <2>15 DEF WritePrev, Go
    <3>2. InOrder(w)'
      BY <2>1, <3>1 DEF InOrder, Calls, Phases
    <3>3. refs' = [refs EXCEPT !["PREV"] = head]
      BY <2>15 DEF WritePrev
    <3>4. ASSUME NEW n \in Names, refs'[n] \in Commits PROVE Complete(refs[n])'
      <4>1. refs'[n] = refs[n] \/ refs'[n] = head
        BY <1>1, <3>3 DEF Typed, TypeOK
      <4> QED
        BY <1>7, <3>4, <4>1
    <3> QED
      BY <1>8, <2>1, <2>15, <3>2, <3>4 DEF WritePrev, Go
  <2>16. ASSUME WriteRef(w) PROVE WriteOrder'
    <3> PICK c \in Commits : c = writer[w].commit /\ Complete(c)'
      BY <2>10, <2>16 DEF WriteRef, At
    <3>1. InOrder(w)'
      BY <1>6, <2>1, <2>16 DEF WriteRef, GiveUp
    <3>2. refs' = [refs EXCEPT ![writer[w].ref] = c]
      BY <2>16 DEF WriteRef
    <3>3. ASSUME NEW n \in Names, refs'[n] \in Commits PROVE Complete(refs[n])'
      <4>1. refs'[n] = refs[n] \/ refs'[n] = c
        BY <1>1, <3>2 DEF Typed, TypeOK
      <4> QED
        BY <1>7, <3>3, <4>1
    <3> QED
      BY <1>8, <2>1, <2>16, <3>1, <3>3 DEF WriteRef, GiveUp
  <2> QED
    BY <1>9, <2>3, <2>4, <2>5, <2>6, <2>7, <2>8, <2>11, <2>12, <2>13, <2>14,
       <2>15, <2>16 DEF Step
<1>10. ASSUME \A n \in Names : refs'[n] \in Commits => refs'[n] = refs[n],
              \/ writer' = writer
              \/ writer' = [w \in Writers |-> Quiet]
       PROVE  WriteOrder'
  <2>1. \A w \in Writers : InOrder(w)'
    BY <1>5, <1>6, <1>10
  <2>2. ASSUME NEW n \in Names, refs'[n] \in Commits PROVE Complete(refs[n])'
    BY <1>7, <1>10, <2>2
  <2> QED
    BY <1>1, <1>3, <2>1, <2>2 DEF WriteOrder
<1>11. ASSUME NEW n \in Names, HarmRef(n) PROVE WriteOrder'
  <2>1. \A m \in Names : refs'[m] \in Commits => refs'[m] = refs[m]
    BY <1>1, <1>11, NoneAssumption DEF HarmRef, Typed, TypeOK
  <2> QED
    BY <1>10, <1>11, <2>1 DEF HarmRef
<1>12. ASSUME \/ \E o \in Objects : HarmObject(o)
              \/ ClaimOwner \/ Crash \/ UNCHANGED vars
       PROVE  WriteOrder'
  BY <1>10, <1>12 DEF HarmObject, ClaimOwner, Crash, vars
<1> QED
  BY <1>9, <1>11, <1>12 DEF Next

(* On a store whose writes are atomic, whatever crashes and however many    *)
(* controllers commit at once, and on a store of files that one controller  *)
(* writes without being cut off, whatever writes fail: every generation     *)
(* that a ref points to was written completely.  Blobs, tree and commit are *)
(* awaited before the ref moves, and a write that fails removes its file.   *)
THEOREM RefsAreComplete == Spec => [](Intact => RefsComplete)
<1> DEFINE Ordered == Intact => WriteOrder
<1>1. Init => Ordered
  BY InitWriteOrder
<1>2. Ordered /\ [Next]_vars => Ordered'
  <2> SUFFICES ASSUME Ordered, [Next]_vars, Intact' PROVE WriteOrder'
    OBVIOUS
  <2>1. Intact
    BY StoreStays DEF Intact
  <2> QED
    BY <2>1, NextWriteOrder
<1>3. Ordered => (Intact => RefsComplete)
  BY DEF WriteOrder, RefsComplete, Complete, Good
<1> QED
  BY <1>1, <1>2, <1>3, PTL DEF Spec

-----------------------------------------------------------------------------
(* HEAD and PREV under one controller.  What the call in flight read of     *)
(* HEAD is still there when it saves it as PREV, and PREV holds it, or was  *)
(* harmed since, when HEAD is replaced.  The first commit leaves no PREV.   *)

Slots ==
    /\ past.head = None => past.prev = None /\ refs["PREV"] = "missing"
    /\ refs["HEAD"] \in {"corrupt", IF past.head = None THEN "missing" ELSE past.head}
    /\ \/ refs["PREV"] \in {"corrupt"} \cup ({past.prev, past.head} \ {None})
       \/ past.prev = None /\ refs["PREV"] = "missing"
    /\ \A w \in Writers :
        /\ At(w, "prev") => /\ writer[w].ref = "HEAD" /\ past.head # None
                            /\ writer[w].head = past.head
        /\ At(w, "ref") /\ writer[w].ref = "HEAD" /\ past.head # None
             => refs["PREV"] \in {past.head, "corrupt"}
        /\ writer[w].pc \notin {"idle", "failed"} => writer[w].ref # "PREV"

\* The file the call in flight has created for HEAD or PREV is not closed
\* yet, and there is no generation before HEAD's to lose.
OpenFile(n) ==
    /\ ~store.atomic
    /\ past.prev = None
    /\ \E w \in Writers :
          IF n = "PREV" THEN At(w, "prev")
          ELSE At(w, "ref") /\ writer[w].ref = "HEAD" /\ past.head = None

CorruptIsHarmed ==
    /\ IsFiniteSet(harmed)
    /\ \A n \in {"HEAD", "PREV"} :
          refs[n] = "corrupt" => n \in harmed \/ OpenFile(n)

LEMMA InitSlots == Init => Slots /\ CorruptIsHarmed
  BY NoneAssumption, FS_EmptySet
  DEF Init, Slots, CorruptIsHarmed, At, Quiet, Names

\* A call keeps its place while it reads or writes objects.
CallKept(v) ==
    \/ /\ writer'[v].pc = writer[v].pc
       /\ writer'[v].ref = writer[v].ref
       /\ writer'[v].head = writer[v].head
    \/ /\ writer'[v].pc \notin {"prev", "ref"}
       /\ \/ writer'[v].pc \in {"idle", "failed"}
          \/ writer'[v].ref = writer[v].ref /\ writer[v].pc \notin {"idle", "failed"}

LEMMA SlotsKept ==
    ASSUME Typed, Slots, past' = past, \A v \in Writers : CallKept(v),
           \A n \in {"HEAD", "PREV"} : refs'[n] \in {refs[n], "corrupt"},
           refs'["PREV"] = refs["PREV"] \/ past.head # None
    PROVE  Slots'
<1>1. /\ past.head = None => past.prev = None /\ refs'["PREV"] = "missing"
      /\ refs'["HEAD"] \in {"corrupt", IF past.head = None THEN "missing" ELSE past.head}
      /\ \/ refs'["PREV"] \in {"corrupt"} \cup ({past.prev, past.head} \ {None})
         \/ past.prev = None /\ refs'["PREV"] = "missing"
  BY DEF Slots
<1>2. ASSUME NEW v \in Writers
      PROVE  /\ writer'[v].pc = "prev" =>
                   /\ writer'[v].ref = "HEAD" /\ past.head # None
                   /\ writer'[v].head = past.head
             /\ writer'[v].pc = "ref" /\ writer'[v].ref = "HEAD" /\ past.head # None
                  => refs'["PREV"] \in {past.head, "corrupt"}
             /\ writer'[v].pc \notin {"idle", "failed"} => writer'[v].ref # "PREV"
  BY DEF Slots, CallKept, At
<1> QED
  BY <1>1, <1>2 DEF Slots, At

LEMMA NextSlots == OneController /\ Typed /\ Slots /\ [Next]_vars => Slots'
<1> SUFFICES ASSUME OneController, Typed, Slots, [Next]_vars PROVE Slots'
  OBVIOUS
<1>1. /\ writer \in [Writers -> Calls]
      /\ refs \in [Names -> {"missing", "corrupt"} \cup Commits]
      /\ past \in [head : Commits \cup {None}, prev : Commits \cup {None}]
      /\ "HEAD" \in Names /\ "PREV" \in Names
  BY DEF Typed, TypeOK, Names
<1>2. ASSUME past' = past, refs' = refs, \A v \in Writers : CallKept(v)
      PROVE  Slots'
  BY <1>2, SlotsKept
<1>3. ASSUME NEW w \in Writers, Step(w) PROVE Slots'
  <2>0. writer[w] \in Calls /\ \A v \in Writers : v = w
    BY <1>1 DEF OneController
  <2>1. ASSUME NEW c \in Commits, NEW n \in Names, NEW f \in 0..owner,
               Begin(w, c, n, f)
        PROVE  Slots'
    <3>1. writer'[w] = [Quiet EXCEPT !.pc = "payloads", !.commit = c,
                          !.ref = n, !.fence = f, !.todo = Payloads(c)]
      BY <1>1, <2>1 DEF Begin
    <3>3. n # "PREV"
      BY <2>1 DEF Begin
    <3>2. writer'[w].pc = "payloads" /\ writer'[w].ref = n /\ n # "PREV"
      BY <3>1, <3>3 DEF Quiet
    <3> QED
      BY <2>0, <2>1, <3>2 DEF Slots, Begin, At
  <2>2. ASSUME NEW o \in Objects,
               \/ HasObject(w, o) \/ CreateObject(w, o)
               \/ WriteObject(w, o) \/ WriteFails(w, o)
        PROVE  Slots'
    <3>1. writer'[w].pc = "failed" \/ CallKept(w)
      <4>1. ASSUME HasObject(w, o) PROVE CallKept(w)
        BY <1>1, <2>0, <4>1 DEF HasObject, CallKept, Calls
      <4>2. ASSUME CreateObject(w, o) PROVE CallKept(w)
        BY <1>1, <2>0, <4>2 DEF CreateObject, CallKept, Calls
      <4>3. ASSUME WriteObject(w, o) PROVE CallKept(w)
        BY <1>1, <2>0, <4>3 DEF WriteObject, CallKept, Calls
      <4>4. ASSUME WriteFails(w, o) PROVE writer'[w].pc = "failed"
        BY <1>1, <2>0, <4>4 DEF WriteFails, Calls
      <4> QED
        BY <2>2, <4>1, <4>2, <4>3, <4>4
    <3>2. \A v \in Writers : CallKept(v)
      BY <2>0, <3>1 DEF CallKept
    <3> QED
      BY <1>2, <2>2, <3>2 DEF HasObject, CreateObject, WriteObject, WriteFails
  <2>3. ASSUME PhaseDone(w) PROVE Slots'
    <3> DEFINE next == NextPhase(writer[w].pc)
               todo == IF next = "fence" THEN {}
                       ELSE PhaseObjects(writer[w].commit, next)
    <3>1. next \in {"tree", "commit", "fence"}
      BY DEF NextPhase
    <3>2. writer'[w] = [writer[w] EXCEPT !.pc = next, !.todo = todo]
      BY <1>1, <2>3 DEF PhaseDone
    <3> HIDE DEF next, todo
    <3>3. writer'[w].pc = next /\ writer'[w].ref = writer[w].ref
      BY <2>0, <3>2 DEF Calls
    <3>4. CallKept(w)
      BY <2>3, <3>1, <3>3 DEF PhaseDone, Phases, CallKept
    <3> QED
      BY <1>2, <2>0, <2>3, <3>4 DEF PhaseDone
  <2>4. ASSUME writer' = [writer EXCEPT ![w] = Quiet], past' = past, refs' = refs
        PROVE  Slots'
    <3>1. CallKept(w)
      BY <1>1, <2>4, QuietIsCall DEF CallKept
    <3> QED
      BY <1>2, <2>0, <2>4, <3>1
  <2>5. ASSUME Forget(w) PROVE Slots'
    BY <2>4, <2>5 DEF Forget, GiveUp
  <2>6. ASSUME CheckFence(w) PROVE Slots'
    <3>1. CASE GiveUp(w)
      BY <2>4, <2>6, <3>1 DEF CheckFence, GiveUp
    <3>2. CASE Go(w, "readRef")
      <4>1. writer'[w] = [writer[w] EXCEPT !.pc = "readRef"]
        BY <1>1, <3>2 DEF Go
      <4>2. CallKept(w)
        BY <2>0, <2>6, <4>1 DEF CheckFence, At, CallKept, Calls
      <4> QED
        BY <1>2, <2>0, <2>6, <4>2 DEF CheckFence
    <3> QED
      BY <2>6, <3>1, <3>2 DEF CheckFence
  <2>7. ASSUME ReadRef(w) PROVE Slots'
    <3>0. past' = past /\ refs' = refs /\ writer[w].pc = "readRef"
      BY <2>7 DEF ReadRef, At
    <3>1. CASE GiveUp(w)
      BY <2>4, <3>0, <3>1 DEF GiveUp
    <3>2. CASE Go(w, "ref") /\ ~(writer[w].ref = "HEAD" /\ refs["HEAD"] # "missing")
      <4>1. writer'[w] = [writer[w] EXCEPT !.pc = "ref"]
        BY <1>1, <3>2 DEF Go
      <4>2. writer'[w].pc = "ref" /\ writer'[w].ref = writer[w].ref
        BY <2>0, <4>1 DEF Calls
      <4>3. writer[w].ref # "PREV"
        BY <3>0 DEF Slots
      <4>4. writer[w].ref = "HEAD" => past.head = None
        BY <1>1, <3>2, NoneAssumption DEF Slots
      <4> QED
        BY <2>0, <3>0, <4>2, <4>3, <4>4 DEF Slots, At
    <3>3. CASE /\ refs[writer[w].ref] \notin {"corrupt", "missing"}
               /\ writer[w].ref = "HEAD"
               /\ writer' = [writer EXCEPT ![w].pc = "prev",
                                           ![w].head = refs[writer[w].ref]]
      <4>1. writer'[w] = [writer[w] EXCEPT !.pc = "prev", !.head = refs["HEAD"]]
        BY <1>1, <3>3
      <4> PICK head : head = refs["HEAD"]
        OBVIOUS
      <4>4. /\ writer'[w].pc = "prev" /\ writer'[w].ref = writer[w].ref
            /\ writer'[w].head = head
        BY <2>0, <4>1 DEF Calls
      <4>2. /\ writer'[w].pc = "prev" /\ writer'[w].ref = "HEAD"
            /\ writer'[w].head = refs["HEAD"]
        BY <3>3, <4>4
      <4>3. past.head # None /\ refs["HEAD"] = past.head
        BY <3>3 DEF Slots
      <4> QED
        BY <2>0, <3>0, <4>2, <4>3 DEF Slots, At
    <3> QED
      BY <2>7, <3>1, <3>2, <3>3 DEF ReadRef
  <2>8. ASSUME NEW n \in Names, CreateRef(w, n) PROVE Slots'
    <3>1. \A m \in {"HEAD", "PREV"} : refs'[m] \in {refs[m], "corrupt"}
      BY <1>1, <2>8 DEF CreateRef
    <3>2. n = "PREV" => past.head # None
      BY <2>8 DEF CreateRef, Slots, At
    <3>3. refs'["PREV"] = refs["PREV"] \/ past.head # None
      BY <1>1, <2>8, <3>2 DEF CreateRef
    <3>4. past' = past /\ \A v \in Writers : CallKept(v)
      BY <2>8 DEF CreateRef, CallKept
    <3> QED
      BY <3>1, <3>3, <3>4, SlotsKept
  <2>9. ASSUME WritePrev(w) PROVE Slots'
    <3>1. writer'[w] = [writer[w] EXCEPT !.pc = "ref"]
      BY <1>1, <2>9 DEF WritePrev, Go
    <3>2. writer'[w].pc = "ref" /\ writer'[w].ref = writer[w].ref
      BY <2>0, <3>1 DEF Calls
    <3>3. /\ writer[w].ref = "HEAD" /\ past.head # None
          /\ writer[w].head = past.head
      BY <2>9 DEF WritePrev, Slots
    <3>4. past' = past /\ refs'["PREV"] = past.head /\ refs'["HEAD"] = refs["HEAD"]
      BY <1>1, <2>9, <3>3 DEF WritePrev
    <3> QED
      BY <2>0, <3>2, <3>3, <3>4 DEF Slots, At
  <2>10. ASSUME WriteRef(w) PROVE Slots'
    <3>0. writer[w].pc = "ref" /\ writer[w].commit \in Commits
      BY <2>10 DEF WriteRef, At, Typed, Equipped
    <3>1. \A v \in Writers : writer'[v].pc = "idle"
      BY <1>1, <2>0, <2>10, QuietIsCall DEF WriteRef, GiveUp
    <3>2. writer[w].ref # "PREV"
      BY <3>0 DEF Slots
    <3>3. CASE writer[w].ref = "HEAD"
      <4>1. /\ past' = [head |-> writer[w].commit, prev |-> past.head]
            /\ refs'["HEAD"] = writer[w].commit /\ refs'["PREV"] = refs["PREV"]
        BY <1>1, <2>10, <3>3 DEF WriteRef
      <4>2. past.head # None => refs["PREV"] \in {past.head, "corrupt"}
        BY <3>0, <3>3 DEF Slots, At
      <4>3. writer[w].commit # None
        BY <3>0, NoneAssumption
      <4>4. past'.head = writer[w].commit /\ past'.prev = past.head
        BY <4>1
      <4> QED
        BY <3>1, <4>1, <4>2, <4>3, <4>4 DEF Slots, At
    <3>4. CASE writer[w].ref # "HEAD"
      <4>1. /\ past' = past /\ refs'["HEAD"] = refs["HEAD"]
            /\ refs'["PREV"] = refs["PREV"]
        BY <1>1, <2>10, <3>2, <3>4 DEF WriteRef
      <4> QED
        BY <3>1, <4>1 DEF Slots, At
    <3> QED
      BY <3>3, <3>4
  <2> QED
    BY <1>3, <2>1, <2>2, <2>3, <2>5, <2>6, <2>7, <2>8, <2>9, <2>10 DEF Step
<1>4. ASSUME NEW n \in Names, HarmRef(n) PROVE Slots'
  <2>1. \A m \in {"HEAD", "PREV"} : refs'[m] \in {refs[m], "corrupt"}
    BY <1>1, <1>4 DEF HarmRef
  <2>2. refs'["PREV"] = refs["PREV"] \/ past.head # None
    <3>1. CASE n = "PREV"
      BY <1>4, <3>1, NoneAssumption DEF HarmRef, Slots
    <3>2. CASE n # "PREV"
      BY <1>1, <1>4, <3>2 DEF HarmRef
    <3> QED
      BY <3>1, <3>2
  <2>3. past' = past /\ \A v \in Writers : CallKept(v)
    BY <1>4 DEF HarmRef, CallKept
  <2> QED
    BY <2>1, <2>2, <2>3, SlotsKept
<1>5. ASSUME Crash PROVE Slots'
  <2>1. \A v \in Writers : CallKept(v)
    BY <1>5, QuietIsCall DEF Crash, CallKept
  <2> QED
    BY <1>2, <1>5, <2>1 DEF Crash
<1>6. ASSUME \/ \E o \in Objects : HarmObject(o)
             \/ ClaimOwner \/ UNCHANGED vars
      PROVE  Slots'
  BY <1>2, <1>6 DEF HarmObject, ClaimOwner, vars, CallKept
<1> QED
  BY <1>3, <1>4, <1>5, <1>6 DEF Next

(* With one controller, wherever a crash falls, PREV is the generation HEAD *)
(* had before: it is written with what the call read of HEAD, before HEAD   *)
(* is, and nothing is committed over a HEAD that cannot be read.            *)
THEOREM PrevIsKept == OneController /\ Spec => []PrevIsPredecessor
<1> DEFINE Inv == OneController => Typed /\ Slots
<1>1. Init => Inv
  BY InitTyped, InitSlots
<1>2. Inv /\ [Next]_vars => Inv'
  BY NextTyped, NextSlots DEF OneController
<1>3. Inv => (OneController => PrevIsPredecessor)
  BY DEF Slots, PrevIsPredecessor
<1>4. Spec => [](OneController => PrevIsPredecessor)
  BY <1>1, <1>2, <1>3, PTL DEF Spec
<1>5. CASE OneController
  <2>1. (OneController => PrevIsPredecessor) => PrevIsPredecessor
    BY <1>5
  <2> QED
    BY <1>4, <2>1, PTL
<1> QED
  BY <1>5

LEMMA HarmedStaysFinite ==
    IsFiniteSet(harmed) /\ [Next]_vars => IsFiniteSet(harmed')
<1> SUFFICES ASSUME IsFiniteSet(harmed), [Next]_vars PROVE IsFiniteSet(harmed')
  OBVIOUS
<1>1. \/ harmed' = harmed
      \/ \E x : harmed' = harmed \ {x}
      \/ \E x : harmed' = harmed \cup {x}
  BY ZenonT(60)
  DEF Next, Step, Begin, HasObject, CreateObject, WriteObject, WriteFails,
      PhaseDone, Forget, CheckFence, ReadRef, CreateRef, WritePrev, WriteRef,
      ClaimOwner, Crash, HarmObject, HarmRef, vars
<1> QED
  BY <1>1, FS_AddElement, FS_RemoveElement

LEMMA NextCorruptIsHarmed ==
    /\ OneController /\ Intact /\ Typed /\ Slots
    /\ \A w \in Writers : Lanes(w)
    /\ CorruptIsHarmed /\ [Next]_vars
    => CorruptIsHarmed'
<1> SUFFICES ASSUME OneController, Intact, Typed, Slots,
                    \A w \in Writers : Lanes(w), CorruptIsHarmed, [Next]_vars
             PROVE  CorruptIsHarmed'
  OBVIOUS
<1>1. /\ writer \in [Writers -> Calls]
      /\ refs \in [Names -> {"missing", "corrupt"} \cup Commits]
      /\ "HEAD" \in Names /\ "PREV" \in Names /\ store' = store
  BY StoreStays DEF Typed, TypeOK, Names
<1>2. IsFiniteSet(harmed')
  BY HarmedStaysFinite DEF CorruptIsHarmed
<1>3. ASSUME \A n \in {"HEAD", "PREV"} : refs'[n] = "corrupt" =>
                 \/ n \in harmed' \/ OpenFile(n)'
                 \/ /\ refs[n] = "corrupt" /\ (n \in harmed => n \in harmed')
                    /\ ~OpenFile(n)
      PROVE  CorruptIsHarmed'
  BY <1>2, <1>3 DEF CorruptIsHarmed
<1>4. ASSUME NEW w \in Writers, Step(w) PROVE CorruptIsHarmed'
  <2>0. writer[w] \in Calls /\ \A v \in Writers : v = w
    BY <1>1 DEF OneController
  <2>1. ASSUME writer[w].pc \notin {"prev", "ref"}, refs' = refs,
               \A n \in {"HEAD", "PREV"} : n \in harmed => n \in harmed'
        PROVE  CorruptIsHarmed'
    BY <1>3, <2>0, <2>1 DEF OpenFile, At
  <2>2. ASSUME \/ \E c \in Commits, n \in Names, f \in 0..owner : Begin(w, c, n, f)
               \/ PhaseDone(w) \/ Forget(w) \/ CheckFence(w) \/ ReadRef(w)
        PROVE  CorruptIsHarmed'
    BY <2>1, <2>2
    DEF Begin, PhaseDone, Forget, CheckFence, ReadRef, At, Phases
  <2>3. ASSUME NEW o \in Objects,
               \/ HasObject(w, o) \/ CreateObject(w, o)
               \/ WriteObject(w, o) \/ WriteFails(w, o)
        PROVE  CorruptIsHarmed'
    <3>1. o \in writer[w].todo \/ o \in writer[w].writing
      BY <2>3 DEF HasObject, CreateObject, WriteObject, WriteFails
    <3>2. writer[w].pc \notin {"prev", "ref"}
      BY <3>1 DEF Lanes, Phases
    <3>3. refs' = refs /\ (harmed' = harmed \/ harmed' = harmed \ {o})
      BY <2>3 DEF HasObject, CreateObject, WriteObject, WriteFails
    <3>4. o # "HEAD" /\ o # "PREV"
      BY <1>1, NameAssumption
    <3> QED
      BY <2>1, <3>2, <3>3, <3>4
  <2>4. ASSUME NEW n \in Names, CreateRef(w, n) PROVE CorruptIsHarmed'
    <3>1. /\ refs' = [refs EXCEPT ![n] = "corrupt"] /\ refs[n] = "missing"
          /\ writer' = writer /\ past' = past /\ harmed' = harmed /\ ~store.atomic
      BY <2>4 DEF CreateRef
    <3>2. ASSUME n = "PREV" PROVE OpenFile(n)'
      <4>1. past.prev = None
        BY <1>1, <3>1, <3>2, NoneAssumption DEF Slots, Typed, TypeOK
      <4>2. At(w, "prev")
        BY <2>4, <3>2 DEF CreateRef, Slots, At
      <4> QED
        BY <1>1, <3>1, <3>2, <4>1, <4>2 DEF OpenFile, At
    <3>3. ASSUME n = "HEAD" PROVE OpenFile(n)'
      <4>1. past.head = None /\ past.prev = None
        BY <1>1, <3>1, <3>3, NoneAssumption DEF Slots, Typed, TypeOK
      <4>2. At(w, "ref") /\ writer[w].ref = "HEAD"
        BY <2>4, <3>3 DEF CreateRef
      <4> QED
        BY <1>1, <3>1, <3>3, <4>1, <4>2 DEF OpenFile, At
    <3>4. \A m \in {"HEAD", "PREV"} \ {n} :
              refs'[m] = refs[m] /\ (OpenFile(m) => OpenFile(m)')
      BY <1>1, <3>1 DEF OpenFile, At
    <3> QED
      BY <1>2, <3>1, <3>2, <3>3, <3>4 DEF CorruptIsHarmed
  <2>5. ASSUME WritePrev(w) PROVE CorruptIsHarmed'
    <3>1. writer[w].head \in Commits /\ writer[w].pc = "prev"
      BY <2>5 DEF WritePrev, At, Typed, Equipped
    <3>2. refs'["PREV"] # "corrupt" /\ refs'["HEAD"] = refs["HEAD"]
      BY <1>1, <2>5, <3>1, NoneAssumption DEF WritePrev
    <3>3. "HEAD" \in harmed => "HEAD" \in harmed'
      BY <2>5 DEF WritePrev
    <3>4. ~OpenFile("HEAD")
      BY <2>0, <3>1 DEF OpenFile, At
    <3> QED
      BY <1>3, <3>2, <3>3, <3>4
  <2>6. ASSUME WriteRef(w) PROVE CorruptIsHarmed'
    <3>1. /\ writer[w].commit \in Commits /\ writer[w].pc = "ref"
          /\ writer[w].ref # "PREV"
      BY <2>6 DEF WriteRef, At, Typed, Equipped, Slots
    <3>2. ~OpenFile("PREV")
      BY <2>0, <3>1 DEF OpenFile, At
    <3>3. /\ refs' = [refs EXCEPT ![writer[w].ref] = writer[w].commit]
          /\ harmed' = harmed \ {writer[w].ref}
      BY <2>6 DEF WriteRef
    <3>4. CASE writer[w].ref = "HEAD"
      <4>1. refs'["HEAD"] # "corrupt" /\ refs'["PREV"] = refs["PREV"]
        BY <1>1, <3>1, <3>3, <3>4, NoneAssumption
      <4> QED
        BY <1>3, <3>2, <3>3, <3>4, <4>1
    <3>5. CASE writer[w].ref # "HEAD"
      <4>1. refs'["HEAD"] = refs["HEAD"] /\ refs'["PREV"] = refs["PREV"]
        BY <1>1, <3>1, <3>3, <3>5
      <4>2. ~OpenFile("HEAD")
        BY <2>0, <3>5 DEF OpenFile
      <4> QED
        BY <1>3, <3>1, <3>2, <3>3, <3>5, <4>1, <4>2
    <3> QED
      BY <3>4, <3>5
  <2> QED
    BY <1>4, <2>2, <2>3, <2>4, <2>5, <2>6 DEF Step
<1>5. ASSUME Crash PROVE CorruptIsHarmed'
  <2>1. store.atomic
    BY <1>5, StoreAssumption DEF Crash, Intact, Typed, TypeOK
  <2> QED
    BY <1>3, <1>5, <2>1 DEF Crash, OpenFile
<1>6. ASSUME NEW n \in Names, HarmRef(n) PROVE CorruptIsHarmed'
  <2>1. /\ refs' = [refs EXCEPT ![n] = "corrupt"] /\ harmed' = harmed \cup {n}
        /\ writer' = writer /\ past' = past
    BY <1>6 DEF HarmRef
  <2>2. \A m \in {"HEAD", "PREV"} : m = n \/ refs'[m] = refs[m]
    BY <1>1, <2>1
  <2>3. \A m \in {"HEAD", "PREV"} : OpenFile(m) => OpenFile(m)'
    BY <1>1, <2>1 DEF OpenFile, At
  <2> QED
    BY <1>2, <2>1, <2>2, <2>3 DEF CorruptIsHarmed
<1>7. ASSUME \/ \E o \in Objects : HarmObject(o)
             \/ ClaimOwner \/ UNCHANGED vars
      PROVE  CorruptIsHarmed'
  <2>1. /\ refs' = refs /\ writer' = writer /\ past' = past
        /\ harmed \subseteq harmed'
    BY <1>7 DEF HarmObject, ClaimOwner, vars
  <2>2. \A m \in {"HEAD", "PREV"} : OpenFile(m) => OpenFile(m)'
    BY <1>1, <2>1 DEF OpenFile, At
  <2> QED
    BY <1>2, <2>1, <2>2 DEF CorruptIsHarmed
<1> QED
  BY <1>4, <1>5, <1>6, <1>7 DEF Next

\* What the storage harmed once is one thing: a ref, or an object.
LEMMA OneHarm ==
    ASSUME IsFiniteSet(harmed), Cardinality(harmed) <= 1, NEW x \in harmed,
           NEW y \in harmed
    PROVE  x = y
<1>1. Cardinality(harmed) = 1
  BY FS_EmptySet, FS_CardinalityType
<1> QED
  BY <1>1, FS_Singleton

LEMMA HarmSurvived ==
    WriteOrder /\ Slots /\ CorruptIsHarmed => OneHarmSurvived
<1> SUFFICES ASSUME WriteOrder, Slots, CorruptIsHarmed,
                    refs["PREV"] \in {past.prev, "corrupt"}, past.prev # None,
                    Cardinality(harmed) <= 1,
                    harmed \cap Reach(past.head) \cap Reach(past.prev) = {}
             PROVE  Open \in {past.head, past.prev}
  BY DEF OneHarmSurvived
<1>1. /\ past.head \in Commits /\ past.prev \in Commits
      /\ refs["HEAD"] \in {past.head, "corrupt"}
      /\ "HEAD" \in Names /\ "PREV" \in Names
  BY DEF Slots, WriteOrder, Typed, TypeOK, Names
<1>2. \A n \in {"HEAD", "PREV"} : refs[n] = "corrupt" => n \in harmed
  BY DEF CorruptIsHarmed, OpenFile
<1>3. \A x, y \in harmed : x = y
  BY OneHarm DEF CorruptIsHarmed
<1>4. \A n \in Names : n \notin Objects
  BY NameAssumption
<1>5. CASE Readable("HEAD")
  <2>1. refs["HEAD"] = past.head
    BY <1>1, <1>5, NoneAssumption DEF Readable
  <2>2. Readable("PREV") => refs["PREV"] = past.prev
    BY <1>1, NoneAssumption DEF Readable
  <2> QED
    BY <1>1, <1>5, <2>1, <2>2, NoneAssumption DEF Open
<1>6. CASE ~Readable("HEAD")
  <2>1. \/ refs["HEAD"] = "corrupt" /\ "HEAD" \in harmed
        \/ /\ refs["HEAD"] = past.head
           /\ \E o \in Reach(past.head) : o \in harmed
    BY <1>1, <1>2, <1>6 DEF Readable, WriteOrder, Complete, Good
  <2>2. PICK x \in harmed : x = "HEAD" \/ x \in Reach(past.head)
    BY <2>1
  <2>3. x # "PREV"
    BY <1>1, <1>4, <2>2, ReachIsObjects
  <2>4. refs["PREV"] = past.prev
    BY <1>2, <1>3, <2>2, <2>3
  <2>5. x \notin Reach(past.prev)
    BY <1>1, <1>4, <2>2, ReachIsObjects
  <2>6. Readable("PREV")
    BY <1>1, <1>3, <2>2, <2>4, <2>5 DEF Readable, WriteOrder, Complete, Good
  <2> QED
    BY <1>1, <1>6, <2>4, <2>6, NoneAssumption DEF Open
<1> QED
  BY <1>5, <1>6

(* With one controller that is not cut off, or on a store whose writes are  *)
(* atomic wherever it is cut off, harming one object or one ref never keeps *)
(* the machine from opening the last generation or the one before it,       *)
(* unless they share what was harmed.                                       *)
THEOREM OneHarmIsSurvived ==
    OneController /\ Spec => [](Intact => OneHarmSurvived)
<1> DEFINE Inv == OneController /\ Intact => WriteOrder /\ Slots /\ CorruptIsHarmed
<1>1. Init => Inv
  BY InitWriteOrder, InitSlots
<1>2. Inv /\ [Next]_vars => Inv'
  <2> SUFFICES ASSUME Inv, [Next]_vars, OneController, Intact'
               PROVE  WriteOrder' /\ Slots' /\ CorruptIsHarmed'
    BY DEF OneController
  <2>1. Intact
    BY StoreStays DEF Intact
  <2>2. WriteOrder /\ Slots /\ CorruptIsHarmed
    BY <2>1
  <2>3. Typed /\ \A w \in Writers : Lanes(w)
    BY <2>2 DEF WriteOrder
  <2> QED
    BY <2>1, <2>2, <2>3, NextWriteOrder, NextSlots, NextCorruptIsHarmed
<1>3. Inv => (OneController => (Intact => OneHarmSurvived))
  BY HarmSurvived
<1>4. Spec => [](OneController => (Intact => OneHarmSurvived))
  BY <1>1, <1>2, <1>3, PTL DEF Spec
<1>5. CASE OneController
  <2>1. (OneController => (Intact => OneHarmSurvived))
          => (Intact => OneHarmSurvived)
    BY <1>5
  <2> QED
    BY <1>4, <2>1, PTL
<1> QED
  BY <1>5
=============================================================================
