------------------------------- MODULE AppSpace -------------------------------
(***************************************************************************)
(* Transactional AppSpace: pairs of an application's logical state with a  *)
(* checkpoint of the Python Machine, restored and adopted together.        *)
(*                                                                         *)
(*   coordinator  appSpaceCoordinator.js: one operation is a sequence of   *)
(*                page commands and store writes                           *)
(*   target       appSpaceTarget.js: the fence inside the application      *)
(*   store        appSpaceRegistry.js, fileAppSpaceStore.js over           *)
(*                fileExecutionMemoryStore.js: markers and the active HEAD *)
(*   Machine      checkpoint list of mcpMachine.html (external)            *)
(*                                                                         *)
(* The page runs one command at a time, in the order they were sent, so a  *)
(* command is one step. It may be refused or never delivered, and it may   *)
(* run while its answer is lost (timeout, cancellation): a cancelled       *)
(* operation is one whose later commands are all refused. State is         *)
(* abstracted to where it comes from: the pair each side rests on; and a    *)
(* revision of the application to the operations that still know it.       *)
(***************************************************************************)
EXTENDS Naturals, Sequences, FiniteSets

CONSTANTS
    Ops,          \* operations; a capture publishes its pair under its own name
    MaxWrites,    \* bound: writes of the application by itself
    MaxBoots,     \* bound: restarts of the control process and Machine resets
    Pipelined     \* whether a client starts an operation before the last ended

ASSUME AppAssumption ==
    MaxWrites \in Nat /\ MaxBoots \in Nat /\ Pipelined \in BOOLEAN

Nothing == "none"
Corrupt == "corrupt"    \* a HEAD file that names no digest
ASSUME NotAnOp == {Nothing, Corrupt} \cap Ops = {}

Captures == {"checkpoint", "branch"}
Restores == {"restore", "adopt"}

VARIABLES
    app,      \* [on, known, frozen, fence]: the pair it rests on, the operations that
              \* know its revision, frozen by the adapter, fenced by the target
    machine,  \* [on]: the pair its state was restored from
    saved,    \* the page's checkpoints: who saved each, and on what the Machine rested
    boot,     \* generation of the checkpoint list
    writes,   \* how many writes the application made by itself
    marker,   \* per pair: what was published under its marker
    head,     \* [pair, by]: the active pair and the operation that moved HEAD last
    op        \* per operation: where it stands

pageVars == <<app, machine, saved>>
storeVars == <<marker, head>>
appVars == <<app, machine, saved, boot, writes, marker, head, op>>

NoOp == [kind |-> Nothing, pc |-> "idle", src |-> Nothing, expected |-> Nothing, idx |-> 0,
         still |-> FALSE, appOn |-> Nothing, machineOn |-> Nothing, resumed |-> FALSE,
         moved |-> FALSE, broken |-> FALSE, err |-> Nothing, told |-> Nothing, by |-> Nothing]

FreshApp == [on |-> Nothing, known |-> {}, frozen |-> FALSE, fence |-> Nothing]

AppInit ==
    /\ app = FreshApp
    /\ machine = [on |-> Nothing]
    /\ saved = <<>>
    /\ boot = 0 /\ writes = 0
    /\ marker = [o \in Ops |-> [idx |-> 0, boot |-> 0, still |-> FALSE]]
    /\ head = [pair |-> Nothing, by |-> Nothing]
    /\ op = [o \in Ops |-> NoOp]

Running(o) == op[o].pc \notin {"idle", "done"}
Published == {o \in Ops : marker[o].idx > 0}

-----------------------------------------------------------------------------
(* How an operation advances *)

Goto(o, record) == op' = [op EXCEPT ![o] = record]
At(o, pc) == op[o].pc = pc
To(o, pc) == [op[o] EXCEPT !.pc = pc]
Done(r, told) == [NoOp EXCEPT !.pc = "done", !.kind = r.kind, !.moved = r.moved, !.told = told]

Errors == {"unknown", "notSent"}

\* _dispatch: the command ran and was answered, ran with its answer lost, or
\* did not run: the target refused it or the bridge never delivered it.
Command(o, can, did, answered, failed) ==
    \/ can /\ did /\ Goto(o, answered)
    \/ can /\ did /\ Goto(o, failed["unknown"])
    \/ UNCHANGED pageVars /\ Goto(o, failed["notSent"])

ReadOnly == UNCHANGED pageVars

Begin(o) ==
    /\ At(o, "idle")
    /\ Pipelined \/ \A q \in Ops : ~Running(q)
    /\ \E kind \in Captures \cup Restores, src \in Published \cup {Nothing},
          expected \in Published \cup {Nothing} :
         /\ kind \in Captures => src = Nothing /\ expected = head.pair
         /\ kind = "branch" => expected # Nothing
         /\ kind \in Restores => src # Nothing
         /\ kind = "restore" => expected = Nothing
         /\ Goto(o, [NoOp EXCEPT !.kind = kind, !.pc = "describe", !.src = src,
                                 !.expected = expected, !.appOn = app.on,
                                 !.machineOn = machine.on])
    /\ UNCHANGED <<pageVars, boot, writes, storeVars>>

Local == UNCHANGED <<boot, writes, storeVars>>

-----------------------------------------------------------------------------
(* _captureApp *)

Describe(o) ==
    /\ At(o, "describe")
    /\ Command(o, app.fence = Nothing,
               app' = [app EXCEPT !.known = @ \cup {o}] /\ UNCHANGED <<machine, saved>>,
               To(o, "quiesce"), [e \in Errors |-> Done(op[o], "notSent")])
    /\ Local

\* Mutant: the fence refuses commands, but the adapter is not frozen.
QuiesceFenceOnly(o) ==
    /\ At(o, "quiesce")
    /\ Command(o, o \in app.known, app' = [app EXCEPT !.fence = o] /\ UNCHANGED <<machine, saved>>,
               To(o, "export"), [e \in Errors |-> Done(op[o], e)])
    /\ Local

\* The target takes a fence at the described revision, whether or not another
\* fence is held. A write that was under way may land while the adapter
\* freezes: the adapter is then frozen and nothing thaws it.
Quiesce(o) ==
    /\ At(o, "quiesce")
    /\ \/ /\ Command(o, o \in app.known,
                     app' = [app EXCEPT !.frozen = TRUE, !.fence = o] /\ UNCHANGED <<machine, saved>>,
                     To(o, "export"), [e \in Errors |-> Done(op[o], e)])
          /\ Local
       \/ /\ o \in app.known /\ ~app.frozen /\ writes < MaxWrites
          /\ app' = [app EXCEPT !.frozen = TRUE, !.known = {}]
          /\ writes' = writes + 1
          /\ Goto(o, Done(op[o], "notSent"))
          /\ UNCHANGED <<machine, saved, boot, storeVars>>

\* Mutant: a failing export ends the operation at once.
ExportLeavesFence(o) ==
    /\ At(o, "export")
    /\ Command(o, app.fence = o /\ o \in app.known, ReadOnly, To(o, "save"),
               [e \in Errors |-> Done(op[o], e)])
    /\ Local

\* app.export and the recheck behind it; a failure releases the fence first.
Export(o) ==
    /\ At(o, "export")
    /\ Command(o, app.fence = o /\ o \in app.known, ReadOnly, To(o, "save"),
               [e \in Errors |-> [To(o, "resume") EXCEPT !.err = e]])
    /\ Local

\* machine.checkpoint.save: of a capture, inside the try that resumes the
\* app; of a restore (the rollback checkpoint), outside of it.
Save(o) ==
    /\ At(o, "save")
    /\ Command(o, TRUE,
               saved' = Append(saved, [by |-> o, on |-> machine.on]) /\ UNCHANGED <<app, machine>>,
               [To(o, IF op[o].kind \in Captures THEN "publish" ELSE "import")
                  EXCEPT !.idx = Len(saved) + 1, !.still = o \in app.known],
               [e \in Errors |-> IF op[o].kind \in Captures
                          THEN [To(o, "resume") EXCEPT !.err = e] ELSE Done(op[o], e)])
    /\ Local

-----------------------------------------------------------------------------
(* _capture *)

\* The image export, then the object and its marker; any of them may fail.
Publish(o) ==
    /\ At(o, "publish")
    /\ \/ /\ marker' = [marker EXCEPT ![o] = [idx |-> op[o].idx, boot |-> boot,
                                              still |-> op[o].still]]
          /\ Goto(o, To(o, IF op[o].kind = "checkpoint" THEN "activate" ELSE "resume"))
       \/ UNCHANGED marker /\ Goto(o, [To(o, "resume") EXCEPT !.err = "notSent"])
    /\ UNCHANGED <<pageVars, boot, writes, head>>

\* compareAndSwapHead under the writer's lock; a busy lock fails it.
MoveHead(o, from, to, moved, failed) ==
    \/ /\ head.pair = from
       /\ head' = to
       /\ Goto(o, moved)
    \/ UNCHANGED head /\ Goto(o, failed)

Activate(o) ==
    /\ At(o, "activate")
    /\ MoveHead(o, op[o].expected, [pair |-> o, by |-> o], To(o, "resume"),
                [To(o, "resume") EXCEPT !.err = "notSent"])
    /\ UNCHANGED <<pageVars, boot, writes, marker>>

Thaw(o) == app' = [app EXCEPT !.frozen = FALSE, !.fence = Nothing] /\ UNCHANGED <<machine, saved>>

\* The finally of a capture. When it fails the error says so, with the outcome
\* notSent although the capture completed.
Resume(o) ==
    /\ At(o, "resume")
    /\ Command(o, app.fence = o, Thaw(o),
               Done(op[o], IF op[o].err = Nothing THEN "ok" ELSE op[o].err),
               [e \in Errors |-> Done(op[o], "resumeFailed")])
    /\ Local

-----------------------------------------------------------------------------
(* _restorePair and adopt *)

\* Mutant: a failure only lets the application go.
RollBackThaws(o, e) == [To(o, "rollbackResume") EXCEPT !.err = e]

RollBack(o, e) == [To(o, "rollbackImport") EXCEPT !.err = e]

\* app.import under the fence and the export that verifies it.
Import(o) ==
    /\ At(o, "import")
    /\ Command(o, app.fence = o,
               app' = [app EXCEPT !.on = op[o].src, !.known = {}] /\ UNCHANGED <<machine, saved>>,
               To(o, "restore"), [e \in Errors |-> RollBack(o, e)])
    /\ Local

\* machine.checkpoint.restore takes the index the pair recorded; nothing
\* compares what is saved there with the pair.
RestoreMachine(o) ==
    /\ At(o, "restore")
    /\ LET idx == marker[op[o].src].idx IN
       Command(o, idx <= Len(saved),
               machine' = [on |-> saved[idx].by] /\ UNCHANGED <<app, saved>>,
               To(o, IF op[o].kind = "adopt" THEN "adopt" ELSE "finish"),
               [e \in Errors |-> RollBack(o, e)])
    /\ Local

Adopt(o) ==
    /\ At(o, "adopt")
    /\ MoveHead(o, op[o].expected, [pair |-> op[o].src, by |-> o],
                [To(o, "finish") EXCEPT !.moved = TRUE, !.by = head.by], RollBack(o, "notSent"))
    /\ UNCHANGED <<pageVars, boot, writes, marker>>

\* finish: the fence is asked to go once; a second resume does nothing.
LiftFence(o) ==
    /\ At(o, "finish")
    /\ Command(o, app.fence = o, Thaw(o), Done(op[o], "ok"),
               [e \in Errors |-> [RollBack(o, e) EXCEPT !.resumed = TRUE]])
    /\ Local

RollbackImport(o) ==
    /\ At(o, "rollbackImport")
    /\ Command(o, app.fence = o,
               app' = [app EXCEPT !.on = op[o].appOn, !.known = {}] /\ UNCHANGED <<machine, saved>>,
               To(o, "rollbackRestore"), [e \in Errors |-> [To(o, "rollbackResume") EXCEPT !.broken = TRUE]])
    /\ Local

RollbackRestore(o) ==
    /\ At(o, "rollbackRestore")
    /\ Command(o, op[o].idx <= Len(saved),
               machine' = [on |-> saved[op[o].idx].on] /\ UNCHANGED <<app, saved>>,
               To(o, "rollbackResume"), [e \in Errors |-> [To(o, "rollbackResume") EXCEPT !.broken = TRUE]])
    /\ Local

\* Mutant: HEAD is forgotten.
RolledBackKeepsHead(o) == Done(op[o], IF op[o].broken THEN "rollbackFailed" ELSE op[o].err)

RolledBack(o) ==
    IF op[o].broken THEN Done(op[o], "rollbackFailed")
    ELSE IF op[o].moved THEN To(o, "headBack") ELSE Done(op[o], op[o].err)

RollbackResume(o) ==
    /\ At(o, "rollbackResume")
    /\ \/ op[o].resumed /\ ReadOnly /\ Goto(o, RolledBack(o))
       \/ /\ ~op[o].resumed
          /\ Command(o, app.fence = o, Thaw(o), RolledBack(o),
                     [e \in Errors |-> Done(op[o], "rollbackFailed")])
    /\ Local

\* moveActive back; the HEAD of no pair is written as a file nobody can read.
HeadBack(o) ==
    /\ At(o, "headBack")
    /\ MoveHead(o, op[o].src,
                [pair |-> IF op[o].expected = Nothing THEN Corrupt ELSE op[o].expected, by |-> op[o].by],
                Done(op[o], op[o].err), Done(op[o], "rollbackFailed"))
    /\ UNCHANGED <<pageVars, boot, writes, marker>>

-----------------------------------------------------------------------------
(* Around the coordinator *)

\* The application writes by itself until the adapter froze it; the commands
\* stageEffect, finalizeEffect and actuate are refused only behind a fence.
AppWrites ==
    /\ writes < MaxWrites
    /\ ~app.frozen \/ app.fence = Nothing
    /\ app' = [app EXCEPT !.known = {}]
    /\ writes' = writes + 1
    /\ UNCHANGED <<machine, saved, boot, storeVars, op>>

\* Another control process on the same root adopts a pair.
HeadMovedElsewhere ==
    /\ head.pair # Corrupt
    /\ \E p \in Published : head' = [pair |-> p, by |-> Nothing]
    /\ UNCHANGED <<pageVars, boot, writes, marker, op>>

\* machine.reset forgets the checkpoints.
ResetMachine ==
    /\ boot < MaxBoots
    /\ Pipelined \/ \A q \in Ops : ~Running(q)
    /\ boot' = boot + 1
    /\ saved' = <<>>
    /\ machine' = [on |-> Nothing]
    /\ UNCHANGED <<app, writes, storeVars, op>>

\* The control process ends and another starts: a new page, the same store.
Restart ==
    /\ boot < MaxBoots
    /\ boot' = boot + 1
    /\ saved' = <<>>
    /\ machine' = [on |-> Nothing]
    /\ app' = FreshApp
    /\ op' = [o \in Ops |-> IF Running(o) THEN Done(op[o], "died") ELSE op[o]]
    /\ UNCHANGED <<writes, storeVars>>

Step(o) ==
    \/ Begin(o) \/ Describe(o) \/ Quiesce(o) \/ Export(o) \/ Save(o)
    \/ Publish(o) \/ Activate(o) \/ Resume(o)
    \/ Import(o) \/ RestoreMachine(o) \/ Adopt(o) \/ LiftFence(o)
    \/ RollbackImport(o) \/ RollbackRestore(o) \/ RollbackResume(o) \/ HeadBack(o)

AppNext == (\E o \in Ops : Step(o)) \/ AppWrites \/ HeadMovedElsewhere \/ ResetMachine \/ Restart

AppSpec == AppInit /\ [][AppNext]_appVars

-----------------------------------------------------------------------------
(* Properties *)

\* A published pair is one moment: the Machine was saved while the application
\* still was at the exported revision, whatever wrote around the capture.
PairsAreOneMoment ==
    \A p \in Published : marker[p].still

Ends(o) == Running(o) /\ op'[o].pc = "done"
SameBoot(o) == marker[op[o].src].boot = boot

\* A restore or adopt never leaves one side on another pair: told "ok" both
\* sides rest on the pair, told "notSent" both rest where they were. Stated for
\* pairs whose checkpoint the running page saved itself.
BothSidesTogether ==
    [][\A o \in Ops : Ends(o) /\ op[o].kind \in Restores /\ SameBoot(o) =>
         /\ op'[o].told = "ok" => app'.on = op[o].src /\ machine'.on = op[o].src
         /\ op'[o].told = "notSent" => app'.on = op[o].appOn /\ machine'.on = op[o].machineOn]_appVars

\* The same of any pair that can be opened: false. The index a pair recorded
\* means nothing in a page that did not save it.
RestoredPairIsWhole ==
    [][\A o \in Ops : Ends(o) /\ op[o].kind \in Restores /\ op'[o].told = "ok" =>
         app'.on = op[o].src /\ machine'.on = op[o].src]_appVars

\* An adopt that reports a plain failure did not leave HEAD where it had put
\* it, whoever else moved HEAD meanwhile; and HEAD names a complete pair.
FailedAdoptKeepsHead ==
    /\ head.pair \in Published \cup {Nothing, Corrupt}
    /\ \A o \in Ops : op[o].kind = "adopt" /\ op[o].told \in {"notSent", "unknown"} /\ op[o].moved
                        => head.by # o

\* The fence an operation took is gone once the operation succeeded, and once
\* a capture reported that nothing was sent.
FenceReleased ==
    \A o \in Ops :
      \/ op[o].told = "ok"
      \/ op[o].kind \in Captures /\ op[o].told = "notSent"
      => app.fence # o

=============================================================================
