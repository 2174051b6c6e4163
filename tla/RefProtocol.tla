---------------------------- MODULE RefProtocol ----------------------------
(***************************************************************************)
(* The state kernel's commit protocol: content-addressed objects and named *)
(* refs on a store that may be cut off between any two writes.             *)
(*                                                                         *)
(*   src/src/state/refProtocol.js          commitState(), openState()      *)
(*   src/src/state/memoryStateStore.js     a store whose writes are atomic *)
(*   src/src/state/opfsStateStore.js       one that creates a file, then   *)
(*                                         replaces its content on close   *)
(*                                                                         *)
(* A writer is one commitState() call at a time; an action is what happens *)
(* between two awaits.  Objects of one phase are written concurrently.  A  *)
(* commit address determines everything the generation reaches.            *)
(***************************************************************************)
EXTENDS Naturals, FiniteSets

CONSTANTS
    Writers,        \* controllers that may run commitState() at one time
    Commits,        \* addresses of commit objects
    Tree(_),        \* the tree object of a commit
    Payloads(_),    \* its page and file objects
    Branches,       \* ref names other than HEAD and PREV
    None,
    Stores          \* the injected stores: whether writes are atomic, as in
                    \* MemoryStateStore, or as in OpfsStateStore, and the
                    \* bounds on what befalls them

Reach(c) == {c, Tree(c)} \cup Payloads(c)
Objects == UNION {Reach(c) : c \in Commits}
Names == {"HEAD", "PREV"} \cup Branches

ASSUME NoneAssumption == None \notin Commits /\ "missing" \notin Commits
                         /\ "corrupt" \notin Commits
ASSUME NameAssumption == {"HEAD", "PREV"} \cap Branches = {} /\ Names \cap Objects = {}
ASSUME StoreAssumption ==
    Stores \subseteq [atomic : BOOLEAN, maxCrashes : Nat, maxHarm : Nat,
                      maxFailures : Nat, maxEpoch : Nat]

VARIABLES
    store,          \* the store the writers were given
    disk,           \* "absent", "empty", "whole" or "harmed", per object
    refs,           \* "missing", "corrupt" or a commit, per ref name
    owner,          \* the store's owner epoch
    writer,         \* the commitState() call of each writer
    past,           \* the last two generations that HEAD was given
    harmed,         \* objects and ref names the storage harmed
    crashes, failures

vars == <<store, disk, refs, owner, writer, past, harmed, crashes, failures>>

Quiet == [pc |-> "idle", commit |-> None, ref |-> None, fence |-> 0,
          todo |-> {}, writing |-> {}, made |-> {}, head |-> None]

Init ==
    /\ store \in Stores
    /\ disk = [o \in Objects |-> "absent"]
    /\ refs = [n \in Names |-> "missing"]
    /\ owner = 0
    /\ writer = [w \in Writers |-> Quiet]
    /\ past = [head |-> None, prev |-> None]
    /\ harmed = {}
    /\ crashes = 0
    /\ failures = 0

At(w, pc) == writer[w].pc = pc
Go(w, pc) == writer' = [writer EXCEPT ![w].pc = pc]
GiveUp(w) == writer' = [writer EXCEPT ![w] = Quiet]

-----------------------------------------------------------------------------
(* Objects: payloads, then the tree, then the commit                       *)

Phases == {"payloads", "tree", "commit"}

PhaseObjects(c, phase) ==
    CASE phase = "payloads" -> Payloads(c)
      [] phase = "tree" -> {Tree(c)}
      [] OTHER -> {c}

\* fence 0: no fence; otherwise the epoch the caller was given.
Begin(w, c, name, fence) ==
    /\ At(w, "idle")
    /\ name # "PREV"
    /\ writer' = [writer EXCEPT ![w] =
         [Quiet EXCEPT !.pc = "payloads", !.commit = c, !.ref = name,
                       !.fence = fence, !.todo = Payloads(c)]]
    /\ UNCHANGED <<store, disk, refs, owner, past, harmed, crashes, failures>>

HasObject(w, o) ==          \* an object that is there is not written again
    /\ o \in writer[w].todo
    /\ writer' = [writer EXCEPT
                    ![w].todo = @ \ {o},
                    ![w].writing = IF disk[o] = "absent" THEN @ \cup {o}
                                                         ELSE @]
    /\ UNCHANGED <<store, disk, refs, owner, past, harmed, crashes, failures>>

CreateObject(w, o) ==       \* getFileHandle(name, { create: true })
    /\ ~store.atomic
    /\ o \in writer[w].writing \ writer[w].made
    /\ disk[o] = "absent"
    /\ disk' = [disk EXCEPT ![o] = "empty"]
    /\ writer' = [writer EXCEPT ![w].made = @ \cup {o}]
    /\ UNCHANGED <<store, refs, owner, past, harmed, crashes, failures>>

WriteObject(w, o) ==        \* close() replaces the content
    /\ o \in writer[w].writing
    /\ store.atomic \/ disk[o] # "absent"
    /\ disk' = [disk EXCEPT ![o] = "whole"]
    /\ harmed' = harmed \ {o}
    /\ writer' = [writer EXCEPT ![w].writing = @ \ {o}, ![w].made = @ \ {o}]
    /\ UNCHANGED <<store, refs, owner, past, crashes, failures>>

\* Mutant: the file that was created for the write stays, empty.
WriteFailsUnclean(w, o) ==
    /\ o \in writer[w].writing
    /\ failures < store.maxFailures
    /\ failures' = failures + 1
    /\ writer' = [writer EXCEPT ![w].writing = @ \ {o}, ![w].made = @ \ {o},
                                ![w].pc = "failed"]
    /\ UNCHANGED <<store, disk, refs, owner, past, harmed, crashes>>

(* A file this call created is removed again.  The other lanes of the phase *)
(* go on, the call itself has failed.                                       *)
WriteFails(w, o) ==
    /\ o \in writer[w].writing
    /\ failures < store.maxFailures
    /\ failures' = failures + 1
    /\ disk' = [disk EXCEPT ![o] = IF o \in writer[w].made THEN "absent" ELSE @]
    /\ writer' = [writer EXCEPT ![w].writing = @ \ {o}, ![w].made = @ \ {o},
                                ![w].pc = "failed"]
    /\ UNCHANGED <<store, refs, owner, past, harmed, crashes>>

NextPhase(phase) == CASE phase = "payloads" -> "tree"
                      [] phase = "tree" -> "commit"
                      [] OTHER -> "fence"

\* Mutant: the writes of a phase are started and not awaited.
PhaseNotAwaited(w) ==
    LET next == NextPhase(writer[w].pc) IN
    /\ writer[w].pc \in Phases
    /\ writer[w].todo = {}
    /\ writer' = [writer EXCEPT
                    ![w].pc = next,
                    ![w].todo = IF next = "fence" THEN {}
                                ELSE PhaseObjects(writer[w].commit, next)]
    /\ UNCHANGED <<store, disk, refs, owner, past, harmed, crashes, failures>>

PhaseDone(w) ==
    LET next == NextPhase(writer[w].pc) IN
    /\ writer[w].pc \in Phases
    /\ writer[w].todo = {} /\ writer[w].writing = {}
    /\ writer' = [writer EXCEPT
                    ![w].pc = next,
                    ![w].todo = IF next = "fence" THEN {}
                                ELSE PhaseObjects(writer[w].commit, next)]
    /\ UNCHANGED <<store, disk, refs, owner, past, harmed, crashes, failures>>

Forget(w) ==
    /\ At(w, "failed")
    /\ writer[w].todo = {} /\ writer[w].writing = {}
    /\ GiveUp(w)
    /\ UNCHANGED <<store, disk, refs, owner, past, harmed, crashes, failures>>

-----------------------------------------------------------------------------
(* The fence, PREV and the ref                                             *)

CheckFence(w) ==            \* readOwner()
    /\ At(w, "fence")
    /\ IF writer[w].fence \in {0, owner} THEN Go(w, "readRef") ELSE GiveUp(w)
    /\ UNCHANGED <<store, disk, refs, owner, past, harmed, crashes, failures>>

ReadRef(w) ==               \* nothing is committed over a corrupt ref
    LET name == writer[w].ref IN
    /\ At(w, "readRef")
    /\ \/ /\ refs[name] = "corrupt"
          /\ GiveUp(w)
       \/ /\ refs[name] # "corrupt"
          /\ IF name = "HEAD" /\ refs[name] # "missing"
             THEN writer' = [writer EXCEPT ![w].pc = "prev",
                                           ![w].head = refs[name]]
             ELSE Go(w, "ref")
    /\ UNCHANGED <<store, disk, refs, owner, past, harmed, crashes, failures>>

CreateRef(w, name) ==       \* an empty file until it is closed
    /\ ~store.atomic
    /\ \/ At(w, "prev") /\ name = "PREV"
       \/ At(w, "ref") /\ name = writer[w].ref
    /\ refs[name] = "missing"
    /\ refs' = [refs EXCEPT ![name] = "corrupt"]
    /\ UNCHANGED <<store, disk, owner, writer, past, harmed, crashes, failures>>

\* Mutant: PREV is given the new generation.
WriteNewPrev(w) ==
    /\ At(w, "prev")
    /\ refs' = [refs EXCEPT !["PREV"] = writer[w].commit]
    /\ harmed' = harmed \ {"PREV"}
    /\ Go(w, "ref")
    /\ UNCHANGED <<store, disk, owner, past, crashes, failures>>

WritePrev(w) ==
    /\ At(w, "prev")
    /\ store.atomic \/ refs["PREV"] # "missing"
    /\ refs' = [refs EXCEPT !["PREV"] = writer[w].head]
    /\ harmed' = harmed \ {"PREV"}
    /\ Go(w, "ref")
    /\ UNCHANGED <<store, disk, owner, past, crashes, failures>>

WriteRef(w) ==
    LET name == writer[w].ref IN
    /\ At(w, "ref")
    /\ store.atomic \/ refs[name] # "missing"
    /\ refs' = [refs EXCEPT ![name] = writer[w].commit]
    /\ harmed' = harmed \ {name}
    /\ past' = IF name = "HEAD"
               THEN [head |-> writer[w].commit, prev |-> past.head] ELSE past
    /\ GiveUp(w)
    /\ UNCHANGED <<store, disk, owner, crashes, failures>>

-----------------------------------------------------------------------------
(* The environment                                                         *)

ClaimOwner ==               \* OpfsStateStore keeps no owner
    /\ store.atomic /\ owner < store.maxEpoch
    /\ owner' = owner + 1
    /\ UNCHANGED <<store, disk, refs, writer, past, harmed, crashes, failures>>

Crash ==                    \* every call in flight is gone, files stay
    /\ crashes < store.maxCrashes
    /\ crashes' = crashes + 1
    /\ writer' = [w \in Writers |-> Quiet]
    /\ UNCHANGED <<store, disk, refs, owner, past, harmed, failures>>

CanHarm == Cardinality(harmed) < store.maxHarm

HarmObject(o) ==
    /\ CanHarm
    /\ disk[o] = "whole"
    /\ \E left \in {"absent", "harmed"} : disk' = [disk EXCEPT ![o] = left]
    /\ harmed' = harmed \cup {o}
    /\ UNCHANGED <<store, refs, owner, writer, past, crashes, failures>>

HarmRef(n) ==
    /\ CanHarm
    /\ refs[n] \in Commits
    /\ refs' = [refs EXCEPT ![n] = "corrupt"]
    /\ harmed' = harmed \cup {n}
    /\ UNCHANGED <<store, disk, owner, writer, past, crashes, failures>>

Step(w) ==
    \/ \E c \in Commits, n \in Names, f \in 0..owner : Begin(w, c, n, f)
    \/ \E o \in Objects : \/ HasObject(w, o) \/ CreateObject(w, o)
                          \/ WriteObject(w, o) \/ WriteFails(w, o)
    \/ PhaseDone(w) \/ Forget(w) \/ CheckFence(w) \/ ReadRef(w)
    \/ \E n \in Names : CreateRef(w, n)
    \/ WritePrev(w) \/ WriteRef(w)

Next ==
    \/ \E w \in Writers : Step(w)
    \/ ClaimOwner \/ Crash
    \/ \E o \in Objects : HarmObject(o)
    \/ \E n \in Names : HarmRef(n)

Spec == Init /\ [][Next]_vars

-----------------------------------------------------------------------------
(* openState() with no expected environment                                *)

Readable(n) == refs[n] \in Commits /\ \A o \in Reach(refs[n]) : disk[o] = "whole"

\* Mutant: a HEAD that cannot be read is reported without trying PREV.
OpenHeadOnly ==
    CASE Readable("HEAD") -> refs["HEAD"]
      [] refs["HEAD"] = "missing" -> "firstBoot"
      [] OTHER -> "throws"

Open ==
    CASE Readable("HEAD") -> refs["HEAD"]
      [] Readable("PREV") -> refs["PREV"]
      [] refs["HEAD"] = "missing" /\ refs["PREV"] = "missing" -> "firstBoot"
      [] OTHER -> "throws"

-----------------------------------------------------------------------------
Calls == [pc : Phases \cup {"idle", "failed", "fence", "readRef", "prev", "ref"},
          commit : Commits \cup {None}, ref : Names \cup {None}, fence : Nat,
          todo : SUBSET Objects, writing : SUBSET Objects,
          made : SUBSET Objects, head : Commits \cup {None}]

(* Every record has its shape; PREV is never given the reading of a ref     *)
(* that was missing.                                                        *)
TypeOK ==
    /\ store \in Stores
    /\ disk \in [Objects -> {"absent", "empty", "whole", "harmed"}]
    /\ refs \in [Names -> {"missing", "corrupt"} \cup Commits]
    /\ owner \in Nat
    /\ writer \in [Writers -> Calls]
    /\ past \in [head : Commits \cup {None}, prev : Commits \cup {None}]
    /\ harmed \subseteq Objects \cup Names
    /\ crashes \in Nat
    /\ failures \in Nat

(* Wherever a crash falls, the generation a ref points to is complete: no   *)
(* ref is written before everything its commit reaches is.                  *)
RefsComplete ==
    \A n \in Names : refs[n] \in Commits =>
        \A o \in Reach(refs[n]) : disk[o] = "whole" \/ o \in harmed

(* With one controller, and unless one of the two was harmed or is an open  *)
(* file, PREV is the generation HEAD had before, or, between the two ref    *)
(* writes and after a crash there, the one HEAD still has.                  *)
PrevIsPredecessor ==
    "corrupt" \notin {refs["HEAD"], refs["PREV"]} =>
        /\ refs["HEAD"] = IF past.head = None THEN "missing" ELSE past.head
        /\ \/ refs["PREV"] \in {past.prev, past.head} \ {None}
           \/ past.prev = None /\ refs["PREV"] = "missing"

(* While PREV holds the generation before HEAD's, one harmed object or ref, *)
(* unless both generations share that object, never keeps the machine from  *)
(* opening one of them, whatever was interrupted when.                      *)
OneHarmSurvived ==
    /\ refs["PREV"] \in {past.prev, "corrupt"} /\ past.prev # None
    /\ Cardinality(harmed) <= 1
    /\ harmed \cap Reach(past.head) \cap Reach(past.prev) = {}
    => Open \in {past.head, past.prev}

(* A fenced commit replaces its ref only while its owner is the current one. *)
FencedCommitsAreCurrent ==
    [][\A w \in Writers :
          At(w, "ref") /\ refs' # refs /\ writer[w].fence # 0 /\ writer'[w] = Quiet
             => writer[w].fence = owner]_vars
=============================================================================
