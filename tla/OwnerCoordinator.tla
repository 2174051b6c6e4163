-------------------------- MODULE OwnerCoordinator --------------------------
(***************************************************************************)
(* The single-owner rule of a durable computer: one Web Lock per group and *)
(* one durable epoch per ownership, tied together by a coordinator object  *)
(* in every tab.                                                           *)
(*                                                                         *)
(*   src/src/machine/persistence/webLockOwnerCoordinator.js                *)
(*                                                                         *)
(* A tab runs three strands that interleave at every await: start() with   *)
(* the abort listener it installs, the lock callback _holdOwnership(), and *)
(* stop(), which the facade may call from initialize()'s failure path and  *)
(* from suspend/dispose at the same time.  An action is what one strand    *)
(* does between two awaits.  The browser's lock manager and the owner      *)
(* record of the store are external; store writes may fail.                *)
(***************************************************************************)
EXTENDS Naturals, Sequences, FiniteSets

CONSTANTS
    Tabs,           \* browsing contexts that compete for the group
    None,
    MaxEpoch,       \* bound on the durable epochs that are explored
    MaxFailures     \* bound on failing store writes and callbacks

ASSUME NoneAssumption == None \notin Tabs
ASSUME BoundAssumption == MaxEpoch \in Nat /\ MaxFailures \in Nat

VARIABLES
    co,             \* the coordinator object of each tab
    stop,           \* where each caller of stop() stands in it
    holder,         \* the tab the lock manager granted the lock to
    queue,          \* the tabs whose lock requests wait, in order
    owner,          \* the group's durable owner record
    failures        \* store writes and callbacks that failed so far

vars == <<co, stop, holder, queue, owner, failures>>

Callers == {"initialize", "facade"}

Fresh == [state |-> "idle",
          callback |-> "none",      \* where _holdOwnership stands
          started |-> "none",       \* the promise start() returned
          token |-> 0,              \* the claimed epoch, 0 while null
          error |-> FALSE,
          threw |-> FALSE,          \* the callback leaves by an exception
          listening |-> FALSE,      \* the external abort listener is installed
          aborted |-> FALSE,        \* the external signal has fired
          signalled |-> FALSE,      \* _abort.abort() was called
          stopRequested |-> FALSE,
          adopted |-> FALSE,        \* machines run under the token
          lostNotified |-> FALSE,
          epochReleased |-> FALSE,
          holdReleased |-> FALSE,
          stopFailed |-> FALSE]     \* `failure` of the stop() that owned

NoStop == [k \in Callers |-> "none"]

Rejected(c) == IF c.started = "pending" THEN "rejected" ELSE c.started

Mine(t) == [ownerId |-> t, epoch |-> co[t].token, active |-> TRUE]

MayFail == failures < MaxFailures
Fails == failures' = failures + 1

-----------------------------------------------------------------------------
(* start()                                                                 *)

NewCoordinator(t) ==        \* createOwnerCoordinator() of a later initialize()
    /\ co[t].state \in {"stopped", "failed"}
    /\ co[t].callback \in {"none", "settled"}
    /\ stop[t] = NoStop
    /\ co' = [co EXCEPT ![t] = Fresh]
    /\ UNCHANGED <<stop, holder, queue, owner, failures>>

\* Each request may claim one epoch; MaxEpoch bounds how many are made.
CanRequest == owner.epoch + Cardinality(
    {u \in Tabs : co[u].callback \in {"queued", "claiming"}}) < MaxEpoch

Start(t) ==
    /\ co[t].state = "idle"
    /\ CanRequest
    /\ co' = [co EXCEPT ![t].state = "waiting", ![t].callback = "queued",
                        ![t].started = "pending", ![t].listening = TRUE]
    /\ queue' = Append(queue, t)
    /\ UNCHANGED <<stop, holder, owner, failures>>

ExternalAbort(t) ==
    /\ co[t].listening
    /\ co' = [co EXCEPT ![t].aborted = TRUE, ![t].signalled = TRUE,
                        ![t].error = TRUE, ![t].state = "stopping",
                        ![t].listening = FALSE,
                        ![t].started = Rejected(co[t])]
    /\ UNCHANGED <<stop, holder, queue, owner, failures>>

-----------------------------------------------------------------------------
(* The lock manager.  A request whose signal fired leaves the queue, unless *)
(* the grant wins the race.                                                *)

(* request() rejects.  stop() aborts without a reason, so the catch handler *)
(* sees an AbortError; the external abort passes its own error, which a     *)
(* lock manager may report as it is or as an AbortError.                    *)
DropRequest(t) ==
    /\ co[t].callback = "queued"
    /\ co[t].signalled
    /\ queue' = SelectSeq(queue, LAMBDA u : u # t)
    /\ \E outcome \in {"stopped"} \cup (IF co[t].aborted THEN {"failed"} ELSE {}) :
          co' = [co EXCEPT ![t].callback = "settled", ![t].state = outcome]
    /\ UNCHANGED <<stop, holder, owner, failures>>

Grant(t) ==                 \* _holdOwnership() up to claimOwner()
    /\ holder = None
    /\ queue # <<>> /\ Head(queue) = t
    /\ co[t].callback = "queued"    \* its request is the one that waits
    /\ holder' = t
    /\ queue' = Tail(queue)
    /\ \/ /\ co[t].stopRequested
          /\ co' = [co EXCEPT ![t].callback = "finally"]
       \/ /\ ~co[t].stopRequested /\ co[t].aborted
          /\ co' = [co EXCEPT ![t].callback = "finally", ![t].error = TRUE,
                              ![t].threw = TRUE]
       \/ /\ ~co[t].stopRequested /\ ~co[t].aborted
          /\ co' = [co EXCEPT ![t].callback = "claiming"]
    /\ UNCHANGED <<stop, owner, failures>>

-----------------------------------------------------------------------------
(* _holdOwnership() after the grant                                        *)

ClaimOwner(t) ==            \* the store's claim transaction commits
    /\ co[t].callback = "claiming"
    /\ owner' = [ownerId |-> t, epoch |-> owner.epoch + 1, active |-> TRUE]
    /\ co' = [co EXCEPT ![t].callback = "claimed",
                        ![t].token = owner.epoch + 1]
    /\ UNCHANGED <<stop, holder, queue, failures>>

ClaimFails(t) ==
    /\ co[t].callback = "claiming"
    /\ MayFail /\ Fails
    /\ co' = [co EXCEPT ![t].callback = "finally", ![t].threw = TRUE,
                        ![t].error = TRUE, ![t].started = Rejected(co[t])]
    /\ UNCHANGED <<stop, holder, queue, owner>>

Claimed(t) ==               \* claimOwner() resumes the callback
    /\ co[t].callback = "claimed"
    /\ \/ /\ co[t].stopRequested
          /\ co' = [co EXCEPT ![t].callback = "releasing"]
          /\ UNCHANGED failures
       \/ /\ ~co[t].stopRequested
          /\ co' = [co EXCEPT ![t].callback = "acquired",
                              ![t].state = "acquiring", ![t].adopted = TRUE]
          /\ UNCHANGED failures
       \/ /\ ~co[t].stopRequested           \* onAcquired() throws
          /\ MayFail /\ Fails
          /\ co' = [co EXCEPT ![t].callback = "finally", ![t].threw = TRUE,
                              ![t].state = "acquiring", ![t].error = TRUE,
                              ![t].started = Rejected(co[t])]
    /\ UNCHANGED <<stop, holder, queue, owner>>

\* Mutant: the stop requested while the machines were adopting is missed.
AcquiredIgnoresStop(t) ==
    /\ co[t].callback = "acquired"
    /\ co' = [co EXCEPT ![t].callback = "holding", ![t].state = "owned",
                        ![t].listening = FALSE]
    /\ UNCHANGED <<stop, holder, queue, owner, failures>>

Acquired(t) ==              \* onAcquired() resumes the callback
    /\ co[t].callback = "acquired"
    /\ \/ /\ co[t].stopRequested            \* _notifyLost()
          /\ co' = [co EXCEPT ![t].callback = "releasing",
                              ![t].lostNotified = TRUE, ![t].adopted = FALSE]
       \/ /\ ~co[t].stopRequested
          /\ co' = [co EXCEPT ![t].callback = "holding",
                              ![t].state = "owned", ![t].listening = FALSE,
                              ![t].started = IF @ = "pending" THEN "resolved"
                                                              ELSE @]
    /\ UNCHANGED <<stop, holder, queue, owner, failures>>

ReleaseEarly(t) ==          \* releaseOwner() of a callback told to stop
    /\ co[t].callback = "releasing"
    /\ \/ /\ owner = Mine(t)
          /\ owner' = [owner EXCEPT !.active = FALSE]
          /\ co' = [co EXCEPT ![t].callback = "finally",
                              ![t].epochReleased = TRUE]
          /\ UNCHANGED failures
       \/ /\ MayFail /\ Fails
          /\ co' = [co EXCEPT ![t].callback = "finally", ![t].threw = TRUE,
                              ![t].error = TRUE]
          /\ UNCHANGED owner
    /\ UNCHANGED <<stop, holder, queue>>

EndHold(t) ==
    /\ co[t].callback = "holding"
    /\ co[t].holdReleased
    /\ co' = [co EXCEPT ![t].callback = "finally"]
    /\ UNCHANGED <<stop, holder, queue, owner, failures>>

(* The finally block releases an epoch that is still held, the callback's   *)
(* promise settles, and with it the lock and the request's catch handler.   *)
Finally(t) ==
    LET owes == co[t].token # 0 /\ ~co[t].epochReleased
        settle(c) == [c EXCEPT !.callback = "settled", !.listening = FALSE,
                               !.state = IF c.threw THEN "failed" ELSE @,
                               !.started = IF c.threw THEN Rejected(c) ELSE @]
    IN  /\ co[t].callback = "finally"
        /\ holder' = None
        /\ \/ /\ ~owes
              /\ co' = [co EXCEPT ![t] = settle(@)]
              /\ UNCHANGED <<owner, failures>>
           \/ /\ owes /\ owner = Mine(t)
              /\ owner' = [owner EXCEPT !.active = FALSE]
              /\ co' = [co EXCEPT
                          ![t] = settle([@ EXCEPT !.epochReleased = TRUE])]
              /\ UNCHANGED failures
           \/ /\ owes /\ MayFail /\ Fails
              /\ co' = [co EXCEPT ![t] = settle([@ EXCEPT !.error = TRUE])]
              /\ UNCHANGED owner
        /\ UNCHANGED <<stop, queue>>

-----------------------------------------------------------------------------
(* stop()                                                                  *)

GoStop(t, k, pc) == stop' = [stop EXCEPT ![t][k] = pc]

\* Who calls: initialize() once its start() or what follows has failed, and
\* suspend(), retrySuspendCleanup() and dispose() at any time.
MayCall(t, k) ==
    /\ stop[t][k] = "none"
    /\ co[t].state # "idle"
    /\ k = "initialize" => co[t].started \in {"rejected", "resolved"}

Called(t, k) ==
    [co[t] EXCEPT !.listening = FALSE,
                  !.started = IF k = "initialize" THEN "handled" ELSE @]

StopTerminal(t, k) ==       \* stopped: nothing to do; failed without a token
    /\ MayCall(t, k)
    /\ \/ /\ co[t].state = "stopped"
          /\ co' = [co EXCEPT ![t] = Called(t, k)]
       \/ /\ co[t].state = "failed" /\ co[t].token = 0
          /\ co' = [co EXCEPT ![t] = [Called(t, k) EXCEPT
                                        !.stopRequested = TRUE]]
    /\ UNCHANGED <<stop, holder, queue, owner, failures>>

StopAfterFailure(t, k) ==
    /\ MayCall(t, k)
    /\ co[t].state = "failed" /\ co[t].token # 0
    /\ \/ /\ co[t].epochReleased
          /\ GoStop(t, k, "retryWait")
          /\ co' = [co EXCEPT ![t] = [Called(t, k) EXCEPT
                                        !.holdReleased = TRUE]]
       \/ /\ ~co[t].epochReleased
          /\ GoStop(t, k, "retryRelease")
          /\ co' = [co EXCEPT ![t] = Called(t, k)]
    /\ UNCHANGED <<holder, queue, owner, failures>>

StopStopping(t, k) ==
    /\ MayCall(t, k)
    /\ co[t].state = "stopping"
    /\ co' = [co EXCEPT ![t] = Called(t, k)]
    /\ GoStop(t, k, "waitOnly")
    /\ UNCHANGED <<holder, queue, owner, failures>>

StopWaiting(t, k) ==
    /\ MayCall(t, k)
    /\ co[t].state = "waiting"
    /\ co' = [co EXCEPT ![t] = [Called(t, k) EXCEPT
                !.stopRequested = TRUE, !.state = "stopping",
                !.started = Rejected(co[t]), !.signalled = TRUE]]
    /\ GoStop(t, k, "waitThenStopped")
    /\ UNCHANGED <<holder, queue, owner, failures>>

StopAcquiring(t, k) ==
    /\ MayCall(t, k)
    /\ co[t].state = "acquiring"
    /\ co' = [co EXCEPT ![t] = [Called(t, k) EXCEPT
                !.stopRequested = TRUE, !.state = "stopping",
                !.started = Rejected(co[t])]]
    /\ GoStop(t, k, "waitThenResult")
    /\ UNCHANGED <<holder, queue, owner, failures>>

\* Mutant: the machines are not told that the ownership ends.
StopOwnedSilently(t, k) ==
    /\ MayCall(t, k)
    /\ co[t].state = "owned"
    /\ co' = [co EXCEPT ![t] = [Called(t, k) EXCEPT
                !.stopRequested = TRUE, !.state = "stopping"]]
    /\ GoStop(t, k, "release")
    /\ UNCHANGED <<holder, queue, owner, failures>>

StopOwned(t, k) ==          \* up to and including _notifyLost()
    /\ MayCall(t, k)
    /\ co[t].state = "owned"
    /\ \E failed \in {FALSE} \cup (IF MayFail THEN {TRUE} ELSE {}) :
          /\ co' = [co EXCEPT ![t] = [Called(t, k) EXCEPT
                      !.stopRequested = TRUE, !.state = "stopping",
                      !.lostNotified = TRUE, !.adopted = FALSE,
                      !.stopFailed = failed]]
          /\ failures' = IF failed THEN failures + 1 ELSE failures
    /\ GoStop(t, k, "release")
    /\ UNCHANGED <<holder, queue, owner>>

\* Mutant: a failing releaseOwner() leaves stop() before the hold is ended.
StopReleaseKeepsHold(t, k) ==
    /\ stop[t][k] \in {"release", "retryRelease"}
    /\ \/ /\ owner = Mine(t)
          /\ owner' = [owner EXCEPT !.active = FALSE]
          /\ co' = [co EXCEPT ![t].epochReleased = TRUE,
                              ![t].holdReleased = TRUE]
          /\ UNCHANGED failures
       \/ /\ MayFail /\ Fails
          /\ co' = [co EXCEPT ![t].stopFailed = TRUE]
          /\ UNCHANGED owner
    /\ GoStop(t, k, "waitOwned")
    /\ UNCHANGED <<holder, queue>>

StopRelease(t, k) ==        \* releaseOwner() of stop(), then the hold ends
    /\ stop[t][k] \in {"release", "retryRelease"}
    /\ \/ /\ owner = Mine(t)
          /\ owner' = [owner EXCEPT !.active = FALSE]
          /\ co' = [co EXCEPT ![t].epochReleased = TRUE,
                              ![t].holdReleased = TRUE]
          /\ GoStop(t, k, IF stop[t][k] = "release" THEN "waitOwned"
                                                    ELSE "retryWait")
          /\ UNCHANGED failures
       \/ /\ MayFail /\ Fails
          /\ stop[t][k] = "release"
          /\ co' = [co EXCEPT ![t].stopFailed = TRUE,
                              ![t].holdReleased = TRUE]
          /\ GoStop(t, k, "waitOwned")
          /\ UNCHANGED owner
       \/ /\ stop[t][k] = "retryRelease"    \* stop() throws
          /\ \/ MayFail /\ Fails
             \/ owner # Mine(t) /\ UNCHANGED failures
          /\ GoStop(t, k, "none")
          /\ UNCHANGED <<co, owner>>
    /\ UNCHANGED <<holder, queue>>

StopReturns(t, k) ==        \* `await this._requestPromise` resumes stop()
    /\ stop[t][k] \in {"waitOnly", "waitThenStopped", "waitThenResult",
                       "waitOwned", "retryWait"}
    /\ co[t].callback = "settled"
    /\ co' = [co EXCEPT ![t].state =
                CASE stop[t][k] = "waitThenStopped" -> "stopped"
                  [] stop[t][k] = "waitThenResult" ->
                        IF co[t].error THEN "failed" ELSE "stopped"
                  [] stop[t][k] = "waitOwned" ->
                        IF co[t].stopFailed THEN "failed" ELSE "stopped"
                  [] stop[t][k] = "retryWait" ->
                        IF co[t].epochReleased THEN "stopped" ELSE @
                  [] OTHER -> @]
    /\ GoStop(t, k, "none")
    /\ UNCHANGED <<holder, queue, owner, failures>>

-----------------------------------------------------------------------------
(* The tab is closed or killed: the browser frees its lock, its memory is   *)
(* gone, the owner record stays as it is; the page may be opened again.     *)
Crash(t) ==
    /\ co[t] # Fresh
    /\ co' = [co EXCEPT ![t] = Fresh]
    /\ stop' = [stop EXCEPT ![t] = NoStop]
    /\ holder' = IF holder = t THEN None ELSE holder
    /\ queue' = SelectSeq(queue, LAMBDA u : u # t)
    /\ UNCHANGED <<owner, failures>>

-----------------------------------------------------------------------------
Init ==
    /\ co = [t \in Tabs |-> Fresh]
    /\ stop = [t \in Tabs |-> NoStop]
    /\ holder = None
    /\ queue = <<>>
    /\ owner = [ownerId |-> None, epoch |-> 0, active |-> FALSE]
    /\ failures = 0

Stopping(t, k) == StopRelease(t, k) \/ StopReturns(t, k)

CallStop(t, k) ==
    \/ StopTerminal(t, k) \/ StopAfterFailure(t, k) \/ StopStopping(t, k)
    \/ StopWaiting(t, k) \/ StopAcquiring(t, k) \/ StopOwned(t, k)

Callback(t) ==
    \/ ClaimOwner(t) \/ ClaimFails(t) \/ Claimed(t) \/ Acquired(t)
    \/ ReleaseEarly(t) \/ EndHold(t) \/ Finally(t)

Next ==
    \E t \in Tabs :
        \/ NewCoordinator(t) \/ Start(t) \/ ExternalAbort(t)
        \/ DropRequest(t) \/ Grant(t) \/ Callback(t) \/ Crash(t)
        \/ \E k \in Callers : CallStop(t, k) \/ Stopping(t, k)

Spec == Init /\ [][Next]_vars

(* The event loop runs every continuation, the lock manager serves its      *)
(* queue, and initialize() runs its catch block when start() was rejected.  *)
(* Nobody is obliged to start, to abort, to stop an owner or to crash.      *)
Fairness ==
    \A t \in Tabs :
        /\ WF_vars(DropRequest(t))
        /\ WF_vars(Grant(t))
        /\ WF_vars(Callback(t))
        /\ WF_vars(co[t].started = "rejected" /\ CallStop(t, "initialize"))
        /\ \A k \in Callers : WF_vars(Stopping(t, k))

FairSpec == Spec /\ Fairness

-----------------------------------------------------------------------------
(* The lease is with the tab whose machines have adopted a token and were   *)
(* not told of its loss yet.                                                *)
Adopters == {t \in Tabs : co[t].adopted}

Held ==
    IF Adopters = {} THEN None
    ELSE LET t == CHOOSE u \in Adopters : TRUE
         IN  [tab |-> t, epoch |-> co[t].token]

Epoch == owner.epoch

Lease == INSTANCE OwnershipLease WITH lease <- Held, epoch <- Epoch

(* Coordination implements the lease: one adopter at a time, and nobody     *)
(* claims a newer epoch while machines still run under the old one.         *)
ImplementsLease == Lease!Spec /\ [](Cardinality(Adopters) <= 1)

\* The caller's signal fired although the lock had been granted.
AbortedLate(t) ==
    /\ co[t].aborted
    /\ co[t].callback \in {"claiming", "claimed", "acquired", "holding"}

(* stop() always comes back, whatever the callback was doing when it began, *)
(* unless the caller's signal fired after the grant.                        *)
StopSettles ==
    \A t \in Tabs, k \in Callers :
        stop[t][k] # "none" ~> stop[t][k] = "none" \/ AbortedLate(t)

(* A start() that was rejected by a failure, by stop() or by a signal that  *)
(* fired while the request waited does not leave the lock behind.           *)
FailedStartLetsGo ==
    \A t \in Tabs :
        co[t].started = "rejected" ~> holder # t \/ AbortedLate(t)

(* No rejected start() leaves the lock behind, whenever its signal fired    *)
(* (an aborted wait is cleaned up at once without a claim or a lock leak).  *)
RejectedStartLetsGo ==
    \A t \in Tabs : co[t].started = "rejected" ~> holder # t
=============================================================================
