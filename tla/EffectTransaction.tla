--------------------------- MODULE EffectTransaction ---------------------------
(***************************************************************************)
(* Rehearse-Commit: an external effect is prepared, rehearsed, approved,   *)
(* sent at most once and closed with its result, over two content-         *)
(* addressed records that crashes and concurrent calls may tear apart: the *)
(* transaction and the Execution Session.                                  *)
(*                                                                         *)
(*   effectTransactionCoordinator.js   the calls, step by step             *)
(*   effectTransactionRegistry.js      what each revision requires         *)
(*   executionMemoryRegistry.js        session revisions                   *)
(*   fileExecutionMemoryStore.js       HEAD files, compare-and-swap under  *)
(*                                     a lock file                         *)
(*                                                                         *)
(* A revision is a record: two digests are equal exactly when the records  *)
(* are. Calls of several clients, or of several processes on one root,     *)
(* interleave between any two awaits; a crash ends them all.               *)
(***************************************************************************)
EXTENDS Naturals, FiniteSets

CONSTANTS
    Txs,          \* effect transactions, all on one Execution Session
    Calls,        \* calls that may be under way at once
    MaxCrashes,   \* bound
    Nonces,       \* nonces the approval authorities put in their grants
    MaxTx,        \* bound: revisions of a transaction
    MaxSession    \* bound: revisions of the session

ASSUME EffectAssumption == {MaxCrashes, MaxTx, MaxSession} \subseteq Nat

None == "none"
Dead == "dead"          \* a lock file whose owner died
Session == "session"
Free == "free"
Ids == Txs \cup {Session}
ASSUME DistinctIds == {None, Dead, Session, Free} \cap (Txs \cup Calls) = {}

VARIABLES
    head,     \* HEAD revision of every transaction and of the session
    lock,     \* per id: the lock file of its HEAD
    sent,     \* history: how often the effect of a transaction left the broker
    nonce,    \* the transaction each consumed nonce approved
    call,     \* the calls under way
    crashes,
    raced     \* history: a lock that somebody held was removed as a dead one

vars == <<head, lock, sent, nonce, call, crashes, raced>>

NoRev == [n |-> 0, state |-> None, unknown |-> FALSE, intent |-> None, parent |-> 0, by |-> None]
NoTx == [n |-> 0, state |-> None, pending |-> NoRev, lease |-> None, result |-> None, terminal |-> NoRev]
NoCall == [t |-> None, pc |-> Free, tx |-> NoTx, ses |-> NoRev,
           id |-> None, next |-> NoTx, then |-> Free, result |-> None]

Init ==
    /\ head = [i \in Ids |-> IF i = Session THEN [NoRev EXCEPT !.n = 1, !.state = "active"] ELSE NoTx]
    /\ lock = [i \in Ids |-> Free]
    /\ sent = [t \in Txs |-> 0]
    /\ nonce = [k \in Nonces |-> None]
    /\ call = [c \in Calls |-> NoCall]
    /\ crashes = 0 /\ raced = FALSE

At(c, pc) == call[c].pc = pc
Return(c) == call' = [call EXCEPT ![c] = NoCall]

-----------------------------------------------------------------------------
(* publish: the object, then compareAndSwapHead under the lock file *)

\* The call goes on to publish `next` where it last saw the revision of id.
Publish(c, r, id, next, then) ==
    /\ next.n <= (IF id = Session THEN MaxSession ELSE MaxTx)
    /\ call' = [call EXCEPT ![c] = [r EXCEPT !.pc = "lock", !.id = id, !.next = next, !.then = then]]

Expected(c) == IF call[c].id = Session THEN call[c].ses ELSE call[c].tx

\* _withLock: the lock is free and HEAD is the expected one, or it is another
\* and the publication fails; a live owner makes it fail at once.
Lock(c) ==
    /\ At(c, "lock")
    /\ LET id == call[c].id IN
       \/ /\ lock[id] = Free
          /\ head[id] = Expected(c)
          /\ lock' = [lock EXCEPT ![id] = c]
          /\ call' = [call EXCEPT ![c].pc = "write"]
       \/ /\ lock[id] = Free
          /\ head[id] # Expected(c)
          /\ Return(c) /\ UNCHANGED lock
       \/ /\ lock[id] \in Calls
          /\ Return(c) /\ UNCHANGED lock
       \/ /\ lock[id] = Dead
          /\ call' = [call EXCEPT ![c].pc = "break"]
          /\ UNCHANGED lock
    /\ UNCHANGED <<head, sent, nonce, crashes, raced>>

\* The owner is dead and the lock is old: the file is removed, whoever wrote
\* the one that is there now.
Break(c) ==
    /\ At(c, "break")
    /\ lock' = [lock EXCEPT ![call[c].id] = Free]
    /\ raced' = (raced \/ lock[call[c].id] \in Calls)
    /\ call' = [call EXCEPT ![c].pc = "lock"]
    /\ UNCHANGED <<head, sent, nonce, crashes>>

\* atomicWrite renames the new HEAD over the old one.
Write(c) ==
    /\ At(c, "write")
    /\ head' = [head EXCEPT ![call[c].id] = call[c].next]
    /\ call' = [call EXCEPT ![c].pc = "unlock"]
    /\ UNCHANGED <<lock, sent, nonce, crashes, raced>>

\* The finally: the lock file at this path goes, and the call goes on.
Unlock(c) ==
    /\ At(c, "unlock")
    /\ LET r == [call[c] EXCEPT !.pc = call[c].then, !.next = NoTx, !.id = None, !.then = Free]
           now == call[c].next
       IN /\ lock' = [lock EXCEPT ![call[c].id] = Free]
          /\ call' = [call EXCEPT ![c] = IF r.pc = Free THEN NoCall
                        ELSE IF call[c].id = Session THEN [r EXCEPT !.ses = now]
                        ELSE [r EXCEPT !.tx = now]]
    /\ UNCHANGED <<head, sent, nonce, crashes, raced>>

Only(c) == UNCHANGED <<head, lock, sent, nonce, crashes, raced>>

-----------------------------------------------------------------------------
(* Revisions *)

Tx(old, state) == [old EXCEPT !.n = @ + 1, !.state = state]
Rev(old, state, unknown, intent, by) ==
    [n |-> old.n + 1, state |-> state, unknown |-> unknown, intent |-> intent,
     parent |-> old.n, by |-> by]

\* A call starts with the revisions its client passed, which are current.
Start(c, t) ==
    [NoCall EXCEPT !.t = t, !.tx = head[t], !.ses = head[Session]]

-----------------------------------------------------------------------------
(* The calls before the effect *)

Prepare(c, t) ==
    /\ At(c, Free)
    /\ head[Session].state = "active" /\ ~head[Session].unknown
    /\ head[t] = NoTx
    /\ Publish(c, Start(c, t), t, Tx(NoTx, "prepared"), "pend")
    /\ Only(c)

\* captureMachine, then the session revision that waits for this intent.
PreparePends(c) ==
    /\ At(c, "pend")
    /\ \/ Publish(c, call[c], Session, Rev(call[c].ses, "waitingApproval", FALSE, call[c].t, "effect"), "bindPending")
       \/ Return(c)
    /\ Only(c)

BindPending(c) ==
    /\ At(c, "bindPending")
    /\ IF head[call[c].t] = call[c].tx
       THEN Publish(c, call[c], call[c].t,
                    [Tx(call[c].tx, call[c].tx.state) EXCEPT !.pending = call[c].ses], Free)
       ELSE Return(c)
    /\ Only(c)

\* A passing rehearsal.
Rehearse(c, t) ==
    /\ At(c, Free)
    /\ head[t].state \in {"prepared", "rehearsed"}
    /\ Publish(c, Start(c, t), t, Tx(head[t], "rehearsed"), Free)
    /\ Only(c)

\* consumeApprovalNonce writes the nonce's own HEAD first; a grant may be
\* presented again for the intent it approved, and for no other.
Approve(c, t) ==
    /\ At(c, Free)
    /\ head[t].state = "rehearsed" /\ head[t].pending # NoRev
    /\ \E k \in Nonces :
         /\ nonce[k] \in {None, t}
         /\ nonce' = [nonce EXCEPT ![k] = t]
    /\ Publish(c, Start(c, t), t, Tx(head[t], "approved"), Free)
    /\ UNCHANGED <<head, lock, sent, crashes, raced>>

-----------------------------------------------------------------------------
(* commit *)

Leased(r, c) == [Tx(r, "sending") EXCEPT !.lease = c]
WithResult(r, result) == [Tx(r, "finalizing") EXCEPT !.result = result]

\* Mutant: the effect is sent before its lease is published.
CommitSendsFirst(c, t) ==
    /\ At(c, Free)
    /\ head[t].state = "approved"
    /\ head[Session] = head[t].pending
    /\ call' = [call EXCEPT ![c] = [Start(c, t) EXCEPT !.pc = "act"]]
    /\ Only(c)

\* The session still carries the approved intent; the observation and the
\* capture that follow may fail. The lease is published before the send.
Commit(c, t) ==
    /\ At(c, Free)
    /\ head[t].state = "approved"
    /\ head[Session] = head[t].pending /\ head[Session].intent = t
    /\ Publish(c, Start(c, t), t, Leased(head[t], c), "act")
    /\ Only(c)

\* Mutant: a commit that finds its predecessor sending tries again.
CommitRetries(c, t) ==
    /\ At(c, Free)
    /\ head[t].state = "sending"
    /\ call' = [call EXCEPT ![c] = [Start(c, t) EXCEPT !.pc = "act"]]
    /\ Only(c)

\* A commit of a transaction that already is past its lease never sends: it
\* records an unknown outcome for one still sending, and finalizes.
CommitRecovers(c, t) ==
    /\ At(c, Free)
    /\ \/ /\ head[t].state = "sending"
          /\ Publish(c, Start(c, t), t, WithResult(head[t], "outcomeUnknown"), "finalize")
       \/ /\ head[t].state = "finalizing"
          /\ call' = [call EXCEPT ![c] = [Start(c, t) EXCEPT !.pc = "finalize"]]
    /\ Only(c)

\* automation.act and the observation and capture behind it. The provider may
\* refuse before it sent anything; after a send the evidence may confirm it,
\* contradict it, or be missing.
Act(c) ==
    /\ At(c, "act")
    /\ \E result \in {"confirmed", "contradicted", "notObserved", "outcomeUnknown"} :
         /\ \/ sent' = [sent EXCEPT ![call[c].t] = @ + 1]
            \/ result \in {"notObserved", "outcomeUnknown"} /\ UNCHANGED sent
         /\ call' = [call EXCEPT ![c] = [@ EXCEPT !.pc = "record", !.result = result]]
    /\ UNCHANGED <<head, lock, nonce, crashes, raced>>

\* Mutant: the result is recorded on whatever the transaction is by now.
RecordOnNewest(c) ==
    /\ At(c, "record")
    /\ Publish(c, [call[c] EXCEPT !.tx = head[call[c].t]], call[c].t,
               WithResult(head[call[c].t], call[c].result), "finalize")
    /\ Only(c)

\* recordEffectResult. A capture that fails, or evidence that confirms while
\* the observation after it failed, ends the call with the transaction sending.
Record(c) ==
    /\ At(c, "record")
    /\ \/ /\ head[call[c].t] = call[c].tx
          /\ Publish(c, call[c], call[c].t, WithResult(call[c].tx, call[c].result), "finalize")
       \/ Return(c)
    /\ Only(c)

\* Mutant: any child of the pending revision will do.
AlreadyFinalizedAnyhow(s, r) == s.parent = r.pending.n /\ s.intent = None

\* The session revision a finalization made, or one of the client that looks
\* the same: a child of the pending one on the same Machine image.
AlreadyFinalized(s, r) ==
    /\ s.parent = r.pending.n /\ s.intent = None
    /\ s.unknown = (r.result = "outcomeUnknown")

Closed(s, r) ==
    Rev(s, IF r.result = "outcomeUnknown" THEN "failed" ELSE "active",
        r.result = "outcomeUnknown", None, "effect")

FinalizeSession(c) ==
    /\ At(c, "finalize")
    /\ LET s == head[Session]
           r == call[c].tx
           seen == [call[c] EXCEPT !.ses = s]
       IN \/ /\ AlreadyFinalized(s, r)
             /\ call' = [call EXCEPT ![c] = [seen EXCEPT !.pc = "bindTerminal"]]
          \/ /\ s = r.pending /\ s.intent = call[c].t
             /\ Publish(c, seen, Session, Closed(s, r), "bindTerminal")
          \/ /\ s # r.pending /\ ~(AlreadyFinalized(s, r) /\ s.by = "effect")
             /\ Return(c)
    /\ Only(c)

BindTerminal(c) ==
    /\ At(c, "bindTerminal")
    /\ IF head[call[c].t] = call[c].tx
       THEN Publish(c, call[c], call[c].t, [Tx(call[c].tx, "terminal") EXCEPT !.terminal = call[c].ses], Free)
       ELSE Return(c)
    /\ Only(c)

\* A verified Evidence Pack of exactly this result.
Seal(c, t) ==
    /\ At(c, Free)
    /\ head[t].state = "terminal"
    /\ Publish(c, Start(c, t), t, Tx(head[t], "sealed"), Free)
    /\ Only(c)

-----------------------------------------------------------------------------
(* The client's own revisions, and crashes *)

\* memory.checkpoint with the work the client states. memory.complete says
\* "completed" and that nothing is unknown, which no later call tells apart
\* from an active session but prepare.
Remember(c) ==
    /\ At(c, Free)
    /\ \E work \in {<<"active", FALSE>>, <<"failed", TRUE>>} :
         Publish(c, [NoCall EXCEPT !.ses = head[Session]], Session,
                 Rev(head[Session], work[1], work[2], None, "client"), Free)
    /\ Only(c)

\* Every call ends. The lock files it held stay behind.
Crash ==
    /\ crashes < MaxCrashes
    /\ crashes' = crashes + 1
    /\ lock' = [i \in Ids |-> IF lock[i] = Free THEN Free ELSE Dead]
    /\ call' = [c \in Calls |-> NoCall]
    /\ UNCHANGED <<head, sent, nonce, raced>>

-----------------------------------------------------------------------------

Step(c) ==
    \/ Lock(c) \/ Break(c) \/ Write(c) \/ Unlock(c)
    \/ PreparePends(c) \/ BindPending(c)
    \/ Act(c) \/ Record(c) \/ FinalizeSession(c) \/ BindTerminal(c)
    \/ Remember(c)
    \/ \E t \in Txs : Prepare(c, t) \/ Rehearse(c, t) \/ Approve(c, t) \/ Commit(c, t)
                        \/ CommitRecovers(c, t) \/ Seal(c, t)

Next == (\E c \in Calls : Step(c)) \/ Crash

Spec == Init /\ [][Next]_vars

-----------------------------------------------------------------------------
(* Properties *)

\* An effect leaves the broker at most once, whatever commits, recoveries and
\* crashes do, unless two callers removed one dead lock at the same time.
SentAtMostOnce == ~raced => \A t \in Txs : sent[t] <= 1

\* The same without the exception: false. The second of two callers that found
\* a dead lock removes the fresh lock of the first; both publish a lease.
OneSendBudget == \A t \in Txs : sent[t] <= 1

\* From the send on the transaction is in a state that never sends again: the
\* lease is durable first, and no late publication takes it back.
SentIsRecorded ==
    ~raced => \A t \in Txs : sent[t] > 0 =>
                head[t].state \in {"sending", "finalizing", "terminal", "sealed"}

\* A recorded result stays: neither a recovery that overtook a slow provider
\* nor the answer that comes after it replaces what was recorded first.
ResultStays ==
    [][~raced' => \A t \in Txs : head[t].result # None => head'[t].result = head[t].result]_vars

\* The two records agree: a terminal transaction names a session revision that
\* follows the pending one, waits for nothing and says unknown exactly when
\* the result does; the session never waits for a transaction that is closed.
RecordsAgree ==
    ~raced =>
      /\ \A t \in Txs : head[t].state \in {"terminal", "sealed"} =>
           /\ head[t].terminal.parent = head[t].pending.n
           /\ head[t].terminal.intent = None
           /\ head[t].terminal.unknown = (head[t].result = "outcomeUnknown")
      /\ head[Session].intent # None =>
           /\ head[Session].state = "waitingApproval"
           /\ head[head[Session].intent].state \notin {"terminal", "sealed"}

=============================================================================
