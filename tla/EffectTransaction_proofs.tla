----------------------- MODULE EffectTransaction_proofs -----------------------
(***************************************************************************)
(* Proofs about EffectTransaction, for every number of transactions, calls,*)
(* crashes, nonces and revisions: an effect is sent at most once, nothing  *)
(* is sent before its lease is durable, a recorded result stays, and the   *)
(* transaction and the session never contradict each other. All four under *)
(* the one assumption the code does not give itself, that no live lock is  *)
(* taken for a dead one (~raced).                                          *)
(*                                                                         *)
(* The argument: every publication of a transaction is a step from the     *)
(* revision the call saw to its successor (Sound), the lock and the        *)
(* comparison make the revision it saw the newest one when it is replaced  *)
(* (Exclusive), so the states from "sending" on are never left, and at     *)
(* most one call per transaction ever comes to hold a lease it has not     *)
(* used yet (LeaseOnce). The two records are kept together by one call per *)
(* transaction: the one that created it is the only one to ask the session *)
(* to wait for it, and nothing moves it on before that is bound (InStep).  *)
(***************************************************************************)
EXTENDS EffectTransaction, TLAPS

-----------------------------------------------------------------------------
(* The inductive invariant *)

TxStates == {None, "prepared", "rehearsed", "approved", "sending", "finalizing",
             "terminal", "sealed"}
Leasable == {None, "prepared", "rehearsed", "approved"}
Results == {"confirmed", "contradicted", "notObserved", "outcomeUnknown"}
Publishing == {"lock", "break", "write", "unlock"}
Resuming == {"pend", "bindPending", "act", "record", "finalize", "bindTerminal"}

SessionRevision ==
    [n : Nat, state : {None, "active", "waitingApproval", "failed"}, unknown : BOOLEAN,
     intent : Txs \cup {None}, parent : Nat, by : {None, "effect", "client"}]

TxRevision ==
    [n : Nat, state : TxStates, pending : SessionRevision, lease : Calls \cup {None},
     result : Results \cup {None}, terminal : SessionRevision]

\* A transaction has no result before it is finalizing.
WellFormed(r) ==
    /\ r \in TxRevision
    /\ r.state \in Leasable \cup {"sending"} => r.result = None

Places == {Free} \cup Publishing \cup Resuming
AfterPublishing == {Free} \cup Resuming
MaybeTx == Txs \cup {None}
MaybeId == Ids \cup {None}
MaybeResult == Results \cup {None}
Revision == TxRevision \cup SessionRevision

CallRecord ==
    [t : MaybeTx, pc : Places, tx : TxRevision, ses : SessionRevision, id : MaybeId,
     next : Revision, then : AfterPublishing, result : MaybeResult]

\* What a call is about to publish follows the revision it saw, and where the
\* call goes on matches what it published.
Sound(r) ==
    /\ r \in CallRecord
    /\ WellFormed(r.tx)
    /\ r.pc \in Resuming => r.t \in Txs
    /\ r.pc \in {"act", "record"} => r.tx.state = "sending"
    /\ r.pc = "record" => r.result \in Results
    /\ r.pc \in {"finalize", "bindTerminal"} => r.tx.state = "finalizing"
    /\ r.pc \in Publishing =>
         /\ r.id \in {r.t, Session} \cap Ids
         /\ r.then # "record"
         /\ r.then # Free => r.t \in Txs
         /\ r.id = Session => r.next \in SessionRevision /\ r.then \notin {"act", "finalize"}
         /\ r.then = "bindTerminal" => r.id = Session /\ r.tx.state = "finalizing"
         /\ r.id \in Txs =>
              /\ WellFormed(r.next)
              /\ r.next.state \in Leasable => r.tx.state \in Leasable
              /\ r.tx.result # None => r.next.result = r.tx.result
              /\ r.then = "act" => r.tx.state \in Leasable /\ r.next.state = "sending"
              /\ r.then = "finalize" => r.next.state = "finalizing"

Typed ==
    /\ \A t \in Txs : WellFormed(head[t])
    /\ head[Session] \in SessionRevision
    /\ head = [i \in Ids |-> head[i]]
    /\ lock \in [Ids -> Calls \cup {Free, Dead}]
    /\ sent \in [Txs -> Nat]
    /\ call \in [Calls -> CallRecord]
    /\ raced \in BOOLEAN
    /\ \A c \in Calls : Sound(call[c])

\* Between the comparison and the removal of its lock file a call is alone.
Exclusive ==
    \A c \in Calls :
      /\ call[c].pc \in {"write", "unlock"} => lock[call[c].id] = c
      /\ call[c].pc = "write" => head[call[c].id] = Expected(c)

\* The call has published its lease on t and has not sent yet.
Leaseholder(c, t) ==
    /\ call[c].t = t
    /\ call[c].pc = "act" \/ (call[c].pc = "unlock" /\ call[c].then = "act")

LeaseOnce ==
    \A t \in Txs :
      /\ sent[t] <= 1
      /\ head[t].state \in Leasable => sent[t] = 0
      /\ \A c \in Calls : Leaseholder(c, t) =>
           /\ head[t].state \notin Leasable
           /\ sent[t] = 0
           /\ \A d \in Calls : Leaseholder(d, t) => d = c

IInv == Typed /\ (~raced => Exclusive /\ LeaseOnce)


-----------------------------------------------------------------------------
(* Steps that only move a call on *)

\* The record a call leaves when it ends.
LEMMA NoCallSound == NoCall \in CallRecord /\ Sound(NoCall) /\ NoCall.pc = Free
  <1>1. NoRev \in SessionRevision
    BY SMT DEF NoRev, SessionRevision
  <1>2. NoTx \in TxRevision /\ WellFormed(NoTx)
    BY <1>1, SMT DEF NoTx, TxRevision, TxStates, WellFormed
  <1>3. NoCall \in CallRecord
    BY <1>1, <1>2, SMT DEF NoCall, CallRecord, Free, MaybeTx, Places, MaybeId, Revision,
                           AfterPublishing, MaybeResult
  <1> QED
    BY <1>2, <1>3, SMT DEF NoCall, Sound, Free, Publishing, Resuming

\* The record Publish leaves.
Published(r, id, next, then) == [r EXCEPT !.pc = "lock", !.id = id, !.next = next, !.then = then]

\* A call that moves to another place outside the lock, without a lease in
\* its hand and without touching anything else, keeps the invariant.
LEMMA CallMoves ==
    ASSUME IInv, NEW c \in Calls, NEW r, Sound(r),
           r.pc \notin {"write", "unlock", "act"},
           call' = [call EXCEPT ![c] = r],
           UNCHANGED <<head, lock, sent, raced>>
    PROVE  IInv'
  <1>1. call' \in [Calls -> CallRecord] /\ call'[c] = r
        /\ \A d \in Calls \ {c} : call'[d] = call[d]
    BY SMT DEF IInv, Typed, Sound
  <1>2. Typed'
    BY <1>1, SMT DEF IInv, Typed
  <1>3. ASSUME ~raced, Exclusive, LeaseOnce
        PROVE  Exclusive' /\ LeaseOnce'
    <2>1. Exclusive'
      BY <1>1, <1>3, SMT DEF Exclusive, Expected
    <2>2. \A t \in Txs : ~Leaseholder(c, t)'
      BY <1>1, SMT DEF Leaseholder
    <2>3. \A d \in Calls \ {c}, t \in Txs : Leaseholder(d, t)' <=> Leaseholder(d, t)
      BY <1>1, SMT DEF Leaseholder
    <2>4. LeaseOnce'
      BY <1>3, <2>2, <2>3, Zenon DEF LeaseOnce
    <2> QED BY <2>1, <2>4
  <1> QED
    BY <1>2, <1>3, SMT DEF IInv

\* A call that ends.
LEMMA CallEnds ==
    ASSUME IInv, NEW c \in Calls, Return(c), UNCHANGED <<head, lock, sent, raced>>
    PROVE  IInv'
  <1>1. NoCall.pc \notin {"write", "unlock", "act"}
    BY NoCallSound DEF Free
  <1> QED
    BY <1>1, NoCallSound, CallMoves, Zenon DEF Return

\* A call that goes on to publish a revision that follows the one it saw.
LEMMA PublishMoves ==
    ASSUME IInv, NEW c \in Calls, NEW q, Sound(q), q.pc = "lock",
           call' = [call EXCEPT ![c] = q],
           UNCHANGED <<head, lock, sent, raced>>
    PROVE  IInv'
  BY CallMoves

\* What a call that starts knows.
Started(t, h, s) == [NoCall EXCEPT !.t = t, !.tx = h, !.ses = s]

LEMMA StartFields ==
    ASSUME NEW t \in Txs, NEW h \in TxRevision, NEW s \in SessionRevision
    PROVE  /\ Started(t, h, s) \in CallRecord
           /\ Started(t, h, s).t = t /\ Started(t, h, s).tx = h /\ Started(t, h, s).ses = s
  <1> DEFINE q1 == [NoCall EXCEPT !.t = t]
             q2 == [q1 EXCEPT !.tx = h]
             q3 == [q2 EXCEPT !.ses = s]
  <1>0. q3 = Started(t, h, s)
    BY DEF Started
  <1>1. q1 \in CallRecord /\ q1.t = t
    BY NoCallSound, SMT DEF CallRecord, MaybeTx
  <1> HIDE DEF q1
  <1>2. q2 \in CallRecord /\ q2.t = t /\ q2.tx = h
    BY <1>1, SMT DEF CallRecord
  <1> HIDE DEF q2
  <1>3. q3 \in CallRecord /\ q3.t = t /\ q3.tx = h /\ q3.ses = s
    BY <1>2, SMT DEF CallRecord
  <1> HIDE DEF q3
  <1> QED
    BY <1>0, <1>3

LEMMA StartSound ==
    ASSUME IInv, NEW c \in Calls, NEW t \in Txs
    PROVE  /\ Start(c, t) \in CallRecord
           /\ Start(c, t).t = t /\ Start(c, t).tx = head[t]
           /\ Start(c, t).ses = head[Session]
           /\ WellFormed(head[t]) /\ head[t] \in TxRevision
           /\ head[Session] \in SessionRevision
  <1>1. WellFormed(head[t]) /\ head[t] \in TxRevision /\ head[Session] \in SessionRevision
    BY SMT DEF IInv, Typed, WellFormed
  <1> QED
    <2>1. Start(c, t) = Started(t, head[t], head[Session])
      BY DEF Start, Started
    <2> QED
      BY <1>1, <2>1, StartFields

\* The fields of the record Publish leaves.
LEMMA PublishFields ==
    ASSUME NEW r \in CallRecord, NEW id \in Ids, NEW next \in Revision,
           NEW then \in AfterPublishing
    PROVE  LET q == Published(r, id, next, then)
           IN  /\ q \in CallRecord
               /\ q.t = r.t /\ q.pc = "lock" /\ q.tx = r.tx /\ q.ses = r.ses
               /\ q.id = id /\ q.next = next /\ q.then = then /\ q.result = r.result
  <1> DEFINE q1 == [r EXCEPT !.pc = "lock"]
             q2 == [q1 EXCEPT !.id = id]
             q3 == [q2 EXCEPT !.next = next]
             q4 == [q3 EXCEPT !.then = then]
  <1>0. q4 = Published(r, id, next, then)
    BY DEF Published
  <1>1. /\ q1 \in CallRecord /\ q1.pc = "lock"
        /\ q1.t = r.t /\ q1.tx = r.tx /\ q1.ses = r.ses /\ q1.result = r.result
    <2>1. "lock" \in Places
      BY SMT DEF Places, Publishing
    <2> QED
      BY <2>1, SMT DEF CallRecord
  <1> HIDE DEF q1
  <1>2. /\ q2 \in CallRecord /\ q2.pc = "lock" /\ q2.id = id
        /\ q2.t = r.t /\ q2.tx = r.tx /\ q2.ses = r.ses /\ q2.result = r.result
    <2>1. id \in MaybeId
      BY DEF MaybeId
    <2> QED
      BY <1>1, <2>1, SMT DEF CallRecord
  <1> HIDE DEF q2
  <1>3. /\ q3 \in CallRecord /\ q3.pc = "lock" /\ q3.id = id /\ q3.next = next
        /\ q3.t = r.t /\ q3.tx = r.tx /\ q3.ses = r.ses /\ q3.result = r.result
    BY <1>2, SMT DEF CallRecord
  <1> HIDE DEF q3
  <1>4. /\ q4 \in CallRecord /\ q4.pc = "lock" /\ q4.id = id /\ q4.next = next
        /\ q4.then = then
        /\ q4.t = r.t /\ q4.tx = r.tx /\ q4.ses = r.ses /\ q4.result = r.result
    BY <1>3, SMT DEF CallRecord
  <1> HIDE DEF q4
  <1> QED
    BY <1>0, <1>4

\* A call that publishes the revision `next` of transaction t over r.tx, the
\* one it saw.
LEMMA TxPlanSound ==
    ASSUME NEW r \in CallRecord, NEW t \in Txs, r.t = t, WellFormed(r.tx),
           NEW next, WellFormed(next),
           NEW then \in {Free, "pend", "act", "finalize"},
           next.state \in Leasable => r.tx.state \in Leasable,
           r.tx.result # None => next.result = r.tx.result,
           then = "act" => r.tx.state \in Leasable /\ next.state = "sending",
           then = "finalize" => next.state = "finalizing"
    PROVE  Sound(Published(r, t, next, then)) /\ Published(r, t, next, then).pc = "lock"
  <1> DEFINE q == Published(r, t, next, then)
  <1>1. t # Session /\ t \in Ids /\ next \in Revision /\ then \in AfterPublishing
    BY DistinctIds, SMT DEF Ids, Revision, WellFormed, AfterPublishing, Resuming
  <1>2. /\ q \in CallRecord /\ q.t = t /\ q.pc = "lock" /\ q.tx = r.tx /\ q.ses = r.ses
        /\ q.id = t /\ q.next = next /\ q.then = then /\ q.result = r.result
    BY <1>1, PublishFields
  <1> HIDE DEF q
  <1>3. Sound(q)
    BY <1>1, <1>2, SMT DEF Sound, Publishing, Resuming, Free
  <1> QED BY <1>2, <1>3 DEF q

\* A call that publishes a revision of the session.
LEMMA SessionPlanSound ==
    ASSUME NEW r \in CallRecord, WellFormed(r.tx),
           NEW next \in SessionRevision,
           NEW then \in {Free, "bindPending", "bindTerminal"},
           then # Free => r.t \in Txs,
           then = "bindTerminal" => r.tx.state = "finalizing"
    PROVE  /\ Sound(Published(r, Session, next, then))
           /\ Published(r, Session, next, then).pc = "lock"
  <1> DEFINE q == Published(r, Session, next, then)
  <1>1. Session \notin Txs /\ Session \in Ids /\ next \in Revision /\ then \in AfterPublishing
    BY DistinctIds, SMT DEF Ids, Revision, AfterPublishing, Resuming
  <1>2. /\ q \in CallRecord /\ q.t = r.t /\ q.pc = "lock" /\ q.tx = r.tx /\ q.ses = r.ses
        /\ q.id = Session /\ q.next = next /\ q.then = then /\ q.result = r.result
    BY <1>1, PublishFields
  <1> HIDE DEF q
  <1>3. Sound(q)
    BY <1>1, <1>2, SMT DEF Sound, Publishing, Resuming, Free
  <1> QED BY <1>2, <1>3 DEF q

\* A call that moves without a plan.
LEMMA PcFields ==
    ASSUME NEW r \in CallRecord, NEW p \in Places
    PROVE  LET q == [r EXCEPT !.pc = p]
           IN  /\ q \in CallRecord
               /\ q.t = r.t /\ q.pc = p /\ q.tx = r.tx /\ q.ses = r.ses
               /\ q.id = r.id /\ q.next = r.next /\ q.then = r.then /\ q.result = r.result
  BY SMT DEF CallRecord

LEMMA SesFields ==
    ASSUME NEW r \in CallRecord, NEW s \in SessionRevision
    PROVE  LET q == [r EXCEPT !.ses = s]
           IN  /\ q \in CallRecord
               /\ q.t = r.t /\ q.pc = r.pc /\ q.tx = r.tx /\ q.ses = s
               /\ q.id = r.id /\ q.next = r.next /\ q.then = r.then /\ q.result = r.result
  BY SMT DEF CallRecord

LEMMA TxFieldOfCall ==
    ASSUME NEW r \in CallRecord, NEW x \in TxRevision
    PROVE  LET q == [r EXCEPT !.tx = x]
           IN  /\ q \in CallRecord
               /\ q.t = r.t /\ q.pc = r.pc /\ q.tx = x /\ q.ses = r.ses
               /\ q.id = r.id /\ q.next = r.next /\ q.then = r.then /\ q.result = r.result
  BY SMT DEF CallRecord

-----------------------------------------------------------------------------
(* Revisions *)

LEMMA TxFields ==
    ASSUME NEW r \in TxRevision, NEW state \in TxStates
    PROVE  /\ Tx(r, state) \in TxRevision
           /\ Tx(r, state).state = state /\ Tx(r, state).result = r.result
  <1> DEFINE q1 == [r EXCEPT !.n = @ + 1]
             q2 == [q1 EXCEPT !.state = state]
  <1>0. q2 = Tx(r, state)
    BY DEF Tx
  <1>1. q1 \in TxRevision /\ q1.result = r.result
    BY SMT DEF TxRevision
  <1> HIDE DEF q1
  <1>2. q2 \in TxRevision /\ q2.state = state /\ q2.result = r.result
    BY <1>1, SMT DEF TxRevision
  <1> HIDE DEF q2
  <1> QED
    BY <1>0, <1>2

LEMMA LeasedFields ==
    ASSUME NEW r \in TxRevision, NEW c \in Calls
    PROVE  /\ Leased(r, c) \in TxRevision
           /\ Leased(r, c).state = "sending" /\ Leased(r, c).result = r.result
  <1> DEFINE q == Tx(r, "sending")
  <1>1. "sending" \in TxStates
    BY SMT DEF TxStates
  <1>2. q \in TxRevision /\ q.state = "sending" /\ q.result = r.result
    BY <1>1, TxFields
  <1>3. Leased(r, c) = [q EXCEPT !.lease = c]
    BY DEF Leased
  <1> HIDE DEF q
  <1> QED
    BY <1>2, <1>3, SMT DEF TxRevision

LEMMA ResultFields ==
    ASSUME NEW r \in TxRevision, NEW result \in Results
    PROVE  /\ WithResult(r, result) \in TxRevision
           /\ WithResult(r, result).state = "finalizing"
           /\ WithResult(r, result).result = result
  <1> DEFINE q == Tx(r, "finalizing")
  <1>1. "finalizing" \in TxStates
    BY SMT DEF TxStates
  <1>2. q \in TxRevision /\ q.state = "finalizing"
    BY <1>1, TxFields
  <1>3. WithResult(r, result) = [q EXCEPT !.result = result]
    BY DEF WithResult
  <1> HIDE DEF q
  <1> QED
    BY <1>2, <1>3, SMT DEF TxRevision

\* A transaction that names a session revision.
LEMMA BoundFields ==
    ASSUME NEW r \in TxRevision, NEW s \in SessionRevision
    PROVE  /\ [r EXCEPT !.pending = s] \in TxRevision
           /\ [r EXCEPT !.pending = s].state = r.state
           /\ [r EXCEPT !.pending = s].result = r.result
           /\ [r EXCEPT !.terminal = s] \in TxRevision
           /\ [r EXCEPT !.terminal = s].state = r.state
           /\ [r EXCEPT !.terminal = s].result = r.result
  BY SMT DEF TxRevision

LEMMA RevFields ==
    ASSUME NEW s \in SessionRevision, NEW state \in {"active", "waitingApproval", "failed"},
           NEW unknown \in BOOLEAN, NEW intent \in Txs \cup {None},
           NEW by \in {"effect", "client"}
    PROVE  Rev(s, state, unknown, intent, by) \in SessionRevision
  BY SMT DEF Rev, SessionRevision

-----------------------------------------------------------------------------
(* The lock, the write and the removal of the lock *)

\* While a call publishes, its plan does not change.
LEMMA StaysSound ==
    ASSUME NEW r, Sound(r), r.pc \in Publishing, NEW p \in Publishing
    PROVE  LET q == [r EXCEPT !.pc = p]
           IN  /\ Sound(q) /\ q \in CallRecord
               /\ q.t = r.t /\ q.pc = p /\ q.tx = r.tx /\ q.ses = r.ses
               /\ q.id = r.id /\ q.next = r.next /\ q.then = r.then
  <1> DEFINE q == [r EXCEPT !.pc = p]
  <1>1. r \in CallRecord /\ p \in Places
    BY DEF Sound, Places
  <1>2. /\ q \in CallRecord
        /\ q.t = r.t /\ q.pc = p /\ q.tx = r.tx /\ q.ses = r.ses
        /\ q.id = r.id /\ q.next = r.next /\ q.then = r.then /\ q.result = r.result
    BY <1>1, PcFields
  <1> HIDE DEF q
  <1>3. Sound(q)
    BY <1>2, SMT DEF Sound, Publishing, Resuming
  <1> QED
    BY <1>2, <1>3 DEF q

LEMMA LockStep ==
    ASSUME IInv, NEW c \in Calls, Lock(c)
    PROVE  IInv'
  <1> DEFINE id == call[c].id
  <1>1. Sound(call[c]) /\ call[c].pc = "lock" /\ id \in Ids
    BY SMT DEF IInv, Typed, Lock, At, Sound, Publishing
  <1>2. "lock" \in Publishing /\ "write" \in Publishing /\ "break" \in Publishing
    BY SMT DEF Publishing
  <1>3. CASE lock[id] = Free /\ head[id] = Expected(c)
             /\ lock' = [lock EXCEPT ![id] = c]
             /\ call' = [call EXCEPT ![c].pc = "write"]
    <2> DEFINE q == [call[c] EXCEPT !.pc = "write"]
    <2>1. /\ Sound(q) /\ q \in CallRecord
          /\ q.t = call[c].t /\ q.pc = "write" /\ q.tx = call[c].tx
          /\ q.ses = call[c].ses /\ q.id = id
      BY <1>1, <1>2, StaysSound
    <2>2. call' = [call EXCEPT ![c] = q]
      BY <1>3
    <2> HIDE DEF q
    <2>3. call' \in [Calls -> CallRecord] /\ call'[c] = q
          /\ \A d \in Calls \ {c} : call'[d] = call[d]
      BY <2>1, <2>2, SMT DEF IInv, Typed
    <2>4. lock' \in [Ids -> Calls \cup {Free, Dead}] /\ lock'[id] = c
          /\ \A i \in Ids \ {id} : lock'[i] = lock[i]
      BY <1>1, <1>3, SMT DEF IInv, Typed
    <2>5. UNCHANGED <<head, sent, raced>>
      BY DEF Lock
    <2>6. Typed'
      BY <2>1, <2>3, <2>4, <2>5, SMT DEF IInv, Typed
    <2>7. ASSUME ~raced, Exclusive, LeaseOnce
          PROVE  Exclusive' /\ LeaseOnce'
      <3>1. Free \notin Calls
        BY DistinctIds
      <3>2. \A d \in Calls \ {c} : call[d].pc \in {"write", "unlock"}
              => call[d].id \in Ids \ {id}
        BY <1>3, <2>7, <3>1, SMTT(30) DEF Exclusive, IInv, Typed, Sound, Publishing
      <3>3. Expected(c)' = Expected(c)
        BY <2>1, <2>3, SMT DEF Expected
      <3>4. Exclusive'
        BY <1>3, <2>1, <2>3, <2>4, <2>5, <2>7, <3>2, <3>3, SMT DEF Exclusive, Expected
      <3>5. \A d \in Calls, t \in Txs : Leaseholder(d, t)' => Leaseholder(d, t)
        BY <2>1, <2>3, SMT DEF Leaseholder
      <3>6. LeaseOnce'
        BY <2>5, <2>7, <3>5, Zenon DEF LeaseOnce
      <3> QED BY <3>4, <3>6
    <2> QED BY <2>5, <2>6, <2>7, SMT DEF IInv
  <1>4. CASE Return(c) /\ UNCHANGED lock
    BY <1>4, CallEnds DEF Lock
  <1>5. CASE call' = [call EXCEPT ![c].pc = "break"] /\ UNCHANGED lock
    <2> DEFINE q == [call[c] EXCEPT !.pc = "break"]
    <2>1. Sound(q) /\ q.pc = "break"
      BY <1>1, <1>2, StaysSound
    <2>2. call' = [call EXCEPT ![c] = q]
      BY <1>5
    <2>3. UNCHANGED <<head, lock, sent, raced>>
      BY <1>5 DEF Lock
    <2> HIDE DEF q
    <2> QED BY <2>1, <2>2, <2>3, CallMoves
  <1> QED
    BY <1>3, <1>4, <1>5, Zenon DEF Lock

LEMMA BreakStep ==
    ASSUME IInv, NEW c \in Calls, Break(c)
    PROVE  IInv'
  <1> DEFINE id == call[c].id
             q == [call[c] EXCEPT !.pc = "lock"]
  <1>1. Sound(call[c]) /\ call[c].pc = "break" /\ id \in Ids
    BY SMT DEF IInv, Typed, Break, At, Sound, Publishing
  <1>a. "lock" \in Publishing /\ "break" \in Publishing
    BY SMT DEF Publishing
  <1>2. Sound(q) /\ q \in CallRecord /\ q.pc = "lock"
    BY <1>1, <1>a, StaysSound
  <1>3. call' = [call EXCEPT ![c] = q]
    BY DEF Break
  <1> HIDE DEF q
  <1>4. call' \in [Calls -> CallRecord] /\ call'[c] = q
        /\ \A d \in Calls \ {c} : call'[d] = call[d]
    BY <1>2, <1>3, SMT DEF IInv, Typed
  <1>5. lock' \in [Ids -> Calls \cup {Free, Dead}]
        /\ \A i \in Ids \ {id} : lock'[i] = lock[i]
    BY <1>1, SMT DEF IInv, Typed, Break
  <1>6. UNCHANGED <<head, sent>>
    BY DEF Break
  <1>7. raced' \in BOOLEAN /\ (~raced' => ~raced /\ lock[id] \notin Calls)
    BY Zenon DEF IInv, Typed, Break
  <1>8. Typed'
    BY <1>2, <1>4, <1>5, <1>6, <1>7, SMT DEF IInv, Typed
  <1>9. ASSUME ~raced'
        PROVE  Exclusive' /\ LeaseOnce'
    <2>1. Exclusive /\ LeaseOnce /\ lock[id] \notin Calls
      BY <1>7, <1>9, Zenon DEF IInv
    <2>2. \A d \in Calls \ {c} : call[d].pc \in {"write", "unlock"}
            => call[d].id \in Ids \ {id}
      BY <2>1, SMT DEF Exclusive, IInv, Typed, Sound, Publishing
    <2>3. Exclusive'
      BY <1>2, <1>4, <1>5, <1>6, <2>1, <2>2, SMT DEF Exclusive, Expected
    <2>4. \A d \in Calls, t \in Txs : Leaseholder(d, t)' => Leaseholder(d, t)
      BY <1>2, <1>4, SMT DEF Leaseholder
    <2>5. LeaseOnce'
      BY <1>6, <2>1, <2>4, Zenon DEF LeaseOnce
    <2> QED BY <2>3, <2>5
  <1> QED BY <1>8, <1>9, Zenon DEF IInv

LEMMA WriteStep ==
    ASSUME IInv, NEW c \in Calls, Write(c)
    PROVE  IInv' /\ (~raced' => \A t \in Txs : head[t].result # None
                                                  => head'[t].result = head[t].result)
  <1> DEFINE r == call[c]
             q == [call[c] EXCEPT !.pc = "unlock"]
  <1>0. Sound(r) /\ r.pc = "write" /\ Session \notin Txs
    BY DistinctIds DEF IInv, Typed, Write, At
  <1>1. Sound(r) /\ r.pc = "write" /\ r.id \in Ids
        /\ (r.id = Session => r.next \in SessionRevision)
        /\ (r.id \in Txs => WellFormed(r.next) /\ r.t = r.id)
    BY <1>0, SMT DEF Sound, Publishing
  <1>2. "write" \in Publishing /\ "unlock" \in Publishing
    BY SMT DEF Publishing
  <1>3. /\ Sound(q) /\ q \in CallRecord /\ q.pc = "unlock" /\ q.t = r.t /\ q.tx = r.tx
        /\ q.ses = r.ses /\ q.id = r.id /\ q.next = r.next /\ q.then = r.then
    BY <1>1, <1>2, StaysSound
  <1>4. call' = [call EXCEPT ![c] = q]
    BY DEF Write
  <1> HIDE DEF q
  <1>5. call' \in [Calls -> CallRecord] /\ call'[c] = q
        /\ \A d \in Calls \ {c} : call'[d] = call[d]
    BY <1>3, <1>4, SMT DEF IInv, Typed
  <1>6. /\ head' = [i \in Ids |-> head'[i]] /\ head'[r.id] = r.next
        /\ \A i \in Ids \ {r.id} : head'[i] = head[i]
    BY <1>1, SMT DEF IInv, Typed, Write
  <1>7. UNCHANGED <<lock, sent, raced>>
    BY DEF Write
  <1>8. Txs \subseteq Ids /\ Session \in Ids /\ Session \notin Txs
    BY DistinctIds DEF Ids
  <1>9. Typed'
    BY <1>1, <1>3, <1>5, <1>6, <1>7, <1>8, SMT DEF IInv, Typed
  <1>10. ASSUME ~raced, Exclusive, LeaseOnce
         PROVE  /\ Exclusive' /\ LeaseOnce'
                /\ \A t \in Txs : head[t].result # None => head'[t].result = head[t].result
    <2>1. lock[r.id] = c /\ head[r.id] = Expected(c)
      BY <1>1, <1>10, SMT DEF Exclusive
    <2>2. \A d \in Calls \ {c} : call[d].pc \in {"write", "unlock"} => call[d].id # r.id
      BY <1>10, <2>1, SMT DEF Exclusive
    <2>3. \A d \in Calls \ {c} : call[d].pc = "write" => call[d].id \in Ids \ {r.id}
      BY <2>2, SMT DEF IInv, Typed, Sound, Publishing
    <2>4. Exclusive'
      BY <1>3, <1>5, <1>6, <1>7, <1>10, <2>1, <2>3, SMT DEF Exclusive, Expected
    <2>5. \A d \in Calls \ {c}, t \in Txs : Leaseholder(d, t)' <=> Leaseholder(d, t)
      BY <1>5, SMT DEF Leaseholder
    <2>6. CASE r.id = Session
      <3>1. \A t \in Txs : head'[t] = head[t]
        BY <1>6, <1>8, <2>6, SMT
      <3>2. r.then # "act"
        BY <1>1, <2>6, SMT DEF Sound, Publishing
      <3>3. \A t \in Txs : ~Leaseholder(c, t)'
        BY <1>3, <1>5, <3>2, SMT DEF Leaseholder
      <3>4. LeaseOnce'
        BY <1>7, <1>10, <2>5, <3>1, <3>3, SMT DEF LeaseOnce
      <3> QED BY <2>4, <3>1, <3>4
    <2>7. CASE r.id \in Txs
      <3> PICK t0 \in Txs : t0 = r.id
        BY <2>7
      <3>1. head[t0] = r.tx
        BY <1>8, <2>1, <2>7, SMT DEF Expected
      <3>2. /\ r.next.state \in Leasable => r.tx.state \in Leasable
            /\ r.tx.result # None => r.next.result = r.tx.result
            /\ r.then = "act" => r.tx.state \in Leasable /\ r.next.state = "sending"
        BY <1>1, <2>7, SMT DEF Sound, Publishing
      <3>3. \A t \in Txs \ {t0} : head'[t] = head[t] /\ ~Leaseholder(c, t)'
        BY <1>1, <1>3, <1>5, <1>6, <1>8, <2>7, SMT DEF Leaseholder
      <3>4. head'[t0] = r.next
        BY <1>6
      <3>5. "sending" \notin Leasable
        BY SMT DEF Leasable, None
      <3>6. Leaseholder(c, t0)' => r.then = "act"
        BY <1>3, <1>5, SMT DEF Leaseholder
      <3>7. \A t \in Txs \ {t0} :
              /\ sent'[t] <= 1
              /\ head'[t].state \in Leasable => sent'[t] = 0
              /\ \A d \in Calls : Leaseholder(d, t)' =>
                   /\ head'[t].state \notin Leasable
                   /\ sent'[t] = 0
                   /\ \A e \in Calls : Leaseholder(e, t)' => e = d
        <4> SUFFICES ASSUME NEW t \in Txs \ {t0}
                     PROVE  /\ sent'[t] <= 1
                            /\ head'[t].state \in Leasable => sent'[t] = 0
                            /\ \A d \in Calls : Leaseholder(d, t)' =>
                                 /\ head'[t].state \notin Leasable
                                 /\ sent'[t] = 0
                                 /\ \A e \in Calls : Leaseholder(e, t)' => e = d
          OBVIOUS
        <4> QED BY <1>7, <1>10, <2>5, <3>3, SMT DEF LeaseOnce
      <3>8. /\ sent'[t0] <= 1
            /\ head'[t0].state \in Leasable => sent'[t0] = 0
        BY <1>7, <1>10, <2>7, <3>1, <3>2, <3>4, SMT DEF LeaseOnce
      <3>9. ASSUME NEW d \in Calls, Leaseholder(d, t0)'
            PROVE  /\ head'[t0].state \notin Leasable
                   /\ sent'[t0] = 0
                   /\ \A e \in Calls : Leaseholder(e, t0)' => e = d
        <4>1. CASE r.then = "act"
          <5>1. head[t0].state \in Leasable /\ head'[t0].state = "sending"
            BY <3>1, <3>2, <3>4, <4>1
          <5>2. sent[t0] = 0 /\ \A e \in Calls : ~Leaseholder(e, t0)
            BY <1>10, <2>7, <5>1, Zenon DEF LeaseOnce
          <5>3. \A e \in Calls : Leaseholder(e, t0)' => e = c
            BY <2>5, <2>7, <5>2
          <5> QED BY <1>7, <3>5, <3>9, <5>1, <5>2, <5>3
        <4>2. CASE r.then # "act"
          <5>1. \A e \in Calls : Leaseholder(e, t0)' => Leaseholder(e, t0)
            BY <2>5, <2>7, <3>6, <4>2
          <5>2. head[t0].state \notin Leasable /\ sent[t0] = 0
                /\ \A e \in Calls : Leaseholder(e, t0) => e = d
            BY <1>10, <2>7, <3>9, <5>1, Zenon DEF LeaseOnce
          <5>3. head'[t0].state \notin Leasable
            BY <3>1, <3>2, <3>4, <5>2
          <5> QED BY <1>7, <5>1, <5>2, <5>3
        <4> QED BY <4>1, <4>2
      <3>10. LeaseOnce'
        <4> SUFFICES ASSUME NEW t \in Txs
                     PROVE  /\ sent'[t] <= 1
                            /\ head'[t].state \in Leasable => sent'[t] = 0
                            /\ \A d \in Calls : Leaseholder(d, t)' =>
                                 /\ head'[t].state \notin Leasable
                                 /\ sent'[t] = 0
                                 /\ \A e \in Calls : Leaseholder(e, t)' => e = d
          BY DEF LeaseOnce
        <4>1. CASE t = t0
          BY <3>8, <3>9, <4>1
        <4>2. CASE t # t0
          BY <3>7, <4>2
        <4> QED BY <4>1, <4>2
      <3>11. \A t \in Txs : head[t].result # None => head'[t].result = head[t].result
        BY <3>1, <3>2, <3>3, <3>4
      <3> QED BY <2>4, <3>10, <3>11
    <2> QED BY <1>1, <2>6, <2>7 DEF Ids
  <1> QED BY <1>7, <1>9, <1>10, Zenon DEF IInv

\* A call that has published: what it goes on with.
Resumed(r) == [r EXCEPT !.pc = r.then, !.next = NoTx, !.id = None, !.then = Free]

LEMMA ResumedFields ==
    ASSUME NEW r \in CallRecord
    PROVE  /\ Resumed(r) \in CallRecord
           /\ Resumed(r).t = r.t /\ Resumed(r).pc = r.then /\ Resumed(r).tx = r.tx
           /\ Resumed(r).ses = r.ses
  <1> DEFINE q1 == [r EXCEPT !.pc = r.then]
             q2 == [q1 EXCEPT !.next = NoTx]
             q3 == [q2 EXCEPT !.id = None]
             q4 == [q3 EXCEPT !.then = Free]
  <1>0. q4 = Resumed(r)
    BY DEF Resumed
  <1>1. /\ r.then \in Places /\ NoTx \in Revision /\ None \in MaybeId
        /\ Free \in AfterPublishing
    <2>1. r.then \in AfterPublishing
      BY SMT DEF CallRecord
    <2>2. NoTx \in Revision
      BY NoCallSound, SMT DEF NoCall, CallRecord
    <2> QED BY <2>1, <2>2 DEF Places, AfterPublishing, MaybeId
  <1>2. q1 \in CallRecord /\ q1.pc = r.then /\ q1.t = r.t /\ q1.tx = r.tx /\ q1.ses = r.ses
    BY <1>1, SMT DEF CallRecord
  <1> HIDE DEF q1
  <1>3. q2 \in CallRecord /\ q2.pc = r.then /\ q2.t = r.t /\ q2.tx = r.tx /\ q2.ses = r.ses
    BY <1>1, <1>2, SMT DEF CallRecord
  <1> HIDE DEF q2
  <1>4. q3 \in CallRecord /\ q3.pc = r.then /\ q3.t = r.t /\ q3.tx = r.tx /\ q3.ses = r.ses
    BY <1>1, <1>3, SMT DEF CallRecord
  <1> HIDE DEF q3
  <1>5. q4 \in CallRecord /\ q4.pc = r.then /\ q4.t = r.t /\ q4.tx = r.tx /\ q4.ses = r.ses
    BY <1>1, <1>4, SMT DEF CallRecord
  <1> HIDE DEF q4
  <1> QED BY <1>0, <1>5

LEMMA UnlockStep ==
    ASSUME IInv, NEW c \in Calls, Unlock(c)
    PROVE  IInv'
  <1> DEFINE r == call[c]
             q == IF r.then = Free THEN NoCall
                  ELSE IF r.id = Session THEN [Resumed(r) EXCEPT !.ses = r.next]
                  ELSE [Resumed(r) EXCEPT !.tx = r.next]
  <1>0. Sound(r) /\ r \in CallRecord /\ r.pc = "unlock" /\ Session \notin Txs
    BY DistinctIds DEF IInv, Typed, Unlock, At, Sound
  <1>1. r.id \in Ids
    BY <1>0, SMT DEF Sound, Publishing
  <1>2. /\ Resumed(r) \in CallRecord
        /\ Resumed(r).t = r.t /\ Resumed(r).pc = r.then /\ Resumed(r).tx = r.tx
        /\ Resumed(r).ses = r.ses
    BY <1>0, ResumedFields
  <1>3. call' = [call EXCEPT ![c] = q] /\ UNCHANGED <<head, sent, raced>>
        /\ lock' = [lock EXCEPT ![r.id] = Free]
    BY <1>2, Zenon DEF Unlock, Resumed
  <1>4. /\ q \in CallRecord /\ Sound(q) /\ q.pc = r.then
        /\ r.then = "act" => q.t = r.t
    <2>1. CASE r.then = Free
      BY <2>1, NoCallSound, SMT DEF Free
    <2>2. CASE r.then # Free /\ r.id = Session
      <3> DEFINE s == r.next
                 w == [Resumed(r) EXCEPT !.ses = s]
      <3>1. s \in SessionRevision /\ r.then \in {"pend", "bindPending", "bindTerminal"}
            /\ r.t \in Txs /\ WellFormed(r.tx)
            /\ (r.then = "bindTerminal" => r.tx.state = "finalizing")
        BY <1>0, <2>2, SMT DEF Sound, Publishing, CallRecord, AfterPublishing, Resuming
      <3>2. /\ w \in CallRecord /\ w.t = r.t /\ w.pc = r.then /\ w.tx = r.tx
        BY <1>2, <3>1, SesFields
      <3>3. q = w
        BY <2>2
      <3> HIDE DEF q, w
      <3>4. Sound(w)
        BY <3>1, <3>2, SMT DEF Sound, Publishing, Resuming
      <3> QED BY <3>1, <3>2, <3>3, <3>4
    <2>3. CASE r.then # Free /\ r.id # Session
      <3> DEFINE x == r.next
                 w == [Resumed(r) EXCEPT !.tx = x]
      <3>0. r.id \in Txs
        BY <1>1, <2>3 DEF Ids
      <3>1. /\ WellFormed(x) /\ r.t \in Txs
            /\ r.then \in {"pend", "bindPending", "act", "finalize"}
            /\ r.then = "act" => x.state = "sending"
            /\ r.then = "finalize" => x.state = "finalizing"
        BY <1>0, <2>3, <3>0, SMT DEF Sound, Publishing, CallRecord, AfterPublishing, Resuming
      <3>2. /\ w \in CallRecord /\ w.t = r.t /\ w.pc = r.then /\ w.tx = x
        BY <1>2, <3>1, TxFieldOfCall DEF WellFormed
      <3>3. q = w
        BY <2>3
      <3> HIDE DEF q, w
      <3>4. Sound(w)
        BY <3>1, <3>2, SMT DEF Sound, Publishing, Resuming
      <3> QED BY <3>2, <3>3, <3>4
    <2> QED BY <2>1, <2>2, <2>3
  <1>4a. q.pc \notin {"write", "unlock"}
    BY <1>0, <1>4, SMT DEF CallRecord, AfterPublishing, Resuming, Free
  <1> HIDE DEF q
  <1>5. call' \in [Calls -> CallRecord] /\ call'[c] = q
        /\ \A d \in Calls \ {c} : call'[d] = call[d]
    BY <1>3, <1>4, SMT DEF IInv, Typed
  <1>6. lock' \in [Ids -> Calls \cup {Free, Dead}]
        /\ \A i \in Ids \ {r.id} : lock'[i] = lock[i]
    BY <1>1, <1>3, SMT DEF IInv, Typed
  <1>7. Typed'
    BY <1>3, <1>4, <1>5, <1>6, SMT DEF IInv, Typed
  <1>8. ASSUME ~raced, Exclusive, LeaseOnce
        PROVE  Exclusive' /\ LeaseOnce'
    <2>1. \A d \in Calls \ {c} : call[d].pc \in {"write", "unlock"}
            => call[d].id \in Ids \ {r.id}
      BY <1>0, <1>8, SMT DEF Exclusive, IInv, Typed, Sound, Publishing
    <2>2. Exclusive'
      BY <1>3, <1>4a, <1>5, <1>6, <1>8, <2>1, SMT DEF Exclusive, Expected
    <2>3. \A d \in Calls, t \in Txs : Leaseholder(d, t)' => Leaseholder(d, t)
      BY <1>0, <1>4, <1>4a, <1>5, SMT DEF Leaseholder
    <2>4. LeaseOnce'
      BY <1>3, <1>8, <2>3, Zenon DEF LeaseOnce
    <2> QED BY <2>2, <2>4
  <1> QED BY <1>3, <1>7, <1>8, Zenon DEF IInv

-----------------------------------------------------------------------------
(* The send, and the crash *)

LEMMA ActStep ==
    ASSUME IInv, NEW c \in Calls, Act(c)
    PROVE  IInv'
  <1> DEFINE r == call[c]
  <1>0. Sound(r) /\ r \in CallRecord /\ r.pc = "act"
    BY DEF IInv, Typed, Act, At, Sound
  <1>1. PICK t0 \in Txs : t0 = r.t
    BY <1>0, SMT DEF Sound, Resuming
  <1>2. PICK result \in Results :
          /\ \/ sent' = [sent EXCEPT ![r.t] = @ + 1]
             \/ UNCHANGED sent
          /\ call' = [call EXCEPT ![c] = [@ EXCEPT !.pc = "record", !.result = result]]
    BY Zenon DEF Act, Results
  <1>3. UNCHANGED <<head, lock, raced>>
    BY DEF Act
  <1> DEFINE q1 == [r EXCEPT !.pc = "record"]
             q == [q1 EXCEPT !.result = result]
  <1>4. call' = [call EXCEPT ![c] = q]
    BY <1>2
  <1>5. /\ q1 \in CallRecord
        /\ q1.t = r.t /\ q1.pc = "record" /\ q1.tx = r.tx
    BY <1>0, PcFields, SMT DEF Places, Resuming
  <1> HIDE DEF q1
  <1>6. /\ q \in CallRecord
        /\ q.t = r.t /\ q.pc = "record" /\ q.tx = r.tx /\ q.result = result
    BY <1>5, SMT DEF CallRecord, MaybeResult
  <1> HIDE DEF q
  <1>7. Sound(q)
    BY <1>0, <1>1, <1>6, SMT DEF Sound, Publishing, Resuming
  <1>8. call' \in [Calls -> CallRecord] /\ call'[c] = q
        /\ \A d \in Calls \ {c} : call'[d] = call[d]
    BY <1>4, <1>6, SMT DEF IInv, Typed
  <1>9. /\ sent' \in [Txs -> Nat]
        /\ sent'[t0] \in {sent[t0], sent[t0] + 1}
        /\ \A t \in Txs \ {t0} : sent'[t] = sent[t]
    BY <1>1, <1>2, SMT DEF IInv, Typed
  <1>10. Typed'
    <2>1. \A d \in Calls : Sound(call'[d])
      BY <1>7, <1>8 DEF IInv, Typed
    <2> QED
      BY <1>3, <1>8, <1>9, <2>1, Zenon DEF IInv, Typed
  <1>11. ASSUME ~raced, Exclusive, LeaseOnce
         PROVE  Exclusive' /\ LeaseOnce'
    <2>1. Exclusive'
      BY <1>3, <1>6, <1>8, <1>11, SMT DEF Exclusive, Expected
    <2>2. \A t \in Txs : ~Leaseholder(c, t)'
      BY <1>6, <1>8, SMT DEF Leaseholder
    <2>3. \A d \in Calls \ {c}, t \in Txs : Leaseholder(d, t)' <=> Leaseholder(d, t)
      BY <1>8, SMT DEF Leaseholder
    <2>4. /\ head[t0].state \notin Leasable /\ sent[t0] = 0
          /\ \A d \in Calls : Leaseholder(d, t0) => d = c
      BY <1>0, <1>1, <1>11, Zenon DEF Leaseholder, LeaseOnce
    <2>5. \A d \in Calls : ~Leaseholder(d, t0)'
      BY <2>2, <2>3, <2>4
    <2>6. /\ sent'[t0] <= 1
          /\ head'[t0].state \notin Leasable
      BY <1>3, <1>9, <2>4, SMT
    <2>7. ASSUME NEW t \in Txs \ {t0}
          PROVE  /\ sent'[t] = sent[t] /\ head'[t] = head[t]
                 /\ \A d \in Calls : Leaseholder(d, t)' <=> Leaseholder(d, t) /\ d # c
      BY <1>3, <1>9, <2>2, <2>3
    <2>8. LeaseOnce'
      <3> SUFFICES ASSUME NEW t \in Txs
                   PROVE  /\ sent'[t] <= 1
                          /\ head'[t].state \in Leasable => sent'[t] = 0
                          /\ \A d \in Calls : Leaseholder(d, t)' =>
                               /\ head'[t].state \notin Leasable
                               /\ sent'[t] = 0
                               /\ \A e \in Calls : Leaseholder(e, t)' => e = d
        BY DEF LeaseOnce
      <3>1. CASE t = t0
        BY <2>5, <2>6, <3>1
      <3>2. CASE t # t0
        <4>1. /\ sent'[t] = sent[t] /\ head'[t] = head[t]
              /\ \A d \in Calls : Leaseholder(d, t)' => Leaseholder(d, t)
          BY <2>7, <3>2
        <4> QED BY <1>11, <4>1, Zenon DEF LeaseOnce
      <3> QED BY <3>1, <3>2
    <2> QED BY <2>1, <2>8
  <1> QED BY <1>3, <1>10, <1>11, Zenon DEF IInv

LEMMA CrashStep ==
    ASSUME IInv, Crash
    PROVE  IInv'
  <1>1. UNCHANGED <<head, sent, raced>>
    BY DEF Crash
  <1>2. \A c \in Calls : call'[c] = NoCall
    BY DEF Crash
  <1>3. call' \in [Calls -> CallRecord]
    BY NoCallSound DEF Crash
  <1>4. lock' \in [Ids -> Calls \cup {Free, Dead}]
    BY DEF Crash
  <1>5. Typed'
    BY <1>1, <1>2, <1>3, <1>4, NoCallSound, SMT DEF IInv, Typed
  <1>6. \A c \in Calls : call'[c].pc = "free"
    BY <1>2, NoCallSound DEF Free
  <1>7. Exclusive'
    BY <1>6, SMT DEF Exclusive
  <1>8. \A c \in Calls, t \in Txs : ~Leaseholder(c, t)'
    BY <1>6, SMT DEF Leaseholder
  <1>9. LeaseOnce => LeaseOnce'
    BY <1>1, <1>8, Zenon DEF LeaseOnce
  <1> QED BY <1>1, <1>5, <1>7, <1>9, Zenon DEF IInv

-----------------------------------------------------------------------------
(* The calls that publish a transaction *)

LEMMA PrepareStep ==
    ASSUME IInv, NEW c \in Calls, NEW t \in Txs, Prepare(c, t)
    PROVE  IInv'
  <1> DEFINE r == Start(c, t)
             next == Tx(NoTx, "prepared")
             q == Published(r, t, next, "pend")
  <1>1. r \in CallRecord /\ r.t = t /\ r.tx = head[t] /\ head[t] = NoTx
    BY StartSound DEF Prepare
  <1>2. NoTx \in TxRevision /\ WellFormed(NoTx) /\ NoTx.state = None /\ NoTx.result = None
    BY NoCallSound, StartSound, <1>1, SMT DEF NoTx
  <1>3. next \in TxRevision /\ next.state = "prepared" /\ next.result = None
    BY <1>2, TxFields, SMT DEF TxStates
  <1>4. call' = [call EXCEPT ![c] = q] /\ UNCHANGED <<head, lock, sent, raced>>
    BY DEF Prepare, Publish, Published, Only
  <1> HIDE DEF r, next
  <1>5. WellFormed(next) /\ WellFormed(r.tx) /\ r.tx.state \in Leasable /\ r.tx.result = None
    BY <1>1, <1>2, <1>3, SMT DEF WellFormed, Leasable
  <1>6. Sound(q) /\ q.pc = "lock"
    BY <1>1, <1>5, <1>3, TxPlanSound
  <1> QED BY <1>4, <1>6, PublishMoves

LEMMA RehearseStep ==
    ASSUME IInv, NEW c \in Calls, NEW t \in Txs, Rehearse(c, t)
    PROVE  IInv'
  <1> DEFINE r == Start(c, t)
             next == Tx(head[t], "rehearsed")
             q == Published(r, t, next, Free)
  <1>1. r \in CallRecord /\ r.t = t /\ r.tx = head[t] /\ head[t] \in TxRevision
        /\ WellFormed(head[t]) /\ head[t].state \in {"prepared", "rehearsed"}
    BY StartSound DEF Rehearse
  <1>2. "rehearsed" \in TxStates
    BY SMT DEF TxStates
  <1>3. next \in TxRevision /\ next.state = "rehearsed" /\ next.result = head[t].result
    BY <1>1, <1>2, TxFields
  <1>4. call' = [call EXCEPT ![c] = q] /\ UNCHANGED <<head, lock, sent, raced>>
    BY DEF Rehearse, Publish, Published, Only
  <1> HIDE DEF r, next
  <1>5. WellFormed(next) /\ head[t].state \in Leasable
    BY <1>1, <1>3, SMT DEF WellFormed, Leasable
  <1>6. Sound(q) /\ q.pc = "lock"
    BY <1>1, <1>3, <1>5, TxPlanSound, SMT DEF Free
  <1> QED BY <1>4, <1>6, PublishMoves

LEMMA ApproveStep ==
    ASSUME IInv, NEW c \in Calls, NEW t \in Txs, Approve(c, t)
    PROVE  IInv'
  <1> DEFINE r == Start(c, t)
             next == Tx(head[t], "approved")
             q == Published(r, t, next, Free)
  <1>1. r \in CallRecord /\ r.t = t /\ r.tx = head[t] /\ head[t] \in TxRevision
        /\ WellFormed(head[t]) /\ head[t].state = "rehearsed"
    BY StartSound DEF Approve
  <1>2. "approved" \in TxStates
    BY SMT DEF TxStates
  <1>3. next \in TxRevision /\ next.state = "approved" /\ next.result = head[t].result
    BY <1>1, <1>2, TxFields
  <1>4. call' = [call EXCEPT ![c] = q] /\ UNCHANGED <<head, lock, sent, raced>>
    BY DEF Approve, Publish, Published
  <1> HIDE DEF r, next
  <1>5. WellFormed(next) /\ head[t].state \in Leasable
    BY <1>1, <1>3, SMT DEF WellFormed, Leasable
  <1>6. Sound(q) /\ q.pc = "lock"
    BY <1>1, <1>3, <1>5, TxPlanSound, SMT DEF Free
  <1> QED BY <1>4, <1>6, PublishMoves

LEMMA CommitStep ==
    ASSUME IInv, NEW c \in Calls, NEW t \in Txs, Commit(c, t)
    PROVE  IInv'
  <1> DEFINE r == Start(c, t)
             next == Leased(head[t], c)
             q == Published(r, t, next, "act")
  <1>1. r \in CallRecord /\ r.t = t /\ r.tx = head[t] /\ head[t] \in TxRevision
        /\ WellFormed(head[t]) /\ head[t].state = "approved"
    BY StartSound DEF Commit
  <1>2. next \in TxRevision /\ next.state = "sending" /\ next.result = head[t].result
    BY <1>1, LeasedFields
  <1>3. call' = [call EXCEPT ![c] = q] /\ UNCHANGED <<head, lock, sent, raced>>
    BY DEF Commit, Publish, Published, Only
  <1> HIDE DEF r, next
  <1>4. WellFormed(next) /\ head[t].state \in Leasable
    BY <1>1, <1>2, SMT DEF WellFormed, Leasable
  <1>5. Sound(q) /\ q.pc = "lock"
    BY <1>1, <1>2, <1>4, TxPlanSound, SMT
  <1> QED BY <1>3, <1>5, PublishMoves

LEMMA CommitRecoversStep ==
    ASSUME IInv, NEW c \in Calls, NEW t \in Txs, CommitRecovers(c, t)
    PROVE  IInv'
  <1> DEFINE r == Start(c, t)
  <1>1. r \in CallRecord /\ r.t = t /\ r.tx = head[t] /\ head[t] \in TxRevision
        /\ WellFormed(head[t])
    BY StartSound
  <1>2. UNCHANGED <<head, lock, sent, raced>>
    BY DEF CommitRecovers, Only
  <1>3. CASE /\ head[t].state = "sending"
             /\ Publish(c, r, t, WithResult(head[t], "outcomeUnknown"), "finalize")
    <2> DEFINE next == WithResult(head[t], "outcomeUnknown")
               q == Published(r, t, next, "finalize")
    <2>1. "outcomeUnknown" \in Results
      BY SMT DEF Results
    <2>2. next \in TxRevision /\ next.state = "finalizing"
      BY <1>1, <2>1, ResultFields
    <2>3. call' = [call EXCEPT ![c] = q]
      BY <1>3 DEF Publish, Published
    <2> HIDE DEF r, next
    <2>4. WellFormed(next) /\ head[t].result = None /\ next.state \notin Leasable
      BY <1>1, <1>3, <2>2, SMT DEF WellFormed, Leasable, None
    <2>5. Sound(q) /\ q.pc = "lock"
      BY <1>1, <2>2, <2>4, TxPlanSound, SMT
    <2> QED BY <1>2, <2>3, <2>5, PublishMoves
  <1>4. CASE /\ head[t].state = "finalizing"
             /\ call' = [call EXCEPT ![c] = [r EXCEPT !.pc = "finalize"]]
    <2> DEFINE q == [r EXCEPT !.pc = "finalize"]
    <2>1. "finalize" \in Places
      BY SMT DEF Places, Resuming
    <2> HIDE DEF r
    <2>2. q \in CallRecord /\ q.t = t /\ q.pc = "finalize" /\ q.tx = head[t]
      BY <1>1, <2>1, PcFields
    <2>3. call' = [call EXCEPT ![c] = q]
      BY <1>4
    <2> HIDE DEF q
    <2>4. Sound(q) /\ q.pc \notin {"write", "unlock", "act"}
      BY <1>1, <1>4, <2>2, SMT DEF Sound, Publishing, Resuming
    <2> QED BY <1>2, <2>3, <2>4, CallMoves
  <1> QED BY <1>3, <1>4, Zenon DEF CommitRecovers

LEMMA SealStep ==
    ASSUME IInv, NEW c \in Calls, NEW t \in Txs, Seal(c, t)
    PROVE  IInv'
  <1> DEFINE r == Start(c, t)
             next == Tx(head[t], "sealed")
             q == Published(r, t, next, Free)
  <1>1. r \in CallRecord /\ r.t = t /\ r.tx = head[t] /\ head[t] \in TxRevision
        /\ WellFormed(head[t])
    BY StartSound
  <1>2. "sealed" \in TxStates
    BY SMT DEF TxStates
  <1>3. next \in TxRevision /\ next.state = "sealed" /\ next.result = head[t].result
    BY <1>1, <1>2, TxFields
  <1>4. call' = [call EXCEPT ![c] = q] /\ UNCHANGED <<head, lock, sent, raced>>
    BY DEF Seal, Publish, Published, Only
  <1> HIDE DEF r, next
  <1>5. WellFormed(next) /\ next.state \notin Leasable
    BY <1>1, <1>3, SMT DEF WellFormed, Leasable, None
  <1>6. Sound(q) /\ q.pc = "lock"
    BY <1>1, <1>3, <1>5, TxPlanSound, SMT DEF Free
  <1> QED BY <1>4, <1>6, PublishMoves

\* What a call that is between two publications knows.
LEMMA ResumingCall ==
    ASSUME IInv, NEW c \in Calls, call[c].pc \in Resuming
    PROVE  /\ call[c] \in CallRecord /\ call[c].t \in Txs /\ Sound(call[c])
           /\ call[c].tx \in TxRevision /\ WellFormed(call[c].tx)
           /\ call[c].ses \in SessionRevision /\ head[Session] \in SessionRevision
           /\ call[c].tx.state \in TxStates
  <1>1. call[c] \in CallRecord /\ Sound(call[c]) /\ head[Session] \in SessionRevision
    BY DEF IInv, Typed
  <1>2. call[c].t \in Txs /\ WellFormed(call[c].tx)
    BY <1>1 DEF Sound
  <1>3. call[c].ses \in SessionRevision
    BY <1>1, SMT DEF CallRecord
  <1>4. call[c].tx \in TxRevision /\ call[c].tx.state \in TxStates
    BY <1>2, SMT DEF WellFormed, TxRevision
  <1> QED BY <1>1, <1>2, <1>3, <1>4

LEMMA BindPendingStep ==
    ASSUME IInv, NEW c \in Calls, BindPending(c)
    PROVE  IInv'
  <1> DEFINE r == call[c]
             x == Tx(r.tx, r.tx.state)
             next == [x EXCEPT !.pending = r.ses]
             q == Published(r, r.t, next, Free)
  <1>1. r.pc \in Resuming
    BY SMT DEF BindPending, At, Resuming
  <1>2. /\ r \in CallRecord /\ r.t \in Txs /\ r.tx \in TxRevision /\ WellFormed(r.tx)
        /\ r.ses \in SessionRevision /\ r.tx.state \in TxStates
    BY <1>1, ResumingCall
  <1>3. UNCHANGED <<head, lock, sent, raced>>
    BY DEF BindPending, Only
  <1>4. CASE call' = [call EXCEPT ![c] = q]
    <2>1. x \in TxRevision /\ x.state = r.tx.state /\ x.result = r.tx.result
      BY <1>2, TxFields
    <2> HIDE DEF x
    <2>2. next \in TxRevision /\ next.state = r.tx.state /\ next.result = r.tx.result
      BY <1>2, <2>1, BoundFields
    <2> HIDE DEF r, next
    <2>3. WellFormed(next)
      BY <1>2, <2>2 DEF WellFormed
    <2>4. Sound(q) /\ q.pc = "lock"
      BY <1>2, <2>2, <2>3, TxPlanSound, SMT DEF Free
    <2> QED BY <1>3, <1>4, <2>4, PublishMoves
  <1> QED BY <1>3, <1>4, CallEnds DEF BindPending, Publish, Published

LEMMA RecordStep ==
    ASSUME IInv, NEW c \in Calls, Record(c)
    PROVE  IInv'
  <1> DEFINE r == call[c]
             next == WithResult(r.tx, r.result)
             q == Published(r, r.t, next, "finalize")
  <1>1. r.pc = "record" /\ r.pc \in Resuming
    BY SMT DEF Record, At, Resuming
  <1>2. /\ r \in CallRecord /\ r.t \in Txs /\ r.tx \in TxRevision /\ WellFormed(r.tx)
        /\ r.tx.state = "sending" /\ r.result \in Results
    BY <1>1, ResumingCall DEF Sound
  <1>3. UNCHANGED <<head, lock, sent, raced>>
    BY DEF Record, Only
  <1>4. CASE call' = [call EXCEPT ![c] = q]
    <2>1. next \in TxRevision /\ next.state = "finalizing"
      BY <1>2, ResultFields
    <2> HIDE DEF r, next
    <2>2. WellFormed(next) /\ r.tx.result = None /\ next.state \notin Leasable
      BY <1>2, <2>1, SMT DEF WellFormed, Leasable, None
    <2>3. Sound(q) /\ q.pc = "lock"
      BY <1>2, <2>1, <2>2, TxPlanSound, SMT
    <2> QED BY <1>3, <1>4, <2>3, PublishMoves
  <1> QED BY <1>3, <1>4, CallEnds DEF Record, Publish, Published

LEMMA BindTerminalStep ==
    ASSUME IInv, NEW c \in Calls, BindTerminal(c)
    PROVE  IInv'
  <1> DEFINE r == call[c]
             x == Tx(r.tx, "terminal")
             next == [x EXCEPT !.terminal = r.ses]
             q == Published(r, r.t, next, Free)
  <1>1. r.pc = "bindTerminal" /\ r.pc \in Resuming
    BY SMT DEF BindTerminal, At, Resuming
  <1>2. /\ r \in CallRecord /\ r.t \in Txs /\ r.tx \in TxRevision /\ WellFormed(r.tx)
        /\ r.ses \in SessionRevision /\ "terminal" \in TxStates
    BY <1>1, ResumingCall DEF TxStates
  <1>3. UNCHANGED <<head, lock, sent, raced>>
    BY DEF BindTerminal, Only
  <1>4. CASE call' = [call EXCEPT ![c] = q]
    <2>1. x \in TxRevision /\ x.state = "terminal" /\ x.result = r.tx.result
      BY <1>2, TxFields
    <2> HIDE DEF x
    <2>2. next \in TxRevision /\ next.state = "terminal" /\ next.result = r.tx.result
      BY <1>2, <2>1, BoundFields
    <2> HIDE DEF r, next
    <2>3. WellFormed(next) /\ next.state \notin Leasable
      BY <2>2, SMT DEF WellFormed, Leasable, None
    <2>4. Sound(q) /\ q.pc = "lock"
      BY <1>2, <2>2, <2>3, TxPlanSound, SMT DEF Free
    <2> QED BY <1>3, <1>4, <2>4, PublishMoves
  <1> QED BY <1>3, <1>4, CallEnds DEF BindTerminal, Publish, Published

-----------------------------------------------------------------------------
(* The calls that publish a revision of the session *)

LEMMA PreparePendsStep ==
    ASSUME IInv, NEW c \in Calls, PreparePends(c)
    PROVE  IInv'
  <1> DEFINE r == call[c]
             next == Rev(r.ses, "waitingApproval", FALSE, r.t, "effect")
             q == Published(r, Session, next, "bindPending")
  <1>1. r.pc \in Resuming
    BY SMT DEF PreparePends, At, Resuming
  <1>2. r \in CallRecord /\ r.t \in Txs /\ WellFormed(r.tx) /\ r.ses \in SessionRevision
    BY <1>1, ResumingCall
  <1>3. UNCHANGED <<head, lock, sent, raced>>
    BY DEF PreparePends, Only
  <1>4. CASE call' = [call EXCEPT ![c] = q]
    <2> HIDE DEF r
    <2>1. next \in SessionRevision
      BY <1>2, RevFields
    <2> HIDE DEF next
    <2>2. Sound(q) /\ q.pc = "lock"
      BY <1>2, <2>1, SessionPlanSound, SMT
    <2> QED BY <1>3, <1>4, <2>2, PublishMoves
  <1> QED BY <1>3, <1>4, CallEnds DEF PreparePends, Publish, Published

LEMMA FinalizeSessionStep ==
    ASSUME IInv, NEW c \in Calls, FinalizeSession(c)
    PROVE  IInv'
  <1> DEFINE s == head[Session]
             x == call[c].tx
             seen == [call[c] EXCEPT !.ses = s]
             next == Closed(s, x)
             q == Published(seen, Session, next, "bindTerminal")
             w == [seen EXCEPT !.pc = "bindTerminal"]
  <1>1. call[c].pc = "finalize" /\ call[c].pc \in Resuming
    BY SMT DEF FinalizeSession, At, Resuming
  <1>2. /\ call[c] \in CallRecord /\ call[c].t \in Txs /\ WellFormed(x)
        /\ s \in SessionRevision /\ x.state = "finalizing"
    BY <1>1, ResumingCall DEF Sound
  <1>3. UNCHANGED <<head, lock, sent, raced>>
    BY DEF FinalizeSession, Only
  <1>4. seen \in CallRecord /\ seen.t = call[c].t /\ seen.tx = x
    BY <1>2, SesFields
  <1>5. CASE call' = [call EXCEPT ![c] = w]
    <2>1. "bindTerminal" \in Places
      BY SMT DEF Places, Resuming
    <2> HIDE DEF seen
    <2>2. w \in CallRecord /\ w.t = call[c].t /\ w.pc = "bindTerminal" /\ w.tx = x
      BY <1>4, <2>1, PcFields
    <2> HIDE DEF w
    <2>3. Sound(w) /\ w.pc \notin {"write", "unlock", "act"}
      BY <1>2, <2>2, SMT DEF Sound, Publishing, Resuming
    <2> QED BY <1>3, <1>5, <2>3, CallMoves
  <1>6. CASE call' = [call EXCEPT ![c] = q]
    <2>1. next \in SessionRevision
      <3>1. (x.result = "outcomeUnknown") \in BOOLEAN /\ None \in Txs \cup {None}
        OBVIOUS
      <3>2. (IF x.result = "outcomeUnknown" THEN "failed" ELSE "active")
              \in {"active", "waitingApproval", "failed"}
        OBVIOUS
      <3> QED BY <1>2, <3>1, <3>2, RevFields DEF Closed
    <2> HIDE DEF seen, next
    <2>2. Sound(q) /\ q.pc = "lock"
      BY <1>2, <1>4, <2>1, SessionPlanSound, SMT
    <2> QED BY <1>3, <1>6, <2>2, PublishMoves
  <1> QED BY <1>3, <1>5, <1>6, CallEnds DEF FinalizeSession, Publish, Published

LEMMA RememberStep ==
    ASSUME IInv, NEW c \in Calls, Remember(c)
    PROVE  IInv'
  <1> DEFINE s == head[Session]
             r == [NoCall EXCEPT !.ses = s]
  <1>1. s \in SessionRevision
    BY DEF IInv, Typed
  <1>2. r \in CallRecord /\ WellFormed(r.tx)
    BY <1>1, SesFields, NoCallSound DEF Sound
  <1>3. UNCHANGED <<head, lock, sent, raced>>
    BY DEF Remember, Only
  <1>4. \E next \in SessionRevision :
          call' = [call EXCEPT ![c] = Published(r, Session, next, Free)]
    <2>1. PICK work \in {<<"active", FALSE>>, <<"failed", TRUE>>} :
            Publish(c, r, Session, Rev(s, work[1], work[2], None, "client"), Free)
      BY DEF Remember
    <2>2. /\ work[1] \in {"active", "waitingApproval", "failed"} /\ work[2] \in BOOLEAN
          /\ None \in Txs \cup {None}
      <3>1. CASE work = <<"active", FALSE>>
        BY <3>1
      <3>2. CASE work = <<"failed", TRUE>>
        BY <3>2
      <3> QED BY <3>1, <3>2
    <2>3. Rev(s, work[1], work[2], None, "client") \in SessionRevision
      BY <1>1, <2>2, RevFields
    <2> QED BY <2>1, <2>3 DEF Publish, Published
  <1>5. PICK next \in SessionRevision :
          call' = [call EXCEPT ![c] = Published(r, Session, next, Free)]
    BY <1>4
  <1> DEFINE q == Published(r, Session, next, Free)
  <1> HIDE DEF r
  <1>6. Sound(q) /\ q.pc = "lock"
    BY <1>2, SessionPlanSound, SMT DEF Free
  <1> QED BY <1>3, <1>5, <1>6, PublishMoves

-----------------------------------------------------------------------------
(* The results *)

LEMMA InitHolds == Init => IInv
  <1> SUFFICES ASSUME Init PROVE IInv
    OBVIOUS
  <1>1. NoTx \in TxRevision /\ WellFormed(NoTx) /\ NoRev \in SessionRevision
    BY NoCallSound, SMT DEF Sound, NoCall, CallRecord
  <1>2. [NoRev EXCEPT !.n = 1, !.state = "active"] \in SessionRevision
    <2> DEFINE q1 == [NoRev EXCEPT !.n = 1]
               q2 == [q1 EXCEPT !.state = "active"]
    <2>1. q1 \in SessionRevision
      BY <1>1, SMT DEF SessionRevision
    <2> HIDE DEF q1
    <2>2. q2 \in SessionRevision
      BY <2>1, SMT DEF SessionRevision
    <2> QED BY <2>2 DEF q1
  <1>3. \A t \in Txs : t \in Ids /\ t # Session
    BY DistinctIds DEF Ids
  <1>4. (\A t \in Txs : head[t] = NoTx) /\ head[Session] \in SessionRevision
    BY <1>2, <1>3 DEF Init, Ids
  <1>5. \A c \in Calls : call[c] = NoCall
    BY DEF Init
  <1>6. Typed
    <2>1. \A c \in Calls : Sound(call[c]) /\ call[c] \in CallRecord
      BY <1>5, NoCallSound
    <2>2. call \in [Calls -> CallRecord]
      BY NoCallSound DEF Init
    <2>3. sent \in [Txs -> Nat] /\ lock \in [Ids -> Calls \cup {Free, Dead}] /\ raced \in BOOLEAN
      <3>1. lock = [i \in Ids |-> Free] /\ sent = [t \in Txs |-> 0] /\ raced = FALSE
        BY DEF Init
      <3> QED BY <3>1
    <2>4. head = [i \in Ids |-> head[i]]
      BY SMT DEF Init
    <2> QED
      BY <1>1, <1>4, <2>1, <2>2, <2>3, <2>4 DEF Typed
  <1>7. \A c \in Calls : call[c].pc = "free"
    BY <1>5, NoCallSound DEF Free
  <1>8. Exclusive
    BY <1>7, SMT DEF Exclusive
  <1>9. \A c \in Calls, t \in Txs : ~Leaseholder(c, t)
    BY <1>7, SMT DEF Leaseholder
  <1>10. \A t \in Txs : sent[t] = 0
    BY DEF Init
  <1>11. LeaseOnce
    BY <1>9, <1>10, SMT DEF LeaseOnce
  <1> QED BY <1>6, <1>8, <1>11 DEF IInv

\* What a step does: the invariant survives, and a recorded result stays.
Kept == ~raced' => \A t \in Txs : head[t].result # None => head'[t].result = head[t].result

LEMMA StepHolds ==
    ASSUME IInv, Next
    PROVE  IInv' /\ Kept
  <1>1. ASSUME NEW c \in Calls, Step(c)
        PROVE  IInv' /\ Kept
    <2>1. CASE Write(c)
      BY <1>1, <2>1, WriteStep DEF Kept
    <2>2. CASE Lock(c) \/ Break(c) \/ Unlock(c) \/ Act(c)
      <3>1. IInv'
        BY <2>2, LockStep, BreakStep, UnlockStep, ActStep
      <3>2. head' = head
        BY <2>2, Zenon DEF Lock, Break, Unlock, Act
      <3> QED BY <3>1, <3>2 DEF Kept
    <2>3. CASE PreparePends(c) \/ BindPending(c) \/ Record(c) \/ FinalizeSession(c)
               \/ BindTerminal(c) \/ Remember(c)
      <3>1. IInv'
        BY <2>3, PreparePendsStep, BindPendingStep, RecordStep, FinalizeSessionStep,
           BindTerminalStep, RememberStep
      <3>2. head' = head
        BY <2>3, Zenon DEF PreparePends, BindPending, Record, FinalizeSession,
                           BindTerminal, Remember, Only
      <3> QED BY <3>1, <3>2 DEF Kept
    <2>4. ASSUME NEW t \in Txs,
                 Prepare(c, t) \/ Rehearse(c, t) \/ Approve(c, t) \/ Commit(c, t)
                   \/ CommitRecovers(c, t) \/ Seal(c, t)
          PROVE  IInv' /\ Kept
      <3>1. IInv'
        BY <2>4, PrepareStep, RehearseStep, ApproveStep, CommitStep, CommitRecoversStep,
           SealStep
      <3>2. head' = head
        BY <2>4, Zenon DEF Prepare, Rehearse, Approve, Commit, CommitRecovers, Seal, Only
      <3> QED BY <3>1, <3>2 DEF Kept
    <2> QED BY <1>1, <2>1, <2>2, <2>3, <2>4, Zenon DEF Step
  <1>2. CASE Crash
    <2>1. head' = head
      BY <1>2 DEF Crash
    <2> QED BY <1>2, <2>1, CrashStep DEF Kept
  <1> QED BY <1>1, <1>2, Zenon DEF Next

LEMMA StutterHolds ==
    ASSUME IInv, UNCHANGED vars
    PROVE  IInv' /\ Kept
  <1>1. UNCHANGED <<head, lock, sent, call, raced>>
    BY DEF vars
  <1>2. Typed'
    BY <1>1, Zenon DEF IInv, Typed
  <1>3. Exclusive' <=> Exclusive
    BY <1>1, SMT DEF Exclusive, Expected
  <1>4. \A c \in Calls, t \in Txs : Leaseholder(c, t)' <=> Leaseholder(c, t)
    BY <1>1, SMT DEF Leaseholder
  <1>5. LeaseOnce => LeaseOnce'
    BY <1>1, <1>4, Zenon DEF LeaseOnce
  <1> QED BY <1>1, <1>2, <1>3, <1>5, Zenon DEF IInv, Kept

\* The records keep their shape, every call publishes a successor of what it
\* saw, and the lock keeps writers apart while no live lock is broken.
THEOREM Invariant == Spec => []IInv
  <1>1. IInv /\ [Next]_vars => IInv'
    BY StepHolds, StutterHolds
  <1> QED BY InitHolds, <1>1, PTL DEF Spec

\* fileExecutionMemoryStore and effectTransactionCoordinator.commit: the
\* effect is sent at most once, for any number of calls and crashes.
THEOREM AtMostOneSend == Spec => []SentAtMostOnce
  <1>1. IInv => SentAtMostOnce
    BY SMT DEF IInv, LeaseOnce, SentAtMostOnce
  <1> QED BY Invariant, <1>1, PTL

\* The lease is on disk before the send, and no later publication takes the
\* transaction back to a state that could send again.
THEOREM SendIsOnRecord == Spec => []SentIsRecorded
  <1>1. IInv => SentIsRecorded
    <2> SUFFICES ASSUME IInv, ~raced, NEW t \in Txs, sent[t] > 0
                 PROVE  head[t].state \in {"sending", "finalizing", "terminal", "sealed"}
      BY DEF SentIsRecorded
    <2>1. head[t].state \notin Leasable
      <3>1. head[t].state \in Leasable => sent[t] = 0
        BY Zenon DEF IInv, LeaseOnce
      <3> QED BY <3>1, SMT
    <2>2. head[t].state \in TxStates
      BY SMT DEF IInv, Typed, WellFormed, TxRevision
    <2> QED BY <2>1, <2>2, SMT DEF TxStates, Leasable
  <1> QED BY Invariant, <1>1, PTL

\* recordEffectResult: the first recorded result is the one that stays.
THEOREM FirstResultStays == Spec => ResultStays
  <1>1. IInv /\ [Next]_vars => [~raced' => \A t \in Txs : head[t].result # None
                                  => head'[t].result = head[t].result]_vars
    BY StepHolds, StutterHolds DEF Kept
  <1> QED BY Invariant, <1>1, PTL DEF Spec, ResultStays

-----------------------------------------------------------------------------
(* The two records together.  A revision of a transaction or of the session *)
(* is planned from the one the call saw; between the publication of an      *)
(* intent and the revision that binds it one call prepares the transaction, *)
(* and only that call ever asks the session to wait for it.                 *)

ClosedStates == {"terminal", "sealed"}
First == Tx(NoTx, "prepared")

\* Nothing is approved before the session revision that waits for it is bound.
BoundFirst(r) == r.state \in {None, "prepared", "rehearsed"} \/ r.pending # NoRev

Fits(r) ==
    /\ BoundFirst(r)
    /\ r.state \in ClosedStates => AlreadyFinalized(r.terminal, r)

Waits(s) == s.intent # None => s.state = "waitingApproval"

\* What may be published over which revision of a transaction.
Prepares(old, next, then) == old = NoTx /\ next = First /\ then = "pend"
Rehearses(old, next, then) ==
    /\ old.state \in {"prepared", "rehearsed"} /\ next.state = "rehearsed"
    /\ next.pending = old.pending /\ then = Free
Binds(old, next, then) ==
    old = First /\ next.state = "prepared" /\ next.pending # NoRev /\ then = Free
GoesOn(old, next, then) ==
    /\ old.pending # NoRev /\ next.pending = old.pending
    /\ next.state \in {"approved", "sending", "finalizing", "terminal", "sealed"}
    /\ next.state = "terminal" => old.state = "finalizing"
    /\ next.state = "sealed" => old.state = "terminal"
    /\ then \notin {"pend", "bindPending"}

TxPlan(old, next, then) ==
    \/ Prepares(old, next, then) \/ Rehearses(old, next, then)
    \/ Binds(old, next, then) \/ GoesOn(old, next, then)

SessionPlan(r) ==
    /\ r.next # NoRev /\ Waits(r.next) /\ r.then # "pend"
    /\ r.next.intent # None => r.next.intent = r.t /\ r.then = "bindPending"
    /\ r.then = "bindTerminal" => AlreadyFinalized(r.next, r.tx)

Plan(r) ==
    /\ BoundFirst(r.tx)
    /\ \/ r.pc \in {"pend", "bindPending"}
       \/ r.pc \in Publishing /\ r.then = "bindPending"
       => r.tx = First
    /\ r.pc = "bindPending" => r.ses # NoRev
    /\ r.pc = "bindTerminal" => AlreadyFinalized(r.ses, r.tx)
    /\ r.pc \in Publishing /\ r.id = Session => SessionPlan(r)
    /\ r.pc \in Publishing /\ r.id \in Txs =>
          Fits(r.next) /\ TxPlan(r.tx, r.next, r.then)

Planned ==
    /\ \A t \in Txs : Fits(head[t])
    /\ Waits(head[Session])
    /\ \A c \in Calls : Plan(call[c])

\* The call has published the intent and not yet the session's revision.
Asking(r, t) ==
    /\ r.t = t
    /\ \/ r.pc = "pend"
       \/ r.pc \in {"lock", "break", "write"} /\ r.id = Session /\ r.then = "bindPending"
       \/ r.pc = "unlock" /\ r.id = t /\ r.then = "pend"

\* The same until the transaction names the session's revision.
Preparing(r, t) ==
    \/ Asking(r, t)
    \/ /\ r.t = t
       /\ \/ r.pc = "bindPending"
          \/ r.pc = "unlock" /\ r.then = "bindPending"
          \/ /\ r.pc \in {"lock", "break", "write"} /\ r.id = t
             /\ r.tx.pending = NoRev /\ r.next.pending # NoRev

\* The call has seen the session finalized and closes the transaction.
Closing(r, t) ==
    /\ r.t = t
    /\ \/ r.pc = "bindTerminal"
       \/ r.pc = "unlock" /\ r.then = "bindTerminal"
       \/ r.pc \in Publishing /\ r.id = t /\ r.next.state = "terminal"

\* The call knows that the transaction is past its lease.
SeenLeased(r, t) ==
    /\ r.t = t
    /\ \/ r.tx.state \notin Leasable
       \/ r.pc = "unlock" /\ r.id = t /\ r.next.state \notin Leasable

OnePreparer(t) ==
    \A c \in Calls : Preparing(call[c], t) =>
        /\ head[t].state \in {"prepared", "rehearsed"} /\ head[t].pending = NoRev
        /\ \A d \in Calls : Preparing(call[d], t) => d = c

NotAwaited(t) ==
    /\ \A c \in Calls : Asking(call[c], t) \/ Closing(call[c], t)
                          => head[Session].intent # t
    /\ head[t].state \in ClosedStates \cup {None} => head[Session].intent # t

LeaseSeen(t) ==
    \A c \in Calls : SeenLeased(call[c], t) => head[t].state \notin Leasable

InStep == \A t \in Txs : OnePreparer(t) /\ NotAwaited(t) /\ LeaseSeen(t)

RInv == IInv /\ Planned /\ (~raced => InStep)

LEMMA Distinct ==
    /\ Session \notin Txs /\ None \notin Txs /\ Session # None
    /\ NoTx.state = None /\ NoTx.pending = NoRev /\ NoRev.intent = None
    /\ First.state = "prepared" /\ First.pending = NoRev
  <1>1. NoTx \in TxRevision
    BY NoCallSound, SMT DEF NoCall, CallRecord
  <1>2. NoTx.state = None /\ NoTx.pending = NoRev /\ NoRev.intent = None
    BY DEF NoTx, NoRev
  <1> DEFINE q == [NoTx EXCEPT !.n = @ + 1]
  <1>3. q \in TxRevision /\ q.pending = NoTx.pending
    BY <1>1, SMT DEF TxRevision
  <1>4. First = [q EXCEPT !.state = "prepared"]
    BY DEF First, Tx
  <1> HIDE DEF q
  <1>5. First.state = "prepared" /\ First.pending = NoRev
    BY <1>2, <1>3, <1>4, SMT DEF TxRevision
  <1> QED BY <1>2, <1>5, DistinctIds DEF None, Session

\* What a revision keeps of the one before it.
LEMMA TxKeeps ==
    ASSUME NEW r \in TxRevision, NEW state \in TxStates
    PROVE  Tx(r, state).pending = r.pending /\ Tx(r, state).terminal = r.terminal
  <1> DEFINE q == [r EXCEPT !.n = @ + 1]
  <1>1. q \in TxRevision /\ q.pending = r.pending /\ q.terminal = r.terminal
    BY SMT DEF TxRevision
  <1>2. Tx(r, state) = [q EXCEPT !.state = state]
    BY DEF Tx
  <1> HIDE DEF q
  <1> QED BY <1>1, <1>2, SMT DEF TxRevision

LEMMA LeasedKeeps ==
    ASSUME NEW r \in TxRevision, NEW c \in Calls
    PROVE  Leased(r, c).pending = r.pending
  <1> DEFINE q == Tx(r, "sending")
  <1>1. "sending" \in TxStates
    BY SMT DEF TxStates
  <1>2. q \in TxRevision /\ q.pending = r.pending
    BY <1>1, TxFields, TxKeeps
  <1>3. Leased(r, c) = [q EXCEPT !.lease = c]
    BY DEF Leased
  <1> HIDE DEF q
  <1> QED BY <1>2, <1>3, SMT DEF TxRevision

LEMMA ResultKeeps ==
    ASSUME NEW r \in TxRevision, NEW result \in Results
    PROVE  WithResult(r, result).pending = r.pending
  <1> DEFINE q == Tx(r, "finalizing")
  <1>1. "finalizing" \in TxStates
    BY SMT DEF TxStates
  <1>2. q \in TxRevision /\ q.pending = r.pending
    BY <1>1, TxFields, TxKeeps
  <1>3. WithResult(r, result) = [q EXCEPT !.result = result]
    BY DEF WithResult
  <1> HIDE DEF q
  <1> QED BY <1>2, <1>3, SMT DEF TxRevision

LEMMA BindingFields ==
    ASSUME NEW r \in TxRevision, NEW s \in SessionRevision
    PROVE  /\ [r EXCEPT !.pending = s].pending = s
           /\ [r EXCEPT !.terminal = s].pending = r.pending
           /\ [r EXCEPT !.terminal = s].terminal = s
  BY SMT DEF TxRevision

\* A published session revision is not the empty one.
LEMMA RevOf ==
    ASSUME NEW s \in SessionRevision, NEW state, NEW unknown, NEW intent, NEW by
    PROVE  /\ Rev(s, state, unknown, intent, by) # NoRev
           /\ Rev(s, state, unknown, intent, by).intent = intent
           /\ Rev(s, state, unknown, intent, by).state = state
           /\ Rev(s, state, unknown, intent, by).unknown = unknown
           /\ Rev(s, state, unknown, intent, by).parent = s.n
  <1>1. Rev(s, state, unknown, intent, by).n = s.n + 1 /\ NoRev.n = 0
    BY DEF Rev, NoRev
  <1>2. s.n \in Nat
    BY SMT DEF SessionRevision
  <1>3. Rev(s, state, unknown, intent, by) # NoRev
    BY <1>1, <1>2, SMT
  <1> QED BY <1>3 DEF Rev

-----------------------------------------------------------------------------
(* A call that moves on without publishing *)

\* What call c holds in its place r follows from what it held.
Follows(c, r) ==
    \A t \in Txs :
        /\ Asking(r, t) => Asking(call[c], t)
        /\ Preparing(r, t) => Preparing(call[c], t)
        /\ Closing(r, t) => Closing(call[c], t) \/ head[Session].intent # t
        /\ SeenLeased(r, t) => SeenLeased(call[c], t) \/ head[t].state \notin Leasable

LEMMA MovesOn ==
    ASSUME RInv, IInv', NEW c \in Calls, NEW q,
           call' = [call EXCEPT ![c] = q], UNCHANGED head,
           ~raced' => ~raced, Plan(q), Follows(c, q)
    PROVE  RInv'
  <1>1. call'[c] = q /\ \A d \in Calls \ {c} : call'[d] = call[d]
    BY SMT DEF RInv, IInv, Typed
  <1>2. Planned'
    <2>1. \A d \in Calls : Plan(call'[d])
      BY <1>1 DEF RInv, Planned
    <2> QED BY <2>1 DEF RInv, Planned
  <1>3. ASSUME ~raced', NEW t \in Txs
        PROVE  (OnePreparer(t) /\ NotAwaited(t) /\ LeaseSeen(t))'
    <2>1. OnePreparer(t) /\ NotAwaited(t) /\ LeaseSeen(t)
      BY <1>3 DEF RInv, InStep
    <2>2. \A d \in Calls : Preparing(call'[d], t) => Preparing(call[d], t)
      BY <1>1 DEF Follows
    <2>3. \A d \in Calls : Asking(call'[d], t) \/ Closing(call'[d], t)
            => head[Session].intent # t
      BY <1>1, <2>1 DEF Follows, NotAwaited
    <2>4. \A d \in Calls : SeenLeased(call'[d], t) => head[t].state \notin Leasable
      BY <1>1, <2>1 DEF Follows, LeaseSeen
    <2>5. OnePreparer(t)'
      <3> SUFFICES ASSUME NEW d \in Calls, Preparing(call'[d], t)
                   PROVE  /\ head[t].state \in {"prepared", "rehearsed"}
                          /\ head[t].pending = NoRev
                          /\ \A e \in Calls : Preparing(call'[e], t) => e = d
        BY Zenon DEF OnePreparer
      <3> QED BY <2>1, <2>2 DEF OnePreparer
    <2>6. NotAwaited(t)'
      BY <2>1, <2>3, Zenon DEF NotAwaited
    <2>7. LeaseSeen(t)'
      BY <2>4, Zenon DEF LeaseSeen
    <2> QED BY <2>5, <2>6, <2>7
  <1> QED BY <1>2, <1>3, Zenon DEF RInv, InStep

LEMMA ReturnMoves ==
    ASSUME RInv, IInv', NEW c \in Calls, Return(c), UNCHANGED head, ~raced' => ~raced
    PROVE  RInv'
  <1>1. NoCall.t = None /\ NoCall.pc = "free" /\ NoCall.tx = NoTx
    BY DEF NoCall, Free
  <1>2. Plan(NoCall)
    BY <1>1, Distinct, SMT DEF Plan, BoundFirst, Publishing
  <1>3. Follows(c, NoCall)
    BY <1>1, Distinct, SMT DEF Follows, Asking, Preparing, Closing, SeenLeased
  <1> QED BY <1>2, <1>3, MovesOn DEF Return

\* A call that publishes a revision of transaction t over r.tx.
LEMMA TxPlanMoves ==
    ASSUME RInv, IInv', NEW c \in Calls, NEW t \in Txs, NEW r \in CallRecord,
           r.t = t, NEW next \in TxRevision, NEW then \in {Free, "pend", "act", "finalize"},
           r.tx = head[t] \/ (call[c].t = t /\ r.tx = call[c].tx),
           Fits(next), BoundFirst(r.tx), TxPlan(r.tx, next, then),
           next.state = "prepared" /\ next.pending # NoRev => Preparing(call[c], t),
           next.state = "terminal" => Closing(call[c], t),
           call' = [call EXCEPT ![c] = Published(r, t, next, then)],
           UNCHANGED head, raced' = raced
    PROVE  RInv'
  <1> DEFINE q == Published(r, t, next, then)
  <1>1. t # Session /\ t \in Ids /\ next \in Revision /\ then \in AfterPublishing
    BY DistinctIds, SMT DEF Ids, Revision, AfterPublishing, Resuming
  <1>2. /\ q \in CallRecord /\ q.t = t /\ q.pc = "lock" /\ q.tx = r.tx /\ q.ses = r.ses
        /\ q.id = t /\ q.next = next /\ q.then = then
    BY <1>1, PublishFields
  <1>3. call' = [call EXCEPT ![c] = q]
    OBVIOUS
  <1> HIDE DEF q
  <1>4. Plan(q)
    <2>1. q.then # "bindPending"
      BY <1>2, SMT DEF Free
    <2> QED BY <1>1, <1>2, <2>1 DEF Plan
  <1>5. r.tx.pending = NoRev /\ next.pending # NoRev => next.state = "prepared"
    BY Distinct DEF TxPlan, Prepares, Rehearses, Binds, GoesOn
  <1>6. ASSUME NEW u \in Txs
        PROVE  /\ ~Asking(q, u)
               /\ Preparing(q, u) => Preparing(call[c], u)
               /\ Closing(q, u) => Closing(call[c], u)
               /\ SeenLeased(q, u) =>
                     SeenLeased(call[c], u) \/ head[u].state \notin Leasable
    <2>1. ~Asking(q, u)
      BY <1>1, <1>2 DEF Asking
    <2>2. Preparing(q, u) => Preparing(call[c], u)
      BY <1>1, <1>2, <1>5, <2>1 DEF Preparing
    <2>3. Closing(q, u) => Closing(call[c], u)
      BY <1>1, <1>2 DEF Closing
    <2>4. SeenLeased(q, u) => SeenLeased(call[c], u) \/ head[u].state \notin Leasable
      BY <1>1, <1>2 DEF SeenLeased
    <2> QED BY <2>1, <2>2, <2>3, <2>4
  <1>7. Follows(c, q)
    BY <1>6 DEF Follows
  <1> QED BY <1>3, <1>4, <1>7, MovesOn

\* A call that publishes a revision of the session.
LEMMA SessionPlanMoves ==
    ASSUME RInv, IInv', NEW c \in Calls, NEW r \in CallRecord,
           NEW next \in SessionRevision,
           NEW then \in {Free, "bindPending", "bindTerminal"},
           \/ r.t = call[c].t /\ r.tx = call[c].tx
           \/ r.t = None,
           BoundFirst(r.tx), next # NoRev, Waits(next),
           next.intent # None => next.intent = r.t /\ then = "bindPending",
           then = "bindTerminal" => AlreadyFinalized(next, r.tx),
           then = "bindPending" => r.tx = First /\ call[c].pc = "pend" /\ r.t = call[c].t,
           call' = [call EXCEPT ![c] = Published(r, Session, next, then)],
           UNCHANGED head, raced' = raced
    PROVE  RInv'
  <1> DEFINE q == Published(r, Session, next, then)
  <1>1. Session \notin Txs /\ Session \in Ids /\ next \in Revision /\ then \in AfterPublishing
        /\ None \notin Txs
    BY Distinct, SMT DEF Ids, Revision, AfterPublishing, Resuming
  <1>2. /\ q \in CallRecord /\ q.t = r.t /\ q.pc = "lock" /\ q.tx = r.tx /\ q.ses = r.ses
        /\ q.id = Session /\ q.next = next /\ q.then = then
    BY <1>1, PublishFields
  <1>3. call' = [call EXCEPT ![c] = q]
    OBVIOUS
  <1> HIDE DEF q
  <1>4. Plan(q)
    BY <1>1, <1>2 DEF Plan, SessionPlan, Free
  <1>5. ASSUME NEW u \in Txs
        PROVE  /\ Asking(q, u) => Asking(call[c], u)
               /\ Preparing(q, u) => Preparing(call[c], u)
               /\ ~Closing(q, u)
               /\ SeenLeased(q, u) => SeenLeased(call[c], u)
    <2>1. Asking(q, u) => Asking(call[c], u)
      BY <1>1, <1>2 DEF Asking
    <2>2. Preparing(q, u) => Preparing(call[c], u)
      BY <1>1, <1>2, <2>1 DEF Preparing
    <2>3. ~Closing(q, u)
      BY <1>1, <1>2 DEF Closing
    <2>4. SeenLeased(q, u) => SeenLeased(call[c], u)
      BY <1>1, <1>2 DEF SeenLeased
    <2> QED BY <2>1, <2>2, <2>3, <2>4
  <1>6. Follows(c, q)
    BY <1>5 DEF Follows
  <1> QED BY <1>3, <1>4, <1>6, MovesOn

-----------------------------------------------------------------------------
(* Every step keeps the two records together *)

LEMMA PlanOf ==
    ASSUME RInv, NEW c \in Calls
    PROVE  /\ Plan(call[c]) /\ Sound(call[c]) /\ call[c] \in CallRecord
           /\ BoundFirst(call[c].tx)
  BY DEF RInv, IInv, Typed, Planned, Plan

LEMMA StartOf ==
    ASSUME RInv, NEW c \in Calls, NEW t \in Txs
    PROVE  /\ Start(c, t) \in CallRecord /\ Start(c, t).t = t
           /\ Start(c, t).tx = head[t] /\ Start(c, t).ses = head[Session]
           /\ head[t] \in TxRevision /\ Fits(head[t]) /\ BoundFirst(head[t])
           /\ head[Session] \in SessionRevision
  BY StartSound DEF RInv, Planned, Fits

LEMMA LockMoves ==
    ASSUME RInv, IInv', NEW c \in Calls, Lock(c) \/ Break(c)
    PROVE  RInv'
  <1> DEFINE r == call[c]
  <1>1. Plan(r) /\ Sound(r) /\ r.pc \in {"lock", "break"}
    BY PlanOf DEF Lock, Break, At
  <1>2. UNCHANGED head /\ (~raced' => ~raced)
    <2>1. CASE Lock(c)
      BY <2>1 DEF Lock
    <2>2. CASE Break(c)
      <3>1. raced' = (raced \/ lock[call[c].id] \in Calls) /\ UNCHANGED head
        BY <2>2 DEF Break
      <3> QED BY <3>1, Zenon
    <2> QED BY <2>1, <2>2
  <1>3. ASSUME NEW p \in {"lock", "break", "write"},
               call' = [call EXCEPT ![c].pc = p]
        PROVE  RInv'
    <2> DEFINE q == [r EXCEPT !.pc = p]
    <2>1. p \in Publishing /\ r.pc \in Publishing
      BY <1>1, SMT DEF Publishing
    <2>2. /\ q.t = r.t /\ q.pc = p /\ q.tx = r.tx
          /\ q.ses = r.ses /\ q.id = r.id /\ q.next = r.next /\ q.then = r.then
      BY <1>1, <2>1, StaysSound
    <2>3. call' = [call EXCEPT ![c] = q]
      BY <1>3
    <2> HIDE DEF q
    <2>4. Plan(q)
      BY <1>1, <2>1, <2>2, SMT DEF Plan, SessionPlan
    <2>5. ASSUME NEW t \in Txs
          PROVE  /\ Asking(q, t) => Asking(r, t)
                 /\ Preparing(q, t) => Preparing(r, t)
                 /\ Closing(q, t) => Closing(r, t)
                 /\ SeenLeased(q, t) => SeenLeased(r, t)
      <3>1. Asking(q, t) => Asking(r, t)
        BY <1>1, <2>2, SMT DEF Asking
      <3>2. Preparing(q, t) => Preparing(r, t)
        BY <1>1, <2>2, <3>1, SMT DEF Preparing
      <3>3. Closing(q, t) => Closing(r, t)
        BY <1>1, <2>1, <2>2, SMT DEF Closing
      <3>4. SeenLeased(q, t) => SeenLeased(r, t)
        BY <1>1, <2>2, SMT DEF SeenLeased
      <3> QED BY <3>1, <3>2, <3>3, <3>4
    <2>6. Follows(c, q)
      BY <2>5 DEF Follows
    <2> QED BY <1>2, <2>3, <2>4, <2>6, MovesOn
  <1>4. \/ Return(c)
        \/ \E p \in {"lock", "break", "write"} : call' = [call EXCEPT ![c].pc = p]
    BY Zenon DEF Lock, Break
  <1> QED BY <1>2, <1>3, <1>4, ReturnMoves

LEMMA UnlockMoves ==
    ASSUME RInv, IInv', NEW c \in Calls, Unlock(c)
    PROVE  RInv'
  <1> DEFINE r == call[c]
             q == IF r.then = Free THEN NoCall
                  ELSE IF r.id = Session THEN [Resumed(r) EXCEPT !.ses = r.next]
                  ELSE [Resumed(r) EXCEPT !.tx = r.next]
  <1>1. Plan(r) /\ Sound(r) /\ r \in CallRecord /\ r.pc = "unlock"
    BY PlanOf DEF Unlock, At
  <1>2. /\ Resumed(r) \in CallRecord
        /\ Resumed(r).t = r.t /\ Resumed(r).pc = r.then /\ Resumed(r).tx = r.tx
        /\ Resumed(r).ses = r.ses
    BY <1>1, ResumedFields
  <1>3. call' = [call EXCEPT ![c] = q] /\ UNCHANGED <<head, raced>>
    BY <1>2, Zenon DEF Unlock, Resumed
  <1>4. CASE r.then = Free
    <2>1. Return(c)
      BY <1>3, <1>4 DEF Return
    <2> QED BY <1>3, <2>1, ReturnMoves
  <1>5. CASE r.then # Free /\ r.id = Session
    <2> DEFINE s == r.next
               w == [Resumed(r) EXCEPT !.ses = s]
    <2>1. s \in SessionRevision /\ r.then \in {"bindPending", "bindTerminal"}
          /\ SessionPlan(r) /\ Session \notin Txs
      <3>1. s \in SessionRevision /\ r.then \in {"pend", "bindPending", "bindTerminal"}
            /\ SessionPlan(r)
        BY <1>1, <1>5, SMT DEF Sound, Plan, Publishing, CallRecord, AfterPublishing, Resuming
      <3> QED BY <3>1, Distinct DEF SessionPlan
    <2>2. /\ w.t = r.t /\ w.pc = r.then /\ w.tx = r.tx /\ w.ses = s
      BY <1>2, <2>1, SesFields
    <2>3. call' = [call EXCEPT ![c] = w]
      BY <1>3, <1>5
    <2> HIDE DEF w
    <2>4. Plan(w)
      BY <1>1, <2>1, <2>2, SMT DEF Plan, SessionPlan, Publishing
    <2>5. ASSUME NEW t \in Txs
          PROVE  /\ Asking(w, t) => Asking(r, t)
                 /\ Preparing(w, t) => Preparing(r, t)
                 /\ Closing(w, t) => Closing(r, t)
                 /\ SeenLeased(w, t) => SeenLeased(r, t)
      <3>1. ~Asking(w, t)
        BY <2>1, <2>2, SMT DEF Asking
      <3>2. Preparing(w, t) => Preparing(r, t)
        BY <1>1, <2>1, <2>2, <3>1, SMT DEF Preparing
      <3>3. Closing(w, t) => Closing(r, t)
        BY <1>1, <2>1, <2>2, SMT DEF Closing, Publishing
      <3>4. SeenLeased(w, t) => SeenLeased(r, t)
        BY <2>1, <2>2, SMT DEF SeenLeased
      <3> QED BY <3>1, <3>2, <3>3, <3>4
    <2>6. Follows(c, w)
      BY <2>5 DEF Follows
    <2> QED BY <1>3, <2>3, <2>4, <2>6, MovesOn
  <1>6. CASE r.then # Free /\ r.id # Session
    <2> DEFINE x == r.next
               w == [Resumed(r) EXCEPT !.tx = x]
    <2>1. /\ x \in TxRevision /\ r.id \in Txs /\ r.t = r.id
          /\ r.then \in {"pend", "act", "finalize"} /\ Fits(x)
          /\ TxPlan(r.tx, x, r.then)
      <3>1. r.id \in Txs /\ r.t = r.id /\ Session \notin Txs
        BY <1>1, <1>6, Distinct, SMT DEF Sound, Publishing, Ids
      <3>2. WellFormed(x) /\ r.then \in {"pend", "bindPending", "act", "finalize"}
            /\ Fits(x) /\ TxPlan(r.tx, x, r.then)
        BY <1>1, <1>6, <3>1, SMT
        DEF Sound, Plan, Publishing, CallRecord, AfterPublishing, Resuming
      <3>3. r.then # "bindPending"
        BY <3>2, SMT DEF TxPlan, Prepares, Rehearses, Binds, GoesOn, Free
      <3> QED BY <3>1, <3>2, <3>3 DEF WellFormed
    <2>2. /\ w.t = r.t /\ w.pc = r.then /\ w.tx = x
      BY <1>2, <2>1, TxFieldOfCall
    <2>3. call' = [call EXCEPT ![c] = w]
      BY <1>3, <1>6
    <2> HIDE DEF w
    <2>4. r.then = "pend" => x = First
      BY <2>1, SMT DEF TxPlan, Prepares, Rehearses, Binds, GoesOn, Free
    <2>5. Plan(w)
      BY <2>1, <2>2, <2>4, SMT DEF Plan, Fits, Publishing
    <2>6. ASSUME NEW t \in Txs
          PROVE  /\ Asking(w, t) => Asking(r, t)
                 /\ Preparing(w, t) => Preparing(r, t)
                 /\ ~Closing(w, t)
                 /\ SeenLeased(w, t) => SeenLeased(r, t)
      <3>1. Asking(w, t) => Asking(r, t)
        BY <1>1, <2>1, <2>2, SMT DEF Asking
      <3>2. Preparing(w, t) => Preparing(r, t)
        BY <1>1, <2>1, <2>2, <3>1, SMT DEF Preparing
      <3>3. ~Closing(w, t)
        BY <2>1, <2>2, SMT DEF Closing, Publishing
      <3>4. SeenLeased(w, t) => SeenLeased(r, t)
        BY <1>1, <2>1, <2>2, SMT DEF SeenLeased
      <3> QED BY <3>1, <3>2, <3>3, <3>4
    <2>7. Follows(c, w)
      BY <2>6 DEF Follows
    <2> QED BY <1>3, <2>3, <2>5, <2>7, MovesOn
  <1> QED BY <1>4, <1>5, <1>6

LEMMA PrepareMoves ==
    ASSUME RInv, IInv', NEW c \in Calls, NEW t \in Txs, Prepare(c, t)
    PROVE  RInv'
  <1> DEFINE r == Start(c, t)
             next == Tx(NoTx, "prepared")
  <1>1. /\ r \in CallRecord /\ r.t = t /\ r.tx = head[t] /\ head[t] = NoTx
        /\ NoTx \in TxRevision /\ BoundFirst(r.tx)
    BY StartOf DEF Prepare
  <1>2. next \in TxRevision /\ next.state = "prepared" /\ next.pending = NoRev
        /\ next = First
    BY <1>1, TxFields, Distinct, SMT DEF TxStates, First
  <1>3. Fits(next)
    BY <1>2, SMT DEF Fits, BoundFirst, ClosedStates
  <1>4. TxPlan(r.tx, next, "pend")
    BY <1>1, <1>2 DEF TxPlan, Prepares
  <1>5. call' = [call EXCEPT ![c] = Published(r, t, next, "pend")]
        /\ UNCHANGED <<head, raced>>
    BY DEF Prepare, Publish, Published, Only
  <1> HIDE DEF r, next
  <1> QED BY <1>1, <1>2, <1>3, <1>4, <1>5, TxPlanMoves

LEMMA RehearseMoves ==
    ASSUME RInv, IInv', NEW c \in Calls, NEW t \in Txs, Rehearse(c, t)
    PROVE  RInv'
  <1> DEFINE r == Start(c, t)
             next == Tx(head[t], "rehearsed")
  <1>1. /\ r \in CallRecord /\ r.t = t /\ r.tx = head[t] /\ head[t] \in TxRevision
        /\ BoundFirst(r.tx) /\ head[t].state \in {"prepared", "rehearsed"}
    BY StartOf DEF Rehearse
  <1>a. "rehearsed" \in TxStates
    BY SMT DEF TxStates
  <1>2. next \in TxRevision /\ next.state = "rehearsed"
        /\ next.pending = head[t].pending
    BY <1>1, <1>a, TxFields, TxKeeps
  <1>3. Fits(next)
    BY <1>2, SMT DEF Fits, BoundFirst, ClosedStates
  <1>4. TxPlan(r.tx, next, Free)
    BY <1>1, <1>2 DEF TxPlan, Rehearses
  <1>5. call' = [call EXCEPT ![c] = Published(r, t, next, Free)]
        /\ UNCHANGED <<head, raced>>
    BY DEF Rehearse, Publish, Published, Only
  <1> HIDE DEF r, next
  <1> QED BY <1>1, <1>2, <1>3, <1>4, <1>5, TxPlanMoves

\* A transaction whose pending revision is bound goes on.
LEMMA GoesOnMoves ==
    ASSUME RInv, IInv', NEW c \in Calls, NEW t \in Txs, NEW r \in CallRecord,
           r.t = t, NEW next \in TxRevision, NEW then \in {Free, "act", "finalize"},
           r.tx = head[t] \/ (call[c].t = t /\ r.tx = call[c].tx),
           Fits(next), BoundFirst(r.tx), GoesOn(r.tx, next, then),
           next.state = "terminal" => Closing(call[c], t),
           call' = [call EXCEPT ![c] = Published(r, t, next, then)],
           UNCHANGED head, raced' = raced
    PROVE  RInv'
  <1>1. TxPlan(r.tx, next, then)
    BY DEF TxPlan
  <1>2. next.state # "prepared"
    BY SMT DEF GoesOn
  <1> QED BY <1>1, <1>2, TxPlanMoves

LEMMA ApproveMoves ==
    ASSUME RInv, IInv', NEW c \in Calls, NEW t \in Txs, Approve(c, t)
    PROVE  RInv'
  <1> DEFINE r == Start(c, t)
             next == Tx(head[t], "approved")
  <1>1. /\ r \in CallRecord /\ r.t = t /\ r.tx = head[t] /\ head[t] \in TxRevision
        /\ BoundFirst(r.tx) /\ head[t].pending # NoRev
    BY StartOf DEF Approve
  <1>a. "approved" \in TxStates
    BY SMT DEF TxStates
  <1>2. next \in TxRevision /\ next.state = "approved"
        /\ next.pending = head[t].pending
    BY <1>1, <1>a, TxFields, TxKeeps
  <1>3. Fits(next) /\ GoesOn(r.tx, next, Free)
    BY <1>1, <1>2, SMT DEF Fits, BoundFirst, ClosedStates, GoesOn, Free
  <1>4. call' = [call EXCEPT ![c] = Published(r, t, next, Free)]
        /\ UNCHANGED <<head, raced>>
    BY DEF Approve, Publish, Published
  <1> HIDE DEF r, next
  <1> QED BY <1>1, <1>2, <1>3, <1>4, GoesOnMoves

LEMMA CommitMoves ==
    ASSUME RInv, IInv', NEW c \in Calls, NEW t \in Txs, Commit(c, t)
    PROVE  RInv'
  <1> DEFINE r == Start(c, t)
             next == Leased(head[t], c)
  <1>1. /\ r \in CallRecord /\ r.t = t /\ r.tx = head[t] /\ head[t] \in TxRevision
        /\ BoundFirst(r.tx) /\ head[t].state = "approved"
    BY StartOf DEF Commit
  <1>2. next \in TxRevision /\ next.state = "sending"
        /\ next.pending = head[t].pending
    BY <1>1, LeasedFields, LeasedKeeps
  <1>3. Fits(next) /\ GoesOn(r.tx, next, "act")
    BY <1>1, <1>2, SMT DEF Fits, BoundFirst, ClosedStates, GoesOn, None
  <1>4. call' = [call EXCEPT ![c] = Published(r, t, next, "act")]
        /\ UNCHANGED <<head, raced>>
    BY DEF Commit, Publish, Published, Only
  <1> HIDE DEF r, next
  <1> QED BY <1>1, <1>2, <1>3, <1>4, GoesOnMoves

LEMMA CommitRecoversMoves ==
    ASSUME RInv, IInv', NEW c \in Calls, NEW t \in Txs, CommitRecovers(c, t)
    PROVE  RInv'
  <1> DEFINE r == Start(c, t)
  <1>1. /\ r \in CallRecord /\ r.t = t /\ r.tx = head[t] /\ head[t] \in TxRevision
        /\ BoundFirst(r.tx)
    BY StartOf
  <1>2. UNCHANGED <<head, raced>>
    BY DEF CommitRecovers, Only
  <1>3. CASE /\ head[t].state = "sending"
             /\ Publish(c, r, t, WithResult(head[t], "outcomeUnknown"), "finalize")
    <2> DEFINE next == WithResult(head[t], "outcomeUnknown")
    <2>1. "outcomeUnknown" \in Results
      BY SMT DEF Results
    <2>2. next \in TxRevision /\ next.state = "finalizing"
          /\ next.pending = head[t].pending
      BY <1>1, <2>1, ResultFields, ResultKeeps
    <2>3. Fits(next) /\ GoesOn(r.tx, next, "finalize")
      BY <1>1, <1>3, <2>2, SMT DEF Fits, BoundFirst, ClosedStates, GoesOn, None
    <2>4. call' = [call EXCEPT ![c] = Published(r, t, next, "finalize")]
      BY <1>3 DEF Publish, Published
    <2> HIDE DEF r, next
    <2> QED BY <1>1, <1>2, <2>2, <2>3, <2>4, GoesOnMoves
  <1>4. CASE /\ head[t].state = "finalizing"
             /\ call' = [call EXCEPT ![c] = [r EXCEPT !.pc = "finalize"]]
    <2> DEFINE q == [r EXCEPT !.pc = "finalize"]
    <2>1. "finalize" \in Places
      BY SMT DEF Places, Resuming
    <2> HIDE DEF r
    <2>2. q \in CallRecord /\ q.t = t /\ q.pc = "finalize" /\ q.tx = head[t]
      BY <1>1, <2>1, PcFields
    <2>3. call' = [call EXCEPT ![c] = q]
      BY <1>4
    <2> HIDE DEF q
    <2>4. Plan(q)
      BY <1>1, <2>2, SMT DEF Plan, Publishing
    <2>5. Follows(c, q)
      BY <2>2, SMT DEF Follows, Asking, Preparing, Closing, SeenLeased, Publishing
    <2> QED BY <1>2, <2>3, <2>4, <2>5, MovesOn
  <1> QED BY <1>3, <1>4, Zenon DEF CommitRecovers

LEMMA SealMoves ==
    ASSUME RInv, IInv', NEW c \in Calls, NEW t \in Txs, Seal(c, t)
    PROVE  RInv'
  <1> DEFINE r == Start(c, t)
             next == Tx(head[t], "sealed")
  <1>1. /\ r \in CallRecord /\ r.t = t /\ r.tx = head[t] /\ head[t] \in TxRevision
        /\ BoundFirst(r.tx) /\ head[t].state = "terminal" /\ Fits(head[t])
    BY StartOf DEF Seal
  <1>a. "sealed" \in TxStates
    BY SMT DEF TxStates
  <1>2. next \in TxRevision /\ next.state = "sealed" /\ next.result = head[t].result
        /\ next.pending = head[t].pending /\ next.terminal = head[t].terminal
    BY <1>1, <1>a, TxFields, TxKeeps
  <1>3. Fits(next) /\ GoesOn(r.tx, next, Free)
    <2>1. head[t].pending # NoRev /\ AlreadyFinalized(head[t].terminal, head[t])
      BY <1>1, SMT DEF Fits, BoundFirst, ClosedStates, None
    <2>2. AlreadyFinalized(next.terminal, next)
      BY <1>2, <2>1 DEF AlreadyFinalized
    <2>3. Fits(next)
      BY <1>2, <2>1, <2>2 DEF Fits, BoundFirst
    <2> QED BY <1>1, <1>2, <2>1, <2>3, SMT DEF GoesOn, Free
  <1>4. call' = [call EXCEPT ![c] = Published(r, t, next, Free)]
        /\ UNCHANGED <<head, raced>>
    BY DEF Seal, Publish, Published, Only
  <1> HIDE DEF r, next
  <1> QED BY <1>1, <1>2, <1>3, <1>4, GoesOnMoves


LEMMA BindPendingMoves ==
    ASSUME RInv, IInv', NEW c \in Calls, BindPending(c)
    PROVE  RInv'
  <1> DEFINE r == call[c]
             x == Tx(r.tx, r.tx.state)
             next == [x EXCEPT !.pending = r.ses]
  <1>1. r.pc = "bindPending" /\ r.pc \in Resuming
    BY SMT DEF BindPending, At, Resuming
  <1>2. /\ r \in CallRecord /\ r.t \in Txs /\ r.tx \in TxRevision
        /\ r.ses \in SessionRevision /\ r.tx.state \in TxStates
    BY <1>1, ResumingCall DEF RInv
  <1>3. r.tx = First /\ r.ses # NoRev /\ BoundFirst(r.tx)
    BY <1>1, PlanOf DEF Plan
  <1>4. UNCHANGED <<head, raced>>
    BY DEF BindPending, Only
  <1>5. CASE call' = [call EXCEPT ![c] = Published(r, r.t, next, Free)]
    <2>1. x \in TxRevision /\ x.state = "prepared"
      BY <1>2, <1>3, TxFields, Distinct
    <2> HIDE DEF x
    <2>2. next \in TxRevision /\ next.state = "prepared" /\ next.pending = r.ses
      BY <1>2, <2>1, BoundFields, BindingFields
    <2> HIDE DEF next
    <2>3. Fits(next)
      BY <2>2, SMT DEF Fits, BoundFirst, ClosedStates
    <2>4. TxPlan(r.tx, next, Free)
      BY <1>3, <2>2 DEF TxPlan, Binds
    <2>5. Preparing(call[c], r.t)
      BY <1>1 DEF Preparing
    <2>6. next.state # "terminal"
      BY <2>2
    <2> HIDE DEF r
    <2>7. call[c].t = r.t /\ r.tx = call[c].tx
      BY DEF r
    <2> QED BY <1>2, <1>3, <1>4, <1>5, <2>2, <2>3, <2>4, <2>5, <2>6, <2>7, TxPlanMoves
  <1> QED BY <1>4, <1>5, ReturnMoves DEF BindPending, Publish, Published

LEMMA RecordMoves ==
    ASSUME RInv, IInv', NEW c \in Calls, Record(c)
    PROVE  RInv'
  <1> DEFINE r == call[c]
             next == WithResult(r.tx, r.result)
  <1>1. r.pc = "record" /\ r.pc \in Resuming
    BY SMT DEF Record, At, Resuming
  <1>2. /\ r \in CallRecord /\ r.t \in Txs /\ r.tx \in TxRevision
        /\ r.tx.state = "sending" /\ r.result \in Results /\ BoundFirst(r.tx)
    BY <1>1, ResumingCall, PlanOf DEF Sound, RInv
  <1>3. UNCHANGED <<head, raced>>
    BY DEF Record, Only
  <1>4. CASE call' = [call EXCEPT ![c] = Published(r, r.t, next, "finalize")]
    <2>1. next \in TxRevision /\ next.state = "finalizing" /\ next.pending = r.tx.pending
      BY <1>2, ResultFields, ResultKeeps
    <2> HIDE DEF next
    <2>2. Fits(next) /\ GoesOn(r.tx, next, "finalize")
      BY <1>2, <2>1, SMT DEF Fits, BoundFirst, ClosedStates, GoesOn, None
    <2>3. next.state # "terminal"
      BY <2>1
    <2> HIDE DEF r
    <2>4. call[c].t = r.t /\ r.tx = call[c].tx
      BY DEF r
    <2> QED BY <1>2, <1>3, <1>4, <2>1, <2>2, <2>3, <2>4, GoesOnMoves
  <1> QED BY <1>3, <1>4, ReturnMoves DEF Record, Publish, Published

LEMMA BindTerminalMoves ==
    ASSUME RInv, IInv', NEW c \in Calls, BindTerminal(c)
    PROVE  RInv'
  <1> DEFINE r == call[c]
             x == Tx(r.tx, "terminal")
             next == [x EXCEPT !.terminal = r.ses]
  <1>1. r.pc = "bindTerminal" /\ r.pc \in Resuming
    BY SMT DEF BindTerminal, At, Resuming
  <1>2. /\ r \in CallRecord /\ r.t \in Txs /\ r.tx \in TxRevision
        /\ r.ses \in SessionRevision /\ "terminal" \in TxStates
    BY <1>1, ResumingCall DEF TxStates, RInv
  <1>3. r.tx.state = "finalizing" /\ BoundFirst(r.tx) /\ AlreadyFinalized(r.ses, r.tx)
    BY <1>1, PlanOf DEF Sound, Plan
  <1>4. UNCHANGED <<head, raced>>
    BY DEF BindTerminal, Only
  <1>5. CASE call' = [call EXCEPT ![c] = Published(r, r.t, next, Free)]
    <2>1. x \in TxRevision /\ x.state = "terminal" /\ x.result = r.tx.result
          /\ x.pending = r.tx.pending
      BY <1>2, TxFields, TxKeeps
    <2> HIDE DEF x
    <2>2. /\ next \in TxRevision /\ next.state = "terminal" /\ next.result = r.tx.result
          /\ next.pending = r.tx.pending /\ next.terminal = r.ses
      BY <1>2, <2>1, BoundFields, BindingFields
    <2> HIDE DEF next
    <2>3. r.tx.pending # NoRev
      BY <1>3, SMT DEF BoundFirst, None
    <2>4. AlreadyFinalized(next.terminal, next)
      BY <1>3, <2>2 DEF AlreadyFinalized
    <2>5. Fits(next)
      BY <2>2, <2>3, <2>4 DEF Fits, BoundFirst
    <2>6. GoesOn(r.tx, next, Free)
      BY <1>3, <2>2, <2>3, SMT DEF GoesOn, Free
    <2>7. Closing(call[c], r.t)
      BY <1>1 DEF Closing
    <2> HIDE DEF r
    <2>8. call[c].t = r.t /\ r.tx = call[c].tx
      BY DEF r
    <2> QED BY <1>2, <1>3, <1>4, <1>5, <2>2, <2>5, <2>6, <2>7, <2>8, GoesOnMoves
  <1> QED BY <1>4, <1>5, ReturnMoves DEF BindTerminal, Publish, Published

LEMMA PreparePendsMoves ==
    ASSUME RInv, IInv', NEW c \in Calls, PreparePends(c)
    PROVE  RInv'
  <1> DEFINE r == call[c]
             next == Rev(r.ses, "waitingApproval", FALSE, r.t, "effect")
  <1>1. r.pc = "pend" /\ r.pc \in Resuming
    BY SMT DEF PreparePends, At, Resuming
  <1>2. r \in CallRecord /\ r.t \in Txs /\ r.ses \in SessionRevision
    BY <1>1, ResumingCall DEF RInv
  <1>3. r.tx = First /\ BoundFirst(r.tx)
    BY <1>1, PlanOf DEF Plan
  <1>4. UNCHANGED <<head, raced>>
    BY DEF PreparePends, Only
  <1>5. CASE call' = [call EXCEPT ![c] = Published(r, Session, next, "bindPending")]
    <2> HIDE DEF r
    <2>1. next \in SessionRevision
      BY <1>2, RevFields
    <2>2. next # NoRev /\ next.intent = r.t /\ next.state = "waitingApproval"
      <3>1. PICK u : u = FALSE
        OBVIOUS
      <3>2. next = Rev(r.ses, "waitingApproval", u, r.t, "effect")
        BY <3>1
      <3> HIDE DEF next
      <3> QED BY <1>2, <3>2, RevOf
    <2> HIDE DEF next
    <2>3. Waits(next)
      BY <2>2 DEF Waits
    <2>4. r = call[c]
      BY DEF r
    <2> QED BY <1>1, <1>2, <1>3, <1>4, <1>5, <2>1, <2>2, <2>3, <2>4, SessionPlanMoves
  <1> QED BY <1>4, <1>5, ReturnMoves DEF PreparePends, Publish, Published

LEMMA FinalizeSessionMoves ==
    ASSUME RInv, IInv', NEW c \in Calls, FinalizeSession(c)
    PROVE  RInv'
  <1> DEFINE s == head[Session]
             x == call[c].tx
             seen == [call[c] EXCEPT !.ses = s]
             next == Closed(s, x)
             w == [seen EXCEPT !.pc = "bindTerminal"]
  <1>1. call[c].pc = "finalize" /\ call[c].pc \in Resuming
    BY SMT DEF FinalizeSession, At, Resuming
  <1>2. /\ call[c] \in CallRecord /\ call[c].t \in Txs /\ s \in SessionRevision
        /\ BoundFirst(x)
    BY <1>1, ResumingCall, PlanOf DEF RInv
  <1>3. UNCHANGED <<head, raced>>
    BY DEF FinalizeSession, Only
  <1>4. seen \in CallRecord /\ seen.t = call[c].t /\ seen.tx = x /\ seen.ses = s
    BY <1>2, SesFields
  <1>5. CASE AlreadyFinalized(s, x) /\ call' = [call EXCEPT ![c] = w]
    <2>1. "bindTerminal" \in Places
      BY SMT DEF Places, Resuming
    <2> HIDE DEF seen
    <2>2. w.t = call[c].t /\ w.pc = "bindTerminal" /\ w.tx = x /\ w.ses = s
      BY <1>4, <2>1, PcFields
    <2>3. call' = [call EXCEPT ![c] = w]
      BY <1>5
    <2> HIDE DEF w
    <2>4. Plan(w)
      BY <1>2, <1>5, <2>2, SMT DEF Plan, Publishing
    <2>5. s.intent = None /\ None \notin Txs
      BY <1>5, Distinct DEF AlreadyFinalized
    <2>6. ASSUME NEW t \in Txs
          PROVE  /\ ~Asking(w, t) /\ ~Preparing(w, t)
                 /\ s.intent # t
                 /\ SeenLeased(w, t) => SeenLeased(call[c], t)
      <3>1. ~Asking(w, t) /\ ~Preparing(w, t)
        BY <2>2, SMT DEF Asking, Preparing
      <3>2. SeenLeased(w, t) => SeenLeased(call[c], t)
        BY <2>2, SMT DEF SeenLeased
      <3> QED BY <2>5, <3>1, <3>2
    <2>7. Follows(c, w)
      BY <2>6 DEF Follows
    <2> QED BY <1>3, <2>3, <2>4, <2>7, MovesOn
  <1>6. CASE /\ s = x.pending
             /\ call' = [call EXCEPT ![c] = Published(seen, Session, next, "bindTerminal")]
    <2>1. next \in SessionRevision /\ next # NoRev /\ next.intent = None
          /\ next.parent = s.n /\ next.unknown = (x.result = "outcomeUnknown")
      <3>1. (x.result = "outcomeUnknown") \in BOOLEAN /\ None \in Txs \cup {None}
        OBVIOUS
      <3>2. (IF x.result = "outcomeUnknown" THEN "failed" ELSE "active")
              \in {"active", "waitingApproval", "failed"}
        OBVIOUS
      <3>3. next \in SessionRevision
        BY <1>2, <3>1, <3>2, RevFields DEF Closed
      <3>4. PICK u, state : /\ u = (x.result = "outcomeUnknown")
                            /\ state = IF x.result = "outcomeUnknown" THEN "failed" ELSE "active"
        OBVIOUS
      <3>5. next = Rev(s, state, u, None, "effect")
        BY <3>4 DEF Closed
      <3> HIDE DEF next
      <3>6. next # NoRev /\ next.intent = None /\ next.parent = s.n /\ next.unknown = u
        BY <1>2, <3>5, RevOf
      <3> QED BY <3>3, <3>4, <3>6
    <2> HIDE DEF next
    <2>2. AlreadyFinalized(next, x)
      BY <1>6, <2>1 DEF AlreadyFinalized
    <2>3. Waits(next)
      BY <2>1 DEF Waits
    <2>4. "bindTerminal" # "bindPending"
      OBVIOUS
    <2> HIDE DEF seen
    <2> QED BY <1>2, <1>3, <1>4, <1>6, <2>1, <2>2, <2>3, <2>4, SessionPlanMoves
  <1> QED BY <1>3, <1>5, <1>6, ReturnMoves DEF FinalizeSession, Publish, Published

LEMMA RememberMoves ==
    ASSUME RInv, IInv', NEW c \in Calls, Remember(c)
    PROVE  RInv'
  <1> DEFINE s == head[Session]
             r == [NoCall EXCEPT !.ses = s]
  <1>1. s \in SessionRevision
    BY DEF RInv, IInv, Typed
  <1>2. r \in CallRecord /\ r.t = None /\ r.tx = NoTx /\ BoundFirst(r.tx)
    <2>1. NoCall.t = None /\ NoCall.tx = NoTx
      BY DEF NoCall
    <2>2. r \in CallRecord /\ r.t = None /\ r.tx = NoTx
      BY <1>1, <2>1, SesFields, NoCallSound
    <2> QED BY <2>2, Distinct DEF BoundFirst
  <1>3. UNCHANGED <<head, raced>>
    BY DEF Remember, Only
  <1>4. PICK work \in {<<"active", FALSE>>, <<"failed", TRUE>>} :
          Publish(c, r, Session, Rev(s, work[1], work[2], None, "client"), Free)
    BY DEF Remember
  <1> DEFINE next == Rev(s, work[1], work[2], None, "client")
  <1>5. /\ work[1] \in {"active", "waitingApproval", "failed"} /\ work[2] \in BOOLEAN
        /\ None \in Txs \cup {None}
    <2>1. CASE work = <<"active", FALSE>>
      BY <2>1
    <2>2. CASE work = <<"failed", TRUE>>
      BY <2>2
    <2> QED BY <2>1, <2>2
  <1>6. next \in SessionRevision /\ next # NoRev /\ next.intent = None
    BY <1>1, <1>5, RevFields, RevOf
  <1>7. call' = [call EXCEPT ![c] = Published(r, Session, next, Free)]
    BY <1>4 DEF Publish, Published
  <1> HIDE DEF next, r
  <1>8. Waits(next)
    BY <1>6 DEF Waits
  <1>9. Free # "bindTerminal" /\ Free # "bindPending"
    BY DEF Free
  <1> QED BY <1>2, <1>3, <1>6, <1>7, <1>8, <1>9, SessionPlanMoves

LEMMA ActMoves ==
    ASSUME RInv, IInv', NEW c \in Calls, Act(c)
    PROVE  RInv'
  <1> DEFINE r == call[c]
  <1>1. /\ r \in CallRecord /\ r.pc = "act" /\ Plan(r)
    BY PlanOf DEF Act, At
  <1>2. PICK result \in Results :
          call' = [call EXCEPT ![c] = [@ EXCEPT !.pc = "record", !.result = result]]
    BY Zenon DEF Act, Results
  <1>3. UNCHANGED <<head, raced>>
    BY DEF Act
  <1> DEFINE q1 == [r EXCEPT !.pc = "record"]
             q == [q1 EXCEPT !.result = result]
  <1>4. call' = [call EXCEPT ![c] = q]
    BY <1>2
  <1>5. q1 \in CallRecord /\ q1.t = r.t /\ q1.pc = "record" /\ q1.tx = r.tx
    BY <1>1, PcFields, SMT DEF Places, Resuming
  <1> HIDE DEF q1
  <1>6. q.t = r.t /\ q.pc = "record" /\ q.tx = r.tx
    BY <1>5, SMT DEF CallRecord, MaybeResult
  <1> HIDE DEF q
  <1>7. Plan(q)
    BY <1>1, <1>6, SMT DEF Plan, Publishing
  <1>8. Follows(c, q)
    BY <1>6, SMT DEF Follows, Asking, Preparing, Closing, SeenLeased, Publishing
  <1> QED BY <1>3, <1>4, <1>7, <1>8, MovesOn

LEMMA CrashMoves ==
    ASSUME RInv, IInv', Crash
    PROVE  RInv'
  <1>1. UNCHANGED <<head, raced>> /\ \A c \in Calls : call'[c] = NoCall
    BY DEF Crash
  <1>2. NoCall.t = None /\ NoCall.pc = "free" /\ NoCall.tx = NoTx
    BY DEF NoCall, Free
  <1>3. Plan(NoCall)
    BY <1>2, Distinct, SMT DEF Plan, BoundFirst, Publishing
  <1>4. Planned'
    BY <1>1, <1>3 DEF RInv, Planned
  <1>5. ASSUME NEW t \in Txs
        PROVE  /\ ~Asking(NoCall, t) /\ ~Preparing(NoCall, t)
               /\ ~Closing(NoCall, t) /\ ~SeenLeased(NoCall, t)
    BY <1>2, Distinct DEF Asking, Preparing, Closing, SeenLeased
  <1>6. ASSUME ~raced, NEW t \in Txs
        PROVE  (OnePreparer(t) /\ NotAwaited(t) /\ LeaseSeen(t))'
    <2>1. NotAwaited(t)
      BY <1>6 DEF RInv, InStep
    <2>2. OnePreparer(t)' /\ LeaseSeen(t)'
      BY <1>1, <1>5 DEF OnePreparer, LeaseSeen
    <2>3. NotAwaited(t)'
      BY <1>1, <1>5, <2>1 DEF NotAwaited
    <2> QED BY <2>2, <2>3
  <1> QED BY <1>1, <1>4, <1>6, Zenon DEF RInv, InStep

\* Whoever closes a transaction has seen it finalizing.
LEMMA ClosingHasSeen ==
    ASSUME RInv, NEW c \in Calls, NEW t \in Txs, Closing(call[c], t)
    PROVE  SeenLeased(call[c], t)
  <1> DEFINE r == call[c]
  <1>1. Plan(r) /\ Sound(r) /\ r.t = t
    BY PlanOf DEF Closing
  <1>2. CASE r.pc = "bindTerminal" \/ (r.pc = "unlock" /\ r.then = "bindTerminal")
    <2>1. r.tx.state = "finalizing"
      BY <1>1, <1>2, SMT DEF Sound, Publishing
    <2> QED BY <1>1, <2>1, SMT DEF SeenLeased, Leasable, None
  <1>3. CASE r.pc \in Publishing /\ r.id = t /\ r.next.state = "terminal"
    <2>1. TxPlan(r.tx, r.next, r.then)
      BY <1>1, <1>3 DEF Plan
    <2>2. r.tx.state = "finalizing"
      BY <1>3, <2>1, Distinct, SMT DEF TxPlan, Prepares, Rehearses, Binds, GoesOn
    <2> QED BY <1>1, <2>2, SMT DEF SeenLeased, Leasable, None
  <1> QED BY <1>2, <1>3 DEF Closing

\* Nobody else knows a transaction that could still be leased as leased.
LEMMA NobodySees ==
    ASSUME RInv, ~raced, NEW t \in Txs, head[t].state \in Leasable, NEW c \in Calls
    PROVE  ~SeenLeased(call[c], t) /\ ~Closing(call[c], t)
  BY ClosingHasSeen DEF RInv, InStep, LeaseSeen

LEMMA WriteMoves ==
    ASSUME RInv, IInv', NEW c \in Calls, Write(c)
    PROVE  RInv'
  <1> DEFINE r == call[c]
             q == [call[c] EXCEPT !.pc = "unlock"]
  <1>1. Sound(r) /\ Plan(r) /\ r.pc = "write"
    BY PlanOf DEF Write, At
  <1>2. /\ r.id \in Ids
        /\ r.id = Session => r.next \in SessionRevision /\ SessionPlan(r)
        /\ r.id \in Txs => /\ WellFormed(r.next) /\ r.t = r.id /\ r.then # "bindTerminal"
                           /\ Fits(r.next) /\ TxPlan(r.tx, r.next, r.then)
    BY <1>1, Distinct, SMT DEF Sound, Plan, Publishing
  <1>3. "write" \in Publishing /\ "unlock" \in Publishing
    BY SMT DEF Publishing
  <1>4. /\ q.pc = "unlock" /\ q.t = r.t /\ q.tx = r.tx
        /\ q.ses = r.ses /\ q.id = r.id /\ q.next = r.next /\ q.then = r.then
    BY <1>1, <1>3, StaysSound
  <1>5. call' = [call EXCEPT ![c] = q]
    BY DEF Write
  <1> HIDE DEF q
  <1>6. call'[c] = q /\ \A d \in Calls \ {c} : call'[d] = call[d]
    BY <1>5, SMT DEF RInv, IInv, Typed
  <1>7. head'[r.id] = r.next /\ \A i \in Ids \ {r.id} : head'[i] = head[i]
    BY <1>2, SMT DEF RInv, IInv, Typed, Write
  <1>8. raced' = raced
    BY DEF Write
  <1>9. Txs \subseteq Ids /\ Session \in Ids /\ Session \notin Txs
    BY Distinct DEF Ids
  <1>10. Planned'
    <2>1. Plan(q)
      BY <1>1, <1>3, <1>4, SMT DEF Plan, SessionPlan
    <2>2. \A d \in Calls : Plan(call'[d])
      BY <1>6, <2>1 DEF RInv, Planned
    <2>3. \A t \in Txs : Fits(head'[t])
      BY <1>2, <1>7, <1>9 DEF RInv, Planned
    <2>4. Waits(head'[Session])
      BY <1>2, <1>7, <1>9 DEF RInv, Planned, SessionPlan
    <2> QED BY <2>2, <2>3, <2>4 DEF Planned
  <1>11. ASSUME ~raced, NEW t \in Txs
         PROVE  (OnePreparer(t) /\ NotAwaited(t) /\ LeaseSeen(t))'
    <2>1. OnePreparer(t) /\ NotAwaited(t) /\ LeaseSeen(t)
      BY <1>11 DEF RInv, InStep
    <2>2. head[r.id] = Expected(c)
      BY <1>1, <1>11, SMT DEF RInv, IInv, Exclusive
    <2>3. ASSUME /\ \A d \in Calls : Preparing(call'[d], t) =>
                       /\ head'[t].state \in {"prepared", "rehearsed"}
                       /\ head'[t].pending = NoRev
                       /\ \A e \in Calls : Preparing(call'[e], t) => e = d
                 /\ \A d \in Calls : Asking(call'[d], t) \/ Closing(call'[d], t)
                       => head'[Session].intent # t
                 /\ head'[t].state \in ClosedStates \cup {None}
                       => head'[Session].intent # t
                 /\ \A d \in Calls : SeenLeased(call'[d], t)
                       => head'[t].state \notin Leasable
          PROVE  (OnePreparer(t) /\ NotAwaited(t) /\ LeaseSeen(t))'
      BY <2>3, Zenon DEF OnePreparer, NotAwaited, LeaseSeen
    <2>4. CASE r.id = Session
      <3>1. head'[t] = head[t] /\ head'[Session] = r.next /\ r.id # t
        BY <1>7, <1>9, <2>4
      <3>2. SessionPlan(r) /\ None \notin Txs
        BY <1>2, <2>4, Distinct
      <3>3. /\ ~Asking(q, t)
            /\ Preparing(q, t) => Preparing(r, t)
            /\ Closing(q, t) => r.then = "bindTerminal"
            /\ SeenLeased(q, t) => SeenLeased(r, t)
        <4>1. ~Asking(q, t)
          BY <1>4, <2>4, <3>1, SMT DEF Asking
        <4>2. Preparing(q, t) => Preparing(r, t)
          BY <1>1, <1>4, <2>4, <3>1, <4>1, SMT DEF Preparing, Asking
        <4>3. Closing(q, t) => r.then = "bindTerminal"
          BY <1>4, <3>1, SMT DEF Closing
        <4>4. SeenLeased(q, t) => SeenLeased(r, t)
          BY <1>4, <3>1, SMT DEF SeenLeased
        <4> QED BY <4>1, <4>2, <4>3, <4>4
      <3>4. \A d \in Calls : /\ Preparing(call'[d], t) => Preparing(call[d], t)
                             /\ SeenLeased(call'[d], t) => SeenLeased(call[d], t)
        BY <1>6, <3>3
      <3>5. CASE r.next.intent = t
        <4>1. r.t = t /\ r.then = "bindPending"
          BY <3>2, <3>5 DEF SessionPlan
        <4>2. Asking(r, t) /\ Preparing(r, t)
          BY <1>1, <2>4, <4>1, SMT DEF Asking, Preparing
        <4>3. /\ head[t].state \in {"prepared", "rehearsed"}
              /\ \A d \in Calls : Preparing(call[d], t) => d = c
          BY <2>1, <4>2 DEF OnePreparer
        <4>4. head[t].state \in Leasable /\ head[t].state \notin ClosedStates \cup {None}
          BY <4>3, SMT DEF Leasable, ClosedStates, None
        <4>5. \A d \in Calls \ {c} : ~Asking(call[d], t) /\ ~Closing(call[d], t)
          BY <1>11, <4>3, <4>4, NobodySees DEF Preparing
        <4>6. \A d \in Calls : ~Asking(call'[d], t) /\ ~Closing(call'[d], t)
          BY <1>6, <3>3, <4>1, <4>5
        <4>7. \A d \in Calls : Preparing(call'[d], t) =>
                 /\ head'[t].state \in {"prepared", "rehearsed"}
                 /\ head'[t].pending = NoRev
                 /\ \A e \in Calls : Preparing(call'[e], t) => e = d
          BY <2>1, <3>1, <3>4 DEF OnePreparer
        <4>8. \A d \in Calls : ~SeenLeased(call'[d], t)
          BY <1>11, <3>4, <4>4, NobodySees
        <4> QED BY <2>3, <3>1, <4>4, <4>6, <4>7, <4>8
      <3>6. CASE r.next.intent # t
        <4>1. \A d \in Calls : Preparing(call'[d], t) =>
                 /\ head'[t].state \in {"prepared", "rehearsed"}
                 /\ head'[t].pending = NoRev
                 /\ \A e \in Calls : Preparing(call'[e], t) => e = d
          BY <2>1, <3>1, <3>4 DEF OnePreparer
        <4>2. \A d \in Calls : SeenLeased(call'[d], t) => head'[t].state \notin Leasable
          BY <2>1, <3>1, <3>4 DEF LeaseSeen
        <4> QED BY <2>3, <3>1, <3>6, <4>1, <4>2
      <3> QED BY <3>5, <3>6
    <2>5. CASE r.id \in Txs /\ r.id # t
      <3>1. head'[t] = head[t] /\ head'[Session] = head[Session]
        BY <1>7, <1>9, <2>5
      <3>2. r.t # t
        BY <1>2, <2>5
      <3>3. ~Asking(q, t) /\ ~Preparing(q, t) /\ ~Closing(q, t) /\ ~SeenLeased(q, t)
        BY <1>4, <3>2 DEF Asking, Preparing, Closing, SeenLeased
      <3>4. \A d \in Calls : /\ Asking(call'[d], t) => Asking(call[d], t)
                             /\ Preparing(call'[d], t) => Preparing(call[d], t)
                             /\ Closing(call'[d], t) => Closing(call[d], t)
                             /\ SeenLeased(call'[d], t) => SeenLeased(call[d], t)
        BY <1>6, <3>3
      <3>5. \A d \in Calls : Preparing(call'[d], t) =>
               /\ head'[t].state \in {"prepared", "rehearsed"}
               /\ head'[t].pending = NoRev
               /\ \A e \in Calls : Preparing(call'[e], t) => e = d
        BY <2>1, <3>1, <3>4 DEF OnePreparer
      <3>6. /\ \A d \in Calls : Asking(call'[d], t) \/ Closing(call'[d], t)
                  => head'[Session].intent # t
            /\ head'[t].state \in ClosedStates \cup {None} => head'[Session].intent # t
        BY <2>1, <3>1, <3>4 DEF NotAwaited
      <3>7. \A d \in Calls : SeenLeased(call'[d], t) => head'[t].state \notin Leasable
        BY <2>1, <3>1, <3>4 DEF LeaseSeen
      <3> QED BY <2>3, <3>5, <3>6, <3>7
    <2>6. CASE r.id = t
      <3>1. /\ r.id \in Txs /\ r.t = t /\ r.then # "bindTerminal"
            /\ TxPlan(r.tx, r.next, r.then)
            /\ head'[t] = r.next /\ head'[Session] = head[Session] /\ t # Session
        BY <1>2, <1>7, <1>9, <2>6
      <3>2. head[t] = r.tx
        BY <2>2, <2>6, <3>1 DEF Expected
      <3>3. r.next.state \in Leasable => r.tx.state \in Leasable
        BY <1>1, <1>3, <3>1, SMT DEF Sound
      <3>4. /\ Asking(q, t) => r.then = "pend"
            /\ Preparing(q, t) => r.then \in {"pend", "bindPending"}
            /\ Closing(q, t) => r.next.state = "terminal"
            /\ SeenLeased(q, t) => r.next.state \notin Leasable
        <4>1. Asking(q, t) => r.then = "pend"
          BY <1>4, SMT DEF Asking
        <4>2. Preparing(q, t) => r.then \in {"pend", "bindPending"}
          BY <1>4, <4>1, SMT DEF Preparing
        <4>3. Closing(q, t) => r.next.state = "terminal"
          BY <1>4, <3>1, SMT DEF Closing
        <4>4. SeenLeased(q, t) => r.next.state \notin Leasable
          BY <1>4, <3>3, SMT DEF SeenLeased
        <4> QED BY <4>1, <4>2, <4>3, <4>4
      <3>5. CASE Prepares(r.tx, r.next, r.then)
        <4>1. head[t].state = None /\ head'[t].state = "prepared" /\ head'[t].pending = NoRev
          BY <3>1, <3>2, <3>5, Distinct DEF Prepares
        <4>2. head[t].state \in Leasable /\ head'[t].state \in Leasable
              /\ head[t].state \notin {"prepared", "rehearsed"}
          BY <4>1, SMT DEF Leasable, None
        <4>3. \A d \in Calls : ~Preparing(call[d], t)
          BY <2>1, <4>2 DEF OnePreparer
        <4>4. \A d \in Calls : ~SeenLeased(call[d], t) /\ ~Closing(call[d], t)
          BY <1>11, <4>2, NobodySees
        <4>5. head'[Session].intent # t
          BY <2>1, <3>1, <4>1 DEF NotAwaited
        <4>6. \A d \in Calls : Preparing(call'[d], t) => d = c
          BY <1>6, <4>3
        <4>7. \A d \in Calls : ~SeenLeased(call'[d], t)
          BY <1>6, <3>1, <3>4, <4>2, <4>4
        <4> QED BY <2>3, <4>1, <4>5, <4>6, <4>7
      <3>6. CASE Rehearses(r.tx, r.next, r.then)
        <4>1. /\ head[t].state \in {"prepared", "rehearsed"} /\ head'[t].state = "rehearsed"
              /\ head'[t].pending = head[t].pending /\ r.then = "free"
          BY <3>1, <3>2, <3>6 DEF Rehearses, Free
        <4>2. head[t].state \in Leasable /\ head'[t].state \in Leasable
              /\ head'[t].state \notin ClosedStates \cup {None}
              /\ r.next.state # "terminal" /\ r.next.state \in Leasable
          BY <3>1, <4>1, SMT DEF Leasable, ClosedStates, None
        <4>3. ~Asking(q, t) /\ ~Preparing(q, t) /\ ~Closing(q, t) /\ ~SeenLeased(q, t)
          BY <3>4, <4>1, <4>2, SMT
        <4>4. \A d \in Calls : ~SeenLeased(call[d], t) /\ ~Closing(call[d], t)
          BY <1>11, <4>2, NobodySees
        <4>5. \A d \in Calls : /\ Asking(call'[d], t) => Asking(call[d], t)
                               /\ Preparing(call'[d], t) => Preparing(call[d], t)
                               /\ ~Closing(call'[d], t) /\ ~SeenLeased(call'[d], t)
          BY <1>6, <4>3, <4>4
        <4>6. \A d \in Calls : Preparing(call'[d], t) =>
                 /\ head'[t].state \in {"prepared", "rehearsed"}
                 /\ head'[t].pending = NoRev
                 /\ \A e \in Calls : Preparing(call'[e], t) => e = d
          BY <2>1, <4>1, <4>5 DEF OnePreparer
        <4>7. \A d \in Calls : Asking(call'[d], t) => head'[Session].intent # t
          BY <2>1, <3>1, <4>5 DEF NotAwaited
        <4> QED BY <2>3, <4>2, <4>5, <4>6, <4>7
      <3>7. CASE Binds(r.tx, r.next, r.then)
        <4>1. /\ head[t].state = "prepared" /\ head'[t].state = "prepared"
              /\ r.tx.pending = NoRev /\ r.next.pending # NoRev /\ r.then = "free"
          BY <3>1, <3>2, <3>7, Distinct DEF Binds, Free
        <4>2. head[t].state \in Leasable /\ head'[t].state \in Leasable
              /\ head'[t].state \notin ClosedStates \cup {None}
              /\ r.next.state # "terminal" /\ r.next.state \in Leasable
          BY <3>1, <4>1, SMT DEF Leasable, ClosedStates, None
        <4>3. Preparing(r, t)
          BY <1>1, <2>6, <3>1, <4>1, SMT DEF Preparing
        <4>4. \A d \in Calls \ {c} : ~Preparing(call[d], t)
          BY <2>1, <4>3 DEF OnePreparer
        <4>5. ~Asking(q, t) /\ ~Preparing(q, t) /\ ~Closing(q, t) /\ ~SeenLeased(q, t)
          BY <3>4, <4>1, <4>2, SMT
        <4>6. \A d \in Calls : ~SeenLeased(call[d], t) /\ ~Closing(call[d], t)
          BY <1>11, <4>2, NobodySees
        <4>7. \A d \in Calls : /\ ~Asking(call'[d], t) /\ ~Preparing(call'[d], t)
                               /\ ~Closing(call'[d], t) /\ ~SeenLeased(call'[d], t)
          BY <1>6, <4>4, <4>5, <4>6 DEF Preparing
        <4> QED BY <2>3, <4>2, <4>7
      <3>8. CASE GoesOn(r.tx, r.next, r.then)
        <4>1. /\ head[t].pending # NoRev
              /\ r.next.state \in {"approved", "sending", "finalizing", "terminal", "sealed"}
              /\ r.next.state = "sealed" => head[t].state = "terminal"
              /\ r.then \notin {"pend", "bindPending"}
          BY <3>2, <3>8 DEF GoesOn
        <4>2. \A d \in Calls : ~Preparing(call[d], t)
          BY <2>1, <4>1 DEF OnePreparer
        <4>3. ~Asking(q, t) /\ ~Preparing(q, t)
          BY <3>4, <4>1
        <4>4. \A d \in Calls : ~Asking(call'[d], t) /\ ~Preparing(call'[d], t)
          BY <1>6, <4>2, <4>3 DEF Preparing
        <4>5. r.next.state = "terminal" => Closing(r, t)
          BY <1>1, <1>3, <2>6, <3>1 DEF Closing
        <4>6. \A d \in Calls : Closing(call'[d], t) => head'[Session].intent # t
          BY <1>6, <2>1, <3>1, <3>4, <4>5 DEF NotAwaited
        <4>7. head'[t].state \in ClosedStates \cup {None} => head'[Session].intent # t
          <5>1. CASE r.next.state = "terminal"
            BY <2>1, <3>1, <4>5, <5>1 DEF NotAwaited
          <5>2. CASE r.next.state = "sealed"
            <6>1. head[t].state \in ClosedStates
              BY <4>1, <5>2 DEF ClosedStates
            <6> QED BY <2>1, <3>1, <6>1 DEF NotAwaited
          <5>3. CASE r.next.state \notin {"terminal", "sealed"}
            <6>1. r.next.state \notin ClosedStates \cup {None}
              BY <4>1, <5>3, SMT DEF ClosedStates, None
            <6> QED BY <3>1, <6>1
          <5> QED BY <5>1, <5>2, <5>3
        <4>8. \A d \in Calls : SeenLeased(call'[d], t) => head'[t].state \notin Leasable
          BY <1>6, <2>1, <3>1, <3>2, <3>3, <3>4 DEF LeaseSeen
        <4> QED BY <2>3, <4>4, <4>6, <4>7, <4>8
      <3> QED BY <3>1, <3>5, <3>6, <3>7, <3>8 DEF TxPlan
    <2> QED BY <1>2, <2>4, <2>5, <2>6 DEF Ids
  <1> QED BY <1>8, <1>10, <1>11, Zenon DEF RInv, InStep

LEMMA InitRecords == Init => RInv
  <1> SUFFICES ASSUME Init PROVE RInv
    OBVIOUS
  <1>1. \A t \in Txs : t \in Ids /\ t # Session
    BY Distinct DEF Ids
  <1>2. (\A t \in Txs : head[t] = NoTx) /\ Session \in Ids
        /\ head[Session] = [NoRev EXCEPT !.n = 1, !.state = "active"]
    BY <1>1 DEF Init, Ids
  <1>3. head[Session].intent = None
    BY <1>2 DEF NoRev
  <1>4. \A c \in Calls : call[c] = NoCall
    BY DEF Init
  <1>5. NoCall.t = None /\ NoCall.pc = "free" /\ NoCall.tx = NoTx
    BY DEF NoCall, Free
  <1>6. Plan(NoCall)
    BY <1>5, Distinct, SMT DEF Plan, BoundFirst, Publishing
  <1>7. Fits(NoTx)
    BY Distinct, SMT DEF Fits, BoundFirst, ClosedStates, None
  <1>8. Planned
    BY <1>2, <1>3, <1>4, <1>6, <1>7 DEF Planned, Waits
  <1>9. ASSUME NEW t \in Txs
        PROVE  /\ ~Asking(NoCall, t) /\ ~Preparing(NoCall, t)
               /\ ~Closing(NoCall, t) /\ ~SeenLeased(NoCall, t)
    BY <1>5, Distinct DEF Asking, Preparing, Closing, SeenLeased
  <1>10. InStep
    BY <1>3, <1>4, <1>9, Distinct DEF InStep, OnePreparer, NotAwaited, LeaseSeen
  <1> QED BY <1>8, <1>10, InitHolds DEF RInv

LEMMA RecordsMove ==
    ASSUME RInv, Next
    PROVE  RInv'
  <1>1. IInv'
    BY StepHolds DEF RInv
  <1>2. ASSUME NEW c \in Calls, Step(c)
        PROVE  RInv'
    <2>1. CASE Lock(c) \/ Break(c) \/ Write(c) \/ Unlock(c) \/ Act(c)
      BY <1>1, <2>1, LockMoves, WriteMoves, UnlockMoves, ActMoves
    <2>2. CASE PreparePends(c) \/ BindPending(c) \/ Record(c) \/ FinalizeSession(c)
               \/ BindTerminal(c) \/ Remember(c)
      BY <1>1, <2>2, PreparePendsMoves, BindPendingMoves, RecordMoves,
         FinalizeSessionMoves, BindTerminalMoves, RememberMoves
    <2>3. ASSUME NEW t \in Txs,
                 Prepare(c, t) \/ Rehearse(c, t) \/ Approve(c, t) \/ Commit(c, t)
                   \/ CommitRecovers(c, t) \/ Seal(c, t)
          PROVE  RInv'
      BY <1>1, <2>3, PrepareMoves, RehearseMoves, ApproveMoves, CommitMoves,
         CommitRecoversMoves, SealMoves
    <2> QED BY <1>2, <2>1, <2>2, <2>3, Zenon DEF Step
  <1>3. CASE Crash
    BY <1>1, <1>3, CrashMoves
  <1> QED BY <1>2, <1>3, Zenon DEF Next

LEMMA RecordsRest ==
    ASSUME RInv, UNCHANGED vars
    PROVE  RInv'
  <1>1. IInv' /\ UNCHANGED <<head, call, raced>>
    BY StutterHolds DEF RInv, vars
  <1>2. Planned'
    BY <1>1 DEF RInv, Planned
  <1>3. InStep => InStep'
    BY <1>1, Zenon DEF InStep, OnePreparer, NotAwaited, LeaseSeen
  <1> QED BY <1>1, <1>2, <1>3, Zenon DEF RInv

\* effectTransactionCoordinator and executionMemoryRegistry: a terminal
\* transaction names the session revision that closed it, with the result it
\* recorded, and the session never waits for a transaction that is closed.
THEOREM RecordsStayTogether == Spec => []RecordsAgree
  <1>1. RInv => RecordsAgree
    <2> SUFFICES ASSUME RInv, ~raced PROVE
          /\ \A t \in Txs : head[t].state \in {"terminal", "sealed"} =>
               /\ head[t].terminal.parent = head[t].pending.n
               /\ head[t].terminal.intent = None
               /\ head[t].terminal.unknown = (head[t].result = "outcomeUnknown")
          /\ head[Session].intent # None =>
               /\ head[Session].state = "waitingApproval"
               /\ head[head[Session].intent].state \notin {"terminal", "sealed"}
      BY Zenon DEF RecordsAgree
    <2>1. \A t \in Txs : head[t].state \in {"terminal", "sealed"} =>
               /\ head[t].terminal.parent = head[t].pending.n
               /\ head[t].terminal.intent = None
               /\ head[t].terminal.unknown = (head[t].result = "outcomeUnknown")
      BY Zenon DEF RInv, Planned, Fits, ClosedStates, AlreadyFinalized
    <2>2. ASSUME head[Session].intent # None
          PROVE  /\ head[Session].state = "waitingApproval"
                 /\ head[head[Session].intent].state \notin {"terminal", "sealed"}
      <3>1. head[Session].intent \in Txs
        BY <2>2, SMT DEF RInv, IInv, Typed, SessionRevision
      <3>2. PICK t \in Txs : t = head[Session].intent
        BY <3>1
      <3>3. NotAwaited(t)
        BY DEF RInv, InStep
      <3>4. head[t].state \notin {"terminal", "sealed"}
        BY <3>2, <3>3 DEF NotAwaited, ClosedStates
      <3>5. head[Session].state = "waitingApproval"
        BY <2>2 DEF RInv, Planned, Waits
      <3> QED BY <3>2, <3>4, <3>5
    <2> QED BY <2>1, <2>2
  <1>2. RInv /\ [Next]_vars => RInv'
    BY RecordsMove, RecordsRest
  <1> QED BY InitRecords, <1>1, <1>2, PTL DEF Spec

=============================================================================
