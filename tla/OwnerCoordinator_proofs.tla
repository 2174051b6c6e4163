------------------------ MODULE OwnerCoordinator_proofs ------------------------
(***************************************************************************)
(* The coordinators implement the lease of OwnershipLease, for any number  *)
(* of tabs, epochs and failures: one tab at a time acts as the owner, under*)
(* the newest durable epoch, and nobody claims a newer one meanwhile.      *)
(*                                                                         *)
(* An action changes the coordinator of one tab. Fits says how the fields  *)
(* of one coordinator belong together, and what they say of the lock and   *)
(* the durable epoch; TabStep that a step that keeps this for its own tab  *)
(* keeps it for all, because whoever stands inside the lock is its holder. *)
(***************************************************************************)
EXTENDS OwnerCoordinator, FiniteSetTheorems, TLAPS

-----------------------------------------------------------------------------
(* The inductive invariant *)

States == {"idle", "waiting", "acquiring", "owned", "stopping", "stopped", "failed"}
Places == {"none", "queued", "claiming", "claimed", "acquired", "releasing", "holding",
           "finally", "settled"}
Promises == {"none", "pending", "resolved", "rejected", "handled"}
Stops == {"none", "waitOnly", "waitThenStopped", "waitThenResult", "waitOwned", "retryWait",
          "release", "retryRelease"}

Coordinator ==
    [state : States, callback : Places, started : Promises, token : Nat, error : BOOLEAN,
     threw : BOOLEAN, listening : BOOLEAN, aborted : BOOLEAN, signalled : BOOLEAN,
     stopRequested : BOOLEAN, adopted : BOOLEAN, lostNotified : BOOLEAN,
     epochReleased : BOOLEAN, holdReleased : BOOLEAN, stopFailed : BOOLEAN]

Owner == [ownerId : Tabs \cup {None}, epoch : Nat, active : BOOLEAN]

Typed ==
    /\ co \in [Tabs -> Coordinator]
    /\ stop \in [Tabs -> [Callers -> Stops]]
    /\ holder \in Tabs \cup {None}
    /\ owner \in Owner

\* The places of _holdOwnership from the grant on, and those past onAcquired.
Inside == {"claiming", "claimed", "acquired", "releasing", "holding", "finally"}
Past == {"holding", "finally", "settled"}

\* Some caller of stop() is about to release the epoch and to end the hold.
Releases(s) == \E k \in Callers : s[k] \in {"release", "retryRelease"}

\* The coordinator c of tab t and the stop() calls s on it fit each other, the
\* holder h of the lock and the durable epoch e.
Fits(t, c, s, h, e) ==
    /\ c.callback \in Inside => h = t
    /\ c.callback = "claimed" \/ c.adopted => c.token = e
    /\ c.adopted => c.callback \in {"acquired", "holding"}
    /\ c.holdReleased => c.callback \in Past /\ ~c.adopted
    /\ Releases(s) => c.callback \in Past /\ ~c.adopted
    /\ c.state = "owned" => c.callback \in Past
    /\ c.state = "failed" => c.callback = "settled"
    /\ c.state = "idle" => c.callback = "none" /\ ~c.listening

IInv == Typed /\ \A t \in Tabs : Fits(t, co[t], stop[t], holder, owner.epoch)

-----------------------------------------------------------------------------
(* One coordinator changes *)

LEMMA SetField ==
    ASSUME NEW r \in Coordinator
    PROVE  /\ \A x \in States : [r EXCEPT !.state = x] \in Coordinator
           /\ \A x \in Places : [r EXCEPT !.callback = x] \in Coordinator
           /\ \A x \in Promises : [r EXCEPT !.started = x] \in Coordinator
           /\ \A x \in Nat : [r EXCEPT !.token = x] \in Coordinator
           /\ \A x \in BOOLEAN : [r EXCEPT !.error = x] \in Coordinator
           /\ \A x \in BOOLEAN : [r EXCEPT !.threw = x] \in Coordinator
           /\ \A x \in BOOLEAN : [r EXCEPT !.listening = x] \in Coordinator
           /\ \A x \in BOOLEAN : [r EXCEPT !.aborted = x] \in Coordinator
           /\ \A x \in BOOLEAN : [r EXCEPT !.signalled = x] \in Coordinator
           /\ \A x \in BOOLEAN : [r EXCEPT !.stopRequested = x] \in Coordinator
           /\ \A x \in BOOLEAN : [r EXCEPT !.adopted = x] \in Coordinator
           /\ \A x \in BOOLEAN : [r EXCEPT !.lostNotified = x] \in Coordinator
           /\ \A x \in BOOLEAN : [r EXCEPT !.epochReleased = x] \in Coordinator
           /\ \A x \in BOOLEAN : [r EXCEPT !.holdReleased = x] \in Coordinator
           /\ \A x \in BOOLEAN : [r EXCEPT !.stopFailed = x] \in Coordinator
  BY SMT DEF Coordinator

LEMMA Values ==
    /\ {"idle", "waiting", "acquiring", "owned", "stopping", "stopped", "failed"} \subseteq States
    /\ {"none", "queued", "claiming", "claimed", "acquired", "releasing", "holding",
        "finally", "settled"} \subseteq Places
    /\ {"none", "pending", "resolved", "rejected", "handled"} \subseteq Promises
    /\ TRUE \in BOOLEAN /\ FALSE \in BOOLEAN
  BY Zenon DEF States, Places, Promises

LEMMA FreshFields ==
    /\ Fresh \in Coordinator
    /\ Fresh.state = "idle" /\ Fresh.callback = "none" /\ Fresh.token = 0
    /\ ~Fresh.adopted /\ ~Fresh.holdReleased /\ ~Fresh.listening
  BY SMT DEF Fresh, Coordinator, States, Places, Promises

LEMMA FreshFits ==
    ASSUME NEW t, NEW h, NEW e
    PROVE  Fits(t, Fresh, NoStop, h, e) /\ NoStop \in [Callers -> Stops]
  <1>1. NoStop \in [Callers -> Stops] /\ ~Releases(NoStop)
    BY SMT DEF NoStop, Stops, Releases
  <1> QED BY <1>1, FreshFields, SMT DEF Fits, Inside, Past

LEMMA RejectedType ==
    ASSUME NEW c \in Coordinator
    PROVE  Rejected(c) \in Promises
  <1>1. c.started \in Promises
    BY SMT DEF Coordinator
  <1> QED BY <1>1, Values, Zenon DEF Rejected

\* What the invariant says of one tab.
LEMMA OneTab ==
    ASSUME IInv, NEW t \in Tabs
    PROVE  /\ co[t] \in Coordinator /\ stop[t] \in [Callers -> Stops]
           /\ Fits(t, co[t], stop[t], holder, owner.epoch)
           /\ Rejected(co[t]) \in Promises
  BY RejectedType DEF IInv, Typed

\* The lease stays while nobody adopts or lets go.
LEMMA HeldStays ==
    ASSUME \A u \in Tabs : /\ co'[u].adopted = co[u].adopted
                           /\ co[u].adopted => co'[u].token = co[u].token
    PROVE  Held' = Held
  <1>1. Adopters' = Adopters
    BY DEF Adopters
  <1>2. CASE Adopters = {}
    BY <1>1, <1>2 DEF Held
  <1>3. CASE Adopters # {}
    <2> DEFINE t == CHOOSE u \in Adopters : TRUE
    <2>1. t \in Tabs /\ co[t].adopted
      BY <1>3 DEF Adopters
    <2> QED BY <1>1, <1>3, <2>1 DEF Held
  <1> QED BY <1>2, <1>3

\* A step of one tab t keeps what holds of the others: they are not inside the
\* lock that t holds, and nothing else of theirs depends on t.
LEMMA TabStep ==
    ASSUME IInv, NEW t \in Tabs, NEW c \in Coordinator, NEW s \in [Callers -> Stops],
           co' = [co EXCEPT ![t] = c], stop' = [stop EXCEPT ![t] = s],
           holder' \in Tabs \cup {None}, owner' \in Owner,
           \/ holder' = holder /\ owner'.epoch = owner.epoch
           \/ holder \in {None, t},
           Fits(t, c, s, holder', owner'.epoch)
    PROVE  /\ IInv'
           /\ co'[t] = c /\ \A u \in Tabs \ {t} : co'[u] = co[u]
  <1>1. /\ co' \in [Tabs -> Coordinator] /\ co'[t] = c
        /\ \A u \in Tabs \ {t} : co'[u] = co[u]
    BY Zenon DEF IInv, Typed
  <1>2. /\ stop' \in [Tabs -> [Callers -> Stops]] /\ stop'[t] = s
        /\ \A u \in Tabs \ {t} : stop'[u] = stop[u]
    BY Zenon DEF IInv, Typed
  <1>3. ASSUME NEW u \in Tabs \ {t}
        PROVE  Fits(u, co[u], stop[u], holder', owner'.epoch)
    <2>1. Fits(u, co[u], stop[u], holder, owner.epoch) /\ u # None
      BY NoneAssumption DEF IInv
    <2>2. CASE holder' = holder /\ owner'.epoch = owner.epoch
      BY <2>1, <2>2
    <2>3. CASE holder \in {None, t}
      <3>1. co[u].callback \notin Inside
        BY <2>1, <2>3 DEF Fits
      <3>2. co[u].callback # "claimed" /\ ~co[u].adopted
        BY <2>1, <3>1, SMT DEF Fits, Inside
      <3> QED BY <2>1, <3>1, <3>2, Zenon DEF Fits
    <2> QED BY <2>2, <2>3
  <1>4. \A u \in Tabs : Fits(u, co'[u], stop'[u], holder', owner'.epoch)
    BY <1>1, <1>2, <1>3
  <1> QED BY <1>1, <1>2, <1>4 DEF IInv, Typed

LeaseStep == [Lease!Next]_(Lease!vars)

\* A step that neither adopts nor lets go, nor claims.
LEMMA QuietStep ==
    ASSUME IInv, NEW t \in Tabs, NEW c \in Coordinator, NEW s \in [Callers -> Stops],
           co' = [co EXCEPT ![t] = c], stop' = [stop EXCEPT ![t] = s],
           holder' \in Tabs \cup {None}, owner' \in Owner, owner'.epoch = owner.epoch,
           holder' = holder \/ holder \in {None, t},
           Fits(t, c, s, holder', owner.epoch),
           c.adopted = co[t].adopted, c.adopted => c.token = co[t].token
    PROVE  IInv' /\ LeaseStep
  <1>1. IInv' /\ co'[t] = c /\ \A u \in Tabs \ {t} : co'[u] = co[u]
    BY TabStep
  <1>2. \A u \in Tabs : /\ co'[u].adopted = co[u].adopted
                        /\ co[u].adopted => co'[u].token = co[u].token
    BY <1>1
  <1>3. Held' = Held
    BY <1>2, HeldStays
  <1>4. Epoch' = Epoch
    BY DEF Epoch
  <1> QED BY <1>1, <1>3, <1>4 DEF LeaseStep, Lease!vars

\* A step that lets go: the tab that had adopted was the only one.
LEMMA LosingStep ==
    ASSUME IInv, NEW t \in Tabs, NEW c \in Coordinator, NEW s \in [Callers -> Stops],
           co' = [co EXCEPT ![t] = c], stop' = [stop EXCEPT ![t] = s],
           holder' \in {holder, None}, owner' = owner,
           Fits(t, c, s, holder', owner.epoch),
           holder' = holder \/ holder \in {None, t},
           ~c.adopted
    PROVE  IInv' /\ LeaseStep
  <1>0. holder' \in Tabs \cup {None} /\ owner' \in Owner /\ owner'.epoch = owner.epoch
    BY DEF IInv, Typed
  <1>1. CASE ~co[t].adopted
    <2>1. co[t].adopted \in BOOLEAN /\ c.adopted \in BOOLEAN
      BY OneTab, SMT DEF Coordinator
    <2>2. c.adopted = co[t].adopted
      BY <1>1, <2>1, Zenon
    <2> QED BY <1>0, <2>2, QuietStep
  <1>2. CASE co[t].adopted
    <2>1. IInv' /\ co'[t] = c /\ \A u \in Tabs \ {t} : co'[u] = co[u]
      BY <1>0, TabStep
    <2>2. holder = t
      BY <1>2, OneTab, SMT DEF Fits, Inside
    <2>3. \A u \in Tabs \ {t} : ~co[u].adopted
      BY <2>2, OneTab, SMT DEF Fits, Inside
    <2>4. Adopters' = {}
      BY <2>1, <2>3 DEF Adopters
    <2>5. Held' = None /\ Epoch' = Epoch
      BY <2>4, <1>0 DEF Held, Epoch
    <2> QED BY <2>1, <2>5 DEF LeaseStep, Lease!Next, Lease!Lose
  <1> QED BY <1>1, <1>2

-----------------------------------------------------------------------------
(* start(), the abort listener, and the lock manager *)

\* What a step that leaves stop(), the lock or the owner record alone knows.
LEMMA Still ==
    ASSUME IInv, NEW t \in Tabs
    PROVE  /\ stop = [stop EXCEPT ![t] = stop[t]] /\ stop[t] \in [Callers -> Stops]
           /\ holder \in Tabs \cup {None} /\ owner \in Owner
  BY Zenon DEF IInv, Typed

\* releaseOwner() leaves the epoch as it is.
LEMMA ReleasedOwner ==
    ASSUME IInv, owner' \in {owner, [owner EXCEPT !.active = FALSE]}
    PROVE  owner' \in Owner /\ owner'.epoch = owner.epoch
  <1>1. owner \in Owner
    BY DEF IInv, Typed
  <1>2. /\ [owner EXCEPT !.active = FALSE] \in Owner
        /\ [owner EXCEPT !.active = FALSE].epoch = owner.epoch
    <2>1. \A o \in Owner, x \in BOOLEAN :
            [o EXCEPT !.active = x] \in Owner /\ [o EXCEPT !.active = x].epoch = o.epoch
      BY SMT DEF Owner
    <2> QED BY <1>1, <2>1, Values, Zenon
  <1> QED BY <1>1, <1>2, Zenon

LEMMA NewCoordinatorStep ==
    ASSUME IInv, NEW t \in Tabs, NewCoordinator(t)
    PROVE  IInv' /\ LeaseStep
  <1>1. co' = [co EXCEPT ![t] = Fresh] /\ UNCHANGED <<stop, holder, owner>>
        /\ stop[t] = NoStop /\ co[t].callback \in {"none", "settled"}
    BY DEF NewCoordinator
  <1>2. ~co[t].adopted
    BY <1>1, OneTab, SMT DEF Fits
  <1>3. Fits(t, Fresh, stop[t], holder, owner.epoch)
    BY <1>1, FreshFits
  <1> QED BY <1>1, <1>2, <1>3, FreshFields, Still, OneTab, LosingStep

LEMMA StartStep ==
    ASSUME IInv, NEW t \in Tabs, Start(t)
    PROVE  IInv' /\ LeaseStep
  <1> DEFINE c == [co[t] EXCEPT !.state = "waiting", !.callback = "queued", !.started = "pending",
                          !.listening = TRUE]
  <1>1. c \in Coordinator
    BY OneTab, SetField, Values, Zenon
  <1>2. /\ c.state = "waiting" /\ c.callback = "queued" /\ c.token = co[t].token
        /\ c.adopted = co[t].adopted /\ c.holdReleased = co[t].holdReleased
        /\ c.listening = TRUE
    BY OneTab, SMT DEF Coordinator
  <1>3. co' = [co EXCEPT ![t] = c] /\ UNCHANGED <<stop, holder, owner>>
    BY DEF Start
  <1>4. co[t].state = "idle"
    BY DEF Start
  <1> HIDE DEF c
  <1>5. Fits(t, c, stop[t], holder, owner.epoch)
    BY <1>2, <1>4, OneTab, SMT DEF Fits, Inside, Past
  <1> QED BY <1>1, <1>2, <1>3, <1>5, Still, QuietStep

LEMMA ExternalAbortStep ==
    ASSUME IInv, NEW t \in Tabs, ExternalAbort(t)
    PROVE  IInv' /\ LeaseStep
  <1> DEFINE c == [co[t] EXCEPT !.aborted = TRUE, !.signalled = TRUE, !.error = TRUE,
                          !.state = "stopping", !.listening = FALSE,
                          !.started = Rejected(co[t])]
  <1>1. c \in Coordinator
    BY OneTab, SetField, Values, Zenon
  <1>2. /\ c.state = "stopping" /\ c.callback = co[t].callback /\ c.token = co[t].token
        /\ c.adopted = co[t].adopted /\ c.holdReleased = co[t].holdReleased
        /\ c.listening = FALSE
    BY OneTab, SMT DEF Coordinator
  <1>3. co' = [co EXCEPT ![t] = c] /\ UNCHANGED <<stop, holder, owner>>
    BY DEF ExternalAbort
  <1>4. co[t].listening
    BY DEF ExternalAbort
  <1> HIDE DEF c
  <1>5. Fits(t, c, stop[t], holder, owner.epoch)
    BY <1>2, <1>4, OneTab, SMT DEF Fits, Inside, Past
  <1> QED BY <1>1, <1>2, <1>3, <1>5, Still, QuietStep

LEMMA DropRequestStep ==
    ASSUME IInv, NEW t \in Tabs, DropRequest(t)
    PROVE  IInv' /\ LeaseStep
  <1>0. PICK outcome \in {"stopped", "failed"} :
          co' = [co EXCEPT ![t].callback = "settled", ![t].state = outcome]
    BY Zenon DEF DropRequest
  <1> DEFINE c == [co[t] EXCEPT !.callback = "settled", !.state = outcome]
  <1>1. c \in Coordinator
    BY OneTab, SetField, Values, Zenon
  <1>2. /\ c.state = outcome /\ c.callback = "settled" /\ c.token = co[t].token
        /\ c.adopted = co[t].adopted /\ c.holdReleased = co[t].holdReleased
    BY OneTab, SMT DEF Coordinator
  <1>3. co' = [co EXCEPT ![t] = c] /\ UNCHANGED <<stop, holder, owner>>
        /\ co[t].callback = "queued"
    BY <1>0 DEF DropRequest
  <1> HIDE DEF c
  <1>4. Fits(t, c, stop[t], holder, owner.epoch)
    BY <1>2, <1>3, OneTab, SMT DEF Fits, Inside, Past
  <1> QED BY <1>1, <1>2, <1>3, <1>4, Still, QuietStep

\* Whoever waits in the queue has not adopted, and is inside once it is granted.
LEMMA GrantStep ==
    ASSUME IInv, NEW t \in Tabs, Grant(t)
    PROVE  IInv' /\ LeaseStep
  <1>0. holder = None /\ holder' = t /\ co[t].callback = "queued" /\ UNCHANGED <<stop, owner>>
    BY DEF Grant
  <1>1. ASSUME NEW c \in Coordinator, co' = [co EXCEPT ![t] = c],
               c.callback \in {"finally", "claiming"},
               c.state = co[t].state, c.token = co[t].token, c.adopted = co[t].adopted,
               c.holdReleased = co[t].holdReleased
        PROVE  IInv' /\ LeaseStep
    <2>1. Fits(t, c, stop[t], holder', owner.epoch)
      BY <1>0, <1>1, OneTab, SMT DEF Fits, Inside, Past
    <2> QED BY <1>0, <1>1, <2>1, Still, QuietStep
  <1>2. CASE co' = [co EXCEPT ![t].callback = "finally"]
    <2> DEFINE c == [co[t] EXCEPT !.callback = "finally"]
    <2>1. c \in Coordinator
      BY OneTab, SetField, Values, Zenon
    <2>2. /\ c.callback = "finally" /\ c.state = co[t].state /\ c.token = co[t].token
          /\ c.adopted = co[t].adopted /\ c.holdReleased = co[t].holdReleased
      BY OneTab, SMT DEF Coordinator
    <2>3. co' = [co EXCEPT ![t] = c]
      BY <1>2
    <2> HIDE DEF c
    <2> QED BY <1>1, <2>1, <2>2, <2>3
  <1>3. CASE co' = [co EXCEPT ![t].callback = "finally", ![t].error = TRUE, ![t].threw = TRUE]
    <2> DEFINE c == [co[t] EXCEPT !.callback = "finally", !.error = TRUE, !.threw = TRUE]
    <2>1. c \in Coordinator
      BY OneTab, SetField, Values, Zenon
    <2>2. /\ c.callback = "finally" /\ c.state = co[t].state /\ c.token = co[t].token
          /\ c.adopted = co[t].adopted /\ c.holdReleased = co[t].holdReleased
      BY OneTab, SMT DEF Coordinator
    <2>3. co' = [co EXCEPT ![t] = c]
      BY <1>3
    <2> HIDE DEF c
    <2> QED BY <1>1, <2>1, <2>2, <2>3
  <1>4. CASE co' = [co EXCEPT ![t].callback = "claiming"]
    <2> DEFINE c == [co[t] EXCEPT !.callback = "claiming"]
    <2>1. c \in Coordinator
      BY OneTab, SetField, Values, Zenon
    <2>2. /\ c.callback = "claiming" /\ c.state = co[t].state /\ c.token = co[t].token
          /\ c.adopted = co[t].adopted /\ c.holdReleased = co[t].holdReleased
      BY OneTab, SMT DEF Coordinator
    <2>3. co' = [co EXCEPT ![t] = c]
      BY <1>4
    <2> HIDE DEF c
    <2> QED BY <1>1, <2>1, <2>2, <2>3
  <1> QED BY <1>2, <1>3, <1>4, Zenon DEF Grant

-----------------------------------------------------------------------------
(* _holdOwnership() after the grant *)

\* The durable claim: nobody has adopted, because this tab holds the lock and
\* has not adopted itself.
LEMMA ClaimOwnerStep ==
    ASSUME IInv, NEW t \in Tabs, ClaimOwner(t)
    PROVE  IInv' /\ LeaseStep
  <1> DEFINE e == owner.epoch + 1
             c == [co[t] EXCEPT !.callback = "claimed", !.token = e]
  <1>0. owner \in Owner /\ e \in Nat
    BY SMT DEF IInv, Typed, Owner
  <1>1. c \in Coordinator
    BY <1>0, OneTab, SetField, Values, Zenon
  <1>2. /\ c.state = co[t].state /\ c.callback = "claimed" /\ c.token = e
        /\ c.adopted = co[t].adopted /\ c.holdReleased = co[t].holdReleased
    BY OneTab, SMT DEF Coordinator
  <1>3. co' = [co EXCEPT ![t] = c] /\ UNCHANGED <<stop, holder>>
        /\ owner' = [ownerId |-> t, epoch |-> e, active |-> TRUE]
    BY DEF ClaimOwner
  <1>4. co[t].callback = "claiming"
    BY DEF ClaimOwner
  <1> HIDE DEF c, e
  <1>5. owner' \in Owner /\ owner'.epoch = e
    BY <1>0, <1>3, SMT DEF Owner
  <1>6. holder = t /\ ~co[t].adopted
    BY <1>4, OneTab, SMT DEF Fits, Inside
  <1>7. Fits(t, c, stop[t], holder, e)
    BY <1>2, <1>4, <1>6, OneTab, SMT DEF Fits, Inside, Past
  <1>8. IInv' /\ co'[t] = c /\ \A u \in Tabs \ {t} : co'[u] = co[u]
    BY <1>1, <1>3, <1>5, <1>6, <1>7, Still, TabStep
  <1>9. \A u \in Tabs : ~co[u].adopted
    BY <1>6, OneTab, SMT DEF Fits, Inside
  <1>10. Adopters = {} /\ Adopters' = {}
    BY <1>2, <1>8, <1>9 DEF Adopters
  <1>11. Held = None /\ Held' = None
    BY <1>10 DEF Held
  <1>12. Epoch' = Epoch + 1
    BY <1>5 DEF Epoch, e
  <1> QED BY <1>8, <1>11, <1>12 DEF LeaseStep, Lease!Next, Lease!Claim

LEMMA ClaimFailsStep ==
    ASSUME IInv, NEW t \in Tabs, ClaimFails(t)
    PROVE  IInv' /\ LeaseStep
  <1> DEFINE c == [co[t] EXCEPT !.callback = "finally", !.threw = TRUE, !.error = TRUE,
                          !.started = Rejected(co[t])]
  <1>1. c \in Coordinator
    BY OneTab, SetField, Values, Zenon
  <1>2. /\ c.state = co[t].state /\ c.callback = "finally" /\ c.token = co[t].token
        /\ c.adopted = co[t].adopted /\ c.holdReleased = co[t].holdReleased
        /\ c.listening = co[t].listening
    BY OneTab, SMT DEF Coordinator
  <1>3. co' = [co EXCEPT ![t] = c] /\ UNCHANGED <<stop, holder, owner>>
    BY DEF ClaimFails
  <1>4. co[t].callback = "claiming"
    BY DEF ClaimFails
  <1> HIDE DEF c
  <1>5. Fits(t, c, stop[t], holder, owner.epoch)
    BY <1>2, <1>4, OneTab, SMT DEF Fits, Inside, Past
  <1> QED BY <1>1, <1>2, <1>3, <1>5, Still, QuietStep

\* onAcquired() gives the machines the token: the lease is acquired.
LEMMA ClaimedStep ==
    ASSUME IInv, NEW t \in Tabs, Claimed(t)
    PROVE  IInv' /\ LeaseStep
  <1>0. co[t].callback = "claimed" /\ UNCHANGED <<stop, holder, owner>>
    BY DEF Claimed
  <1>1. holder = t /\ ~co[t].adopted /\ co[t].token = owner.epoch /\ ~co[t].holdReleased
    BY <1>0, OneTab, SMT DEF Fits, Inside, Past
  <1>2. CASE co' = [co EXCEPT ![t].callback = "releasing"]
    <2> DEFINE c == [co[t] EXCEPT !.callback = "releasing"]
    <2>1. c \in Coordinator
      BY OneTab, SetField, Values, Zenon
    <2>2. /\ c.callback = "releasing" /\ c.state = co[t].state /\ c.token = co[t].token
          /\ c.adopted = co[t].adopted /\ c.holdReleased = co[t].holdReleased
      BY OneTab, SMT DEF Coordinator
    <2>3. co' = [co EXCEPT ![t] = c]
      BY <1>2
    <2> HIDE DEF c
    <2>4. Fits(t, c, stop[t], holder, owner.epoch)
      BY <1>0, <2>2, OneTab, SMT DEF Fits, Inside, Past
    <2> QED BY <1>0, <2>1, <2>2, <2>3, <2>4, Still, QuietStep
  <1>3. CASE co' = [co EXCEPT ![t].callback = "acquired", ![t].state = "acquiring",
                              ![t].adopted = TRUE]
    <2> DEFINE c == [co[t] EXCEPT !.callback = "acquired", !.state = "acquiring",
                                  !.adopted = TRUE]
    <2>1. c \in Coordinator
      BY OneTab, SetField, Values, Zenon
    <2>2. /\ c.callback = "acquired" /\ c.state = "acquiring" /\ c.token = co[t].token
          /\ c.adopted /\ c.holdReleased = co[t].holdReleased
      BY OneTab, SMT DEF Coordinator
    <2>3. co' = [co EXCEPT ![t] = c]
      BY <1>3
    <2> HIDE DEF c
    <2>4. Fits(t, c, stop[t], holder, owner.epoch)
      BY <1>0, <1>1, <2>2, OneTab, SMT DEF Fits, Inside, Past
    <2>5. IInv' /\ co'[t] = c /\ \A u \in Tabs \ {t} : co'[u] = co[u]
      BY <1>0, <2>1, <2>3, <2>4, Still, TabStep
    <2>6. \A u \in Tabs : ~co[u].adopted
      BY <1>1, OneTab, SMT DEF Fits, Inside
    <2>7. Adopters = {} /\ Adopters' = {t}
      BY <2>2, <2>5, <2>6 DEF Adopters
    <2>8. Held = None /\ Held' = [tab |-> t, epoch |-> Epoch] /\ Epoch' = Epoch
      BY <1>0, <1>1, <2>2, <2>5, <2>7 DEF Held, Epoch
    <2> QED BY <2>5, <2>8 DEF LeaseStep, Lease!Next, Lease!Acquire
  <1>4. CASE co' = [co EXCEPT ![t].callback = "finally", ![t].threw = TRUE,
                              ![t].state = "acquiring", ![t].error = TRUE,
                              ![t].started = Rejected(co[t])]
    <2> DEFINE c == [co[t] EXCEPT !.callback = "finally", !.threw = TRUE,
                                  !.state = "acquiring", !.error = TRUE,
                                  !.started = Rejected(co[t])]
    <2>1. c \in Coordinator
      BY OneTab, SetField, Values, Zenon
    <2>2. /\ c.callback = "finally" /\ c.state = "acquiring" /\ c.token = co[t].token
          /\ c.adopted = co[t].adopted /\ c.holdReleased = co[t].holdReleased
      BY OneTab, SMT DEF Coordinator
    <2>3. co' = [co EXCEPT ![t] = c]
      BY <1>4
    <2> HIDE DEF c
    <2>4. Fits(t, c, stop[t], holder, owner.epoch)
      BY <1>0, <1>1, <2>2, OneTab, SMT DEF Fits, Inside, Past
    <2> QED BY <1>0, <2>1, <2>2, <2>3, <2>4, Still, QuietStep
  <1> QED BY <1>2, <1>3, <1>4, Zenon DEF Claimed

\* onAcquired() returns: the hold begins, or the machines are told to let go at once.
LEMMA AcquiredStep ==
    ASSUME IInv, NEW t \in Tabs, Acquired(t)
    PROVE  IInv' /\ LeaseStep
  <1>0. co[t].callback = "acquired" /\ UNCHANGED <<stop, holder, owner>>
    BY DEF Acquired
  <1>1. CASE co' = [co EXCEPT ![t].callback = "releasing", ![t].lostNotified = TRUE,
                              ![t].adopted = FALSE]
    <2> DEFINE c == [co[t] EXCEPT !.callback = "releasing", !.lostNotified = TRUE, !.adopted = FALSE]
    <2>1. c \in Coordinator
      BY OneTab, SetField, Values, Zenon
    <2>2. /\ c.state = co[t].state /\ c.callback = "releasing" /\ c.token = co[t].token
          /\ ~c.adopted /\ c.holdReleased = co[t].holdReleased /\ c.listening = co[t].listening
      BY OneTab, SMT DEF Coordinator
    <2>3. co' = [co EXCEPT ![t] = c]
      BY <1>1
    <2> HIDE DEF c
    <2>4. Fits(t, c, stop[t], holder, owner.epoch)
      BY <1>0, <2>2, OneTab, SMT DEF Fits, Inside, Past
    <2> QED BY <1>0, <2>1, <2>2, <2>3, <2>4, Still, OneTab, LosingStep
  <1>2. CASE co' = [co EXCEPT ![t].callback = "holding", ![t].state = "owned",
                              ![t].listening = FALSE,
                              ![t].started = IF @ = "pending" THEN "resolved" ELSE @]
    <2>0. co[t].started \in Promises
      BY OneTab, SMT DEF Coordinator
    <2> DEFINE c == [co[t] EXCEPT !.callback = "holding", !.state = "owned", !.listening = FALSE,
                       !.started = IF co[t].started = "pending" THEN "resolved" ELSE co[t].started]
    <2>1. c \in Coordinator
      BY OneTab, <2>0, SetField, Values, Zenon
    <2>2. /\ c.state = "owned" /\ c.callback = "holding" /\ c.token = co[t].token
          /\ c.adopted = co[t].adopted /\ c.holdReleased = co[t].holdReleased /\ ~c.listening
      BY OneTab, <2>0, SMT DEF Coordinator
    <2>3. co' = [co EXCEPT ![t] = c]
      BY <1>2
    <2> HIDE DEF c
    <2>4. Fits(t, c, stop[t], holder, owner.epoch)
      BY <1>0, <2>2, OneTab, SMT DEF Fits, Inside, Past
    <2> QED BY <1>0, <2>1, <2>2, <2>3, <2>4, Still, OneTab, QuietStep
  <1> QED BY <1>1, <1>2, Zenon DEF Acquired

LEMMA ReleaseEarlyStep ==
    ASSUME IInv, NEW t \in Tabs, ReleaseEarly(t)
    PROVE  IInv' /\ LeaseStep
  <1>0. co[t].callback = "releasing" /\ UNCHANGED <<stop, holder>>
    BY DEF ReleaseEarly
  <1>1. owner' \in Owner /\ owner'.epoch = owner.epoch
    BY ReleasedOwner DEF ReleaseEarly
  <1>2. CASE co' = [co EXCEPT ![t].callback = "finally", ![t].epochReleased = TRUE]
    <2> DEFINE c == [co[t] EXCEPT !.callback = "finally", !.epochReleased = TRUE]
    <2>1. c \in Coordinator
      BY OneTab, SetField, Values, Zenon
    <2>2. /\ c.state = co[t].state /\ c.callback = "finally" /\ c.token = co[t].token
          /\ c.adopted = co[t].adopted /\ c.holdReleased = co[t].holdReleased
          /\ c.listening = co[t].listening
      BY OneTab, SMT DEF Coordinator
    <2>3. co' = [co EXCEPT ![t] = c]
      BY <1>2
    <2> HIDE DEF c
    <2>4. Fits(t, c, stop[t], holder, owner.epoch)
      BY <1>0, <1>1, <2>2, OneTab, SMT DEF Fits, Inside, Past
    <2> QED BY <1>0, <1>1, <2>1, <2>2, <2>3, <2>4, Still, OneTab, QuietStep
  <1>3. CASE co' = [co EXCEPT ![t].callback = "finally", ![t].threw = TRUE, ![t].error = TRUE]
    <2> DEFINE c == [co[t] EXCEPT !.callback = "finally", !.threw = TRUE, !.error = TRUE]
    <2>1. c \in Coordinator
      BY OneTab, SetField, Values, Zenon
    <2>2. /\ c.state = co[t].state /\ c.callback = "finally" /\ c.token = co[t].token
          /\ c.adopted = co[t].adopted /\ c.holdReleased = co[t].holdReleased
          /\ c.listening = co[t].listening
      BY OneTab, SMT DEF Coordinator
    <2>3. co' = [co EXCEPT ![t] = c]
      BY <1>3
    <2> HIDE DEF c
    <2>4. Fits(t, c, stop[t], holder, owner.epoch)
      BY <1>0, <1>1, <2>2, OneTab, SMT DEF Fits, Inside, Past
    <2> QED BY <1>0, <1>1, <2>1, <2>2, <2>3, <2>4, Still, OneTab, QuietStep
  <1> QED BY <1>2, <1>3, Zenon DEF ReleaseEarly

\* The hold ends after the machines were told: nobody runs under the token.
LEMMA EndHoldStep ==
    ASSUME IInv, NEW t \in Tabs, EndHold(t)
    PROVE  IInv' /\ LeaseStep
  <1>0. /\ co[t].callback = "holding" /\ co[t].holdReleased /\ UNCHANGED <<stop, holder, owner>>
        /\ co' = [co EXCEPT ![t].callback = "finally"]
    BY DEF EndHold
  <1> DEFINE c == [co[t] EXCEPT !.callback = "finally"]
  <1>1. c \in Coordinator
    BY OneTab, SetField, Values, Zenon
  <1>2. /\ c.state = co[t].state /\ c.callback = "finally" /\ c.token = co[t].token
        /\ c.adopted = co[t].adopted /\ c.holdReleased = co[t].holdReleased
        /\ c.listening = co[t].listening
    BY OneTab, SMT DEF Coordinator
  <1>3. co' = [co EXCEPT ![t] = c]
    BY <1>0
  <1> HIDE DEF c
  <1>4. Fits(t, c, stop[t], holder, owner.epoch)
    BY <1>0, <1>2, OneTab, SMT DEF Fits, Inside, Past
  <1> QED BY <1>0, <1>1, <1>2, <1>3, <1>4, Still, OneTab, QuietStep

\* The lock goes back, and nobody runs under the token any more.
LEMMA FinallyStep ==
    ASSUME IInv, NEW t \in Tabs, Finally(t)
    PROVE  IInv' /\ LeaseStep
  <1> DEFINE Settled(b) == [b EXCEPT !.callback = "settled", !.listening = FALSE,
                                     !.state = IF b.threw THEN "failed" ELSE @,
                                     !.started = IF b.threw THEN Rejected(b) ELSE @]
  <1>0. co[t].callback = "finally" /\ holder' = None /\ UNCHANGED stop
    BY DEF Finally
  <1>1. owner' \in Owner /\ owner'.epoch = owner.epoch
    BY ReleasedOwner DEF Finally
  <1>2. ASSUME NEW b \in Coordinator, co' = [co EXCEPT ![t] = Settled(b)],
               b.state = co[t].state, b.token = co[t].token, b.adopted = co[t].adopted,
               b.holdReleased = co[t].holdReleased
        PROVE  IInv' /\ LeaseStep
    <2> DEFINE c == Settled(b)
    <2>0. /\ b.started \in Promises /\ b.state \in States /\ Rejected(b) \in Promises
          /\ b.threw \in BOOLEAN
      BY RejectedType, SMT DEF Coordinator
    <2>1. c \in Coordinator
      BY <2>0, SetField, Values, Zenon
    <2>2. /\ c.state \in {"failed", co[t].state} /\ c.callback = "settled" /\ ~c.listening
          /\ c.token = co[t].token /\ c.adopted = co[t].adopted
          /\ c.holdReleased = co[t].holdReleased
      BY <1>2, SMT DEF Coordinator
    <2>3. co' = [co EXCEPT ![t] = c]
      BY <1>2
    <2> HIDE DEF c
    <2>4. Fits(t, c, stop[t], None, owner.epoch)
      BY <1>0, <2>2, OneTab, SMT DEF Fits, Inside, Past
    <2>5. holder \in {None, t}
      BY <1>0, OneTab, SMT DEF Fits, Inside
    <2> QED BY <1>0, <1>1, <2>1, <2>2, <2>3, <2>4, <2>5, Still, QuietStep
  <1>3. \/ co' = [co EXCEPT ![t] = Settled(co[t])]
        \/ co' = [co EXCEPT ![t] = Settled([co[t] EXCEPT !.epochReleased = TRUE])]
        \/ co' = [co EXCEPT ![t] = Settled([co[t] EXCEPT !.error = TRUE])]
    BY DEF Finally
  <1> HIDE DEF Settled
  <1>4. CASE co' = [co EXCEPT ![t] = Settled(co[t])]
    BY <1>2, <1>4, OneTab
  <1>5. CASE co' = [co EXCEPT ![t] = Settled([co[t] EXCEPT !.epochReleased = TRUE])]
    <2> DEFINE b == [co[t] EXCEPT !.epochReleased = TRUE]
    <2>1. b \in Coordinator
      BY OneTab, SetField, Values, Zenon
    <2>2. /\ b.state = co[t].state /\ b.token = co[t].token /\ b.adopted = co[t].adopted
          /\ b.holdReleased = co[t].holdReleased
      BY OneTab, SMT DEF Coordinator
    <2>3. co' = [co EXCEPT ![t] = Settled(b)]
      BY <1>5
    <2> HIDE DEF b
    <2> QED BY <1>2, <2>1, <2>2, <2>3
  <1>6. CASE co' = [co EXCEPT ![t] = Settled([co[t] EXCEPT !.error = TRUE])]
    <2> DEFINE b == [co[t] EXCEPT !.error = TRUE]
    <2>1. b \in Coordinator
      BY OneTab, SetField, Values, Zenon
    <2>2. /\ b.state = co[t].state /\ b.token = co[t].token /\ b.adopted = co[t].adopted
          /\ b.holdReleased = co[t].holdReleased
      BY OneTab, SMT DEF Coordinator
    <2>3. co' = [co EXCEPT ![t] = Settled(b)]
      BY <1>6
    <2> HIDE DEF b
    <2> QED BY <1>2, <2>1, <2>2, <2>3
  <1> QED BY <1>3, <1>4, <1>5, <1>6

-----------------------------------------------------------------------------
(* stop() *)

\* What stop() does before it looks at the state.
LEMMA CalledFields ==
    ASSUME IInv, NEW t \in Tabs, NEW k \in Callers
    PROVE  /\ Called(t, k) \in Coordinator
           /\ Called(t, k).state = co[t].state /\ Called(t, k).callback = co[t].callback
           /\ Called(t, k).token = co[t].token /\ Called(t, k).adopted = co[t].adopted
           /\ Called(t, k).holdReleased = co[t].holdReleased /\ ~Called(t, k).listening
  <1>1. co[t].started \in Promises
    BY OneTab, SMT DEF Coordinator
  <1>2. Called(t, k) \in Coordinator
    BY <1>1, OneTab, SetField, Values, Zenon DEF Called
  <1> QED BY <1>2, OneTab, SMT DEF Called, Coordinator

\* A caller of stop() moves on; unless it is to release, nobody new is.
LEMMA GoStopMoves ==
    ASSUME IInv, NEW t \in Tabs, NEW k \in Callers, NEW pc \in Stops
    PROVE  LET s == [stop[t] EXCEPT ![k] = pc]
           IN  /\ s \in [Callers -> Stops]
               /\ GoStop(t, k, pc) => stop' = [stop EXCEPT ![t] = s]
               /\ pc \notin {"release", "retryRelease"} /\ Releases(s) => Releases(stop[t])
  <1> DEFINE s == [stop[t] EXCEPT ![k] = pc]
  <1>1. stop[t] \in [Callers -> Stops]
    BY OneTab
  <1>2. s \in [Callers -> Stops] /\ s[k] = pc /\ \A j \in Callers \ {k} : s[j] = stop[t][j]
    BY <1>1, Zenon
  <1>3. GoStop(t, k, pc) => stop' = [stop EXCEPT ![t] = s]
    BY DEF GoStop
  <1>4. ASSUME pc \notin {"release", "retryRelease"}, Releases(s)
        PROVE  Releases(stop[t])
    BY <1>2, <1>4 DEF Releases
  <1> QED BY <1>2, <1>3, <1>4

LEMMA StopTerminalStep ==
    ASSUME IInv, NEW t \in Tabs, NEW k \in Callers, StopTerminal(t, k)
    PROVE  IInv' /\ LeaseStep
  <1>0. UNCHANGED <<stop, holder, owner>>
    BY DEF StopTerminal
  <1>1. CASE co' = [co EXCEPT ![t] = Called(t, k)]
    <2>1. Fits(t, Called(t, k), stop[t], holder, owner.epoch)
      BY CalledFields, OneTab, SMT DEF Fits, Inside, Past
    <2> QED BY <1>0, <1>1, <2>1, CalledFields, Still, QuietStep
  <1>2. CASE co' = [co EXCEPT ![t] = [Called(t, k) EXCEPT !.stopRequested = TRUE]]
    <2> DEFINE c == [Called(t, k) EXCEPT !.stopRequested = TRUE]
    <2>1. c \in Coordinator
      BY CalledFields, OneTab, SetField, Values, Zenon
    <2>2. /\ c.state = co[t].state /\ c.callback = co[t].callback /\ c.token = co[t].token
          /\ c.adopted = co[t].adopted /\ c.holdReleased = co[t].holdReleased /\ ~c.listening
      BY CalledFields, OneTab, SMT DEF Coordinator
    <2>3. co' = [co EXCEPT ![t] = c]
      BY <1>2
    <2> HIDE DEF c
    <2>4. Fits(t, c, stop[t], holder, owner.epoch)
      BY <1>0, <2>2, OneTab, SMT DEF Fits, Inside, Past
    <2> QED BY <1>0, <2>1, <2>2, <2>3, <2>4, Still, OneTab, QuietStep
  <1> QED BY <1>1, <1>2, Zenon DEF StopTerminal

\* A coordinator that failed has settled, so its stop() finds no machines under the token.
LEMMA StopAfterFailureStep ==
    ASSUME IInv, NEW t \in Tabs, NEW k \in Callers, StopAfterFailure(t, k)
    PROVE  IInv' /\ LeaseStep
  <1>0. co[t].state = "failed" /\ UNCHANGED <<holder, owner>>
    BY DEF StopAfterFailure
  <1>1. CASE /\ GoStop(t, k, "retryWait")
             /\ co' = [co EXCEPT ![t] = [Called(t, k) EXCEPT !.holdReleased = TRUE]]
    <2> DEFINE s == [stop[t] EXCEPT ![k] = "retryWait"]
    <2>0. /\ s \in [Callers -> Stops] /\ stop' = [stop EXCEPT ![t] = s]
         /\ (Releases(s) => Releases(stop[t]))
      BY <1>1, GoStopMoves, Zenon DEF Stops, GoStop
    <2> HIDE DEF s
    <2> DEFINE c == [Called(t, k) EXCEPT !.holdReleased = TRUE]
    <2>1. c \in Coordinator
      BY CalledFields, OneTab, SetField, Values, Zenon
    <2>2. /\ c.state = co[t].state /\ c.callback = co[t].callback /\ c.token = co[t].token
          /\ c.adopted = co[t].adopted /\ c.holdReleased /\ ~c.listening
      BY CalledFields, OneTab, SMT DEF Coordinator
    <2>3. co' = [co EXCEPT ![t] = c]
      BY <1>1
    <2> HIDE DEF c
    <2>4. Fits(t, c, s, holder, owner.epoch)
      BY <1>0, <2>0, <2>2, OneTab, SMT DEF Fits, Inside, Past
    <2> QED BY <1>0, <2>0, <2>1, <2>2, <2>3, <2>4, Still, OneTab, QuietStep
  <1>2. CASE GoStop(t, k, "retryRelease") /\ co' = [co EXCEPT ![t] = Called(t, k)]
    <2> DEFINE s == [stop[t] EXCEPT ![k] = "retryRelease"]
    <2>0. /\ s \in [Callers -> Stops] /\ stop' = [stop EXCEPT ![t] = s]
      BY <1>2, GoStopMoves, Zenon DEF Stops, GoStop
    <2> HIDE DEF s
    <2>1. Fits(t, Called(t, k), s, holder, owner.epoch)
      BY <1>0, <2>0, CalledFields, OneTab, SMT DEF Fits, Inside, Past
    <2> QED BY <1>0, <1>2, <2>0, <2>1, CalledFields, Still, QuietStep
  <1> QED BY <1>1, <1>2, Zenon DEF StopAfterFailure

LEMMA StopStoppingStep ==
    ASSUME IInv, NEW t \in Tabs, NEW k \in Callers, StopStopping(t, k)
    PROVE  IInv' /\ LeaseStep
  <1>10. /\ co[t].state = "stopping" /\ GoStop(t, k, "waitOnly") /\ UNCHANGED <<holder, owner>>
        /\ co' = [co EXCEPT ![t] = Called(t, k)]
    BY DEF StopStopping
  <1> DEFINE s == [stop[t] EXCEPT ![k] = "waitOnly"]
  <1>0. /\ s \in [Callers -> Stops] /\ stop' = [stop EXCEPT ![t] = s]
       /\ (Releases(s) => Releases(stop[t]))
    BY <1>10, GoStopMoves, Zenon DEF Stops, GoStop
  <1> HIDE DEF s
  <1>1. Fits(t, Called(t, k), s, holder, owner.epoch)
    BY <1>10, <1>0, CalledFields, OneTab, SMT DEF Fits, Inside, Past
  <1> QED BY <1>10, <1>0, <1>1, CalledFields, Still, QuietStep

LEMMA StopWaitingStep ==
    ASSUME IInv, NEW t \in Tabs, NEW k \in Callers, StopWaiting(t, k)
    PROVE  IInv' /\ LeaseStep
  <1>10. /\ co[t].state = "waiting" /\ GoStop(t, k, "waitThenStopped") /\ UNCHANGED <<holder, owner>>
        /\ co' = [co EXCEPT ![t] = [Called(t, k) EXCEPT !.stopRequested = TRUE, !.state = "stopping",
                                      !.started = Rejected(co[t]), !.signalled = TRUE]]
    BY DEF StopWaiting
  <1> DEFINE s == [stop[t] EXCEPT ![k] = "waitThenStopped"]
  <1>0. /\ s \in [Callers -> Stops] /\ stop' = [stop EXCEPT ![t] = s]
       /\ (Releases(s) => Releases(stop[t]))
    BY <1>10, GoStopMoves, Zenon DEF Stops, GoStop
  <1> HIDE DEF s
  <1> DEFINE c == [Called(t, k) EXCEPT !.stopRequested = TRUE, !.state = "stopping",
                     !.started = Rejected(co[t]), !.signalled = TRUE]
  <1>1. c \in Coordinator
    BY CalledFields, OneTab, SetField, Values, Zenon
  <1>2. /\ c.state = "stopping" /\ c.callback = co[t].callback /\ c.token = co[t].token
        /\ c.adopted = co[t].adopted /\ c.holdReleased = co[t].holdReleased /\ ~c.listening
    BY CalledFields, OneTab, SMT DEF Coordinator
  <1>3. co' = [co EXCEPT ![t] = c]
    BY <1>10
  <1> HIDE DEF c
  <1>4. Fits(t, c, s, holder, owner.epoch)
    BY <1>10, <1>0, <1>2, OneTab, SMT DEF Fits, Inside, Past
  <1> QED BY <1>10, <1>0, <1>1, <1>2, <1>3, <1>4, Still, OneTab, QuietStep

LEMMA StopAcquiringStep ==
    ASSUME IInv, NEW t \in Tabs, NEW k \in Callers, StopAcquiring(t, k)
    PROVE  IInv' /\ LeaseStep
  <1>10. /\ co[t].state = "acquiring" /\ GoStop(t, k, "waitThenResult") /\ UNCHANGED <<holder, owner>>
        /\ co' = [co EXCEPT ![t] = [Called(t, k) EXCEPT !.stopRequested = TRUE, !.state = "stopping",
                                      !.started = Rejected(co[t])]]
    BY DEF StopAcquiring
  <1> DEFINE s == [stop[t] EXCEPT ![k] = "waitThenResult"]
  <1>0. /\ s \in [Callers -> Stops] /\ stop' = [stop EXCEPT ![t] = s]
       /\ (Releases(s) => Releases(stop[t]))
    BY <1>10, GoStopMoves, Zenon DEF Stops, GoStop
  <1> HIDE DEF s
  <1> DEFINE c == [Called(t, k) EXCEPT !.stopRequested = TRUE, !.state = "stopping",
                     !.started = Rejected(co[t])]
  <1>1. c \in Coordinator
    BY CalledFields, OneTab, SetField, Values, Zenon
  <1>2. /\ c.state = "stopping" /\ c.callback = co[t].callback /\ c.token = co[t].token
        /\ c.adopted = co[t].adopted /\ c.holdReleased = co[t].holdReleased /\ ~c.listening
    BY CalledFields, OneTab, SMT DEF Coordinator
  <1>3. co' = [co EXCEPT ![t] = c]
    BY <1>10
  <1> HIDE DEF c
  <1>4. Fits(t, c, s, holder, owner.epoch)
    BY <1>10, <1>0, <1>2, OneTab, SMT DEF Fits, Inside, Past
  <1> QED BY <1>10, <1>0, <1>1, <1>2, <1>3, <1>4, Still, OneTab, QuietStep

\* stop() of an owner: the machines let go before the epoch and the lock do.
LEMMA StopOwnedStep ==
    ASSUME IInv, NEW t \in Tabs, NEW k \in Callers, StopOwned(t, k)
    PROVE  IInv' /\ LeaseStep
  <1>9. PICK failed \in BOOLEAN :
          co' = [co EXCEPT ![t] = [Called(t, k) EXCEPT
                    !.stopRequested = TRUE, !.state = "stopping", !.lostNotified = TRUE,
                    !.adopted = FALSE, !.stopFailed = failed]]
    BY Zenon DEF StopOwned
  <1>10. co[t].state = "owned" /\ GoStop(t, k, "release") /\ UNCHANGED <<holder, owner>>
    BY DEF StopOwned
  <1> DEFINE s == [stop[t] EXCEPT ![k] = "release"]
  <1>0. /\ s \in [Callers -> Stops] /\ stop' = [stop EXCEPT ![t] = s]
    BY <1>10, GoStopMoves, Zenon DEF Stops, GoStop
  <1> HIDE DEF s
  <1> DEFINE c == [Called(t, k) EXCEPT !.stopRequested = TRUE, !.state = "stopping",
                     !.lostNotified = TRUE, !.adopted = FALSE, !.stopFailed = failed]
  <1>1. c \in Coordinator
    BY CalledFields, OneTab, SetField, Values, Zenon
  <1>2. /\ c.state = "stopping" /\ c.callback = co[t].callback /\ c.token = co[t].token
        /\ ~c.adopted /\ c.holdReleased = co[t].holdReleased /\ ~c.listening
    BY CalledFields, OneTab, SMT DEF Coordinator
  <1>3. co' = [co EXCEPT ![t] = c]
    BY <1>9
  <1> HIDE DEF c
  <1>4. Fits(t, c, s, holder, owner.epoch)
    BY <1>10, <1>0, <1>2, OneTab, SMT DEF Fits, Inside, Past
  <1> QED BY <1>10, <1>0, <1>1, <1>2, <1>3, <1>4, Still, OneTab, LosingStep

\* Whoever releases the epoch here runs no machines under it any more.
LEMMA StopReleaseStep ==
    ASSUME IInv, NEW t \in Tabs, NEW k \in Callers, StopRelease(t, k)
    PROVE  IInv' /\ LeaseStep
  <1>0. Releases(stop[t]) /\ UNCHANGED holder
    BY Zenon DEF StopRelease, Releases
  <1>1. owner' \in Owner /\ owner'.epoch = owner.epoch
    BY ReleasedOwner DEF StopRelease
  <1>2. CASE UNCHANGED co /\ GoStop(t, k, "none")
    <2> DEFINE s == [stop[t] EXCEPT ![k] = "none"]
    <2>0. /\ s \in [Callers -> Stops] /\ stop' = [stop EXCEPT ![t] = s]
         /\ (Releases(s) => Releases(stop[t]))
      BY <1>2, GoStopMoves, Zenon DEF Stops, GoStop
    <2> HIDE DEF s
    <2>1. co' = [co EXCEPT ![t] = co[t]]
      BY <1>2, Zenon DEF IInv, Typed
    <2>2. Fits(t, co[t], s, holder, owner.epoch)
      BY <2>0, OneTab, SMT DEF Fits, Inside, Past
    <2> QED BY <1>0, <1>1, <2>0, <2>1, <2>2, Still, OneTab, QuietStep
  <1>3. ASSUME NEW pc \in {"waitOwned", "retryWait"}, GoStop(t, k, pc),
               \/ co' = [co EXCEPT ![t].epochReleased = TRUE, ![t].holdReleased = TRUE]
               \/ co' = [co EXCEPT ![t].stopFailed = TRUE, ![t].holdReleased = TRUE]
        PROVE  IInv' /\ LeaseStep
    <2> DEFINE s == [stop[t] EXCEPT ![k] = pc]
    <2>0. s \in [Callers -> Stops] /\ stop' = [stop EXCEPT ![t] = s]
      <3>1. pc \in Stops
        BY <1>3, Zenon DEF Stops
      <3>2. s \in [Callers -> Stops]
        BY <3>1, GoStopMoves, Zenon
      <3>3. stop' = [stop EXCEPT ![t] = s]
        BY <1>3 DEF GoStop
      <3> QED BY <3>2, <3>3
    <2> HIDE DEF s
    <2>5. CASE co' = [co EXCEPT ![t].epochReleased = TRUE, ![t].holdReleased = TRUE]
      <3> DEFINE c == [co[t] EXCEPT !.epochReleased = TRUE, !.holdReleased = TRUE]
      <3>1. c \in Coordinator
        BY OneTab, SetField, Values, Zenon
      <3>2. /\ c.state = co[t].state /\ c.callback = co[t].callback /\ c.token = co[t].token
            /\ c.adopted = co[t].adopted /\ c.holdReleased /\ c.listening = co[t].listening
        BY OneTab, SMT DEF Coordinator
      <3>3. co' = [co EXCEPT ![t] = c]
        BY <2>5
      <3> HIDE DEF c
      <3>4. Fits(t, c, s, holder, owner.epoch)
        BY <1>0, <1>1, <2>0, <3>2, OneTab, SMT DEF Fits, Inside, Past
      <3> QED BY <1>0, <1>1, <2>0, <3>1, <3>2, <3>3, <3>4, Still, OneTab, QuietStep
    <2>6. CASE co' = [co EXCEPT ![t].stopFailed = TRUE, ![t].holdReleased = TRUE]
      <3> DEFINE c == [co[t] EXCEPT !.stopFailed = TRUE, !.holdReleased = TRUE]
      <3>1. c \in Coordinator
        BY OneTab, SetField, Values, Zenon
      <3>2. /\ c.state = co[t].state /\ c.callback = co[t].callback /\ c.token = co[t].token
            /\ c.adopted = co[t].adopted /\ c.holdReleased /\ c.listening = co[t].listening
        BY OneTab, SMT DEF Coordinator
      <3>3. co' = [co EXCEPT ![t] = c]
        BY <2>6
      <3> HIDE DEF c
      <3>4. Fits(t, c, s, holder, owner.epoch)
        BY <1>0, <1>1, <2>0, <3>2, OneTab, SMT DEF Fits, Inside, Past
      <3> QED BY <1>0, <1>1, <2>0, <3>1, <3>2, <3>3, <3>4, Still, OneTab, QuietStep
    <2> QED BY <1>3, <2>5, <2>6
  <1> QED BY <1>2, <1>3, Zenon DEF StopRelease

LEMMA StopReturnsStep ==
    ASSUME IInv, NEW t \in Tabs, NEW k \in Callers, StopReturns(t, k)
    PROVE  IInv' /\ LeaseStep
  <1>10. co[t].callback = "settled" /\ GoStop(t, k, "none") /\ UNCHANGED <<holder, owner>>
    BY DEF StopReturns
  <1>11. PICK x \in {"stopped", "failed", co[t].state} : co' = [co EXCEPT ![t].state = x]
    BY Zenon DEF StopReturns
  <1>12. x \in States
    BY OneTab, Values, SMT DEF Coordinator
  <1> DEFINE s == [stop[t] EXCEPT ![k] = "none"]
  <1>0. /\ s \in [Callers -> Stops] /\ stop' = [stop EXCEPT ![t] = s]
       /\ (Releases(s) => Releases(stop[t]))
    BY <1>10, GoStopMoves, Zenon DEF Stops, GoStop
  <1> HIDE DEF s
  <1> DEFINE c == [co[t] EXCEPT !.state = x]
  <1>1. c \in Coordinator
    BY <1>12, OneTab, SetField, Values, Zenon
  <1>2. /\ c.state = x /\ c.callback = co[t].callback /\ c.token = co[t].token
        /\ c.adopted = co[t].adopted /\ c.holdReleased = co[t].holdReleased
        /\ c.listening = co[t].listening
    BY <1>12, OneTab, SMT DEF Coordinator
  <1>3. co' = [co EXCEPT ![t] = c]
    BY <1>11
  <1> HIDE DEF c
  <1>4. Fits(t, c, s, holder, owner.epoch)
    BY <1>0, <1>10, <1>11, <1>2, OneTab, SMT DEF Fits, Inside, Past
  <1> QED BY <1>0, <1>10, <1>11, <1>1, <1>2, <1>3, <1>4, Still, OneTab, QuietStep

-----------------------------------------------------------------------------
(* The whole specification *)

\* A page that dies loses its lock with its machines; the record stays.
LEMMA CrashStep ==
    ASSUME IInv, NEW t \in Tabs, Crash(t)
    PROVE  IInv' /\ LeaseStep
  <1>1. /\ co' = [co EXCEPT ![t] = Fresh] /\ stop' = [stop EXCEPT ![t] = NoStop]
        /\ holder' = IF holder = t THEN None ELSE holder
        /\ UNCHANGED owner
    BY DEF Crash
  <1>2. holder' \in {holder, None} /\ (holder' = holder \/ holder \in {None, t})
    BY <1>1
  <1>3. Fits(t, Fresh, NoStop, holder', owner.epoch) /\ NoStop \in [Callers -> Stops]
    BY FreshFits
  <1> QED BY <1>1, <1>2, <1>3, FreshFields, LosingStep

LEMMA Initially ==
    Init => IInv /\ Lease!Init
  <1> SUFFICES ASSUME Init
               PROVE  IInv /\ Lease!Init
    OBVIOUS
  <1>1. co = [t \in Tabs |-> Fresh] /\ stop = [t \in Tabs |-> NoStop]
    BY DEF Init
  <1>2. /\ owner = [ownerId |-> None, epoch |-> 0, active |-> FALSE] /\ holder = None
    BY DEF Init
  <1>3. owner \in Owner /\ owner.epoch = 0
    BY <1>2, SMT DEF Owner
  <1>4. Typed
    BY <1>1, <1>2, <1>3, FreshFields, FreshFits, Zenon DEF Typed
  <1>5. \A t \in Tabs : Fits(t, co[t], stop[t], holder, owner.epoch)
    BY <1>1, FreshFits, Zenon
  <1>6. Adopters = {}
    BY <1>1, FreshFields, Zenon DEF Adopters
  <1>7. Held = None /\ Epoch = 0
    BY <1>3, <1>6 DEF Held, Epoch
  <1> QED BY <1>4, <1>5, <1>7 DEF IInv, Lease!Init

LEMMA StopStep ==
    ASSUME IInv, NEW t \in Tabs, NEW k \in Callers, CallStop(t, k) \/ Stopping(t, k)
    PROVE  IInv' /\ LeaseStep
  BY StopTerminalStep, StopAfterFailureStep, StopStoppingStep, StopWaitingStep,
     StopAcquiringStep, StopOwnedStep, StopReleaseStep, StopReturnsStep, Zenon
     DEF CallStop, Stopping

LEMMA CallbackStep ==
    ASSUME IInv, NEW t \in Tabs, Callback(t)
    PROVE  IInv' /\ LeaseStep
  BY ClaimOwnerStep, ClaimFailsStep, ClaimedStep, AcquiredStep, ReleaseEarlyStep,
     EndHoldStep, FinallyStep, Zenon DEF Callback

LEMMA EveryStep ==
    IInv /\ [Next]_vars => IInv' /\ LeaseStep
  <1>1. ASSUME IInv, Next
        PROVE  IInv' /\ LeaseStep
    <2>1. PICK t \in Tabs :
            \/ NewCoordinator(t) \/ Start(t) \/ ExternalAbort(t)
            \/ DropRequest(t) \/ Grant(t) \/ Callback(t) \/ Crash(t)
            \/ \E k \in Callers : CallStop(t, k) \/ Stopping(t, k)
      BY <1>1 DEF Next
    <2> QED BY <1>1, <2>1, NewCoordinatorStep, StartStep, ExternalAbortStep, DropRequestStep,
               GrantStep, CallbackStep, CrashStep, StopStep, Zenon
  <1>2. ASSUME IInv, UNCHANGED vars
        PROVE  IInv' /\ LeaseStep
    <2>1. UNCHANGED <<co, stop, holder, owner>>
      BY <1>2 DEF vars
    <2>2. IInv'
      BY <1>2, <2>1 DEF IInv, Typed, Fits
    <2>3. Held' = Held /\ Epoch' = Epoch
      BY <2>1 DEF Held, Epoch, Adopters
    <2> QED BY <2>2, <2>3 DEF LeaseStep, Lease!vars
  <1> QED BY <1>1, <1>2

\* Only the holder of the lock has adopted a token.
LEMMA OneAdopter ==
    IInv => Cardinality(Adopters) <= 1
  <1> SUFFICES ASSUME IInv
               PROVE  Cardinality(Adopters) <= 1
    OBVIOUS
  <1>1. \A t \in Tabs : co[t].adopted => holder = t
    BY OneTab, SMT DEF Fits, Inside
  <1>2. Adopters \in SUBSET {holder}
    BY <1>1 DEF Adopters
  <1>3. IsFiniteSet({holder}) /\ Cardinality({holder}) = 1
    BY FS_Singleton
  <1> QED BY <1>2, <1>3, FS_Subset

\* Whoever stands inside the lock holds it, and whoever adopted does so under the
\* newest epoch, in every reachable state.
THEOREM Invariant == Spec => []IInv
  <1>1. Init => IInv
    BY Initially
  <1>2. IInv /\ [Next]_vars => IInv'
    BY EveryStep
  <1> QED BY <1>1, <1>2, PTL DEF Spec

\* However tabs start, are aborted, stopped or killed, and whichever writes fail:
\* one tab at a time acts as the owner, under the newest epoch, and no newer epoch
\* is claimed while it does.
THEOREM LeaseImplemented == Spec => ImplementsLease
  <1>1. Init => Lease!Init
    BY Initially
  <1>2. IInv /\ [Next]_vars => [Lease!Next]_(Lease!vars)
    BY EveryStep DEF LeaseStep
  <1>3. Spec => Lease!Spec
    BY <1>1, <1>2, Invariant, PTL DEF Spec, Lease!Spec
  <1>4. Spec => [](Cardinality(Adopters) <= 1)
    BY Invariant, OneAdopter, PTL
  <1> QED BY <1>3, <1>4 DEF ImplementsLease
=============================================================================
