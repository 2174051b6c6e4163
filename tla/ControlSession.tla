--------------------------- MODULE ControlSession ---------------------------
(***************************************************************************)
(* One control session: a client of the Control Protocol, the server that  *)
(* hosts the operations, the long-poll bridge to the machine page, and the *)
(* pages that run the commands.                                            *)
(*                                                                         *)
(*   client   controlClient.js, controlApi.js (ControlRequest.wait)        *)
(*   server   controlProtocolServer.mjs, controlHost.js, controlProduct.mjs*)
(*   bridge   pageCommandBridge.mjs                                        *)
(*   page     the command loop of mcpMachine.html (external: not a .js     *)
(*            source; modelled from what the bridge answers it)            *)
(*                                                                         *)
(* The two pipes are FIFO and lose nothing while both processes live; the  *)
(* polls and the result posts of a page may fail. Payloads are abstracted  *)
(* to what a caller may conclude from an answer: its outcome, and whether  *)
(* the answer invites a retry.                                             *)
(***************************************************************************)
EXTENDS Integers, Sequences, FiniteSets, SequencesExt

CONSTANTS
    Requests,       \* request ids of the client, each used once
    MaxPages,       \* bound: how many pages may announce themselves
    LargeResults    \* requests whose successful output exceeds one frame

ASSUME ControlAssumption ==
    /\ IsFiniteSet(Requests)
    /\ MaxPages \in Nat
    /\ LargeResults \subseteq Requests

Epochs == 1 .. MaxPages
NoPage == 0
NoRequest == "none"
Fatal == "fatal"
ASSUME NotARequest == {NoRequest, Fatal} \cap Requests = {}

Outcomes == {"applied", "notSent", "outcomeUnknown"}
Terminal == [outcome : Outcomes, retry : BOOLEAN]
NoTerminal == [outcome |-> "none", retry |-> FALSE]
Answer(outcome, retry) == [outcome |-> outcome, retry |-> retry]

VARIABLES
    client,     \* per request: idle, pending, cancelling (deadline passed), settled
    told,       \* per request: the terminal its caller saw
    connected,  \* the client still reads and writes
    toServer,   \* frames on the server's stdin
    toClient,   \* frames on the server's stdout
    server,     \* running, closing, exited, killed
    host,       \* per request: new, waiting (for a ready page), inPage, settled
    aborted,    \* requests whose AbortController fired
    record,     \* per request: the bridge's record, none / queued / delivered / terminal
    owner,      \* per request: the page epoch it was delivered to
    queue,      \* the bridge's command queue
    pageEpoch,  \* the page that said ready last
    heldPoll,   \* epoch of the held poll, NoPage when none is held
    page,       \* per epoch: state of that page's loop and the command it holds
    runs        \* history: the page epochs that ran the request's command

clientVars == <<client, told, connected>>
hostVars == <<host, aborted>>
bridgeVars == <<record, owner, queue, pageEpoch, heldPoll>>
controlVars == <<clientVars, toServer, toClient, server, hostVars, bridgeVars, page, runs>>

PageStates == {"booting", "asking", "holding", "running", "posting", "gone"}

ControlTypeOK ==
    /\ client \in [Requests -> {"idle", "pending", "cancelling", "settled"}]
    /\ told \in [Requests -> Terminal \cup {NoTerminal}]
    /\ connected \in BOOLEAN
    /\ server \in {"running", "closing", "exited", "killed"}
    /\ host \in [Requests -> {"new", "waiting", "inPage", "settled"}]
    /\ aborted \subseteq Requests
    /\ record \in [Requests -> {"none", "queued", "delivered", "terminal"}]
    /\ owner \in [Requests -> Epochs \cup {NoPage}]
    /\ queue \in Seq(Requests)
    /\ pageEpoch \in Epochs \cup {NoPage}
    /\ heldPoll \in Epochs \cup {NoPage}
    /\ page \in [Epochs -> [state : PageStates, cmd : Requests \cup {NoRequest},
                            term : Terminal \cup {NoTerminal}]]
    /\ runs \in [Requests -> Seq(Epochs)]

ControlInit ==
    /\ client = [r \in Requests |-> "idle"]
    /\ told = [r \in Requests |-> NoTerminal]
    /\ connected = TRUE
    /\ toServer = <<>> /\ toClient = <<>>
    /\ server = "running"
    /\ host = [r \in Requests |-> "new"]
    /\ aborted = {}
    /\ record = [r \in Requests |-> "none"]
    /\ owner = [r \in Requests |-> NoPage]
    /\ queue = <<>>
    /\ pageEpoch = NoPage
    /\ heldPoll = NoPage
    /\ page = [e \in Epochs |-> [state |-> "booting", cmd |-> NoRequest, term |-> NoTerminal]]
    /\ runs = [r \in Requests |-> <<>>]

Up == server \in {"running", "closing"}
Pending(r) == client[r] \in {"pending", "cancelling"}

-----------------------------------------------------------------------------
(* The client *)

\* request(): the id enters the conversation and the frame goes on the pipe.
ClientRequest(r) ==
    /\ connected
    /\ client[r] = "idle"
    /\ client' = [client EXCEPT ![r] = "pending"]
    /\ toServer' = Append(toServer, [kind |-> "request", id |-> r])
    /\ UNCHANGED <<told, connected, toClient, server, hostVars, bridgeVars, page, runs>>

\* wait({timeoutMs}): the deadline passes and a cancel frame is sent. The same
\* frame goes out when the caller cancels by hand.
ClientDeadline(r) ==
    /\ connected
    /\ client[r] = "pending"
    /\ client' = [client EXCEPT ![r] = "cancelling"]
    /\ toServer' = Append(toServer, [kind |-> "cancel", id |-> r])
    /\ UNCHANGED <<told, connected, toClient, server, hostVars, bridgeVars, page, runs>>

\* close() and _fail(): every pending request is rejected, its outcome unknown.
LoseConnection ==
    /\ connected' = FALSE
    /\ client' = [r \in Requests |-> IF Pending(r) THEN "settled" ELSE client[r]]
    /\ told' = [r \in Requests |-> IF Pending(r) THEN Answer("outcomeUnknown", FALSE) ELSE told[r]]

\* Mutant: the client only closes when it knows that the server is gone.
ClientTrustsCancel == ~Up /\ connected /\ LoseConnection
    /\ UNCHANGED <<toServer, toClient, server, hostVars, bridgeVars, page, runs>>

\* The request did not settle after its cancellation: the client closes.
ClientGivesUp ==
    /\ connected
    /\ \E r \in Requests : client[r] = "cancelling"
    /\ LoseConnection
    /\ UNCHANGED <<toServer, toClient, server, hostVars, bridgeVars, page, runs>>

\* waitForExit: a server that does not exit after the client closed is killed.
ClientKills ==
    /\ ~connected /\ Up
    /\ server' = "killed"
    /\ UNCHANGED <<clientVars, toServer, toClient, hostVars, bridgeVars, page, runs>>

\* _acceptLine: a terminal settles its request; a fatal error, or the end of
\* the server's stdout, settles them all.
ClientReads ==
    /\ connected
    /\ toClient # <<>>
    /\ toClient' = Tail(toClient)
    /\ LET frame == Head(toClient) IN
       IF frame.id = Fatal THEN LoseConnection
       ELSE /\ client' = [client EXCEPT ![frame.id] = "settled"]
            /\ told' = [told EXCEPT ![frame.id] = frame.term]
            /\ UNCHANGED connected
    /\ UNCHANGED <<toServer, server, hostVars, bridgeVars, page, runs>>

ClientSeesEnd ==
    /\ connected
    /\ ~Up /\ toClient = <<>>
    /\ LoseConnection
    /\ UNCHANGED <<toServer, toClient, server, hostVars, bridgeVars, page, runs>>

-----------------------------------------------------------------------------
(* The bridge *)

\* _finish of every record in S, each with its terminal, and the terminal
\* frames the host then writes.
Finish(S, term) ==
    /\ record' = [r \in Requests |-> IF r \in S THEN "terminal" ELSE record[r]]
    /\ queue' = SelectSeq(queue, LAMBDA r : r \notin S)
    /\ host' = [r \in Requests |-> IF r \in S THEN "settled" ELSE host[r]]
    /\ toClient' = toClient \o [i \in 1 .. Cardinality(S) |->
                      LET r == SetToSeq(S)[i] IN [id |-> r, term |-> term[r]]]

\* Mutant: whatever was cut off is reported as not sent.
CutOffNotSent(r) == Answer("notSent", FALSE)

\* finishCancel and close: what is told depends on whether a page has the command.
CutOff(r) == Answer(IF record[r] = "delivered" THEN "outcomeUnknown" ELSE "notSent", FALSE)

FinishCutOff(S) == Finish(S, [r \in S |-> CutOff(r)])

InBridge(r) == record[r] \in {"queued", "delivered"}

\* poll: the first command still queued goes to the page.
Deliver(r, e) ==
    /\ record' = [record EXCEPT ![r] = "delivered"]
    /\ owner' = [owner EXCEPT ![r] = e]
    /\ page' = [page EXCEPT ![e].state = "running", ![e].cmd = r]

-----------------------------------------------------------------------------
(* The server *)

\* handleLine: a request becomes an active record of the host; a cancel aborts
\* the controller of an active one, which ends a command of the bridge.
ServerReads ==
    /\ server = "running"
    /\ toServer # <<>>
    /\ toServer' = Tail(toServer)
    /\ LET frame == Head(toServer)
           r == frame.id
       IN \/ /\ frame.kind = "request"
             /\ host' = [host EXCEPT ![r] = "waiting"]
             /\ UNCHANGED <<toClient, aborted, record, queue>>
          \/ /\ frame.kind = "cancel"
             /\ host[r] # "settled"
             /\ aborted' = aborted \cup {r}
             /\ IF InBridge(r) THEN FinishCutOff({r})
                ELSE UNCHANGED <<toClient, host, record, queue>>
          \/ /\ frame.kind = "cancel"
             /\ host[r] = "settled"
             /\ UNCHANGED <<toClient, hostVars, record, queue>>
    /\ UNCHANGED <<clientVars, server, owner, pageEpoch, heldPoll, page, runs>>

\* waitForReady returned: dispatch refuses an aborted request and queues any
\* other, which a held poll takes at once (_drainPoll).
Dispatch(r) ==
    /\ Up
    /\ host[r] = "waiting"
    /\ pageEpoch # NoPage
    /\ \/ /\ r \in aborted
          /\ FinishCutOff({r})
          /\ UNCHANGED <<owner, heldPoll, page>>
       \/ /\ r \notin aborted
          /\ host' = [host EXCEPT ![r] = "inPage"]
          /\ IF heldPoll # NoPage
             THEN /\ heldPoll' = NoPage
                  /\ IF page[heldPoll].state = "holding" THEN Deliver(r, heldPoll)
                     ELSE /\ record' = [record EXCEPT ![r] = "delivered"]
                          /\ owner' = [owner EXCEPT ![r] = heldPoll]
                          /\ UNCHANGED page
                  /\ UNCHANGED queue
             ELSE /\ record' = [record EXCEPT ![r] = "queued"]
                  /\ queue' = Append(queue, r)
                  /\ UNCHANGED <<owner, heldPoll, page>>
          /\ UNCHANGED toClient
    /\ UNCHANGED <<clientVars, toServer, server, aborted, pageEpoch, runs>>

\* The timer of a command: a queued one may be retried, a delivered one not.
CommandTimeout(r) ==
    /\ Up
    /\ InBridge(r)
    /\ Finish({r}, [q \in {r} |-> IF record[q] = "delivered" THEN Answer("outcomeUnknown", FALSE)
                                  ELSE Answer("notSent", TRUE)])
    /\ UNCHANGED <<clientVars, toServer, server, aborted, owner, pageEpoch, heldPoll, page, runs>>

\* shutdown, at a signal or at the end of stdin: the host aborts what is active.
AbortActive ==
    /\ server' = "closing"
    /\ aborted' = aborted \cup {r \in Requests : host[r] \in {"waiting", "inPage"}}

Shutdown ==
    /\ server = "running"
    /\ AbortActive
    /\ FinishCutOff({r \in Requests : InBridge(r)})
    /\ UNCHANGED <<clientVars, toServer, owner, pageEpoch, heldPoll, page, runs>>

StdinEnds == ~connected /\ toServer = <<>> /\ Shutdown

\* SIGINT or SIGTERM: what stdin still holds is never read.
ShutdownSignal == Shutdown

\* host.close returned (no request is active): the bridge closes and the
\* process exits.
FinishShutdown ==
    /\ server = "closing"
    /\ \A r \in Requests : host[r] \in {"new", "settled"}
    /\ server' = "exited"
    /\ heldPoll' = NoPage
    /\ UNCHANGED <<clientVars, toServer, toClient, hostVars, record, owner, queue,
                   pageEpoch, page, runs>>

-----------------------------------------------------------------------------
(* The pages *)

\* Mutant: the commands of a replaced page are queued again for the new one.
PageReadyRequeues(e) ==
    /\ Up
    /\ page[e].state = "booting"
    /\ e > pageEpoch
    /\ pageEpoch' = e
    /\ heldPoll' = NoPage
    /\ page' = [page EXCEPT ![e].state = "asking"]
    /\ record' = [r \in Requests |-> IF record[r] = "delivered" THEN "queued" ELSE record[r]]
    /\ queue' = SetToSeq({r \in Requests : record[r] = "delivered"}) \o queue
    /\ UNCHANGED <<clientVars, toServer, toClient, server, hostVars, owner, runs>>

\* POST /controlReady: a page announces its epoch. A held poll of the page
\* before is answered with an error, and so is every command it was given.
PageReady(e) ==
    /\ Up
    /\ page[e].state = "booting"
    /\ e > pageEpoch
    /\ pageEpoch' = e
    /\ heldPoll' = NoPage
    /\ page' = [p \in Epochs |->
                  IF p = e THEN [page[p] EXCEPT !.state = "asking"]
                  ELSE IF p = heldPoll /\ page[p].state = "holding"
                       THEN [page[p] EXCEPT !.state = "gone"] ELSE page[p]]
    /\ Finish({r \in Requests : record[r] = "delivered"},
              [r \in Requests |-> Answer("outcomeUnknown", FALSE)])
    /\ UNCHANGED <<clientVars, toServer, server, aborted, owner, runs>>

\* GET /controlCommand: a stale page, or one whose poll meets a held one, is
\* refused and leaves its loop; the current one gets a command or is held.
PagePolls(e) ==
    /\ Up
    /\ page[e].state = "asking"
    /\ \/ /\ e # pageEpoch
          /\ page' = [page EXCEPT ![e].state = "gone"]
          /\ UNCHANGED <<record, owner, queue, heldPoll>>
       \/ /\ e = pageEpoch /\ queue # <<>>
          /\ \E r \in Requests : Head(queue) = r /\ record[r] = "queued" /\ Deliver(r, e)
          /\ queue' = Tail(queue)
          /\ UNCHANGED heldPoll
       \/ /\ e = pageEpoch /\ queue = <<>> /\ heldPoll = NoPage
          /\ heldPoll' = e
          /\ page' = [page EXCEPT ![e].state = "holding"]
          /\ UNCHANGED <<record, owner, queue>>
    /\ UNCHANGED <<clientVars, toServer, toClient, server, hostVars, pageEpoch, runs>>

\* The hold time passes: the page is told there is nothing and asks again.
HoldExpires(e) ==
    /\ Up
    /\ heldPoll = e
    /\ heldPoll' = NoPage
    /\ page' = [page EXCEPT ![e].state = IF @ = "holding" THEN "asking" ELSE @]
    /\ UNCHANGED <<clientVars, toServer, toClient, server, hostVars, record, owner,
                   queue, pageEpoch, runs>>

\* The page is closed, or its poll fails: its loop ends. The server does not
\* notice and keeps the held poll until its timer.
PageLost(e) ==
    /\ page[e].state \in {"asking", "holding", "running", "posting"}
    /\ page' = [page EXCEPT ![e].state = "gone"]
    /\ UNCHANGED <<clientVars, toServer, toClient, server, hostVars, bridgeVars, runs>>

\* The page runs its command. An operation may refuse before it did anything,
\* or fail after it did something.
PageRuns(e) ==
    /\ page[e].state = "running"
    /\ \/ \E retry \in BOOLEAN :
            /\ page' = [page EXCEPT ![e].state = "posting", ![e].term = Answer("notSent", retry)]
            /\ UNCHANGED runs
       \/ /\ page' = [page EXCEPT ![e].state = "posting", ![e].term = Answer("applied", FALSE)]
          /\ runs' = [runs EXCEPT ![page[e].cmd] = Append(@, e)]
    /\ UNCHANGED <<clientVars, toServer, toClient, server, hostVars, bridgeVars>>

\* Mutant: an answer counts whenever its command once was delivered.
AcceptedLate(r, e) == record[r] \in {"delivered", "terminal"}

\* A result counts when its command is still delivered, to this page, and this
\* page is still the current one.
Accepted(r, e) == record[r] = "delivered" /\ owner[r] = e /\ e = pageEpoch

\* POST /controlResult. An output larger than a frame ends the connection for
\* every request (sendFatal). The page ignores what the server answers, and a
\* post that fails.
PagePosts(e) ==
    /\ page[e].state = "posting"
    /\ LET r == page[e].cmd
       IN \/ /\ Up /\ Accepted(r, e)
             /\ ~(r \in LargeResults /\ page[e].term.outcome = "applied")
             /\ Finish({r}, [q \in {r} |-> page[e].term])
             /\ UNCHANGED <<server, aborted>>
          \/ /\ Up /\ Accepted(r, e)
             /\ r \in LargeResults /\ page[e].term.outcome = "applied"
             /\ AbortActive
             /\ LET others == {q \in Requests \ {r} : InBridge(q)} IN
                /\ record' = [q \in Requests |-> IF q \in others \cup {r} THEN "terminal" ELSE record[q]]
                /\ queue' = <<>>
                /\ host' = [q \in Requests |-> IF q \in others \cup {r} THEN "settled" ELSE host[q]]
                /\ toClient' = Append(toClient, [id |-> Fatal, term |-> NoTerminal])
          \/ UNCHANGED <<toClient, server, hostVars, record, queue>>
    /\ page' = [page EXCEPT ![e].state = "asking", ![e].cmd = NoRequest, ![e].term = NoTerminal]
    /\ UNCHANGED <<clientVars, toServer, owner, pageEpoch, heldPoll, runs>>

-----------------------------------------------------------------------------

ClientStep ==
    \/ \E r \in Requests : ClientRequest(r) \/ ClientDeadline(r)
    \/ ClientGivesUp \/ ClientKills \/ ClientReads \/ ClientSeesEnd

ServerStep ==
    \/ ServerReads \/ StdinEnds \/ ShutdownSignal \/ FinishShutdown
    \/ \E r \in Requests : Dispatch(r) \/ CommandTimeout(r)

PageStep ==
    \E e \in Epochs : \/ PageReady(e) \/ PagePolls(e) \/ HoldExpires(e)
                      \/ PageLost(e) \/ PageRuns(e) \/ PagePosts(e)

ControlNext == ClientStep \/ ServerStep \/ PageStep

\* Both processes go on running and their timers fire: pipes are read, ready
\* requests dispatched, commands time out, deadlines and the close behind them
\* are reached. Nothing is assumed of the pages, of a signal or of the kill.
Fairness ==
    /\ WF_controlVars(ClientReads) /\ WF_controlVars(ClientSeesEnd) /\ WF_controlVars(ClientGivesUp)
    /\ WF_controlVars(ServerReads) /\ WF_controlVars(StdinEnds) /\ WF_controlVars(FinishShutdown)
    /\ \A r \in Requests :
         WF_controlVars(ClientDeadline(r)) /\ WF_controlVars(Dispatch(r)) /\ WF_controlVars(CommandTimeout(r))

ControlSpec == ControlInit /\ [][ControlNext]_controlVars /\ Fairness

-----------------------------------------------------------------------------
(* Properties *)

Settled(r) == client[r] = "settled"
CanStillRun(r) ==
    \/ \E i \in 1 .. Len(toServer) : toServer[i] = [kind |-> "request", id |-> r]
    \/ host[r] = "waiting" \/ record[r] \in {"queued", "delivered"}
    \/ \E e \in Epochs : page[e].cmd = r /\ page[e].state = "running"

\* An answer that says the command was not sent, or that invites a retry, is
\* the truth for good: no page ran it, and none can still run it. Races the
\* cancel, the timer, a page replacement and the close against the delivery.
SafeToRetry ==
    \A r \in Requests :
      Settled(r) /\ (told[r].outcome = "notSent" \/ told[r].retry)
        => runs[r] = <<>> /\ ~CanStillRun(r)

\* A command runs at most once, whatever pages come and go, and an "applied"
\* answer is backed by the run of one page.
RunsAtMostOnce ==
    \A r \in Requests :
      /\ Len(runs[r]) <= 1
      /\ Settled(r) /\ told[r].outcome = "applied" => Len(runs[r]) = 1

\* A page that was replaced never answers a request: an "applied" answer is
\* written once, while its command is delivered, and comes from the page that
\* is current then and ran it.
ReplacedPagesAreSilent ==
    [][\A r \in Requests :
         Len(toClient') > Len(toClient) /\ Last(toClient') = [id |-> r, term |-> Answer("applied", FALSE)]
         => record[r] = "delivered" /\ owner[r] = pageEpoch /\ Last(runs[r]) = pageEpoch]_controlVars

\* Every request settles: by its answer, by its deadline and the cancellation
\* behind it, or by the close that follows when the server stays silent.
EveryRequestSettles == \A r \in Requests : Pending(r) ~> Settled(r)

=============================================================================
