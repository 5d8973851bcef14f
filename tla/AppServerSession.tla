-------------------------- MODULE AppServerSession --------------------------
(***************************************************************************)
(* One app-server session of a window: AppServerSession, its RpcRouter and *)
(* the ConfiguredServerConnection that carries it (session.ts,             *)
(* rpcRouter.ts, configuredServer.ts).  Every action is one run of the     *)
(* JavaScript event loop: a call of the application, the end of an IPC     *)
(* command, or an event of the connection with the continuations it wakes. *)
(* The pool, the server and the IPC bridge are the environment.            *)
(***************************************************************************)
EXTENDS Naturals, Sequences, FiniteSets, Subsequences

CONSTANTS
  Requests,         \* requests the application may send
  AskIds,           \* identifiers the server uses for its own requests
  Initialize,       \* the request that router.initialize sends
  Nobody,           \* no request
  QueueCapacity,    \* requestQueueCapacity: requests held until ready
  InboundCapacity,  \* inboundQueueCapacity: messages waiting to be handled
  AskCapacity,      \* serverRequestCapacity
  MaxPending,       \* MAX_PENDING_CONNECTION_EVENTS before the connect response
  MaxInbound        \* bound of the model: messages the server sends

ASSUME CapacityAssumption ==
  /\ QueueCapacity \in Nat /\ AskCapacity \in Nat /\ MaxInbound \in Nat
  /\ InboundCapacity \in Nat \ {0} /\ MaxPending \in 0..InboundCapacity
ASSUME NameAssumption == Initialize \notin Requests /\ Nobody \notin Requests \cup {Initialize}

VARIABLES
  \* AppServerSession
  phase,        \* phase
  start,        \* how far startInternal has come
  closing,      \* how far closeInternal has come
  held,         \* transport # null
  inbound,      \* messages chained to inboundTail, the one being handled first
  \* ConfiguredServerConnection, its connector and the commands it invokes
  command,      \* the connect command
  bridge,       \* state
  pended,       \* pendingEvents
  ended,        \* the terminal event is the last of pendingEvents
  bridgeFailed, \* bridgeFailure # undefined
  disconnect,   \* the disconnect command
  logical,      \* the pool's entry for this connection
  \* RpcRouter
  router,       \* connection: "none" before open, "closed" after close
  init,         \* initializationState
  stored,       \* initializationResponse # null
  stage,        \* stage of each request
  queue,        \* queue
  drain,        \* what the task that completes the initialization is writing
  completer,    \* who runs that task: the write of initialize or its reply
  asked,        \* pendingServerRequestIds and how far their handlers are
  busy,         \* busy replies being written
  \* history
  arrived,      \* protocol messages sent by the server
  handled,      \* number of the last message the router took
  issued,       \* requests in the order of sendRequest
  written,      \* requests in the order they were handed to the transport
  owed          \* requests of the server taken minus replies written

sessionVars == <<phase, start, closing, held>>
bridgeVars == <<command, bridge, pended, ended, bridgeFailed, disconnect, logical>>
requestVars == <<router, init, stored, stage, queue>>
taskVars == <<drain, completer>>
askVars == <<asked, busy, owed>>
historyVars == <<arrived, handled, issued, written>>
vars == <<sessionVars, inbound, bridgeVars, requestVars, taskVars, askVars, historyVars>>

Ids == Requests \cup {Initialize}
Live == {"queued", "writing", "pending"}
Finished == {"closing", "closed", "error"}
Kinds == {"progress", "notification", "garbage", "result", "error", "ask"}

Init ==
  /\ phase = "idle" /\ start = "none" /\ closing = "none" /\ held = FALSE
  /\ inbound = <<>>
  /\ command = "none" /\ bridge = "none" /\ pended = <<>> /\ ended = FALSE
  /\ bridgeFailed = FALSE /\ disconnect = "none" /\ logical = "none"
  /\ router = "none" /\ init = "awaiting_initialize" /\ stored = FALSE
  /\ stage = [r \in Ids |-> "none"] /\ queue = <<>>
  /\ drain = Nobody /\ completer = "none"
  /\ asked = [a \in AskIds |-> "no"] /\ busy = {} /\ owed = [a \in AskIds |-> 0]
  /\ arrived = 0 /\ handled = 0 /\ issued = <<>> /\ written = <<>>

-----------------------------------------------------------------------------
(* What several handlers do.                                               *)

\* Mutant of Rejected: requests that were never written are forgotten.
RejectedIfWritten(s) == [r \in Ids |-> IF s[r] \in {"writing", "pending"} THEN "rejected" ELSE s[r]]

\* The stages after everybody who waits was rejected.
Rejected(s) == [r \in Ids |-> IF s[r] \in Live THEN "rejected" ELSE s[r]]

\* Mutant of CloseRouter: nobody who waits is told.
CloseRouterQuietly ==
  /\ router' = IF router = "open" THEN "closed" ELSE router
  /\ UNCHANGED <<init, stored, stage, queue>>

\* closeRouter, RpcRouter.close
CloseRouter ==
  IF router = "open"
  THEN /\ router' = "closed" /\ stage' = Rejected(stage)
       /\ queue' = <<>> /\ stored' = FALSE /\ UNCHANGED init
  ELSE UNCHANGED requestVars

\* Mutant of MustDisconnect: only a session that fails gives its transport back.
MustDisconnectUnlessClosing == held /\ bridge # "closed" /\ disconnect = "none" /\ phase # "closing"

\* closeTransport has a connection to disconnect.
MustDisconnect == held /\ bridge # "closed" /\ disconnect = "none"

\* disconnectConfigured
Disconnect == bridge' = "disconnecting" /\ disconnect' = "sent"

\* closeTransport
CloseTransport ==
  IF MustDisconnect THEN Disconnect ELSE UNCHANGED <<bridge, disconnect>>

\* fail
Fail ==
  IF phase \in Finished THEN UNCHANGED <<phase, bridge, disconnect, requestVars>>
  ELSE phase' = "error" /\ CloseRouter /\ CloseTransport

\* RpcRouter.failInitialization
FailInitialization ==
  /\ init' = "failed" /\ stored' = FALSE /\ queue' = <<>>
  /\ stage' = Rejected(stage) /\ UNCHANGED router

-----------------------------------------------------------------------------
(* The application.                                                        *)

\* start
Start ==
  /\ phase = "idle" /\ phase' = "connecting" /\ start' = "begun"
  /\ UNCHANGED <<closing, held, inbound, bridgeVars, requestVars, taskVars,
                 askVars, historyVars>>

\* A request waits until the connection is ready and the queue before it is
\* empty.
ShouldQueue == init # "ready" \/ drain \in Requests

\* sendRequest, when it does not throw
Issue(r) ==
  /\ router = "open" /\ init # "failed" /\ stage[r] = "none"
  /\ ShouldQueue => Len(queue) < QueueCapacity
  /\ issued' = Append(issued, r)
  /\ stage' = [stage EXCEPT ![r] = IF ShouldQueue THEN "queued" ELSE "writing"]
  /\ queue' = IF ShouldQueue THEN Append(queue, r) ELSE queue
  /\ written' = IF ShouldQueue THEN written ELSE Append(written, r)
  /\ UNCHANGED <<sessionVars, inbound, bridgeVars, router, init, stored,
                 taskVars, askVars, arrived, handled>>

\* close, to its first await: a connect command still under way is cancelled.
Close ==
  /\ closing = "none"
  /\ IF phase = "idle"
     THEN /\ phase' = "closed" /\ closing' = "over"
          /\ UNCHANGED requestVars
     ELSE /\ phase' = "closing" /\ CloseRouter
          /\ closing' = IF ~held /\ start \in {"connecting", "failing"}
                        THEN "cancelling" ELSE "awaitStart"
  /\ UNCHANGED <<start, held, inbound, bridgeVars, taskVars, askVars, historyVars>>

\* The step of closeInternal after closeTransport
AfterCloseTransport ==
  IF MustDisconnect \/ (held /\ disconnect = "sent") THEN "awaitClose" ELSE "awaitInbound"

\* The end of cancelPending.  A cancel the pool refused leaves the command, and
\* close goes on without waiting for the start.
CancelAnswered ==
  /\ closing = "cancelling"
  /\ \/ /\ closing' = "awaitStart"
        /\ command' = IF command = "running" THEN "refused" ELSE command
        /\ logical' = IF logical = "registered" THEN "gone" ELSE logical
        /\ UNCHANGED <<bridge, disconnect>>
     \/ /\ closing' = AfterCloseTransport /\ CloseTransport
        /\ UNCHANGED <<command, logical>>
  /\ UNCHANGED <<phase, start, held, inbound, pended, ended, bridgeFailed,
                 requestVars, taskVars, askVars, historyVars>>

\* close goes on when the start it interrupted has ended.
StartAwaited ==
  /\ closing = "awaitStart" /\ start \in {"resolved", "rejected"}
  /\ closing' = AfterCloseTransport /\ CloseTransport
  /\ UNCHANGED <<phase, start, held, inbound, command, pended, ended,
                 bridgeFailed, logical, requestVars, taskVars, askVars, historyVars>>

\* The end of closeInternal, after the transport and the messages under way
CloseReturns ==
  /\ \/ closing = "awaitInbound"
     \/ (closing = "awaitClose" /\ disconnect # "sent")
  /\ inbound = <<>>
  /\ phase' = "closed" /\ closing' = "over"
  /\ UNCHANGED <<start, held, inbound, bridgeVars, requestVars, taskVars,
                 askVars, historyVars>>

-----------------------------------------------------------------------------
(* The connect command and startInternal.                                  *)

\* startInternal, to the connect command
StartRuns ==
  /\ start = "begun"
  /\ IF phase \in {"closing", "closed"}
     THEN start' = "rejected" /\ UNCHANGED <<command, bridge>>
     ELSE start' = "connecting" /\ command' = "running" /\ bridge' = "connecting"
  /\ UNCHANGED <<phase, closing, held, inbound, pended, ended, bridgeFailed,
                 disconnect, logical, requestVars, taskVars, askVars, historyVars>>

\* The pool's answer to the connect command is on its way.
CommandEnds ==
  /\ command = "running"
  /\ \/ command' = "committed" /\ logical' = "registered"
     \/ command' = "refused" /\ UNCHANGED logical
  /\ UNCHANGED <<sessionVars, inbound, bridge, pended, ended, bridgeFailed,
                 disconnect, requestVars, taskVars, askVars, historyVars>>

\* The connect command is rejected.
ConnectRejected ==
  /\ start = "connecting" /\ command = "refused"
  /\ command' = "over" /\ bridge' = "closed" /\ start' = "rejected"
  /\ phase' = IF phase \in Finished THEN phase ELSE "error"
  /\ pended' = <<>> /\ ended' = FALSE
  /\ UNCHANGED <<closing, held, inbound, bridgeFailed, disconnect, logical,
                 requestVars, taskVars, askVars, historyVars>>

\* The response is unusable, or the bridge failed before it: the connection is
\* disconnected again before the start is rejected.
ResponseUnusable ==
  /\ start = "connecting" /\ command = "committed"
  /\ command' = "over" /\ bridgeFailed' = TRUE /\ pended' = <<>>
  /\ start' = "failing" /\ Disconnect
  /\ phase' = IF phase \in Finished THEN phase ELSE "error"
  /\ UNCHANGED <<closing, held, inbound, ended, logical, requestVars, taskVars,
                 askVars, historyVars>>

\* Mutant of Flushed: what arrived before the response is dropped.
FlushedNothing == <<>>

\* flushPendingEvents, flushEarlyInboundMessages: what the session has to handle
Flushed == Subsequence(pended, {i \in DOMAIN pended : pended[i].kind # "progress"})

\* The connect response: pended events are delivered, then startInternal opens
\* the router and sends initialize, unless the session was closed meanwhile or
\* the connection has already ended.
Connected ==
  /\ start = "connecting" /\ command = "committed" /\ ~bridgeFailed
  /\ command' = "over" /\ held' = TRUE /\ pended' = <<>>
  /\ CASE ended ->
            /\ bridge' = "closed" /\ start' = "rejected"
            /\ phase' = IF phase \in Finished THEN phase ELSE "error"
            /\ UNCHANGED <<inbound, disconnect, requestVars, written>>
       [] ~ended /\ phase \in {"closing", "closed"} ->
            /\ Disconnect /\ start' = "reclaiming"
            /\ UNCHANGED <<phase, inbound, requestVars, written>>
       [] OTHER ->
            /\ bridge' = "active" /\ phase' = "initializing" /\ start' = "initializing"
            /\ router' = "open" /\ init' = "initializing"
            /\ stage' = [stage EXCEPT ![Initialize] = "writing"]
            /\ written' = Append(written, Initialize)
            /\ inbound' = Flushed
            /\ UNCHANGED <<disconnect, stored, queue>>
  /\ UNCHANGED <<closing, ended, bridgeFailed, logical, taskVars, askVars,
                 arrived, handled, issued>>

\* A start that had to disconnect first is rejected.
Reclaimed ==
  /\ start \in {"failing", "reclaiming"} /\ disconnect # "sent"
  /\ start' = "rejected"
  /\ UNCHANGED <<phase, closing, held, inbound, bridgeVars, requestVars,
                 taskVars, askVars, historyVars>>

\* startInternal after its initialize request was settled
InitializeSettled ==
  /\ start = "initializing" /\ stage[Initialize] \notin Live
  /\ IF stage[Initialize] = "resolved" /\ phase = "initializing" /\ router = "open"
     THEN /\ phase' = "ready" /\ start' = "resolved"
          /\ UNCHANGED <<bridge, disconnect, requestVars>>
     ELSE /\ start' = "rejected" /\ Fail
  /\ UNCHANGED <<closing, held, inbound, command, pended, ended, bridgeFailed,
                 logical, taskVars, askVars, historyVars>>

\* The end of the disconnect command.  The pool refuses it when the connection
\* is gone already.
Disconnected ==
  /\ disconnect = "sent" /\ bridge' = "closed"
  /\ \/ disconnect' = "done" /\ logical = "registered" /\ logical' = "gone"
     \/ disconnect' = "failed" /\ UNCHANGED logical
  /\ UNCHANGED <<sessionVars, inbound, command, pended, ended, bridgeFailed,
                 requestVars, taskVars, askVars, historyVars>>

-----------------------------------------------------------------------------
(* Events of the connection.                                               *)

Messages == [n : 0..MaxInbound, kind : Kinds, of : Ids \cup AskIds \cup {Nobody}]

\* What may come next: protocol messages are numbered, replies only follow
\* requests that were written.
Sendable(m) ==
  /\ m.n = IF m.kind = "progress" THEN 0 ELSE arrived + 1
  /\ arrived' = IF m.kind = "progress" THEN arrived ELSE m.n
  /\ CASE m.kind \in {"result", "error"} -> \E i \in DOMAIN written : written[i] = m.of
       [] m.kind = "ask" -> m.of \in AskIds
       [] OTHER -> m.of = Nobody

\* An event before the connect response is kept for it; one too many, or one
\* that cannot be understood, fails the connection.
EventBeforeResponse(m) ==
  /\ bridge = "connecting" /\ command \in {"running", "committed"} /\ ~ended
  /\ Sendable(m)
  /\ CASE bridgeFailed -> UNCHANGED <<phase, pended, bridgeFailed>>
       [] ~bridgeFailed /\ Len(pended) < MaxPending ->
            pended' = Append(pended, m) /\ UNCHANGED <<phase, bridgeFailed>>
       [] OTHER ->
            /\ pended' = <<>> /\ bridgeFailed' = TRUE
            /\ phase' = IF phase \in Finished THEN phase ELSE "error"
  /\ UNCHANGED <<start, closing, held, inbound, command, bridge, ended,
                 disconnect, logical, requestVars, taskVars, askVars, handled,
                 issued, written>>

\* Mutant of MayTake: one message more than the capacity.
MayTakeOneMore == Len(inbound) <= InboundCapacity

\* receiveProtocolMessage has room for another message.
MayTake == Len(inbound) < InboundCapacity

\* A protocol message of an active connection
Receive(m) ==
  /\ bridge = "active" /\ logical = "registered" /\ m.kind # "progress"
  /\ Sendable(m)
  /\ IF phase \notin Finished /\ MayTake
     THEN inbound' = Append(inbound, m) /\ UNCHANGED <<phase, bridge, disconnect, requestVars>>
     ELSE UNCHANGED inbound /\ Fail
  /\ UNCHANGED <<start, closing, held, command, pended, ended, bridgeFailed,
                 logical, taskVars, askVars, handled, issued, written>>

\* An event of an active connection that the bridge cannot understand
BrokenEvent ==
  /\ bridge = "active" /\ logical = "registered"
  /\ bridgeFailed' = TRUE /\ Disconnect
  /\ IF phase \in Finished THEN UNCHANGED <<phase, requestVars>>
                           ELSE phase' = "error" /\ CloseRouter
  /\ UNCHANGED <<start, closing, held, inbound, command, pended, ended, logical,
                 taskVars, askVars, historyVars>>

\* The pool gives the connection up and says so.
TransportEnds ==
  /\ logical = "registered" /\ logical' = "gone"
  /\ CASE bridge = "connecting" ->
            /\ ended' = ~bridgeFailed
            /\ UNCHANGED <<phase, bridge, requestVars>>
       [] bridge \in {"active", "disconnecting"} /\ ~bridgeFailed ->
            /\ bridge' = "closed"
            /\ IF phase \in Finished THEN UNCHANGED <<phase, requestVars>>
                                     ELSE phase' = "error" /\ CloseRouter
            /\ UNCHANGED ended
       [] OTHER -> UNCHANGED <<phase, bridge, ended, requestVars>>
  /\ UNCHANGED <<start, closing, held, inbound, command, pended, bridgeFailed,
                 disconnect, taskVars, askVars, historyVars>>

-----------------------------------------------------------------------------
(* Writing requests, completing the initialization and draining the queue. *)

\* The task that completes the initialization is over; when it belongs to the
\* message being handled, so is that message.
TaskEnds ==
  /\ drain' = Nobody /\ completer' = "none"
  /\ inbound' = IF completer = "inbound" THEN Tail(inbound) ELSE inbound

\* completeInitialization, to the write of initialized
BeginCompletion(by) ==
  /\ init' = "sending_initialized" /\ stored' = FALSE
  /\ completer' = by /\ drain' = Initialize

\* A request whose write failed is rejected unless it has been settled.
FailedWrite(r) == [stage EXCEPT ![r] = IF @ = "writing" THEN "rejected" ELSE @]

\* writeRequest after its write, outside the drained queue
WriteEnds(r) ==
  /\ router = "open" /\ stage[r] = "writing" /\ drain # r
  /\ \/ /\ stage' = [stage EXCEPT ![r] = "pending"]
        /\ IF r = Initialize /\ stored THEN BeginCompletion("writer")
                                       ELSE UNCHANGED <<init, stored, taskVars>>
        /\ UNCHANGED <<router, queue>>
     \/ r = Initialize /\ FailInitialization /\ UNCHANGED taskVars
     \/ /\ r # Initialize /\ stage' = FailedWrite(r)
        /\ UNCHANGED <<router, init, stored, queue, taskVars>>
  /\ UNCHANGED <<sessionVars, inbound, bridgeVars, askVars, historyVars>>

\* Mutant of WriteNext: the request queued last is written first.
WriteLast(after) ==
  IF queue = <<>>
  THEN stage' = after /\ TaskEnds /\ UNCHANGED <<queue, written>>
  ELSE LET r == queue[Len(queue)] IN
       /\ stage' = [after EXCEPT ![r] = "writing"]
       /\ written' = Append(written, r)
       /\ queue' = SubSeq(queue, 1, Len(queue) - 1) /\ drain' = r
       /\ UNCHANGED <<completer, inbound>>

\* drainQueue: the next queued request is written, if there is one.
WriteNext(after) ==
  IF queue = <<>>
  THEN stage' = after /\ TaskEnds /\ UNCHANGED <<queue, written>>
  ELSE /\ stage' = [after EXCEPT ![Head(queue)] = "writing"]
       /\ written' = Append(written, Head(queue))
       /\ queue' = Tail(queue) /\ drain' = Head(queue)
       /\ UNCHANGED <<completer, inbound>>

\* completeInitialization after initialized was written
InitializedWritten ==
  /\ drain = Initialize
  /\ CASE router # "open" -> TaskEnds /\ UNCHANGED <<requestVars, written>>
       [] OTHER ->
            \/ /\ init' = "ready"
               /\ WriteNext([stage EXCEPT ![Initialize] = "resolved"])
               /\ UNCHANGED <<router, stored>>
            \/ FailInitialization /\ TaskEnds /\ UNCHANGED written
  /\ UNCHANGED <<sessionVars, bridgeVars, askVars, arrived, handled, issued>>

\* A request of the drained queue was written, or could not be.
DrainedWrite ==
  /\ drain \in Requests
  /\ IF router # "open" THEN TaskEnds /\ UNCHANGED <<requestVars, written>>
     ELSE /\ \/ WriteNext([stage EXCEPT ![drain] = IF @ = "writing" THEN "pending" ELSE @])
             \/ WriteNext(FailedWrite(drain))
          /\ UNCHANGED <<router, init, stored>>
  /\ UNCHANGED <<sessionVars, bridgeVars, askVars, arrived, handled, issued>>

-----------------------------------------------------------------------------
(* Handling messages, one after the other.                                 *)

\* The next message may be handled.
Ready(kind) ==
  /\ inbound # <<>> /\ completer # "inbound"
  /\ router = "open" /\ Head(inbound).kind = kind
  /\ handled' = Head(inbound).n

\* A message of a router that was closed meanwhile
SkipMessage ==
  /\ inbound # <<>> /\ completer # "inbound" /\ router # "open"
  /\ inbound' = Tail(inbound)
  /\ UNCHANGED <<sessionVars, bridgeVars, requestVars, taskVars, askVars, historyVars>>

\* Not JSON: the session fails.
HandleGarbage ==
  /\ Ready("garbage") /\ inbound' = Tail(inbound) /\ Fail
  /\ UNCHANGED <<start, closing, held, command, pended, ended, bridgeFailed,
                 logical, taskVars, askVars, arrived, issued, written>>

\* handleServerNotification: its handlers are synchronous.
HandleNotification ==
  /\ Ready("notification") /\ inbound' = Tail(inbound)
  /\ UNCHANGED <<sessionVars, bridgeVars, requestVars, taskVars, askVars,
                 arrived, issued, written>>

\* responseRequest and the stage check of initialize: the reply is for somebody.
Expected(r) ==
  /\ stage[r] \in {"writing", "pending"}
  /\ r = Initialize => init = "initializing" /\ ~stored

\* handleSuccessResponse with a valid result.  The reply to initialize may come
\* before its write has returned; otherwise the message waits for initialized
\* and the queue to be written.
HandleResult ==
  LET r == Head(inbound).of IN
  /\ Ready("result")
  /\ CASE ~Expected(r) -> inbound' = Tail(inbound) /\ UNCHANGED <<requestVars, taskVars>>
       [] Expected(r) /\ r # Initialize ->
            /\ stage' = [stage EXCEPT ![r] = "resolved"] /\ inbound' = Tail(inbound)
            /\ UNCHANGED <<router, init, stored, queue, taskVars>>
       [] Expected(r) /\ r = Initialize /\ stage[r] = "writing" ->
            /\ stored' = TRUE /\ inbound' = Tail(inbound)
            /\ UNCHANGED <<router, init, stage, queue, taskVars>>
       [] OTHER -> BeginCompletion("inbound") /\ UNCHANGED <<inbound, router, stage, queue>>
  /\ UNCHANGED <<sessionVars, bridgeVars, askVars, arrived, issued, written>>

\* handleErrorResponse, or a result that is not valid
HandleError ==
  LET r == Head(inbound).of IN
  /\ Ready("error") /\ inbound' = Tail(inbound)
  /\ CASE ~Expected(r) -> UNCHANGED requestVars
       [] Expected(r) /\ r = Initialize -> FailInitialization
       [] OTHER -> /\ stage' = [stage EXCEPT ![r] = "rejected"]
                   /\ UNCHANGED <<router, init, stored, queue>>
  /\ UNCHANGED <<sessionVars, bridgeVars, taskVars, askVars, arrived, issued, written>>

\* A request of the server with this identifier has no reply yet.
Outstanding(a) == asked[a] # "no"

PendingAsks == {a \in AskIds : asked[a] # "no"}

\* dispatchServerRequest: a reused identifier fails the session, one request too
\* many is refused, others are answered at once or by their handler.
HandleAsk ==
  LET a == Head(inbound).of IN
  /\ Ready("ask") /\ inbound' = Tail(inbound)
  /\ CASE Outstanding(a) -> Fail /\ UNCHANGED askVars
       [] ~Outstanding(a) /\ Cardinality(PendingAsks) >= AskCapacity ->
            /\ busy' = busy \cup {a}
            /\ UNCHANGED <<phase, bridge, disconnect, requestVars, asked, owed>>
       [] OTHER ->
            /\ \/ asked' = [asked EXCEPT ![a] = "handling"] /\ owed' = [owed EXCEPT ![a] = @ + 1]
               \/ asked' = [asked EXCEPT ![a] = "replying"] /\ UNCHANGED owed
            /\ UNCHANGED <<phase, bridge, disconnect, requestVars, busy>>
  /\ UNCHANGED <<start, closing, held, command, pended, ended, bridgeFailed,
                 logical, taskVars, arrived, issued, written>>

\* Mutant of HandlerEnds: a handler that throws leaves its request without a reply.
HandlerEndsSilently(a) ==
  /\ asked[a] = "handling"
  /\ asked' = [asked EXCEPT ![a] = "no"]
  /\ UNCHANGED <<sessionVars, inbound, bridgeVars, requestVars, taskVars, busy, owed, historyVars>>

\* A handler returns or throws: the reply is written unless the connection is
\* over.
HandlerEnds(a) ==
  /\ asked[a] = "handling"
  /\ IF router = "open"
     THEN asked' = [asked EXCEPT ![a] = "replying"] /\ owed' = [owed EXCEPT ![a] = @ - 1]
     ELSE asked' = [asked EXCEPT ![a] = "no"] /\ UNCHANGED owed
  /\ UNCHANGED <<sessionVars, inbound, bridgeVars, requestVars, taskVars, busy, historyVars>>

\* writeServerMessage returns; one that failed on an open connection fails the
\* session (terminateConnection, failInboundTask).
ReplyWritten(a) ==
  /\ \/ asked[a] = "replying" /\ asked' = [asked EXCEPT ![a] = "no"] /\ UNCHANGED busy
     \/ a \in busy /\ busy' = busy \ {a} /\ UNCHANGED asked
  /\ \/ router = "open" /\ Fail
     \/ UNCHANGED <<phase, bridge, disconnect, requestVars>>
  /\ UNCHANGED <<start, closing, held, inbound, command, pended, ended,
                 bridgeFailed, logical, taskVars, owed, historyVars>>

-----------------------------------------------------------------------------
Application == Start \/ Close \/ \E r \in Requests : Issue(r)

Server ==
  \/ TransportEnds \/ BrokenEvent
  \/ \E m \in Messages : EventBeforeResponse(m) \/ Receive(m)

\* What the event loop and the IPC bridge finish on their own
Runtime ==
  \/ StartRuns \/ CommandEnds \/ ConnectRejected \/ ResponseUnusable \/ Connected
  \/ Reclaimed \/ InitializeSettled \/ Disconnected
  \/ CancelAnswered \/ StartAwaited \/ CloseReturns
  \/ InitializedWritten \/ DrainedWrite \/ \E r \in Ids : WriteEnds(r)
  \/ SkipMessage \/ HandleGarbage \/ HandleNotification \/ HandleResult
  \/ HandleError \/ HandleAsk
  \/ \E a \in AskIds : ReplyWritten(a)

Next == Application \/ Server \/ Runtime \/ \E a \in AskIds : HandlerEnds(a)

Spec == Init /\ [][Next]_vars

\* The event loop runs what is ready and every IPC command is answered: the
\* pool ends connect commands, and no write or disconnect of it waits for the
\* server.  Nothing is assumed of the server, nor of a handler that asks the
\* user.
FairSpec == Spec /\ WF_vars(Runtime)

-----------------------------------------------------------------------------
(* Properties.                                                             *)

TypeOK ==
  /\ phase \in {"idle", "connecting", "initializing", "ready", "closing", "closed", "error"}
  /\ start \in {"none", "begun", "connecting", "failing", "reclaiming",
                 "initializing", "resolved", "rejected"}
  /\ closing \in {"none", "cancelling", "awaitStart", "awaitClose", "awaitInbound", "over"}
  /\ command \in {"none", "running", "committed", "refused", "over"}
  /\ bridge \in {"none", "connecting", "active", "disconnecting", "closed"}
  /\ {held, ended, bridgeFailed, stored} \subseteq BOOLEAN
  /\ disconnect \in {"none", "sent", "done", "failed"}
  /\ logical \in {"none", "registered", "gone"}
  /\ router \in {"none", "open", "closed"}
  /\ init \in {"awaiting_initialize", "initializing", "sending_initialized", "ready", "failed"}
  /\ stage \in [Ids -> Live \cup {"none", "resolved", "rejected"}]
  /\ pended \in Seq(Messages) /\ Len(pended) <= MaxPending
  /\ inbound \in Seq(Messages) /\ Len(inbound) <= InboundCapacity
  /\ queue \in Seq(Requests) /\ Len(queue) <= QueueCapacity
  /\ drain \in Ids \cup {Nobody} /\ completer \in {"none", "writer", "inbound"}
  /\ asked \in [AskIds -> {"no", "handling", "replying"}] /\ busy \subseteq AskIds
  /\ Cardinality(PendingAsks) <= AskCapacity /\ owed \in [AskIds -> Nat]
  /\ arrived \in 0..MaxInbound /\ handled \in 0..arrived
  /\ issued \in Seq(Requests) /\ written \in Seq(Ids)

\* What became of a request, as its sender sees it
Outcome(r) ==
  CASE stage[r] = "none" -> "unissued"
    [] stage[r] \in Live -> "waiting"
    [] OTHER -> stage[r]

Contract == INSTANCE RequestContract WITH
  line <- CASE router = "none" -> "unopened" [] router = "open" -> "open" [] OTHER -> "over",
  outcome <- [r \in Requests |-> Outcome(r)]

\* The session implements the contract of its requests: every accepted request
\* is settled once, whatever fails first, and none is left when the router is
\* closed (resolveRequest, rejectRequest, rejectConnectionRequests).
SettledOnce == Contract!Spec

\* initialize is the first request handed to the transport and the requests of
\* the application follow in the order they were sent, those that were queued
\* before ready and those sent while the queue drains included.
WrittenInOrder ==
  written # <<>> =>
    /\ Head(written) = Initialize
    /\ Len(written) - 1 <= Len(issued)
    /\ Tail(written) = SubSeq(issued, 1, Len(written) - 1)

\* While the session lives, no message of the server is skipped and none
\* overtakes another: not those that came before the connect response, nor those
\* that wait for the queue to be drained.
HandledInOrder ==
  [][handled' # handled => handled' = handled + 1]_vars

\* On a live connection every request of the server has exactly one reply or
\* one handler that will reply, also when its identifier is used again.
EveryAskAnswered ==
  router = "open" =>
    \A a \in AskIds : owed[a] = IF asked[a] = "handling" THEN 1 ELSE 0

\* Nothing of the session is under way any more.
AtRest ==
  /\ phase \in {"closed", "error"} /\ start \in {"none", "resolved", "rejected"}
  /\ disconnect # "sent" /\ command \notin {"running", "committed"}

\* A session that ended, in whatever state of its connect command, has given its
\* connection back unless the pool refused to take it.
ConnectionGivenBack ==
  AtRest => logical # "registered" \/ disconnect = "failed"

\* close returns, whatever it interrupts: a cancel that fails, an initialize
\* that is never answered, a queue that is being written.
CloseEnds == closing # "none" ~> phase = "closed"
=============================================================================
