------------------------ MODULE ConnectionController ------------------------
(***************************************************************************)
(* A window's connection to its server: the controller that replaces,       *)
(* retries and gives up connections                                         *)
(* (src/app/useConfiguredServerConnection.ts) and the life of the sessions  *)
(* it starts and closes (src/appServer/session.ts, with the connector of    *)
(* src/transport/configuredServer.ts).                                      *)
(*                                                                         *)
(* Everything runs on the event loop: a step is the code between two        *)
(* awaits.  A session is named after the generation of the call that starts *)
(* it; every call of connect, retry and disconnect and every automatic      *)
(* retry has a generation of its own.  The wire of a session is its logical *)
(* connection in the pool: connect and disconnect commands sent over IPC.   *)
(***************************************************************************)
EXTENDS Naturals, Sequences

CONSTANTS
  Servers,
  NoServer,
  MaxGenerations,  \* bound: calls and automatic retries
  MaxShortExits    \* MAX_SHORT_LOCAL_PROCESS_EXITS

ASSUME ControllerAssumption ==
  /\ NoServer \notin Servers
  /\ MaxGenerations \in Nat
  /\ MaxShortExits \in Nat \ {0}

Generations == 1..MaxGenerations

VARIABLES
  generation,
  target,         \* currentTarget
  active,         \* activeAttempt, 0 for none
  step,           \* where the call of a generation is
  barrier,        \* closeBarrier: the closes to come, the first one running
  closeFailed,
  timer,          \* reconnectTimer: the generation it was scheduled for, 0 for none
  retries,        \* reconnectAttempt
  stopped,        \* reconnectStopped
  reached,        \* hasReachedReady
  timed,          \* attemptStartedAt is set
  shortExits,     \* shortLocalProcessExitCount
  view,           \* the phase of the snapshot's view
  reconnect,      \* the snapshot's reconnect: none, trying or scheduled
  mounted,        \* retainCount is positive
  checking,       \* a microtask will look at retainCount
  disposed,
  phase,          \* [Generations -> SessionPhases]
  wire,           \* [Generations -> WireStates]
  starting,       \* the start promise of a session is pending
  closing,        \* how far the close of a session is
  left,           \* the user's last command was to disconnect, or the window is gone
  cause           \* what the last failed session failed of

retryVars == <<timer, retries, stopped, reached, timed, shortExits>>
snapshotVars == <<view, reconnect>>
mountVars == <<mounted, checking, disposed>>
sessionVars == <<phase, wire, starting, closing>>
vars == <<generation, target, active, step, barrier, closeFailed, retryVars,
          snapshotVars, mountVars, sessionVars, left, cause>>

-----------------------------------------------------------------------------

SessionPhases == {"none", "connecting", "initializing", "ready", "error",
                  "closing", "closed"}
WireStates == {"none", "pending", "refused", "open", "closing", "closed"}
Views == {"disconnected", "connecting", "initializing", "ready", "error"}

Init ==
  /\ generation = 0
  /\ target = NoServer
  /\ active = 0
  /\ step = [g \in Generations |-> "none"]
  /\ barrier = <<>>
  /\ closeFailed = FALSE
  /\ timer = 0
  /\ retries = 0
  /\ stopped = FALSE
  /\ reached = FALSE
  /\ timed = FALSE
  /\ shortExits = 0
  /\ view = "disconnected"
  /\ reconnect = "none"
  /\ mounted = TRUE
  /\ checking = FALSE
  /\ disposed = FALSE
  /\ phase = [g \in Generations |-> "none"]
  /\ wire = [g \in Generations |-> "none"]
  /\ starting = [g \in Generations |-> FALSE]
  /\ closing = [g \in Generations |-> "no"]
  /\ left = FALSE
  /\ cause = "none"

-----------------------------------------------------------------------------
(* Shared by the actions                                                   *)

\* Mutant of IsCurrentAttempt: any session may change the view.
IsAnyAttempt(g) == ~disposed

\* isCurrentAttempt
IsCurrentAttempt(g) == ~disposed /\ active = g /\ g = generation

\* Mutant of Detached: a session that failed is dropped and never closed.
DetachedAlive == IF active # 0 /\ phase[active] = "error" THEN 0 ELSE active

\* detachActiveSession: what is handed to enqueueClose
Detached == active

\* The call of the next generation, bounded by MaxGenerations: detachActiveSession
\* comes after the close is up to the waiting call.
NextGeneration(now) ==
  /\ generation < MaxGenerations
  /\ generation' = generation + 1
  /\ active' = 0
  /\ barrier' = Append(barrier, [session |-> Detached, waiter |-> generation + 1])
  /\ step' = [step EXCEPT ![generation + 1] = now]

\* replaceConnection up to its first await
ReplaceConnection(server, automatic) ==
  /\ NextGeneration("switching")
  /\ target' = server
  /\ view' = "connecting"
  /\ reconnect' = IF automatic THEN "trying" ELSE "none"
  /\ left' = FALSE

\* resumeReconnect
ResumeReconnect(targetChanged) ==
  /\ stopped' = FALSE
  /\ timer' = 0
  /\ retries' = 0
  /\ shortExits' = 0
  /\ timed' = FALSE
  /\ reached' = (reached /\ ~targetChanged)

Retryable(code) == code \in {"transportClosed", "transportFailure", "transportConnectFailed"}

\* Mutant of MayRetry: a stop is forgotten.
MayRetryStopped(code) == reached /\ Retryable(code)

\* The condition of handleAttemptError
MayRetry(code) == reached /\ ~stopped /\ Retryable(code)

\* handleAttemptError and scheduleReconnect; retries after this is capped by
\* the number of generations.
HandleAttemptError(code) ==
  /\ view' = "error"
  /\ IF view = "error" /\ reconnect # "none" THEN UNCHANGED <<timer, retries, reconnect>>
     ELSE IF MayRetry(code)
     THEN /\ timer' = generation
          /\ retries' = retries + 1
          /\ reconnect' = "scheduled"
     ELSE reconnect' = "none" /\ UNCHANGED <<timer, retries>>
  /\ UNCHANGED <<stopped, reached>>

\* Mutant of TooManyExits: one more restart than allowed.
TooManyExitsLate(n) == n > MaxShortExits

TooManyExits(n) == n >= MaxShortExits

\* handleSessionState for phase error: recordLocalProcessExit first.  A process
\* that ran for more than ten seconds starts the count again.
HandleError(code, exited) ==
  \E short \in BOOLEAN :
    LET exits == IF exited /\ timed /\ short THEN shortExits + 1 ELSE 0
    IN /\ short => exited /\ timed
       /\ shortExits' = exits
       /\ timed' = FALSE
       /\ IF exited /\ TooManyExits(exits)
          THEN /\ stopped' = TRUE
               /\ timer' = 0
               /\ view' = "error" /\ reconnect' = "none"
               /\ UNCHANGED <<retries, reached>>
          ELSE HandleAttemptError(code)

\* Mutant of ClosedWire: the connection is not given back.
ClosedWireForgotten(g) == wire

\* closeTransport
ClosedWire(g) == IF wire[g] = "open" THEN [wire EXCEPT ![g] = "closing"] ELSE wire

\* fail: the session tells its controller and closes its transport.
Fail(g, code, exited) ==
  /\ phase' = [phase EXCEPT ![g] = "error"]
  /\ IF IsCurrentAttempt(g) THEN HandleError(code, exited)
     ELSE UNCHANGED <<retryVars, snapshotVars>>

-----------------------------------------------------------------------------
(* The user and the window                                                 *)

Connect(s) ==
  /\ ~disposed
  /\ ResumeReconnect(target # s)
  /\ ReplaceConnection(s, FALSE)
  /\ UNCHANGED <<closeFailed, mountVars, sessionVars, cause>>

Retry ==
  /\ ~disposed /\ target # NoServer
  /\ ResumeReconnect(FALSE)
  /\ ReplaceConnection(target, FALSE)
  /\ UNCHANGED <<closeFailed, mountVars, sessionVars, cause>>

StopReconnect ==
  /\ ~disposed
  /\ stopped' = TRUE /\ timer' = 0 /\ reconnect' = "none"
  /\ UNCHANGED <<generation, target, active, step, barrier, closeFailed, retries,
                 reached, timed, shortExits, view, mountVars, sessionVars, left, cause>>

Disconnect ==
  /\ ~disposed
  /\ NextGeneration("leaving")
  /\ stopped' = TRUE /\ timer' = 0 /\ retries' = 0 /\ timed' = FALSE
  /\ view' = "disconnected" /\ reconnect' = "none"
  /\ left' = TRUE
  /\ UNCHANGED <<target, closeFailed, reached, shortExits, mountVars, sessionVars, cause>>

\* retain and its release; strict mode releases and retains again before the
\* microtask runs.
Unmount ==
  /\ mounted /\ ~disposed
  /\ mounted' = FALSE /\ checking' = TRUE
  /\ UNCHANGED <<generation, target, active, step, barrier, closeFailed, retryVars,
                 snapshotVars, disposed, sessionVars, left, cause>>

Remount ==
  /\ ~mounted /\ checking /\ ~disposed
  /\ mounted' = TRUE
  /\ UNCHANGED <<generation, target, active, step, barrier, closeFailed, retryVars,
                 snapshotVars, checking, disposed, sessionVars, left, cause>>

\* The microtask of the release: dispose
DisposeUnlessRetained ==
  /\ checking
  /\ checking' = FALSE
  /\ IF mounted
     THEN UNCHANGED <<disposed, active, timer, barrier, left>>
     ELSE /\ disposed' = TRUE
          /\ active' = 0
          /\ timer' = 0
          /\ barrier' = Append(barrier, [session |-> Detached, waiter |-> 0])
          /\ left' = TRUE
  /\ UNCHANGED <<generation, target, step, closeFailed, retries, stopped, reached,
                 timed, shortExits, snapshotVars, mounted, sessionVars, cause>>

\* Mutant of RetryIsStale: the comparison of the generations is wrong.
RetryIsStaleAnyway == disposed \/ stopped \/ timer <= generation

\* Something happened since the retry was scheduled.
RetryIsStale == disposed \/ stopped \/ timer # generation

\* The timer of scheduleReconnect
TimerFires ==
  /\ timer # 0
  /\ timer' = 0
  /\ IF RetryIsStale
     THEN UNCHANGED <<generation, target, active, step, barrier, snapshotVars, left>>
     ELSE ReplaceConnection(target, TRUE)
  /\ UNCHANGED <<retries, stopped, reached, timed, shortExits, closeFailed, mountVars,
                 sessionVars, cause>>

-----------------------------------------------------------------------------
(* The close barrier                                                       *)

\* The close that was running is over; the call that waited for it wakes up.
BarrierMoves ==
  LET waiter == Head(barrier).waiter
  IN /\ barrier' = Tail(barrier)
     /\ step' = [g \in Generations |->
          CASE g = waiter /\ step[g] = "switching" -> "switched"
            [] g = waiter /\ step[g] = "leaving" -> "left"
            [] OTHER -> step[g]]

\* There was no session to close.
NothingToClose ==
  /\ barrier # <<>> /\ Head(barrier).session = 0
  /\ BarrierMoves
  /\ UNCHANGED <<generation, target, active, closeFailed, retryVars, snapshotVars,
                 mountVars, sessionVars, left, cause>>

\* Mutant of StartAfterRouter: the call of initialize is left waiting.
StartAfterRouterKept(g) == starting

\* closeRouter rejects the call of initialize, which ends the start.
StartAfterRouter(g) == [starting EXCEPT ![g] = @ /\ phase[g] # "initializing"]

\* closeInternal of the session whose turn it is: the router closes; a pending
\* connect command is cancelled.
CloseBegins(g) ==
  /\ barrier # <<>> /\ Head(barrier).session = g /\ closing[g] = "no"
  /\ phase' = [phase EXCEPT ![g] = "closing"]
  /\ closing' = [closing EXCEPT ![g] = IF wire[g] = "pending" THEN "cancelling" ELSE "waiting"]
  /\ starting' = StartAfterRouter(g)
  /\ UNCHANGED <<generation, target, active, step, barrier, closeFailed, retryVars,
                 snapshotVars, mountVars, wire, left, cause>>

\* cancelPending: when the cancel command fails the connect command may never
\* return, so nobody waits for it.
CancelAnswered(g) ==
  /\ closing[g] = "cancelling"
  /\ \E now \in {"waiting", "abandoned"} : closing' = [closing EXCEPT ![g] = now]
  /\ UNCHANGED <<generation, target, active, step, barrier, closeFailed, retryVars,
                 snapshotVars, mountVars, phase, wire, starting, left, cause>>

\* Mutant of StartIsOver: the close does not wait for the start it interrupts.
StartIsOverAnyway(g) == TRUE

\* The start promise has settled.
StartIsOver(g) == ~starting[g]

\* The start is over: closeTransport.
StartAwaited(g) ==
  /\ closing[g] = "waiting" /\ StartIsOver(g)
  /\ closing' = [closing EXCEPT ![g] = "reclaiming"]
  /\ wire' = ClosedWire(g)
  /\ UNCHANGED <<generation, target, active, step, barrier, closeFailed, retryVars,
                 snapshotVars, mountVars, phase, starting, left, cause>>

\* The transport is closed, or was never there.  A failed cancellation makes the
\* close fail, which the controller remembers for good.
CloseEnds(g) ==
  /\ \/ closing[g] = "reclaiming" /\ wire[g] # "closing"
     \/ closing[g] = "abandoned" /\ wire[g] \notin {"open", "closing"}
  /\ closing' = [closing EXCEPT ![g] = "done"]
  /\ closeFailed' = (closeFailed \/ closing[g] = "abandoned")
  /\ phase' = [phase EXCEPT ![g] = "closed"]
  /\ BarrierMoves
  /\ UNCHANGED <<generation, target, active, retryVars, snapshotVars, mountVars, wire,
                 starting, left, cause>>

\* replaceConnection goes on when no later call overtook it and everything
\* before it was closed.
MayStart(g) == ~disposed /\ g = generation /\ ~closeFailed

\* The session is created and started.
StartSession(g) ==
  /\ step[g] = "switched" /\ MayStart(g)
  /\ step' = [step EXCEPT ![g] = "starting"]
  /\ active' = g
  /\ timed' = TRUE
  /\ phase' = [phase EXCEPT ![g] = "connecting"]
  /\ wire' = [wire EXCEPT ![g] = "pending"]
  /\ starting' = [starting EXCEPT ![g] = TRUE]
  /\ UNCHANGED <<generation, target, barrier, closeFailed, timer, retries, stopped,
                 reached, shortExits, snapshotVars, mountVars, closing, left, cause>>

\* The call was overtaken, the close failed, or no session can be created.
StartNothing(g) ==
  /\ step[g] = "switched"
  /\ step' = [step EXCEPT ![g] = "done"]
  /\ IF ~disposed /\ g = generation
     THEN view' = "error" /\ reconnect' = "none"
     ELSE UNCHANGED snapshotVars
  /\ UNCHANGED <<generation, target, active, barrier, closeFailed, retryVars,
                 mountVars, sessionVars, left, cause>>

\* The end of disconnect
LeaveEnds(g) ==
  /\ step[g] = "left"
  /\ step' = [step EXCEPT ![g] = "done"]
  /\ IF ~disposed /\ g = generation /\ closeFailed
     THEN view' = "error" /\ reconnect' = "none"
     ELSE UNCHANGED snapshotVars
  /\ UNCHANGED <<generation, target, active, barrier, closeFailed, retryVars,
                 mountVars, sessionVars, left, cause>>

\* The start promise settled: a rejection the session did not report as an error
\* is handled here.
StartReturns(g) ==
  /\ step[g] = "starting" /\ ~starting[g]
  /\ step' = [step EXCEPT ![g] = "done"]
  /\ IF IsCurrentAttempt(g) /\ phase[g] # "ready" /\ view # "error"
     THEN HandleAttemptError("initializationFailed") /\ UNCHANGED <<timed, shortExits>>
     ELSE UNCHANGED <<retryVars, snapshotVars>>
  /\ UNCHANGED <<generation, target, active, barrier, closeFailed, mountVars,
                 sessionVars, left, cause>>

-----------------------------------------------------------------------------
(* The session                                                             *)

\* startInternal when the connect command returns a connection.  A session that
\* is closing or has failed gives it back.
ConnectSucceeds(g) ==
  /\ wire[g] = "pending"
  /\ IF phase[g] = "connecting"
     THEN /\ wire' = [wire EXCEPT ![g] = "open"]
          /\ phase' = [phase EXCEPT ![g] = "initializing"]
          /\ view' = IF IsCurrentAttempt(g) THEN "initializing" ELSE view
     ELSE /\ wire' = [wire EXCEPT ![g] = "closing"]
          /\ UNCHANGED <<phase, view>>
  /\ UNCHANGED <<generation, target, active, step, barrier, closeFailed, retryVars,
                 reconnect, mountVars, starting, closing, left, cause>>

\* The connect command fails, because the network does not let it through or
\* because of something only the user can mend (a refused proxy login, a changed
\* host key, a certificate, the configuration): the session does not look at the
\* error.
ConnectFails(g) ==
  /\ wire[g] = "pending"
  /\ wire' = [wire EXCEPT ![g] = "refused"]
  /\ starting' = [starting EXCEPT ![g] = FALSE]
  /\ IF phase[g] = "connecting"
     THEN /\ \E why \in {"network", "attention"} : cause' = why
          /\ Fail(g, "transportConnectFailed", FALSE)
     ELSE UNCHANGED <<phase, retryVars, snapshotVars, cause>>
  /\ UNCHANGED <<generation, target, active, step, barrier, closeFailed, mountVars,
                 closing, left>>

Initialized(g) ==
  /\ phase[g] = "initializing"
  /\ phase' = [phase EXCEPT ![g] = "ready"]
  /\ starting' = [starting EXCEPT ![g] = FALSE]
  /\ IF IsCurrentAttempt(g)
     THEN /\ view' = "ready" /\ reconnect' = "none"
          /\ reached' = TRUE /\ retries' = 0 /\ stopped' = FALSE /\ timer' = 0
     ELSE UNCHANGED <<view, reconnect, reached, retries, stopped, timer>>
  /\ UNCHANGED <<generation, target, active, step, barrier, closeFailed, timed,
                 shortExits, mountVars, wire, closing, left, cause>>

\* The transport ends or fails, the local process exits, or the session cannot
\* go on with what the server sends.  Before the connect command returned only
\* its events say so, and the start goes on until it returns.
SessionFails(g) ==
  /\ phase[g] \in {"connecting", "initializing", "ready"}
  /\ \E code \in {"transportClosed", "transportFailure", "inboundQueueOverflow"} :
       \E exited \in BOOLEAN :
         /\ exited => code = "transportClosed"
         /\ Fail(g, code, exited)
  /\ wire' = ClosedWire(g)
  /\ starting' = [starting EXCEPT ![g] = @ /\ phase[g] = "connecting"]
  /\ cause' = "network"
  /\ UNCHANGED <<generation, target, active, step, barrier, closeFailed, mountVars,
                 closing, left>>

\* The disconnect command returned; a start that gave its connection back ends.
WireCloses(g) ==
  /\ wire[g] = "closing"
  /\ wire' = [wire EXCEPT ![g] = "closed"]
  /\ starting' = [starting EXCEPT ![g] = FALSE]
  /\ UNCHANGED <<generation, target, active, step, barrier, closeFailed, retryVars,
                 snapshotVars, mountVars, phase, closing, left, cause>>

-----------------------------------------------------------------------------

UserNext ==
  \/ \E s \in Servers : Connect(s)
  \/ Retry \/ StopReconnect \/ Disconnect \/ Unmount \/ Remount

ControllerNext ==
  \/ DisposeUnlessRetained \/ TimerFires \/ NothingToClose
  \/ \E g \in Generations :
       StartSession(g) \/ StartNothing(g) \/ LeaveEnds(g) \/ StartReturns(g)

SessionNext ==
  \E g \in Generations :
    \/ CloseBegins(g) \/ CancelAnswered(g) \/ StartAwaited(g) \/ CloseEnds(g)
    \/ ConnectSucceeds(g) \/ ConnectFails(g) \/ Initialized(g) \/ SessionFails(g)
    \/ WireCloses(g)

Next == UserNext \/ ControllerNext \/ SessionNext

Spec == Init /\ [][Next]_vars

-----------------------------------------------------------------------------
(* Safety                                                                  *)

\* Types of the state of the controller and its sessions.
TypeOK ==
  /\ generation \in 0..MaxGenerations
  /\ target \in Servers \cup {NoServer}
  /\ active \in 0..generation
  /\ step \in [Generations -> {"none", "switching", "switched", "leaving", "left",
                               "starting", "done"}]
  /\ \A n \in 1..Len(barrier) :
       barrier[n] \in [session : 0..generation, waiter : 0..generation]
  /\ closeFailed \in BOOLEAN
  /\ timer \in 0..generation
  /\ retries \in 0..MaxGenerations
  /\ stopped \in BOOLEAN /\ reached \in BOOLEAN /\ timed \in BOOLEAN
  /\ shortExits \in 0..MaxShortExits
  /\ view \in Views
  /\ reconnect \in {"none", "trying", "scheduled"}
  /\ mounted \in BOOLEAN /\ checking \in BOOLEAN /\ disposed \in BOOLEAN
  /\ phase \in [Generations -> SessionPhases]
  /\ wire \in [Generations -> WireStates]
  /\ starting \in [Generations -> BOOLEAN]
  /\ closing \in [Generations -> {"no", "cancelling", "waiting", "abandoned",
                                   "reclaiming", "done"}]
  /\ left \in BOOLEAN
  /\ cause \in {"none", "network", "attention"}

\* A window has at most one connection at the pool: a session asks for one only
\* when every earlier session's connection is closed or was refused, however
\* connects, retries, disconnects and the timer overlap.
OneWire ==
  \A g, h \in Generations :
    wire[g] \in {"pending", "open", "closing"} /\ wire[h] \in {"pending", "open", "closing"}
      => g = h

\* No session is lost: one that was started and not closed is the active one or
\* waits in the barrier to be closed, and after a disconnect or the end of the
\* window none is active.
NoSessionLost ==
  /\ \A g \in Generations :
       phase[g] \notin {"none", "closed"} =>
         \/ g = active
         \/ \E n \in 1..Len(barrier) : barrier[n].session = g
  /\ left => active = 0

\* The view shows the session the user chose last: its own phase while it is
\* active, whatever an earlier session still reports.
ViewOfActive ==
  /\ active # 0 /\ ~disposed => view = phase[active]
  /\ active = 0 /\ ~disposed => view \in {"disconnected", "connecting", "error"}

\* An automatic retry is pending exactly while the window announces it, and only
\* after a failure of a server that was reached before; the generation that
\* pends is the current one.
RetryAsAnnounced ==
  ~disposed =>
    /\ (timer # 0) <=> (reconnect = "scheduled")
    /\ timer # 0 => timer = generation /\ view = "error" /\ reached /\ ~stopped /\ ~left

\* A failure that needs the user is not retried automatically.
AttentionIsNotRetried == cause = "attention" => timer = 0

-----------------------------------------------------------------------------
(* Liveness                                                                *)

\* Promises settle and timers fire; the pool answers connect, cancel and
\* disconnect commands.  A server need not answer initialize and nobody has to
\* press anything.
Fairness ==
  /\ WF_vars(DisposeUnlessRetained) /\ WF_vars(TimerFires) /\ WF_vars(NothingToClose)
  /\ \A g \in Generations :
       /\ WF_vars(StartSession(g) \/ StartNothing(g)) /\ WF_vars(LeaveEnds(g))
       /\ WF_vars(StartReturns(g))
       /\ WF_vars(CloseBegins(g)) /\ WF_vars(CancelAnswered(g))
       /\ WF_vars(StartAwaited(g)) /\ WF_vars(CloseEnds(g))
       /\ WF_vars(ConnectSucceeds(g) \/ ConnectFails(g)) /\ WF_vars(WireCloses(g))

FairSpec == Spec /\ Fairness

\* The call of generation g waits for the connection before it to be closed.
Switching(g) == step[g] \in {"switching", "switched"}

\* The session of g gave up its connection and the pool still has it, or will.
Unreclaimed(g) ==
  wire[g] \in {"pending", "open", "closing"} /\ phase[g] \in {"error", "closing", "closed"}

\* Every switch of the connection ends: the session before it is closed and its
\* own is started, or it was overtaken or gives up.
SwitchEnds ==
  (\E g \in Generations : Switching(g)) ~> (\A g \in Generations : ~Switching(g))

\* A connection that is not wanted any more is given back in the end, also one
\* that came up after its session was cancelled or had failed.
WireReclaimed ==
  (\E g \in Generations : Unreclaimed(g)) ~> (\A g \in Generations : ~Unreclaimed(g))

\* An announced retry does not stay announced: it starts the next call, the user
\* stops it or leaves, or the window goes.  The last generation of the bound has
\* no next call.
RetryHappens ==
  (reconnect = "scheduled" /\ generation < MaxGenerations)
    ~> (reconnect # "scheduled" \/ disposed)
=============================================================================
