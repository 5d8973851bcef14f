# TLA+ verification of codex-desktop-linux

codex-desktop-linux is a Tauri application: a Rust backend (`src-tauri/src`) and a
React frontend (`src`). Windows talk to *app-servers*, which run as a local process or
are reached over a WebSocket. This directory holds TLA+ models of the parts of the
program whose correctness depends on the order of events, TLC runs that check them on
small instances, and TLAPS proofs for every instance.

Paths of Rust files below are relative to `src-tauri/src`, paths of TypeScript files
to `src`.

## 1. The system

### Components and their state

| component | source | state | operations | modelled in |
|---|---|---|---|---|
| Connection pool | `connection/shared_pool.rs`, `configured.rs`, `lifecycle.rs` | logical connections by (window label, id), physical connections by (server version, proxy version), start watch, subscribers, idle token, early cancellations | connect, cancel, disconnect, window destroyed, idle expiry, transport events | ConnectionPool |
| Multiplexer | `connection/shared_pool.rs` | initialization, request routes, thread subscriptions, server requests and their responders | attach, prepare and enqueue a message, route an inbound message, detach | Multiplexer |
| Status broadcast | `connection/shared_pool.rs`, `transport/configuredServerStatuses.ts` | one subscriber per window label with a generation | subscribe, unsubscribe, snapshot, send, drop failed | StatusBroadcast |
| Connection controller | `app/useConfiguredServerConnection.ts` | generation, target, active session, close barrier, retry timer, counters, snapshot of the view | connect, retry, stop, disconnect, retain and release, timer, session states | ConnectionController |
| App-server session | `appServer/session.ts` | phase, epoch, transport, early messages, inbound queue | start, close, fail, receive | AppServerSession |
| RPC router | `protocol/rpc/rpcRouter.ts` | epoch, queued and pending requests, server requests | open, initialize, send, cancel, handle incoming, close | AppServerSession |
| Frontend transport | `transport/configuredServer.ts` | connecting, active, disconnecting, closed; pending events | connect, cancelPending, write, close, event | AppServerSession |
| Windows | `windows.rs`, `lib.rs`, `deep_link.rs` | the windows Tauri has, destroyed ones being cleaned up | open, show, destroy | WindowState |
| Window state | `window_state.rs`, `app/useWindowState.ts`, `App.tsx` | a versioned row per window, the server each window holds, tabs in memory; a copy in each page with a queue of mutations | load, bind, update tabs, open a tab from outside, reserve, discard, deactivate | WindowState |
| Configuration, credentials | `configuration/`, `credentials/`, `preferences.rs` | SQLite tables with versions and a cleanup queue, keyring, plaintext files | save, replace, clear, resolve, delete, clean up, clear everything | CredentialStorage |
| Transports | `connection/local_stdio.rs`, `remote_websocket.rs` | process or socket, queues, supervisor | start, send, pump, stop, kill | only as the pool sees them |
| Tunnels | `connection/http_connect.rs`, `socks5.rs`, `ssh_tunnel.rs` | a byte stream during a handshake | connect | no |
| Connection tests | `connection/configured.rs`, `app/useServerConnectionTest.ts` | attempts by window and id | begin, progress, cancel | no |
| Threads | `appServer/serverEventState.ts`, `serverEventSync.ts`, `app/useServerThreads.ts`, `useThreadSession.ts`, `useConversation.ts` | lists, turns, items | requests and notifications | no |
| Local data of a window | `drafts.rs`, `pending_thread_results.rs`, `preferences.rs`, `saved_prompts.rs` | rows with revisions | save, delete, list | no |
| Protocol trace | `protocol_trace.rs` | a bounded list of messages | record, read, clear | no |

`PROJECT.json` lists every component with what is and is not modelled.

### How they interact

1. A page's **window state** says which server its window is bound to. The page's
   **controller** starts one **session** at a time for that server. The session asks
   the **frontend transport** for a connection: the IPC command
   `connect_configured_server`.
2. The backend's **pool** resolves the profile's secrets (**credentials**) and gives the
   window a *logical* connection on a *physical* one that all windows with the same
   server and proxy version share, starting the **transport** when there is none.
   Transport events come back through a channel of each subscriber.
3. Once connected, the **multiplexer** decides about every message under the pool's
   lock; the command enqueues it on the transport after the lock is released.
   Inbound messages are routed under the lock and delivered after it.
4. Whoever changes the pool **broadcasts** the statuses of all servers to all windows.
5. Cancelling is a synchronous command, connecting an asynchronous one, closing a
   window an event of the runtime: they reach the pool in any order.
6. `open_app_window` (a deep link, a notification or another window) adds a tab to the
   window that holds a server, behind its page's back, or reserves a new window. A
   destroyed window is given up by a task of its own. A profile cannot be deleted
   while a window holds its server.

### What is hard about it

* Every Rust command is a task; between two locked blocks any other task may run.
  Frontend code is single threaded, but every `await` lets calls overlap.
* Identifiers outlive what they name: labels of closed windows are used again, timers
  wake up late, events of an earlier generation arrive after a later one has its key.
* A start is shared: it may be cancelled by the window that began it while others wait
  for it, and it fails for all of them.
* Cancelling a connect may fail, and the connection may come up after all.
* The order of decisions under the lock is not the order of the messages on the wire.
* Secrets are in a store, their references in a database: no transaction spans both.
* A page works on a copy of its window's state; its changes, answers and the events of
  others cross.

### What makes each component correct

* Pool: the tables agree; a connection nobody uses is idle and will be closed, one
  that is used never is; nothing runs outside the pool; every command ends; a
  destroyed window leaves nothing.
* Multiplexer: the server is initialized once, requests wait for it, replies reach who
  asked, a server request is answered once, subscriptions of the server are known.
* Status broadcast: the latest subscription of an open window stays and hears every
  change.
* Controller and session: one connection per window, no session forgotten, the view is
  the one of the chosen session, retries happen exactly as announced; a request is
  settled once, messages keep their order, the connection is given back.
* Credentials: a bound reference has its secret, a secret is known to somebody.
* Windows: a server is held by one window, the page shows the server its window holds,
  no tab is lost, a window that is gone gives its server back.

The hazards the code is exposed to are listed in `PROJECT.json` with their lines and
the properties that cover them.

## 2. Modules

`MC*.tla` name the instances for TLC; the `.cfg` files hold the values. `*Proofs.tla`
hold the theorems of a module. Operators whose comment begins with "Mutant of" are
wrong variants of the operator after them; they are used by no specification, only to
show that the property named with them in `PROJECT.json` notices the mistake.
`Subsequences` says what a filter (`Vec::retain`, `Array.prototype.filter`) keeps of a
sequence, by the positions it keeps: the records of a closed window, the tabs that stay,
the early messages that are passed on. `SelectSeq` would say the same by a recursion
the provers know nothing about.

### ConnectionPool

A connect command stands for the generation number of its logical connection and for
that of the physical connection it creates, so a comparison of generations in the
code is an equality of commands. A locked block of the manager is one step. What the
code does after the lock is released is a step of its own: `outbox` holds the events a
transport collected and has not sent (`DeliverEvents`), `removing` the logical
connections a task is about to remove (`FinishRemoval`), `expiring` the connections taken
out by `expire_idle` whose lifecycle is not cancelled yet (`CancelExpired`).

| code | model |
|---|---|
| `connect_configured_server` | `IssueConnect`, `Reserve`, `CheckReservation`, `Resolve`, `AttachRefused`/`AttachExisting`/`AttachNew`, `Replay`, `WaitUntilConnected`, `Commit`, `DropReservation` |
| `cancel_connection`, `release`, `disconnect_window` | `CancelConnect`, `Release`, `DisconnectWindow` |
| transport start and supervisor | `BeginStart`, `Progress`, `ConnectFails`, `MarkConnected`, `Activate`, `FailStart`, `Terminate`, `ProtocolMessage` |
| `schedule_idle`, `expire_idle` | `timers`, `ExpireIdle` |
| a refused send in `send_configured_server_message` | `SendFails` |

Credentials, paths and the contents of events are abstracted; a server resolves to a
key (`KeyOf`).

### Multiplexer

The physical connection is up. Each client issues a program of messages in order; each
message is a command of its own with two steps, `Prepare...` (under the lock) and
`Enqueue` (after it). `toServer` and `toPool` are the two streams. The app-server is
external: it handles messages in the order they arrive (`Serve`), replies to each
(`Reply`) and may ask (`Ask`). `init`, `forwarded`, `routes`, `subscribed`, `open` and
`responders` are the fields of `PhysicalConnectionEntry`.

### StatusBroadcast

`Change` is any change of the pool; the task of change n takes a snapshot
(`TakeSnapshot`), sends it to each subscriber (`SendTo`) and drops those that failed
(`DropFailed`). `Subscribe` asks for the window's URL (`MaySubscribe`; without it
`SubscribeRefused`) and enters the table under the lock, `SendInitial` sends its first
event after it. `Leave` is the page that calls the function its subscription returned,
`Unsubscribe` the command this sends. That command does not ask for the window, so it may
run when the page has subscribed anew, or when the window has gone and its label is used
by another one; only the generation comparison (`AfterLeave`) protects the newer
subscription. Subscribe and unsubscribe are synchronous commands of the thread that also
destroys windows; the model lets a window go between the insertion and the first event all
the same, which is more than the code allows.

### ConnectionController

A step is the code between two awaits. A session is named after the generation of the
call that started it. `barrier` is the promise chain `closeBarrier` as a queue; its
first element is the session being closed (`CloseBegins`, `CancelAnswered`,
`StartAwaited`, `CloseEnds`). `step[g]` is where the call of generation g is. `wire[g]`
is the session's logical connection in the pool: requested, open, being given back,
closed or refused. `ConnectSucceeds`, `ConnectFails`, `Initialized` and `SessionFails`
are the session's own progress; `left` and `cause` only serve properties. Delays, texts
and the clients handed to the view are abstracted; "shortly after it was started" is a
choice of the environment.

The controller sees the pool only through the answers of three commands; that connect
commands are answered, which its fairness assumes, is what `ConnectEnds` checks of
ConnectionPool, and that a session's close returns is what `CloseEnds` checks of
AppServerSession.

### RequestContract and AppServerSession

`RequestContract` is what a session promises: a request that was accepted is settled
exactly once, and when the line is over nobody waits and nothing is accepted.
`AppServerSession` is one session with its router and its frontend transport. It
implements the contract: `Contract == INSTANCE RequestContract WITH line <- ...,
outcome <- ...` reads the line off `router` and the outcome of a request off its
`stage`; `SettledOnce == Contract!Spec` is both a property of the run and a theorem.

| code | model |
|---|---|
| `start`, `startInternal` | `Start`, `StartRuns`, `Connected`, `ConnectRejected`, `ResponseUnusable`, `Reclaimed`, `InitializeSettled` |
| `close`, `closeInternal`, `closeTransport` | `Close`, `CancelAnswered`, `StartAwaited`, `CloseReturns`, `Disconnected` |
| `sendRequest`, `writeRequest`, `drainQueue`, `completeInitialization` | `Issue`, `WriteEnds`, `InitializedWritten`, `DrainedWrite` |
| events of the transport | `EventBeforeResponse`, `Receive`, `BrokenEvent`, `TransportEnds` |
| `inboundTail`, `handleIncoming` | `Handle...`, `SkipMessage` |
| requests of the server | `HandleAsk`, `HandlerEnds`, `ReplyWritten` |

A session opens once, as the controller uses it. Chains of microtasks that nothing can
come between are one step; notification handlers are synchronous; listeners do not
call `close` from inside a state change; a `sendRequest` that throws leaves no state.
Abort signals of requests, epochs of a router that is opened again and notifications
the application sends are not modelled.

### CredentialStorage

The rows of servers and proxies, their secrets' references and the cleanup queue are
in SQLite; the secrets in the Secret Service (`vault`) or in plaintext files (`file`).
`step` is what the holder of `operation_lock` does next, so that another command that
does not take the lock (`Update`, `DeleteProfile`, `ListBindings`, `WipeRows`) or a
`Crash` comes between any two steps. A call of a store may fail before or after its
effect; one of which the answer is lost has its effect at once or never.

Abstracted: one secret per owner; profiles exist from the start; the queue is a set and
a cleanup takes any part of it, where the code takes the oldest entries; leftovers are
cleaned up at the next credential operation. Changes other programs make to the keyring are not modelled.

### WindowState

`row`, `reference` and `servers` are the tables of the database, `runtime` the tabs the
repository keeps in memory; its lock and an immediate transaction make each of its operations one
step. A page has one command at a time: it is *sent*, *executed* by the repository,
and *answered* after the command looked whether the window is still there
(`CompleteCommand`). `known` is the page's `authoritativeState`, `view` and `status` its
snapshot, `queue` the chain `mutationTail`. `events` are the states that
`open_app_window` announces; calls announce in any order, so it is a set.

| code | model |
|---|---|
| `load_and_activate`, `bind_server`, `update_tabs` | `ExecuteLoad`, `ExecuteBind`, `ExecuteUpdate` |
| `complete_window_reference_update`, `deactivate_window` | `CompleteCommand`, `Deactivate` |
| `open_app_window` | `LookUp`, `OpenTab`, `Announce`, `Reserve`, `Build`, `Discard` |
| `delete_server` | `DeleteServer` |
| `enqueueMutation` and its callers | `Bind`, `OpenTabOf`, `Replace`, `CloseTab`, `CloseGroup`, `Activate`, `Attach` |
| `executeMutation`, `finishLoad`, `reload`, `applyExternalState` | `StartMutation`, `Succeed`, `ServerAlreadyOpen`, `Fail`, `Reload`, `Hear` |
| `Destroyed`, start of the process | `Destroy`, `Restart` |

Tauri removes a window from its map before the handler of `Destroyed` runs (external).
Two steps of a command that nothing of the model could come between with another outcome are merged:
the look at the window and the deactivation after it. Not modelled: the geometry of
windows, a page that is reloaded, clearing all local data with windows open, lost
answers of commands, a bind to no server (no page asks for it) and the second load of a page
while one is under way (no caller starts one).

## 3. Runs

| run | checks | instance |
|---|---|---|
| pool_shared | `TablesAgree`, `IdleIffUnused`, `EntryHasTransport`, `LossIsAnnounced`, `NoOrphanOfClosedWindow`, `UsedConnectionStays` | three commands of three windows share a local process; the first window closes and its label is used again; nobody cancels |
| pool_cancel | `NoUnownedTransport`, `CancelledInAdvanceFails`, and under fairness `ConnectEnds`, `LeftoversGo` | two commands of two windows over a remote connection; one may cancel or disconnect, the other's window closes |
| pool_silent_loss | `LossIsAnnounced` (violated) | three commands over a remote connection that nobody gives up |
| mux_shared | `InitializedOnce`, `AnsweredOnce`, `SubscriptionIsKnown`, and under fairness `EveryRequestEnds` | two connections, both initialize, open and close a tab of one thread; one request of the server |
| status_reuse | `SubscriptionKept`, `ChangeIsHeard` | two windows that use one label one after the other, the first subscribes twice, two changes; unsubscribes may come late |
| controller_switch | `TypeOK`, `OneWire`, `NoSessionLost`, `ViewOfActive`, `RetryAsAnnounced`, and under fairness `SwitchEnds`, `WireReclaimed`, `RetryHappens` | three calls or retries, two servers, two short exits |
| controller_attention | `AttentionIsNotRetried` (violated) | two calls or retries, one server |
| session | `TypeOK`, `WrittenInOrder`, `EveryAskAnswered`, `ConnectionGivenBack`, the refinement `SettledOnce`, `HandledInOrder`, and under fairness `CloseEnds` | two requests, three messages of the server, two identifiers for its requests of which one may be outstanding |
| credentials_crash | `BoundIsStored`, `NoSecretLeaks`, `PlanIsReadable` | two profiles, two references, versions up to 3, symmetric |
| credentials_wiped | `WipeLeavesNothing` (violated) | the same |
| windows_shared | `ShownServerIsHeld`, `ReferenceIsLive`, `UpdatesAreDistinct`, `NoTabLost`, and under fairness `RequestsEnd` | two windows, two servers, one thread, one call of `open_app_window`, two changes of the users, up to three tabs, one restart |
| windows_stuck | `UpdatingIsPending` (violated) | one window, one change |

The type invariants of ConnectionPool, StatusBroadcast and CredentialStorage are
proved, not run; WindowState and Multiplexer have their types in the proofs'
inductive invariants.

### Bounds

Every bound is a constant. Commands, messages, subscriptions, references and calls of
`open_app_window` are issued once; `Closing` and `Impatient` say which windows may close
and which clients may cancel; `MaxGenerations` bounds the calls of a controller,
`MaxChanges` the changes that are broadcast, `MaxVersion` the changes of a profile,
`MaxMutations` the changes users make to tabs, `MaxInbound` the messages of the server.
`MaxShortExits` stands for the limit of three short exits, `Capacity` for 100 tabs and
the capacities of the session for its real ones: what matters is the limit and one
more. Deadlock is not checked because these bounds end every behaviour.

Why they are enough: a mistake in the pool needs one command that leaves, one
that stays and one that comes later, or one label used twice, which is what pool_shared
has. The multiplexer tells connections apart only
as the primary of the initialization and the others, and as the last subscriber of a
thread and the others: two of each. A controller compares a generation with the
current one: three generations give one before the current and one after it. The
session needs a request that waits and one behind it, and one message more than it
takes; the order of three requests is left to the proof. Credentials: a reference being
replaced and its successor, a profile that changes meanwhile and one that is deleted.
Status broadcast: a subscription and a later one of its own window or of the next window
of its label; labels do not share anything, so one is enough. Windows: one
that has a server and one that wants it, a change under way and one queued behind it. Each property is shown to be violated in its run by a plausible
mistake in the code (the mutants in `PROJECT.json`), and section 4 covers any number
for every safety property.

### Fairness

All fairness is weak and only of what the program or its runtime drives:

* ConnectionPool: tasks that hold the lock or can take it go on; a transport start
  succeeds or fails (the code bounds it with timeouts); a cancelled lifecycle is noticed
  (`select!` on it in both transports); a sleeping timer wakes up; the runtime
  reports a destroyed window. Nothing is assumed of users, and nothing forces a running
  transport to end.
* Multiplexer: tasks go on; the server handles its input and its replies are routed.
  No client is forced to issue a message.
* ConnectionController: promises settle and timers fire; the pool answers connect,
  cancel and disconnect. The server need not answer `initialize` and no user need
  do anything. A cancel may fail.
* AppServerSession: the event loop runs what is ready and every IPC command is answered.
  The server need not send anything, and a handler that asks the user need not return.
* WindowState: a command that was sent is carried out and answered, and a page handles
  answers and starts the next mutation (`Repository(w)`, `Page(w)`). Users, callers of
  `open_app_window` and the tasks of destroyed windows may stop.

StatusBroadcast and CredentialStorage have no liveness property.

### Disagreements found

Four have a run that expects a violation; `PROJECT.json` quotes the line each contradicts.

* pool_silent_loss: a message sent between the Connected event and the activation of a
  remote transport cancels the shared connection; a third window that was told
  "connected" never hears of the loss.
* controller_attention: errors that only the user can mend are retried like network errors.
* credentials_wiped: a secret saved while all local data is cleared stays in the store
  without a row or a queue entry that names it.
* windows_stuck: a new tab in a window without a server leaves its page "updating" with
  nothing pending, and its user is told to wait. A shortcut that activates a tab whose close is queued
  does the same (`App.tsx` 1798-1839).

Others were seen while modelling and have no run:

* `initialized` may reach the server after another connection's first request, since
  messages are enqueued after the lock is released; the same race lets the
  `thread/unsubscribe` of a closed tab overtake the `thread/resume` of the tab opened
  again.
* Closing a tab while its resume is pending leaves the server subscribed.
* A request of the server is dropped without an answer when the only connection that
  could answer it goes.
* Two snapshots of the statuses may be sent in the wrong order.
* A crash while a plaintext file is written leaves a torn file that every later cleanup
  refuses to delete, and stops at.
* A Secret Service that fails after it stored an item leaves the secret in both stores;
  one copy is never deleted (`doubled` in the model).
* A tab opened by `open_app_window` is not shown when its event comes before the page listens
  or is overridden by an older answer, until the next change or load
  (`docs/prd/multi-window-settings.md` 9).
* One tab more than the limit puts the window into the error state instead of being refused.

## 4. Proofs

Every theorem holds for every value of the constants under the ASSUMEs of its module.

| module | theorem | property |
|---|---|---|
| ConnectionPoolProofs | `TypeCorrect`, `Invariance` | `TypeOK`, the inductive invariant `IInv` |
| | `TablesAlwaysAgree`, `IdleExactlyIfUnused`, `EntryAlwaysHasTransport`, `NoTransportUnowned`, `NoOrphans` | `TablesAgree`, `IdleIffUnused`, `EntryHasTransport`, `NoUnownedTransport`, `NoOrphanOfClosedWindow` |
| | `UsedConnectionAlwaysStays` | the action property `UsedConnectionStays` |
| | `LossesAreExplained`, `LocalLossesAreAnnounced` | what is behind `LossIsAnnounced`, and `LossIsAnnounced` itself for local processes |
| | `CancelledInAdvanceAlwaysFails` | `CancelledInAdvanceFails`, while the records fit |
| | `NobodyWaitsForNothing` | the safety behind `ConnectEnds` |
| MultiplexerProofs | `Invariance`, `InitializeOnce`, `AnswersOnce` | `InitializedOnce`, `AnsweredOnce` |
| | `SubscriptionsInvariance`, `SubscriptionsAreKnown` | `SubscriptionIsKnown` |
| | `AccountInvariance`, `NobodyIsForgotten`, `RepliesOnce` | the safety behind `EveryRequestEnds`, and that no request is replied to twice |
| StatusBroadcastProofs | `TypeCorrect`, `Invariance`, `SubscriptionsAreKept`, `ChangesAreHeard` | `SubscriptionKept`, `ChangeIsHeard` |
| ConnectionControllerProofs | `TypeCorrect`, `Invariance`, `OneConnection`, `SessionsAreKept`, `ViewFollows`, `RetriesAreAnnounced` | `TypeOK`, `OneWire`, `NoSessionLost`, `ViewOfActive`, `RetryAsAnnounced` |
| AppServerSessionProofs | `Invariance`, `ImplementsContract` | the refinement `SettledOnce` |
| | `WritesAreOrdered`, `AsksAreAnswered`, `GivesBack` | `WrittenInOrder`, `EveryAskAnswered`, `ConnectionGivenBack` |
| | `MessagesAreOrdered`, `TypeCorrect` | the action property `HandledInOrder`, `TypeOK` |
| CredentialStorageProofs | `TypeCorrect`, `Invariance`, `BoundCredentials`, `NoLeaks`, `PlansAreReadable` | `BoundIsStored`, `NoSecretLeaks`, `PlanIsReadable` |
| WindowStateProofs | `Invariance`, `ServersAreHeld`, `ReferencesAreLive` | `ShownServerIsHeld`, `ReferenceIsLive` |
| | `TabsInvariance`, `UpdatesKeepApart` | `UpdatesAreDistinct` |
| | `CopiesAreAlike`, `TabsSurvive` | the action property `NoTabLost` |
| SubsequencesProofs | `SubsequenceKeeps` | what a filter keeps |

**Pool.** None of the invariants is inductive alone. That the tables agree after
an attach needs that the attaching command is in no table before: `AttachPhases` says
that a command that did not reach its attach is attached to nothing and created
nothing. That dropping an entry leaves no transport behind needs that the entry's
transport is in a state where it notices its cancellation: `EntryHasTransport`. That
an idle expiry finds no subscriber needs that a token and subscribers exclude each
other: `IdleIffUnused`. That an entry found under a key is of that key needs `Keyed`.
So `IInv == TypeOK /\ AttachPhases /\ PoolInv`. The steps that touch the tables do so in
five ways, each with a lemma: a logical connection is removed (`LogicalRemoved`), a
physical one is closed (`PhysicalClosed`), a command joins (`JoinKeeps`) or creates one
(`CreateKeeps`), a lifecycle is cancelled (`LifecycleCancelled`); `TablesUntouched`
covers the rest. `NoOrphans` has an induction of its own on top of it.

Two properties of the pool need hypotheses, and the theorems state them. `FreshIds`: no two
connect commands use one identifier, since the page draws a random one for each
(`crypto.randomUUID()`, `useConfiguredServerConnection.ts:723`). With it, a removal meant for
one command cannot hit another (`RemovedForAReason`). `LossesAreExplained` then says of
every transport: a command whose connection is gone, though its window is there and its
client did not ask, either still waits and will find the start failed, or its channel got
or will get the terminal status, or a message was refused by a transport that was announced
but not yet active (`Refused`). The last case is the disagreement pool_silent_loss shows; it
needs a remote transport, so over local processes `LossIsAnnounced` holds without exception
(`LocalLossesAreAnnounced`). The induction needs to know in which step of a
command its transport is (`DriverPhases`), that a label has one window at a time
(`WindowOrder`), that a committed command saw its connection established (`Established`), and
that nothing but a refused message stops a pooled transport before it runs
(`StoppedByRefusal`).

`CancelledInAdvanceAlwaysFails` has a second hypothesis, `RecordsFit`: no more clients give
up than a window's share (64) and the whole queue (1024) hold. The code drops the oldest
record when either is full, and the command of that record then goes on, so the
property is false beyond. Every record stems from the cancellation of one command and no
command leaves two (`RecordsStem`), so an injection of the records into the other clients
shows that there is room. A command cancelled in advance finds its record when it reserves, or
its window is already cleaned up and the check after it stops it (`OwedIsMet`).

Behind `ConnectEnds` there is a safety property for every instance. `StartsAreDriven`: a
start that has no result is the start of a pooled transport that has still to report. So a
command that waits has the result before it or a transport to wait for
(`NobodyWaitsForNothing`); that the transport does report is the fairness TLC uses.

**Multiplexer.** A message is somewhere on its way: prepared, in a stream or handled.
`OneInitialize` says that along the whole way there is at most one initialize, and that
the state of the entry tells whether there was one; `OneAnswer` says the same of the answers to a
request of the server.

`SubscriptionIsKnown` speaks of moments when nothing about a thread is under way; the
induction has to speak of all the others. `KnownOrPending`: for a thread the server streams, a
connection is subscribed, or a resume's answer is on its way back, or an unsubscribe is
about to be sent or on its way. `OneJourney` says that a message is in one place of its
way only and has its route while its connection is there, so that its answer is
taken for what it is; `Present` that only a connection that is there has subscriptions.

What `EveryRequestEnds` asks of all behaviours has a half that is safety. `AccountFor`: a
request whose client is there is with the pool, or has its route and is on its way to
the server or back, or is among the waiters; `InitOnTheWay`: while there are waiters the
initialize they wait for is on its way, though its client may have gone. So no request is
left without a reply that can still come (`NobodyIsForgotten`). A message with a route and a
waiter have no reply yet, so nothing is replied to twice (`RepliesOnce`).

**Status broadcast.** A label belongs to one window until its cleanup has run
(`OneWindowPerLabel`); a window that could not be sent to does not come back
(`FailedAreGone`), so dropping it never hits a successor. A subscribe of a window that is
gone is refused, so an entry that a lasting subscription loses was taken over by its own
window, and an unsubscribe clears an entry only if it is its own, however late it comes. For
`ChangeIsHeard`, a change whose snapshot was taken has reached a lasting subscription, is in the snapshot the
subscription starts with, or has still to be sent to it (`UnderWay`, `TasksAreLater`).

**Controller.** Calls come in order and only the latest may have an active session
(`CallsInOrder`); while something is to be closed the latest call waits (`LatestWaits`);
sessions close one at a time (`ClosesInTurn`); a session's phase tells what became of
its connection (`WireOfSession`). Together they give `OneWire`. `KeptSessions` and
`LeftIsFinal` give `NoSessionLost`, `ActiveSession` and `ViewOfSwitch` give
`ViewOfActive`, `TimerOfStarted` gives `RetryAsAnnounced`. The bounds in `TypeOK` are
counts: every retry that is counted has a call behind it (`RetriesCounted`), and the limit of
short exits is reached only by a controller that has stopped retrying (`ExitsCounted`).

**Session.** The refinement needs that the router is opened once (`OpenedOnce`) and that
a request in the queue was not settled and is in it once (`QueuedOnce`): otherwise
draining would settle a request twice. Each action is shown to be one of five kinds of step of the contract:
nothing, open, accept one, settle one, reject all. The other theorems have invariants of
their own: `AskInv`, `BackInv` (who knows of the connect command's result, and who will
give it back), `OrderInv` (what was written, followed by what is queued, is what was
sent) and, for `HandledInOrder`, `MessagesInv`. It numbers what the server sent: before the
connect response all of it is among the early events, in order between reports of
progress (`NumberedEarly`); afterwards what was handled followed by what waits is what
arrived (`Numbered`), counting the message that completes the initialization as handled
while its task still holds it at the head of the queue (`Ahead`). The step from the
one to the other is the filter `Flushed`, so it rests on `SubsequenceKeeps`. The bounds of
the queues follow from it in `TypeInv`.

**Credentials.** A reference that was not drawn is nowhere (`FreshIsUnknown`); the one being saved is nobody's
and known to the queue unless all rows went meanwhile (`SavedIsReserved`); one that is
cleaned up is not bound, and its secret is gone before its row is (`CleanedIsUnbound`);
resolving excludes every other operation (`ReadsAlone`).

**Windows.** A page may trust what it knows because everything it can be told is
consistent with the row. `Known`: unless its command has changed something the page has
not heard of, what it knows names the server of the row, the reference and the tabs;
if the command has, its answer does. `Newer`: an event with a higher version than what
the page knows, or is about to know, names the row's server, and no event is newer than
the row. That a server has one holder is `Exclusive`; that the profile exists is
`Existing`, kept by `DeleteServer` since a row that agrees with its reference cannot be
of the deleted server. `Places` says that a window being built is nowhere else, and
`Absent` that a window that was not drawn has nothing and one that is not open has no
page. `LiveReference` strengthens `ReferenceIsLive`: an executed command accounts for a
reference only if it took one. The loads and binds share the lemma `Binding`, the
answers without effect `WithoutEffect`, the steps of a page `PageStep`.

Two inductions about tabs follow. `TabsInv`: whatever a copy of a state is in (the memory of the
backend, a page, an event, an answer, the base of a command under way), its tabs are
distinct and were drawn (`AllSound`), and the identifiers a queued mutation will bring in
are in none of them and in no other mutation (`FreshIds`), which is why opening a tab
later, on a state nobody saw when it was asked for, cannot make two tabs alike. `Alike`: two
copies of a window's state with one version have the same tabs, unless the memory belongs to another
server; since each change raises the version, the check of the version in `update_tabs`
is a check of the tabs, and a change is applied to the tabs it was computed from
(`TabsSurvive`).

**Filters.** `SubsequenceKeeps`: what a filter leaves is a sequence of the elements at the
positions kept, all of them and in their order. The rank of a position among those kept
grows with it and takes every value up to their number (`RankGrows`, `RankOnto`), so each
rank names one position (`NthKept`).

Only model-checked: all liveness (`ConnectEnds`, `LeftoversGo`, `EveryRequestEnds`,
`SwitchEnds`, `WireReclaimed`, `RetryHappens`, `CloseEnds`, `RequestsEnd`), which rests on
fairness and `ENABLED` and is out of the provers' reach. For `ConnectEnds` and
`EveryRequestEnds` the theorems above say for every instance that nobody waits for something
that cannot come; that it comes is what TLC checks. `LossIsAnnounced` and
`CancelledInAdvanceFails` are proved under the hypotheses above: over a remote transport the
first is false (pool_silent_loss), and so is the second with a limit of one record and two
clients of a window that give up.
Every other safety property of a passing run is proved as the run checks it.

## 5. Not modelled

* The bytes of handshakes (CONNECT, SOCKS5, SSH, TLS, WebSocket) and of stdio framing:
  sequential codecs, covered by the repository's fixture tests.
* The insides of the two transports: processes, pumps, supervisor and heartbeat. The pool's
  model assumes of them what its fairness says.
* Connection tests: a connect that is never committed, on a table of its own.
* Threads, turns and interactions: what they compute is a fold over typed notifications; the models
  abstract the contents of messages.
* Drafts, pending results, preferences, saved prompts: rows written by single statements.
* Components, styles, markdown, generated validators: no protocol of their own. They are most of the
  repository's lines: the generated schema alone is two thirds of them.
* Reports of rate limits, thread-list caches and resource routes (`fs`, `process`,
  `command` ids) of the multiplexer.
* What becomes of a command whose early cancellation was evicted: the eviction (64
  records per window, 1024 in all) is in `RecordPreCancellation`, but no run reaches it, and
  `CancelledInAdvanceAlwaysFails` is about queues that are not full.
