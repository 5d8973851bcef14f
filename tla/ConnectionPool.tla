--------------------------- MODULE ConnectionPool ---------------------------
(***************************************************************************)
(* The pool that shares physical app-server connections between windows    *)
(* (src-tauri/src/connection/shared_pool.rs) together with the command     *)
(* that uses it (connect_configured_server in configured.rs) and the part  *)
(* of the two transports that reports to it (local_stdio.rs,               *)
(* remote_websocket.rs).                                                   *)
(*                                                                         *)
(* A connect command makes at most one reservation and creates at most one *)
(* physical connection, so the command itself stands for the generation    *)
(* number of its logical connection, for its event channel, and for the    *)
(* generation number of the physical connection it created.  A comparison  *)
(* of generations in the code is an equality of commands here.             *)
(*                                                                         *)
(* The mutex of the manager makes every locked block one step.  What the   *)
(* code does after it released the lock is a step of its own: sending the  *)
(* events it collected (outbox, "replaying"), removing the connections it  *)
(* listed (removing), cancelling the lifecycle it took out (expiring).     *)
(***************************************************************************)
EXTENDS Naturals, Sequences, FiniteSets, Subsequences

CONSTANTS
  Commands,     \* connect commands, each issued at most once
  ConnIds,      \* logical connection identifiers
  Labels,       \* window labels
  Windows,      \* window instances; a label may be used again after a close
  Keys,         \* server version + proxy version (PhysicalConnectionKey)
  LocalKeys,    \* the keys whose transport is a local stdio process
  ConnOf,       \* the identifier a command's client chose
  WindowOf,     \* the window instance a command was issued from
  LabelOf,      \* the label of a window instance
  FirstWindows, \* the window instances open at the start, one per label
  Closing,      \* bound: the window instances that may be destroyed
  Impatient,    \* bound: the commands whose client may cancel or disconnect
  KeyOf,        \* what a command's server resolves to
  NoCommand,    \* "no entry"
  MaxPreCancelledPerWindow,  \* MAX_PRE_CANCELLED_CONNECTIONS_PER_WINDOW
  MaxPreCancelled            \* MAX_PRE_CANCELLED_CONNECTIONS

ASSUME ConstantsAssumption ==
  /\ LocalKeys \subseteq Keys
  /\ ConnOf \in [Commands -> ConnIds]
  /\ WindowOf \in [Commands -> Windows]
  /\ LabelOf \in [Windows -> Labels]
  /\ FirstWindows \subseteq Windows
  /\ \A v, w \in FirstWindows : LabelOf[v] = LabelOf[w] => v = w
  /\ KeyOf \in [Commands -> Keys]
  /\ NoCommand \notin Commands
  /\ MaxPreCancelledPerWindow \in Nat \ {0}
  /\ MaxPreCancelled \in Nat \ {0}

VARIABLES
  window,       \* [Windows -> WindowStates]
  pc,           \* [Commands -> CommandSteps]: where connect_configured_server is
  logical,      \* logical_connections
  cancelled,    \* the lifecycle of a logical connection is cancelled
  attached,     \* the physical connection a command's attach returned
  physical,     \* physical_connections
  start,        \* the start watch of a physical connection
  stage,        \* connection_stage is set
  subscribers,  \* subscribers of a physical connection
  idleToken,    \* idle_token, 0 for None
  tokens,       \* number of idle tokens drawn for a physical connection
  timers,       \* sleeping schedule_idle tasks: <<physical connection, token>>
  initFailed,   \* initialization is SharedInitializationState::Failed
  stopped,      \* the lifecycle of a physical connection is cancelled
  expiring,     \* taken out by expire_idle, lifecycle not cancelled yet
  driver,       \* [Commands -> DriverSteps]: the transport of a physical connection
  outbox,       \* events a driver collected under the lock and has not sent
  removing,     \* logical connections somebody is about to remove
  preCancelled, \* pre_cancelled
  cancelSent,   \* the client of a command asked to cancel it
  releaseSent,  \* the client of a command asked to disconnect it
  told,         \* the last status a command's channel carried
  owed,         \* commands whose cancellation arrived before they reserved
  turnedAway    \* commands whose message met a transport not yet active

poolVars == <<logical, cancelled, physical, start, subscribers, idleToken,
              tokens, timers, stopped>>
clientVars == <<cancelSent, releaseSent, told, owed, turnedAway>>
vars == <<window, pc, attached, stage, initFailed, expiring, driver, outbox,
          removing, preCancelled, poolVars, clientVars>>

-----------------------------------------------------------------------------

WindowStates == {"unborn", "open", "destroyed", "cleaned"}
CommandSteps == {"idle", "queued", "reserved", "resolving", "attaching",
                 "replaying", "starting", "waiting", "checked", "dropping",
                 "committed", "failed"}
DriverSteps == {"none", "begin", "connecting", "activating", "running",
                "error", "done"}
StartStates == {"none", "connecting", "connected", "failed"}
Events == {"none", "progress", "connected", "message", "terminal"}
Entry == Commands \cup {NoCommand}

NoEvent == [event |-> "none", to |-> {}]

Init ==
  /\ window = [w \in Windows |-> IF w \in FirstWindows THEN "open" ELSE "unborn"]
  /\ pc = [c \in Commands |-> "idle"]
  /\ logical = [i \in ConnIds |-> NoCommand]
  /\ cancelled = [c \in Commands |-> FALSE]
  /\ attached = [c \in Commands |-> NoCommand]
  /\ physical = [k \in Keys |-> NoCommand]
  /\ start = [c \in Commands |-> "none"]
  /\ stage = [c \in Commands |-> FALSE]
  /\ subscribers = [c \in Commands |-> {}]
  /\ idleToken = [c \in Commands |-> 0]
  /\ tokens = [c \in Commands |-> 0]
  /\ timers = {}
  /\ initFailed = [c \in Commands |-> FALSE]
  /\ stopped = [c \in Commands |-> FALSE]
  /\ expiring = {}
  /\ driver = [c \in Commands |-> "none"]
  /\ outbox = [c \in Commands |-> NoEvent]
  /\ removing = {}
  /\ preCancelled = <<>>
  /\ cancelSent = [c \in Commands |-> FALSE]
  /\ releaseSent = [c \in Commands |-> FALSE]
  /\ told = [c \in Commands |-> "nothing"]
  /\ owed = {}
  /\ turnedAway = {}

-----------------------------------------------------------------------------
(* Predicates and updates shared by the actions.                           *)

\* The window is alive: url() succeeds and its channels accept events.
Alive(c) == window[WindowOf[c]] = "open"

OwnerLabel(c) == LabelOf[WindowOf[c]]

\* c is the current entry of its identifier.
Registered(c) == logical[ConnOf[c]] = c

\* p is the current entry of its key.
Pooled(p) == physical[KeyOf[p]] = p

\* The logical connections attached to p.
AttachedTo(p) == {c \in Commands : Registered(c) /\ attached[c] = p}

\* Mutant of CancelLifecycle: the entry goes, its transport runs on.
CancelLifecycleForgotten(p) == stopped

\* ConnectionLifecycle::cancel of a physical connection
CancelLifecycle(p) == [stopped EXCEPT ![p] = TRUE]

\* take_terminal_subscribers and fail_start: p leaves the pool together with
\* everything attached to it.
ClosePhysical(p) ==
  /\ physical' = [physical EXCEPT ![KeyOf[p]] = NoCommand]
  /\ start' = [start EXCEPT ![p] = "failed"]
  /\ stopped' = CancelLifecycle(p)
  /\ subscribers' = [subscribers EXCEPT ![p] = {}]
  /\ cancelled' = [c \in Commands |-> cancelled[c] \/ c \in AttachedTo(p)]
  /\ logical' = [i \in ConnIds |-> IF logical[i] \in AttachedTo(p)
                                   THEN NoCommand ELSE logical[i]]
  /\ UNCHANGED <<idleToken, tokens, timers>>

\* A fresh idle token: tokens are numbered as they are drawn.
NextToken(p) == tokens[p] + 1

\* schedule_idle
ScheduleIdle(p) == timers \cup {<<p, NextToken(p)>>}

\* Mutant of Remaining: the subscriber map keeps the connection that left.
RemainingWithLeaver(c, p) == subscribers[p]

\* The subscribers that stay when c leaves.
Remaining(c, p) == {d \in subscribers[p] : ConnOf[d] # ConnOf[c]}

\* detach_subscriber: the last subscriber of a connection that is still
\* connecting takes it down, the last one of a connected one starts the idle
\* period.
DetachSubscriber(c, p) ==
  LET left == Remaining(c, p)
      abandoned == left = {} /\ start[p] = "connecting"
      unused == left = {} /\ start[p] # "connecting"
  IN /\ subscribers' = [subscribers EXCEPT ![p] = left]
     /\ physical' = IF abandoned THEN [physical EXCEPT ![KeyOf[p]] = NoCommand]
                                 ELSE physical
     /\ start' = IF abandoned THEN [start EXCEPT ![p] = "failed"] ELSE start
     /\ stopped' = IF abandoned THEN CancelLifecycle(p) ELSE stopped
     /\ IF unused
        THEN /\ tokens' = [tokens EXCEPT ![p] = NextToken(p)]
             /\ idleToken' = [idleToken EXCEPT ![p] = NextToken(p)]
             /\ timers' = ScheduleIdle(p)
        ELSE UNCHANGED <<tokens, idleToken, timers>>

\* remove_logical_if_generation
RemoveLogical(c) ==
  IF ~Registered(c) THEN UNCHANGED poolVars
  ELSE /\ logical' = [logical EXCEPT ![ConnOf[c]] = NoCommand]
       /\ cancelled' = [cancelled EXCEPT ![c] = TRUE]
       /\ IF attached[c] # NoCommand /\ Pooled(attached[c])
          THEN DetachSubscriber(c, attached[c])
          ELSE UNCHANGED <<physical, start, subscribers, idleToken, tokens,
                           timers, stopped>>

\* The status a channel shows after one more event: closed is final.
Tell(event, before) ==
  CASE event = "terminal" -> "closed"
    [] event = "connected" /\ before = "nothing" -> "connected"
    [] OTHER -> before

-----------------------------------------------------------------------------
(* The window and its client.                                              *)

OpenWindow(w) ==
  /\ window[w] = "unborn"
  /\ \A v \in Windows \ {w} :
       LabelOf[v] = LabelOf[w] => window[v] \in {"unborn", "cleaned"}
  /\ window' = [window EXCEPT ![w] = "open"]
  /\ UNCHANGED <<pc, attached, stage, initFailed, expiring, driver, outbox,
                 removing, preCancelled, poolVars, clientVars>>

DestroyWindow(w) ==
  /\ window[w] = "open" /\ w \in Closing
  /\ window' = [window EXCEPT ![w] = "destroyed"]
  /\ UNCHANGED <<pc, attached, stage, initFailed, expiring, driver, outbox,
                 removing, preCancelled, poolVars, clientVars>>

\* Mutant of OwnedBy: a closing window forgets connections already committed.
OwnedByPending(label) ==
  {c \in Commands : Registered(c) /\ OwnerLabel(c) = label /\ pc[c] # "committed"}

\* The logical connections of a label
OwnedBy(label) == {c \in Commands : Registered(c) /\ OwnerLabel(c) = label}

\* The records of a window that is gone are dropped.
RecordsWithout(label) ==
  Subsequence(preCancelled, {n \in DOMAIN preCancelled : preCancelled[n][1] # label})

\* disconnect_window, called by the Destroyed event: cancels under the lock
\* every connection of the label, then removes them one by one.
DisconnectWindow(w) ==
  LET owned == OwnedBy(LabelOf[w])
  IN /\ window[w] = "destroyed"
     /\ window' = [window EXCEPT ![w] = "cleaned"]
     /\ cancelled' = [c \in Commands |-> cancelled[c] \/ c \in owned]
     /\ removing' = removing \cup owned
     /\ preCancelled' = RecordsWithout(LabelOf[w])
     /\ UNCHANGED <<pc, attached, stage, initFailed, expiring, driver, outbox,
                    logical, physical, start, subscribers, idleToken, tokens,
                    timers, stopped, clientVars>>

IssueConnect(c) ==
  /\ pc[c] = "idle"
  /\ Alive(c)
  /\ pc' = [pc EXCEPT ![c] = "queued"]
  /\ UNCHANGED <<window, attached, stage, initFailed, expiring, driver, outbox,
                 removing, preCancelled, poolVars, clientVars>>

\* The positions of the records a window left.
RecordsOf(label) == {n \in 1..Len(preCancelled) : preCancelled[n][1] = label}

Without(seq, n) == SubSeq(seq, 1, n - 1) \o SubSeq(seq, n + 1, Len(seq))

\* The window has used up its share of the queue.
ShareIsFull(label) == Cardinality(RecordsOf(label)) >= MaxPreCancelledPerWindow

\* record_pre_cancellation: a window that reached its limit loses its oldest
\* record, a full queue its first one.
RecordPreCancellation(label, id) ==
  LET mine == RecordsOf(label)
      room == IF ShareIsFull(label)
              THEN Without(preCancelled, CHOOSE n \in mine : \A m \in mine : n <= m)
              ELSE preCancelled
      rest == IF Len(room) >= MaxPreCancelled THEN Tail(room) ELSE room
  IN IF \E n \in mine : preCancelled[n][2] = id THEN preCancelled
     ELSE Append(rest, <<label, id>>)

\* cancel_connection: the command is registered, or has not reserved yet.
CancelConnect(c) ==
  LET id == ConnOf[c]
      entry == logical[id]
  IN /\ pc[c] # "idle" /\ Alive(c) /\ c \in Impatient /\ ~cancelSent[c]
     /\ cancelSent' = [cancelSent EXCEPT ![c] = TRUE]
     /\ \/ /\ entry # NoCommand
           /\ OwnerLabel(entry) = OwnerLabel(c)
           /\ cancelled' = [cancelled EXCEPT ![entry] = TRUE]
           /\ removing' = removing \cup {entry}
           /\ UNCHANGED <<preCancelled, owed>>
        \/ /\ entry # NoCommand
           /\ OwnerLabel(entry) # OwnerLabel(c)
           /\ UNCHANGED <<cancelled, removing, preCancelled, owed>>
        \/ /\ entry = NoCommand
           /\ preCancelled' = RecordPreCancellation(OwnerLabel(c), id)
           /\ owed' = IF pc[c] = "queued" THEN owed \cup {c} ELSE owed
           /\ UNCHANGED <<cancelled, removing>>
     /\ UNCHANGED <<window, pc, attached, stage, initFailed, expiring, driver,
                    outbox, logical, physical, start, subscribers, idleToken,
                    tokens, timers, stopped, releaseSent, told, turnedAway>>

\* release, called by disconnect_configured_server
Release(c) ==
  /\ pc[c] = "committed" /\ Alive(c) /\ c \in Impatient /\ ~releaseSent[c]
  /\ releaseSent' = [releaseSent EXCEPT ![c] = TRUE]
  /\ LET entry == logical[ConnOf[c]]
     IN IF entry # NoCommand /\ OwnerLabel(entry) = OwnerLabel(c)
        THEN /\ cancelled' = [cancelled EXCEPT ![entry] = TRUE]
             /\ removing' = removing \cup {entry}
        ELSE UNCHANGED <<cancelled, removing>>
  /\ UNCHANGED <<window, pc, attached, stage, initFailed, expiring, driver,
                 outbox, preCancelled, logical, physical, start, subscribers,
                 idleToken, tokens, timers, stopped, cancelSent, told, owed,
                 turnedAway>>

\* The second half of cancel_connection, release, disconnect_window and
\* remove_failed_subscribers.
FinishRemoval(c) ==
  /\ c \in removing
  /\ removing' = removing \ {c}
  /\ RemoveLogical(c)
  /\ UNCHANGED <<window, pc, attached, stage, initFailed, expiring, driver,
                 outbox, preCancelled, clientVars>>

-----------------------------------------------------------------------------
(* connect_configured_server                                               *)

\* Mutant of PreCancellationsOf: reserve does not look at the records.
PreCancellationsIgnored(c) == {}

\* take_pre_cancellation finds one of these.
PreCancellationsOf(c) ==
  {n \in RecordsOf(OwnerLabel(c)) : preCancelled[n][2] = ConnOf[c]}

\* reserve: refused for an identifier in use, or cancelled in advance.
Reserve(c) ==
  LET id == ConnOf[c]
      records == PreCancellationsOf(c)
  IN /\ pc[c] = "queued"
     /\ \/ /\ logical[id] # NoCommand
           /\ pc' = [pc EXCEPT ![c] = "failed"]
           /\ UNCHANGED <<logical, preCancelled>>
        \/ /\ logical[id] = NoCommand /\ records # {}
           /\ preCancelled' = Without(preCancelled, CHOOSE n \in records :
                                                     \A m \in records : n <= m)
           /\ pc' = [pc EXCEPT ![c] = "failed"]
           /\ UNCHANGED logical
        \/ /\ logical[id] = NoCommand /\ records = {}
           /\ logical' = [logical EXCEPT ![id] = c]
           /\ pc' = [pc EXCEPT ![c] = "reserved"]
           /\ UNCHANGED preCancelled
     /\ UNCHANGED <<window, attached, stage, initFailed, expiring, driver,
                    outbox, removing, cancelled, physical, start, subscribers,
                    idleToken, tokens, timers, stopped, clientVars>>

\* The command goes on to step next, changing nothing else.
GoTo(c, next) ==
  /\ pc' = [pc EXCEPT ![c] = next]
  /\ UNCHANGED <<window, attached, stage, initFailed, expiring, driver, outbox,
                 removing, preCancelled, poolVars, clientVars>>

\* Mutant of GoesOn: the command does not look at its window.
GoesOnWindowless(c) == ~cancelled[c]

\* Neither cancelled nor called from a window that is gone.
GoesOn(c) == ~cancelled[c] /\ Alive(c)

\* A command that was queued when its window went away stops here.
CheckReservation(c) ==
  /\ pc[c] = "reserved"
  /\ GoTo(c, IF GoesOn(c) THEN "resolving" ELSE "dropping")

\* resolve_server_connection, raced with the cancellation of the reservation;
\* an error of the configuration or the credentials ends the command.
Resolve(c) ==
  /\ pc[c] = "resolving"
  /\ \/ ~cancelled[c] /\ GoTo(c, "attaching")
     \/ GoTo(c, "dropping")

AttachRefused(c) ==
  LET p == physical[KeyOf[c]]
  IN /\ pc[c] = "attaching"
     /\ \/ ~Registered(c)
        \/ cancelled[c]
        \/ p # NoCommand /\ (start[p] = "failed" \/ initFailed[p])
     /\ GoTo(c, "dropping")

\* Mutant of Revive: the idle token survives a new subscriber.
ReviveForgotten(p) == idleToken

\* A connection that is used again has no idle token.
Revive(p) == [idleToken EXCEPT ![p] = 0]

\* attach to the pooled connection of the key; the event the subscriber
\* missed is collected here and sent after the lock is released.
AttachExisting(c) ==
  LET p == physical[KeyOf[c]]
  IN /\ pc[c] = "attaching" /\ Registered(c) /\ ~cancelled[c]
     /\ p # NoCommand /\ start[p] # "failed" /\ ~initFailed[p]
     /\ idleToken' = Revive(p)
     /\ subscribers' = [subscribers EXCEPT ![p] = Remaining(c, p) \cup {c}]
     /\ attached' = [attached EXCEPT ![c] = p]
     /\ outbox' = [outbox EXCEPT ![c] =
          IF start[p] = "connected" THEN [event |-> "connected", to |-> {c}]
          ELSE IF stage[p] THEN [event |-> "progress", to |-> {c}]
          ELSE NoEvent]
     /\ pc' = [pc EXCEPT ![c] = "replaying"]
     /\ UNCHANGED <<window, stage, initFailed, expiring, driver, removing,
                    preCancelled, logical, cancelled, physical, start, tokens,
                    timers, stopped, clientVars>>

\* attach when the key has no connection: the command creates it and runs
\* its transport until it is established.
AttachNew(c) ==
  /\ pc[c] = "attaching" /\ Registered(c) /\ ~cancelled[c]
  /\ physical[KeyOf[c]] = NoCommand
  /\ physical' = [physical EXCEPT ![KeyOf[c]] = c]
  /\ start' = [start EXCEPT ![c] = "connecting"]
  /\ subscribers' = [subscribers EXCEPT ![c] = {c}]
  /\ attached' = [attached EXCEPT ![c] = c]
  /\ driver' = [driver EXCEPT ![c] = "begin"]
  /\ pc' = [pc EXCEPT ![c] = "starting"]
  /\ UNCHANGED <<window, stage, initFailed, expiring, outbox, removing,
                 preCancelled, logical, cancelled, idleToken, tokens, timers,
                 stopped, clientVars>>

\* The replayed event; a channel that refuses it ends the command.
Replay(c) ==
  /\ pc[c] = "replaying"
  /\ outbox' = [outbox EXCEPT ![c] = NoEvent]
  /\ IF outbox[c] # NoEvent /\ ~Alive(c)
     THEN pc' = [pc EXCEPT ![c] = "dropping"] /\ UNCHANGED told
     ELSE /\ pc' = [pc EXCEPT ![c] = "waiting"]
          /\ told' = [told EXCEPT ![c] = Tell(outbox[c].event, @)]
  /\ UNCHANGED <<window, attached, stage, initFailed, expiring, driver,
                 removing, preCancelled, poolVars, cancelSent, releaseSent, owed,
                 turnedAway>>

\* wait_until_connected and the check that follows it.
WaitUntilConnected(c) ==
  LET state == start[attached[c]]
  IN /\ pc[c] = "waiting"
     /\ \/ /\ state = "connected"
           /\ GoTo(c, IF GoesOn(c) THEN "checked" ELSE "dropping")
        \/ /\ state = "failed" \/ (state = "connecting" /\ cancelled[c])
           /\ GoTo(c, "dropping")

Commit(c) ==
  /\ pc[c] = "checked"
  /\ GoTo(c, "committed")

\* Drop of an uncommitted LogicalConnectionReservation
DropReservation(c) ==
  /\ pc[c] = "dropping"
  /\ pc' = [pc EXCEPT ![c] = "failed"]
  /\ RemoveLogical(c)
  /\ UNCHANGED <<window, attached, stage, initFailed, expiring, driver, outbox,
                 removing, preCancelled, clientVars>>

-----------------------------------------------------------------------------
(* The transport of the physical connection p (driver[p]) and its events.   *)
(* Until it is established it runs inside the command that created p.       *)

DriverGoesTo(p, step) ==
  /\ driver' = [driver EXCEPT ![p] = step]
  /\ UNCHANGED <<window, pc, attached, stage, initFailed, expiring, outbox,
                 removing, preCancelled, poolVars, clientVars>>

\* begin_start and the checks before it
BeginStart(p) ==
  /\ driver[p] = "begin"
  /\ \/ ~stopped[p] /\ DriverGoesTo(p, "connecting")
     \/ DriverGoesTo(p, "error")

\* mark_progress_and_subscribers.  One report stands for all stages.
Progress(p) ==
  /\ driver[p] = "connecting" /\ KeyOf[p] \notin LocalKeys
  /\ Pooled(p) /\ start[p] = "connecting" /\ ~stage[p]
  /\ stage' = [stage EXCEPT ![p] = TRUE]
  /\ outbox' = [outbox EXCEPT ![p] = [event |-> "progress", to |-> subscribers[p]]]
  /\ UNCHANGED <<window, pc, attached, initFailed, expiring, driver, removing,
                 preCancelled, poolVars, clientVars>>

ConnectFails(p) ==
  /\ driver[p] = "connecting" /\ outbox[p] = NoEvent
  /\ DriverGoesTo(p, "error")

\* The transport is up: mark_connected_and_subscribers.
MarkConnected(p) ==
  /\ driver[p] = "connecting" /\ outbox[p] = NoEvent
  /\ driver' = [driver EXCEPT ![p] = "activating"]
  /\ IF Pooled(p)
     THEN /\ start' = [start EXCEPT ![p] = "connected"]
          /\ outbox' = [outbox EXCEPT
               ![p] = [event |-> "connected", to |-> subscribers[p]]]
     ELSE UNCHANGED <<start, outbox>>
  /\ UNCHANGED <<window, pc, attached, stage, initFailed, expiring, removing,
                 preCancelled, logical, cancelled, physical, subscribers,
                 idleToken, tokens, timers, stopped, clientVars>>

\* After the Connected event the remote transport publishes its outbound
\* queue, unless it was cancelled meanwhile; the local one already has.
Activate(p) ==
  /\ driver[p] = "activating" /\ outbox[p] = NoEvent
  /\ IF stopped[p] /\ KeyOf[p] \notin LocalKeys
     THEN /\ driver' = [driver EXCEPT ![p] = "error"]
          /\ UNCHANGED pc
     ELSE /\ driver' = [driver EXCEPT ![p] = "running"]
          /\ pc' = [pc EXCEPT ![p] = "waiting"]
  /\ UNCHANGED <<window, attached, stage, initFailed, expiring, outbox,
                 removing, preCancelled, poolVars, clientVars>>

\* Mutant of StartFailureApplies: a failed start leaves its entry in the pool.
StartFailureIgnored(p) == FALSE

\* fail_start acts on the generation it was called for.
StartFailureApplies(p) == Pooled(p)

\* fail_start, called by the creating command when its transport failed
FailStart(p) ==
  /\ driver[p] = "error"
  /\ driver' = [driver EXCEPT ![p] = "done"]
  /\ pc' = [pc EXCEPT ![p] = "dropping"]
  /\ IF StartFailureApplies(p) THEN ClosePhysical(p) ELSE UNCHANGED poolVars
  /\ UNCHANGED <<window, attached, stage, initFailed, expiring, outbox,
                 removing, preCancelled, clientVars>>

\* Mutant of TerminalApplies: the entry outlives its transport.
TerminalIgnored(p) == FALSE

\* Mutant of TerminalTargets: a connection whose command has not returned yet
\* is not told.
TerminalTargetsCommitted(p) == {c \in subscribers[p] : pc[c] = "committed"}

\* take_terminal_subscribers acts on the generation the event belongs to, and
\* returns every subscriber.
TerminalApplies(p) == Pooled(p)
TerminalTargets(p) == subscribers[p]

\* The supervisor ends, for a cancelled lifecycle or for a reason of its own
\* (the server closed, a read or a write failed): take_terminal_subscribers.
Terminate(p) ==
  /\ driver[p] = "running" /\ outbox[p] = NoEvent
  /\ driver' = [driver EXCEPT ![p] = "done"]
  /\ IF TerminalApplies(p)
     THEN /\ ClosePhysical(p)
          /\ outbox' = [outbox EXCEPT
               ![p] = [event |-> "terminal", to |-> TerminalTargets(p)]]
     ELSE UNCHANGED <<poolVars, outbox>>
  /\ UNCHANGED <<window, pc, attached, stage, initFailed, expiring, removing,
                 preCancelled, clientVars>>

\* route_protocol_message; only a delivery that fails changes the pool.
ProtocolMessage(p) ==
  /\ driver[p] = "running" /\ outbox[p] = NoEvent /\ Pooled(p)
  /\ \E c \in subscribers[p] : ~Alive(c) /\ c \notin removing
  /\ outbox' = [outbox EXCEPT ![p] = [event |-> "message", to |-> subscribers[p]]]
  /\ UNCHANGED <<window, pc, attached, stage, initFailed, expiring, driver,
                 removing, preCancelled, poolVars, clientVars>>

\* deliver_events: a channel that refuses the event loses its connection.
\* remove_failed_subscribers looks the generation up again by identifier.
DeliverEvents(p) ==
  LET sent == outbox[p]
      refused == {c \in sent.to : ~Alive(c)}
  IN /\ sent # NoEvent /\ pc[p] # "replaying"
     /\ told' = [c \in Commands |-> IF c \in sent.to \ refused
                                    THEN Tell(sent.event, told[c]) ELSE told[c]]
     /\ removing' = removing \cup
                     ({logical[ConnOf[c]] : c \in refused} \ {NoCommand})
     /\ outbox' = [outbox EXCEPT ![p] = NoEvent]
     /\ UNCHANGED <<window, pc, attached, stage, initFailed, expiring, driver,
                    preCancelled, poolVars, cancelSent, releaseSent, owed,
                    turnedAway>>

\* The server rejected initialize: route_inbound marks the connection and
\* cancels it.
InitializeFails(p) ==
  /\ driver[p] = "running" /\ outbox[p] = NoEvent /\ Pooled(p) /\ ~initFailed[p]
  /\ \E c \in Commands : pc[c] = "committed" /\ attached[c] = p
  /\ initFailed' = [initFailed EXCEPT ![p] = TRUE]
  /\ stopped' = CancelLifecycle(p)
  /\ UNCHANGED <<window, pc, attached, stage, expiring, driver, outbox,
                 removing, preCancelled, logical, cancelled, physical, start,
                 subscribers, idleToken, tokens, timers, clientVars>>

\* send_configured_server_message: a message the transport does not accept
\* cancels the physical connection.  The remote transport accepts none before
\* Activate.
SendFails(c) ==
  LET p == attached[c]
  IN /\ pc[c] = "committed" /\ Alive(c) /\ Registered(c)
     /\ Pooled(p) /\ start[p] = "connected"
     /\ \/ driver[p] = "running" /\ UNCHANGED turnedAway
        \/ /\ driver[p] = "activating" /\ KeyOf[p] \notin LocalKeys
           /\ turnedAway' = turnedAway \cup {c}
     /\ ~stopped[p]
     /\ stopped' = CancelLifecycle(p)
     /\ UNCHANGED <<window, pc, attached, stage, initFailed, expiring, driver,
                    outbox, removing, preCancelled, logical, cancelled,
                    physical, start, subscribers, idleToken, tokens, timers,
                    cancelSent, releaseSent, told, owed>>

-----------------------------------------------------------------------------
(* The idle period.                                                        *)

\* Mutant of ExpiryApplies: the timer looks at its generation only.
ExpiryAppliesAnyToken(p, token) == Pooled(p) /\ start[p] = "connected"

\* The token of the timer is still the one of the connection.
ExpiryApplies(p, token) ==
  /\ Pooled(p) /\ idleToken[p] = token
  /\ subscribers[p] = {} /\ start[p] = "connected"

\* expire_idle, when a schedule_idle task wakes up
ExpireIdle(p, token) ==
  /\ <<p, token>> \in timers
  /\ timers' = timers \ {<<p, token>>}
  /\ IF ExpiryApplies(p, token)
     THEN /\ physical' = [physical EXCEPT ![KeyOf[p]] = NoCommand]
          /\ expiring' = expiring \cup {p}
     ELSE UNCHANGED <<physical, expiring>>
  /\ UNCHANGED <<window, pc, attached, stage, initFailed, driver, outbox,
                 removing, preCancelled, logical, cancelled, start, subscribers,
                 idleToken, tokens, stopped, clientVars>>

\* The end of expire_idle, after the lock is released
CancelExpired(p) ==
  /\ p \in expiring
  /\ expiring' = expiring \ {p}
  /\ stopped' = CancelLifecycle(p)
  /\ UNCHANGED <<window, pc, attached, stage, initFailed, driver, outbox,
                 removing, preCancelled, logical, cancelled, physical, start,
                 subscribers, idleToken, tokens, timers, clientVars>>

-----------------------------------------------------------------------------

WindowNext ==
  \E w \in Windows : OpenWindow(w) \/ DestroyWindow(w) \/ DisconnectWindow(w)

ClientNext ==
  \E c \in Commands : IssueConnect(c) \/ CancelConnect(c) \/ Release(c) \/ SendFails(c)

CommandNext ==
  \E c \in Commands :
    \/ Reserve(c) \/ CheckReservation(c) \/ Resolve(c)
    \/ AttachRefused(c) \/ AttachExisting(c) \/ AttachNew(c) \/ Replay(c)
    \/ WaitUntilConnected(c) \/ Commit(c) \/ DropReservation(c)
    \/ FinishRemoval(c)

DriverNext ==
  \E p \in Commands :
    \/ BeginStart(p) \/ Progress(p) \/ ConnectFails(p) \/ MarkConnected(p)
    \/ Activate(p) \/ FailStart(p) \/ Terminate(p) \/ ProtocolMessage(p)
    \/ DeliverEvents(p) \/ InitializeFails(p)

IdleNext ==
  \E p \in Commands :
    \/ \E token \in 1..tokens[p] : ExpireIdle(p, token)
    \/ CancelExpired(p)

Next == WindowNext \/ ClientNext \/ CommandNext \/ DriverNext \/ IdleNext

Spec == Init /\ [][Next]_vars

-----------------------------------------------------------------------------
(* Safety                                                                  *)

\* Types of the state of the pool, its commands and its transports.
TypeOK ==
  /\ window \in [Windows -> WindowStates]
  /\ pc \in [Commands -> CommandSteps]
  /\ logical \in [ConnIds -> Entry]
  /\ cancelled \in [Commands -> BOOLEAN]
  /\ attached \in [Commands -> Entry]
  /\ physical \in [Keys -> Entry]
  /\ start \in [Commands -> StartStates]
  /\ stage \in [Commands -> BOOLEAN]
  /\ subscribers \in [Commands -> SUBSET Commands]
  /\ idleToken \in [Commands -> Nat]
  /\ tokens \in [Commands -> Nat]
  /\ timers \in SUBSET (Commands \X Nat)
  /\ initFailed \in [Commands -> BOOLEAN]
  /\ stopped \in [Commands -> BOOLEAN]
  /\ expiring \in SUBSET Commands
  /\ driver \in [Commands -> DriverSteps]
  /\ outbox \in [Commands -> [event : Events, to : SUBSET Commands]]
  /\ removing \in SUBSET Commands
  /\ cancelSent \in [Commands -> BOOLEAN]
  /\ releaseSent \in [Commands -> BOOLEAN]
  /\ told \in [Commands -> {"nothing", "connected", "closed"}]
  /\ owed \in SUBSET Commands
  /\ turnedAway \in SUBSET Commands

\* The two tables of the pool agree: a logical connection that has an
\* attachment is a subscriber of exactly that physical connection, which is
\* the pooled one of its key, and every subscriber is such a logical
\* connection.  Both sides change in different functions (attach,
\* detach_subscriber, take_terminal_subscribers, fail_start, expire_idle).
TablesAgree ==
  \A p \in Commands :
    IF Pooled(p) THEN subscribers[p] = AttachedTo(p) ELSE AttachedTo(p) = {}

\* A pooled connection nobody uses always has an idle token and a timer that
\* will recognise it, so it cannot stay open forever; one in use has none, so
\* no timer can close it.
IdleIffUnused ==
  \A p \in Commands : Pooled(p) =>
    IF subscribers[p] = {}
    THEN idleToken[p] # 0 /\ <<p, idleToken[p]>> \in timers /\ start[p] = "connected"
    ELSE idleToken[p] = 0

\* A pooled connection has a transport that will report its end, so no connect
\* command ever joins an entry whose transport is gone.  The start state that
\* waiting commands watch is the one of that very transport: an event of an
\* earlier generation does not reach a later one.
EntryHasTransport ==
  \A p \in Commands : Pooled(p) =>
    /\ driver[p] \notin {"none", "done"}
    /\ start[p] = "connected" => driver[p] \in {"activating", "running", "error"}
    /\ start[p] = "connecting" => driver[p] \in {"begin", "connecting", "error"}
    /\ start[p] \in {"connecting", "connected"}

\* A transport that left the pool is cancelled, or about to be: no process or
\* socket runs on unowned, and beside the pooled transport of a key there are only
\* some that are being shut down.
NoUnownedTransport ==
  \A p \in Commands :
    driver[p] \notin {"none", "done"} /\ ~Pooled(p) => stopped[p] \/ p \in expiring

\* The connections of a destroyed window: once disconnect_window ran, a logical
\* connection of that window is about to be removed, or its command has not
\* passed its last check and will drop it, whatever the order in which the
\* queued command, the destruction and the reuse of the label happened.
NoOrphanOfClosedWindow ==
  \A c \in Commands :
    Registered(c) /\ window[WindowOf[c]] = "cleaned" =>
      c \in removing \/ pc[c] \notin {"checked", "committed"}

\* A connect command cancelled before it reserved never resolves credentials
\* or attaches: it meets the record of the cancellation, or, when the closing
\* of its window discarded that record, the check of the window.
CancelledInAdvanceFails ==
  \A c \in owed : pc[c] \in {"queued", "reserved", "dropping", "failed"}

\* A committed connection whose window is still there leaves the pool only
\* because its client asked for it, or with the terminal status sent to it, or
\* after a message of its own was refused.
LossIsAnnounced ==
  \A c \in Commands :
    /\ pc[c] = "committed" /\ ~Registered(c) /\ Alive(c)
    /\ ~cancelSent[c] /\ ~releaseSent[c] /\ c \notin turnedAway
    => \/ told[c] = "closed"
       \/ /\ outbox[attached[c]].event = "terminal"
          /\ c \in outbox[attached[c]].to

\* A connected physical connection that has subscribers leaves the pool only
\* through its own transport: no other window's release, cancellation, closing
\* or failed delivery and no timer takes it away from them.
UsedConnectionStays ==
  [][\A p \in Commands :
       Pooled(p) /\ subscribers[p] # {} /\ start[p] = "connected" /\ ~Pooled(p)'
         => driver[p] # "done" /\ driver'[p] = "done"]_vars

-----------------------------------------------------------------------------
(* Liveness                                                                *)

\* The runtime polls every task that is ready, a timer fires, and a connector
\* ends because it is bounded by the connect timeout.  Users and servers are
\* not obliged to do anything.
Fairness ==
  /\ \A w \in Windows : WF_vars(DisconnectWindow(w))
  /\ \A c \in Commands :
       /\ WF_vars(Reserve(c)) /\ WF_vars(CheckReservation(c)) /\ WF_vars(Resolve(c))
       /\ WF_vars(AttachRefused(c) \/ AttachExisting(c) \/ AttachNew(c))
       /\ WF_vars(Replay(c)) /\ WF_vars(WaitUntilConnected(c)) /\ WF_vars(Commit(c))
       /\ WF_vars(DropReservation(c)) /\ WF_vars(FinishRemoval(c))
       /\ WF_vars(BeginStart(c)) /\ WF_vars(ConnectFails(c) \/ MarkConnected(c))
       /\ WF_vars(Activate(c)) /\ WF_vars(FailStart(c)) /\ WF_vars(DeliverEvents(c))
       /\ WF_vars(stopped[c] /\ Terminate(c))
       /\ WF_vars(CancelExpired(c))
       /\ \A token \in 1..Cardinality(Commands) : WF_vars(ExpireIdle(c, token))

FairSpec == Spec /\ Fairness

\* A command between its issue and its answer
Underway(c) == pc[c] \notin {"idle", "committed", "failed"}

\* A connection whose transport runs though nobody uses it
Unused(p) == subscribers[p] = {} /\ driver[p] \notin {"none", "done"}

\* A connection left behind by a window that was destroyed
LeftBehind(c) == window[WindowOf[c]] \in {"destroyed", "cleaned"} /\ Registered(c)

\* Every connect command ends, whether it creates the connection or joins one
\* that another command is still establishing: a time comes when none is underway.
ConnectEnds ==
  (\E c \in Commands : Underway(c)) ~> (\A c \in Commands : ~Underway(c))

\* A connection nobody uses is used again or closed, transport included, and those of
\* a window that was destroyed are all removed, those included that a queued command
\* makes after the window went: a time comes when nothing is left over.
LeftoversGo ==
  (\E c \in Commands : LeftBehind(c) \/ Unused(c)) ~>
    (\A c \in Commands : ~LeftBehind(c) /\ ~Unused(c))
=============================================================================
