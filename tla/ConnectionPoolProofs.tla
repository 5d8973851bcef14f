------------------------ MODULE ConnectionPoolProofs ------------------------
(* Proofs about ConnectionPool for every number of commands, windows and keys. *)
EXTENDS ConnectionPool, SubsequencesProofs, TLAPS

\* The steps of a command before it attached to a physical connection
BeforeAttach == {"idle", "queued", "reserved", "resolving", "attaching"}

\* The pool files an entry under the key of the command that created it.
Keyed == \A k \in Keys : physical[k] # NoCommand => KeyOf[physical[k]] = k

\* The steps of a command that is attached, or was
AfterAttach == {"replaying", "starting", "waiting", "checked", "committed"}

\* A command that has not attached created nothing, and one that created a
\* physical connection is attached to that one.
AttachPhases ==
  \A c \in Commands :
    /\ pc[c] \in BeforeAttach => attached[c] = NoCommand /\ driver[c] = "none"
    /\ pc[c] \in AfterAttach => attached[c] # NoCommand
    /\ driver[c] = "none" => idleToken[c] = 0
    /\ driver[c] # "none" => attached[c] = c

\* What holds between the tables of the pool and the transports.  Each part needs
\* the others: an entry that is closed may be dropped only because its transport
\* is told to stop, and one that is used may be kept only because it has one.
PoolInv ==
  /\ Keyed
  /\ TablesAgree
  /\ IdleIffUnused
  /\ EntryHasTransport
  /\ NoUnownedTransport

\* The inductive invariant: the relations of PoolInv survive an attach only
\* because the command that attaches was attached to nothing before.
IInv == TypeOK /\ AttachPhases /\ PoolInv

\* What PoolInv speaks about.
tables == <<attached, logical, physical, start, subscribers, idleToken, timers,
            stopped, expiring, driver>>

-----------------------------------------------------------------------------
(* Types                                                                   *)

\* Closing a pooled connection keeps the tables well typed.
LEMMA ClosePhysicalType ==
  ASSUME TypeOK, NEW p \in Commands, ClosePhysical(p)
  PROVE  /\ physical' \in [Keys -> Entry]
         /\ start' \in [Commands -> StartStates]
         /\ stopped' \in [Commands -> BOOLEAN]
         /\ subscribers' \in [Commands -> SUBSET Commands]
         /\ cancelled' \in [Commands -> BOOLEAN]
         /\ logical' \in [ConnIds -> Entry]
         /\ UNCHANGED <<idleToken, tokens, timers>>
<1>1. physical' \in [Keys -> Entry]
  BY DEF TypeOK, ClosePhysical, Entry
<1>2. start' \in [Commands -> StartStates]
  BY DEF TypeOK, ClosePhysical, StartStates
<1>3. stopped' \in [Commands -> BOOLEAN]
  BY DEF TypeOK, ClosePhysical, CancelLifecycle
<1>4. subscribers' \in [Commands -> SUBSET Commands]
  BY DEF TypeOK, ClosePhysical
<1>5. cancelled' \in [Commands -> BOOLEAN]
  BY DEF TypeOK, ClosePhysical
<1>6. logical' \in [ConnIds -> Entry]
  BY DEF TypeOK, ClosePhysical, Entry
<1>. QED BY <1>1, <1>2, <1>3, <1>4, <1>5, <1>6 DEF ClosePhysical

\* Removing a logical connection keeps the tables well typed.
LEMMA RemoveLogicalType ==
  ASSUME TypeOK, NEW c \in Commands, RemoveLogical(c)
  PROVE  /\ physical' \in [Keys -> Entry]
         /\ start' \in [Commands -> StartStates]
         /\ stopped' \in [Commands -> BOOLEAN]
         /\ subscribers' \in [Commands -> SUBSET Commands]
         /\ cancelled' \in [Commands -> BOOLEAN]
         /\ logical' \in [ConnIds -> Entry]
         /\ idleToken' \in [Commands -> Nat]
         /\ tokens' \in [Commands -> Nat]
         /\ timers' \in SUBSET (Commands \X Nat)
<1>1. CASE ~Registered(c)
  BY <1>1 DEF RemoveLogical, TypeOK, poolVars
<1>2. CASE Registered(c)
  <2>1. logical' \in [ConnIds -> Entry] /\ cancelled' \in [Commands -> BOOLEAN]
    BY <1>2 DEF RemoveLogical, TypeOK, Entry
  <2>2. CASE attached[c] # NoCommand /\ Pooled(attached[c])
    <3>. DEFINE p == attached[c]
    <3>1. p \in Commands
      BY <2>2 DEF TypeOK, Entry
    <3>2. DetachSubscriber(c, p)
      BY <1>2, <2>2 DEF RemoveLogical
    <3>3. subscribers' \in [Commands -> SUBSET Commands]
      BY <3>1, <3>2 DEF TypeOK, DetachSubscriber, Remaining
    <3>4. /\ physical' \in [Keys -> Entry]
          /\ start' \in [Commands -> StartStates]
          /\ stopped' \in [Commands -> BOOLEAN]
      BY <3>1, <3>2 DEF TypeOK, DetachSubscriber, CancelLifecycle, Entry, StartStates
    <3>5. NextToken(p) \in Nat
      BY <3>1 DEF TypeOK, NextToken
    <3>6. /\ idleToken' \in [Commands -> Nat]
          /\ tokens' \in [Commands -> Nat]
          /\ timers' \in SUBSET (Commands \X Nat)
      BY <3>1, <3>2, <3>5 DEF TypeOK, DetachSubscriber, ScheduleIdle
    <3>. QED BY <2>1, <3>3, <3>4, <3>6
  <2>3. CASE ~(attached[c] # NoCommand /\ Pooled(attached[c]))
    BY <1>2, <2>1, <2>3 DEF RemoveLogical, TypeOK
  <2>. QED BY <2>2, <2>3
<1>. QED BY <1>1, <1>2

\* Every step of the windows and their clients is well typed.
LEMMA ClientTypes == TypeOK /\ (WindowNext \/ ClientNext) => TypeOK'
<1>. SUFFICES ASSUME TypeOK, WindowNext \/ ClientNext PROVE TypeOK'
  OBVIOUS
<1>. USE ConstantsAssumption DEF poolVars, clientVars
<1>1. ASSUME NEW w \in Windows, OpenWindow(w) PROVE TypeOK'
  BY <1>1 DEF OpenWindow, TypeOK, WindowStates
<1>2. ASSUME NEW w \in Windows, DestroyWindow(w) PROVE TypeOK'
  BY <1>2 DEF DestroyWindow, TypeOK, WindowStates
<1>3. ASSUME NEW w \in Windows, DisconnectWindow(w) PROVE TypeOK'
  BY <1>3 DEF DisconnectWindow, OwnedBy, TypeOK, WindowStates
<1>4. ASSUME NEW c \in Commands, IssueConnect(c) PROVE TypeOK'
  BY <1>4 DEF IssueConnect, TypeOK, CommandSteps
<1>5. ASSUME NEW c \in Commands, CancelConnect(c) PROVE TypeOK'
  <2>1. logical[ConnOf[c]] \in Entry
    BY DEF TypeOK
  <2>2. /\ cancelled' \in [Commands -> BOOLEAN]
        /\ removing' \in SUBSET Commands
        /\ owed' \in SUBSET Commands
    BY <1>5, <2>1 DEF CancelConnect, TypeOK, Entry
  <2>. QED BY <1>5, <2>2 DEF CancelConnect, TypeOK
<1>6. ASSUME NEW c \in Commands, Release(c) PROVE TypeOK'
  <2>1. logical[ConnOf[c]] \in Entry
    BY DEF TypeOK
  <2>. DEFINE entry == logical[ConnOf[c]]
  <2>2. CASE entry # NoCommand /\ OwnerLabel(entry) = OwnerLabel(c)
    <3>1. /\ cancelled' = [cancelled EXCEPT ![entry] = TRUE]
          /\ removing' = removing \cup {entry}
      BY <1>6, <2>2 DEF Release
    <3>2. /\ cancelled' \in [Commands -> BOOLEAN]
          /\ removing' \in SUBSET Commands
      BY <2>1, <2>2, <3>1 DEF TypeOK, Entry
    <3>. QED BY <1>6, <3>2 DEF Release, TypeOK
  <2>3. CASE ~(entry # NoCommand /\ OwnerLabel(entry) = OwnerLabel(c))
    <3>1. UNCHANGED <<cancelled, removing>>
      BY <1>6, <2>3 DEF Release
    <3>. QED BY <1>6, <3>1 DEF Release, TypeOK
  <2>. QED BY <2>2, <2>3
<1>7. ASSUME NEW c \in Commands, SendFails(c) PROVE TypeOK'
  BY <1>7 DEF SendFails, TypeOK, CancelLifecycle
<1>. QED BY <1>1, <1>2, <1>3, <1>4, <1>5, <1>6, <1>7 DEF WindowNext, ClientNext

\* A step that only moves a command keeps the types.
LEMMA GoToType ==
  ASSUME TypeOK, NEW c \in Commands, NEW next \in CommandSteps, GoTo(c, next)
  PROVE  TypeOK'
BY DEF GoTo, TypeOK, poolVars, clientVars

\* Every step of connect_configured_server is well typed.
LEMMA CommandTypes == TypeOK /\ CommandNext => TypeOK'
<1>. SUFFICES ASSUME TypeOK, NEW c \in Commands,
                     \/ Reserve(c) \/ CheckReservation(c) \/ Resolve(c)
                     \/ AttachRefused(c) \/ AttachExisting(c) \/ AttachNew(c) \/ Replay(c)
                     \/ WaitUntilConnected(c) \/ Commit(c) \/ DropReservation(c)
                     \/ FinishRemoval(c)
              PROVE TypeOK'
  BY DEF CommandNext
<1>. USE ConstantsAssumption DEF poolVars, clientVars
<1>1. CASE Reserve(c)
  <2>1. pc' \in [Commands -> CommandSteps]
    <3>1. \/ pc' = [pc EXCEPT ![c] = "failed"]
          \/ pc' = [pc EXCEPT ![c] = "reserved"]
      BY <1>1 DEF Reserve
    <3>. QED BY <3>1 DEF TypeOK, CommandSteps
  <2>2. \/ logical' = logical
        \/ logical' = [logical EXCEPT ![ConnOf[c]] = c]
    BY <1>1 DEF Reserve
  <2>3. logical' \in [ConnIds -> Entry]
    BY <2>2 DEF TypeOK, Entry
  <2>. QED BY <1>1, <2>1, <2>3 DEF Reserve, TypeOK
<1>2. CASE CheckReservation(c)
  BY <1>2, GoToType DEF CheckReservation, CommandSteps
<1>3. CASE Resolve(c)
  BY <1>3, GoToType DEF Resolve, CommandSteps
<1>4. CASE AttachRefused(c)
  BY <1>4, GoToType DEF AttachRefused, CommandSteps
<1>5. CASE AttachExisting(c)
  <2>. DEFINE p == physical[KeyOf[c]]
  <2>1. p \in Commands
    BY <1>5 DEF AttachExisting, TypeOK, Entry
  <2>2. /\ idleToken' \in [Commands -> Nat]
        /\ attached' \in [Commands -> Entry]
        /\ pc' \in [Commands -> CommandSteps]
    BY <1>5, <2>1 DEF AttachExisting, Revive, TypeOK, CommandSteps, Entry
  <2>3. subscribers' \in [Commands -> SUBSET Commands]
    BY <1>5, <2>1 DEF AttachExisting, Remaining, TypeOK
  <2>4. outbox' \in [Commands -> [event : Events, to : SUBSET Commands]]
    BY <1>5, <2>1 DEF AttachExisting, TypeOK, Events, NoEvent
  <2>. QED BY <1>5, <2>2, <2>3, <2>4 DEF AttachExisting, TypeOK
<1>6. CASE AttachNew(c)
  BY <1>6 DEF AttachNew, TypeOK, CommandSteps, DriverSteps, StartStates, Entry
<1>7. CASE Replay(c)
  <2>1. outbox' \in [Commands -> [event : Events, to : SUBSET Commands]]
    BY <1>7 DEF Replay, TypeOK, NoEvent, Events
  <2>2. /\ pc' \in [Commands -> CommandSteps]
        /\ told' \in [Commands -> {"nothing", "connected", "closed"}]
    BY <1>7 DEF Replay, TypeOK, CommandSteps, Tell
  <2>. QED BY <1>7, <2>1, <2>2, SMTT(60) DEF Replay, TypeOK
<1>8. CASE WaitUntilConnected(c)
  BY <1>8, GoToType DEF WaitUntilConnected, CommandSteps
<1>9. CASE Commit(c)
  BY <1>9, GoToType DEF Commit, CommandSteps
<1>10. CASE DropReservation(c)
  <2>1. pc' \in [Commands -> CommandSteps]
    BY <1>10 DEF DropReservation, TypeOK, CommandSteps
  <2>. QED BY <1>10, <2>1, RemoveLogicalType DEF DropReservation, TypeOK
<1>11. CASE FinishRemoval(c)
  <2>1. removing' \in SUBSET Commands
    BY <1>11 DEF FinishRemoval, TypeOK
  <2>. QED BY <1>11, <2>1, RemoveLogicalType DEF FinishRemoval, TypeOK
<1>. QED BY <1>1, <1>2, <1>3, <1>4, <1>5, <1>6, <1>7, <1>8, <1>9, <1>10, <1>11

\* A step that only moves a transport keeps the types.
LEMMA DriverGoesToType ==
  ASSUME TypeOK, NEW p \in Commands, NEW step \in DriverSteps, DriverGoesTo(p, step)
  PROVE  TypeOK'
BY DEF DriverGoesTo, TypeOK, poolVars, clientVars

\* Every step of a transport, of its events and of the idle period is well typed.
LEMMA DriverTypes == TypeOK /\ (DriverNext \/ IdleNext) => TypeOK'
<1>. USE ConstantsAssumption DEF poolVars, clientVars
<1>a. ASSUME TypeOK, NEW p \in Commands, NEW token \in 1..tokens[p], ExpireIdle(p, token)
      PROVE  TypeOK'
  <2>1. /\ physical' \in [Keys -> Entry]
        /\ expiring' \in SUBSET Commands
        /\ timers' \in SUBSET (Commands \X Nat)
    BY <1>a DEF ExpireIdle, TypeOK, Entry
  <2>. QED BY <1>a, <2>1 DEF ExpireIdle, TypeOK
<1>b. ASSUME TypeOK, NEW p \in Commands, CancelExpired(p) PROVE TypeOK'
  BY <1>b DEF CancelExpired, CancelLifecycle, TypeOK
<1>. SUFFICES ASSUME TypeOK, NEW p \in Commands,
                     \/ BeginStart(p) \/ Progress(p) \/ ConnectFails(p) \/ MarkConnected(p)
                     \/ Activate(p) \/ FailStart(p) \/ Terminate(p) \/ ProtocolMessage(p)
                     \/ DeliverEvents(p) \/ InitializeFails(p)
              PROVE TypeOK'
  BY <1>a, <1>b DEF DriverNext, IdleNext
<1>1. CASE BeginStart(p)
  BY <1>1, DriverGoesToType DEF BeginStart, DriverSteps
<1>2. CASE Progress(p)
  BY <1>2 DEF Progress, TypeOK, Events
<1>3. CASE ConnectFails(p)
  BY <1>3, DriverGoesToType DEF ConnectFails, DriverSteps
<1>4. CASE MarkConnected(p)
  <2>1. /\ driver' \in [Commands -> DriverSteps]
        /\ start' \in [Commands -> StartStates]
        /\ outbox' \in [Commands -> [event : Events, to : SUBSET Commands]]
    <3>1. CASE Pooled(p)
      <4>. DEFINE e == [event |-> "connected", to |-> subscribers[p]]
      <4>1. e \in [event : Events, to : SUBSET Commands]
        BY DEF TypeOK, Events
      <4>2. /\ start' = [start EXCEPT ![p] = "connected"]
            /\ outbox' = [outbox EXCEPT ![p] = e]
            /\ driver' = [driver EXCEPT ![p] = "activating"]
        BY <1>4, <3>1 DEF MarkConnected
      <4>. HIDE DEF e
      <4>. QED BY <4>1, <4>2 DEF TypeOK, DriverSteps, StartStates
    <3>2. CASE ~Pooled(p)
      BY <1>4, <3>2 DEF MarkConnected, TypeOK, DriverSteps
    <3>. QED BY <3>1, <3>2
  <2>. QED BY <1>4, <2>1 DEF MarkConnected, TypeOK
<1>5. CASE Activate(p)
  BY <1>5 DEF Activate, TypeOK, DriverSteps, CommandSteps
<1>6. CASE FailStart(p)
  <2>1. /\ driver' \in [Commands -> DriverSteps]
        /\ pc' \in [Commands -> CommandSteps]
    BY <1>6 DEF FailStart, TypeOK, DriverSteps, CommandSteps
  <2>. QED BY <1>6, <2>1, ClosePhysicalType DEF FailStart, TypeOK
<1>7. CASE Terminate(p)
  <2>1. driver' \in [Commands -> DriverSteps]
    BY <1>7 DEF Terminate, TypeOK, DriverSteps
  <2>2. CASE TerminalApplies(p)
    <3>. DEFINE e == [event |-> "terminal", to |-> subscribers[p]]
    <3>a. e \in [event : Events, to : SUBSET Commands]
      BY DEF TypeOK, Events
    <3>b. ClosePhysical(p) /\ outbox' = [outbox EXCEPT ![p] = e]
      BY <1>7, <2>2 DEF Terminate, TerminalTargets
    <3>. HIDE DEF e
    <3>1. /\ ClosePhysical(p)
          /\ outbox' \in [Commands -> [event : Events, to : SUBSET Commands]]
      BY <3>a, <3>b DEF TypeOK
    <3>. QED BY <1>7, <2>1, <3>1, ClosePhysicalType DEF Terminate, TypeOK
  <2>3. CASE ~TerminalApplies(p)
    <3>1. UNCHANGED <<poolVars, outbox>>
      BY <1>7, <2>3 DEF Terminate
    <3>. QED BY <1>7, <2>1, <3>1 DEF Terminate, TypeOK
  <2>. QED BY <2>2, <2>3
<1>8. CASE ProtocolMessage(p)
  BY <1>8 DEF ProtocolMessage, TypeOK, Events
<1>9. CASE DeliverEvents(p)
  <2>1. told' \in [Commands -> {"nothing", "connected", "closed"}]
    BY <1>9 DEF DeliverEvents, TypeOK, Tell
  <2>2. removing' \in SUBSET Commands
    BY <1>9 DEF DeliverEvents, TypeOK, Entry
  <2>3. outbox' \in [Commands -> [event : Events, to : SUBSET Commands]]
    BY <1>9 DEF DeliverEvents, TypeOK, NoEvent, Events
  <2>. QED BY <1>9, <2>1, <2>2, <2>3 DEF DeliverEvents, TypeOK
<1>10. CASE InitializeFails(p)
  BY <1>10 DEF InitializeFails, CancelLifecycle, TypeOK
<1>. QED BY <1>1, <1>2, <1>3, <1>4, <1>5, <1>6, <1>7, <1>8, <1>9, <1>10

\* The pool starts well typed.
LEMMA TypeInit == Init => TypeOK
BY ConstantsAssumption DEF Init, TypeOK, NoEvent, Events, WindowStates, CommandSteps,
   DriverSteps, StartStates, Entry

\* Every step keeps the types.
LEMMA TypeStep == TypeOK /\ [Next]_vars => TypeOK'
<1>. SUFFICES ASSUME TypeOK, [Next]_vars PROVE TypeOK'
  OBVIOUS
<1>1. CASE UNCHANGED vars
  BY <1>1 DEF vars, poolVars, clientVars, TypeOK
<1>. QED BY <1>1, ClientTypes, CommandTypes, DriverTypes DEF Next

\* Every reachable state of the pool, its commands and its transports is well
\* typed, for any number of them.
THEOREM TypeCorrect == Spec => []TypeOK
BY TypeInit, TypeStep, PTL DEF Spec

-----------------------------------------------------------------------------
(* The tables                                                              *)

\* An empty pool satisfies the inductive invariant.
LEMMA InitInv == Init => IInv
<1>. SUFFICES ASSUME Init PROVE IInv
  OBVIOUS
<1>. USE ConstantsAssumption
<1>1. \A p \in Commands : ~Pooled(p) /\ ~Registered(p)
  BY DEF Init, Pooled, Registered
<1>2. AttachPhases /\ Keyed
  BY DEF Init, AttachPhases, Keyed, BeforeAttach, AfterAttach
<1>3. TablesAgree /\ IdleIffUnused /\ EntryHasTransport /\ NoUnownedTransport
  BY <1>1 DEF Init, TablesAgree, AttachedTo, IdleIffUnused, EntryHasTransport,
     NoUnownedTransport
<1>. QED BY <1>2, <1>3, TypeInit DEF IInv, PoolInv

\* A step that leaves the tables alone keeps the invariant.
LEMMA TablesUntouched == PoolInv /\ UNCHANGED tables => PoolInv'
BY DEF tables, PoolInv, Keyed, TablesAgree, IdleIffUnused, EntryHasTransport,
   NoUnownedTransport, Pooled, AttachedTo, Registered

\* A step of a command neither returns to a step before the attachment nor
\* passes it by.
PhaseOrder ==
  \A c \in Commands :
    /\ pc'[c] \in BeforeAttach => pc[c] \in BeforeAttach
    /\ pc'[c] \in AfterAttach => pc[c] \in AfterAttach \/ driver[c] # "none"

\* Such a step keeps the phases.
LEMMA PhaseKept ==
  ASSUME TypeOK, AttachPhases, UNCHANGED <<attached, driver, idleToken>>, PhaseOrder
  PROVE  AttachPhases'
BY ConstantsAssumption DEF AttachPhases, PhaseOrder, TypeOK

\* Cancelling the lifecycle of a transport disturbs nothing.
LEMMA LifecycleCancelled ==
  ASSUME IInv, NEW p \in Commands, stopped' = CancelLifecycle(p),
         expiring' = expiring \/ expiring' = expiring \ {p},
         UNCHANGED <<attached, logical, physical, start, subscribers, idleToken,
                     timers, driver>>
  PROVE  PoolInv'
<1>1. \A q \in Commands : stopped[q] \/ q \in expiring => stopped'[q] \/ q \in expiring'
  BY DEF IInv, TypeOK, CancelLifecycle
<1>2. NoUnownedTransport'
  BY <1>1 DEF IInv, PoolInv, NoUnownedTransport, Pooled
<1>3. Keyed' /\ TablesAgree' /\ IdleIffUnused' /\ EntryHasTransport'
  BY DEF IInv, PoolInv, Keyed, TablesAgree, IdleIffUnused, EntryHasTransport,
     Pooled, AttachedTo, Registered
<1>. QED BY <1>2, <1>3 DEF PoolInv

\* A connection that leaves the pool with its transport done takes every logical
\* connection attached to it along, and no other.
LEMMA PhysicalClosed ==
  ASSUME IInv, NEW p \in Commands, Pooled(p), ClosePhysical(p),
         driver' = [driver EXCEPT ![p] = "done"], UNCHANGED <<attached, expiring>>
  PROVE  PoolInv'
<1>. USE ConstantsAssumption DEF IInv, TypeOK
<1>1. /\ ~Pooled(p)'
      /\ \A q \in Commands \ {p} : Pooled(q)' <=> Pooled(q)
  BY DEF ClosePhysical, Pooled
<1>2. /\ AttachedTo(p)' = {}
      /\ \A q \in Commands \ {p} : AttachedTo(q)' = AttachedTo(q)
  <2>1. \A c \in Commands : Registered(c)' <=> Registered(c) /\ c \notin AttachedTo(p)
    BY DEF ClosePhysical, Registered, AttachedTo
  <2>. QED BY <2>1 DEF AttachedTo
<1>3. Keyed'
  BY DEF PoolInv, Keyed, ClosePhysical
<1>4. \A q \in Commands \ {p} : /\ subscribers'[q] = subscribers[q]
                               /\ start'[q] = start[q]
                               /\ stopped'[q] = stopped[q]
                               /\ driver'[q] = driver[q]
  BY DEF ClosePhysical, CancelLifecycle
<1>5. TablesAgree'
  <2>1. TablesAgree
    BY DEF PoolInv
  <2>. HIDE DEF IInv, TypeOK
  <2>. QED BY <1>1, <1>2, <1>4, <2>1 DEF TablesAgree
<1>6. IdleIffUnused'
  BY <1>1, <1>4 DEF PoolInv, IdleIffUnused, ClosePhysical
<1>7. EntryHasTransport'
  BY <1>1, <1>4 DEF PoolInv, EntryHasTransport
<1>8. NoUnownedTransport'
  <2>1. driver'[p] = "done"
    OBVIOUS
  <2>. QED BY <1>1, <1>4, <2>1 DEF PoolInv, NoUnownedTransport
<1>. QED BY <1>3, <1>5, <1>6, <1>7, <1>8 DEF PoolInv

\* A logical connection that leaves takes its subscription along, and the
\* physical connection with it only when that is abandoned or idle.
LEMMA LogicalRemoved ==
  ASSUME IInv, NEW c \in Commands, RemoveLogical(c),
         UNCHANGED <<attached, expiring, driver>>
  PROVE  /\ PoolInv'
         /\ \A q \in Commands : driver[q] = "none" => idleToken'[q] = idleToken[q]
<1>. USE ConstantsAssumption DEF IInv, TypeOK
<1>1. CASE ~Registered(c)
  <2>1. UNCHANGED tables /\ UNCHANGED idleToken
    BY <1>1 DEF RemoveLogical, poolVars, tables
  <2>. QED BY <2>1, TablesUntouched
<1>2. CASE Registered(c)
  <2>. DEFINE p == attached[c]
  <2>1. /\ ~Registered(c)'
        /\ \A d \in Commands \ {c} : Registered(d)' <=> Registered(d)
    <3>1. logical' = [logical EXCEPT ![ConnOf[c]] = NoCommand]
      BY <1>2 DEF RemoveLogical
    <3>. QED BY <1>2, <3>1 DEF Registered
  <2>2. CASE p = NoCommand
    <3>1. UNCHANGED <<physical, start, subscribers, idleToken, tokens, timers, stopped>>
      BY <1>2, <2>2 DEF RemoveLogical
    <3>2. \A q \in Commands : AttachedTo(q)' = AttachedTo(q)
      BY <2>1, <2>2 DEF AttachedTo
    <3>. QED BY <3>1, <3>2 DEF PoolInv, Keyed, TablesAgree, IdleIffUnused,
                EntryHasTransport, NoUnownedTransport, Pooled
  <2>3. CASE p # NoCommand
    <3>1. p \in Commands /\ c \in AttachedTo(p)
      BY <1>2, <2>3 DEF Entry, AttachedTo
    <3>2. Pooled(p) /\ subscribers[p] = AttachedTo(p)
      BY <3>1 DEF PoolInv, TablesAgree
    <3>3. DetachSubscriber(c, p)
      BY <1>2, <2>3, <3>2 DEF RemoveLogical
    <3>4. Remaining(c, p) = AttachedTo(p) \ {c}
      BY <3>1, <3>2 DEF Remaining, AttachedTo, Registered
    <3>5. /\ AttachedTo(p)' = AttachedTo(p) \ {c}
          /\ \A q \in Commands \ {p} : AttachedTo(q)' = AttachedTo(q)
      BY <2>1 DEF AttachedTo
    <3>6. /\ driver[p] \notin {"none", "done"}
          /\ start[p] \in {"connecting", "connected"}
      BY <3>1, <3>2 DEF PoolInv, EntryHasTransport
    <3>7. \A q \in Commands \ {p} : /\ Pooled(q)' <=> Pooled(q)
                                   /\ subscribers'[q] = subscribers[q]
                                   /\ start'[q] = start[q]
                                   /\ stopped'[q] = stopped[q]
                                   /\ idleToken'[q] = idleToken[q]
      BY <3>1, <3>2, <3>3 DEF DetachSubscriber, Pooled, CancelLifecycle
    <3>8. timers \subseteq timers'
      BY <3>3 DEF DetachSubscriber, ScheduleIdle
    <3>9. Keyed'
      BY <3>3 DEF DetachSubscriber, PoolInv, Keyed
    <3>10. /\ subscribers'[p] = AttachedTo(p)'
           /\ ~Pooled(p)' => subscribers'[p] = {} /\ stopped'[p]
      BY <3>1, <3>2, <3>3, <3>4, <3>5 DEF DetachSubscriber, Pooled, CancelLifecycle
    <3>11. Pooled(p)' => /\ start'[p] = start[p]
                         /\ subscribers'[p] = {} => /\ start[p] = "connected"
                                                   /\ idleToken'[p] # 0
                                                   /\ <<p, idleToken'[p]>> \in timers'
                         /\ subscribers'[p] # {} => idleToken'[p] = 0
      <4>1. CASE Remaining(c, p) # {}
        <5>1. /\ idleToken'[p] = idleToken[p] /\ start'[p] = start[p]
              /\ subscribers'[p] # {}
          BY <3>1, <3>3, <4>1 DEF DetachSubscriber
        <5>2. idleToken[p] = 0
          <6>1. subscribers[p] # {}
            BY <3>1, <3>2
          <6>. QED BY <3>1, <3>2, <6>1 DEF PoolInv, IdleIffUnused
        <5>. QED BY <5>1, <5>2
      <4>2. CASE Remaining(c, p) = {} /\ start[p] = "connecting"
        <5>1. physical' = [physical EXCEPT ![KeyOf[p]] = NoCommand]
          BY <3>3, <4>2 DEF DetachSubscriber
        <5>2. ~Pooled(p)'
          BY <3>1, <5>1 DEF Pooled
        <5>. QED BY <5>2
      <4>3. CASE Remaining(c, p) = {} /\ start[p] = "connected"
        <5>1. /\ subscribers'[p] = {} /\ start'[p] = start[p]
              /\ idleToken'[p] = NextToken(p)
              /\ timers' = ScheduleIdle(p)
          BY <3>1, <3>3, <4>3 DEF DetachSubscriber
        <5>2. NextToken(p) # 0
          BY <3>1 DEF NextToken
        <5>. QED BY <4>3, <5>1, <5>2 DEF ScheduleIdle
      <4>. QED BY <3>6, <4>1, <4>2, <4>3
    <3>12. TablesAgree'
      <4>1. ASSUME NEW q \in Commands \ {p}
            PROVE  IF Pooled(q)' THEN subscribers'[q] = AttachedTo(q)'
                                 ELSE AttachedTo(q)' = {}
        BY <3>5, <3>7 DEF PoolInv, TablesAgree
      <4>2. ~Pooled(p)' => AttachedTo(p)' = {}
        BY <3>10
      <4>. QED BY <3>10, <4>1, <4>2 DEF TablesAgree
    <3>13. IdleIffUnused'
      <4>1. ASSUME NEW q \in Commands \ {p}, Pooled(q)'
            PROVE  IF subscribers'[q] = {}
                   THEN idleToken'[q] # 0 /\ <<q, idleToken'[q]>> \in timers'
                          /\ start'[q] = "connected"
                   ELSE idleToken'[q] = 0
        BY <3>7, <3>8, <4>1 DEF PoolInv, IdleIffUnused
      <4>. QED BY <3>11, <4>1 DEF IdleIffUnused
    <3>14. EntryHasTransport'
      BY <3>2, <3>7, <3>11 DEF PoolInv, EntryHasTransport
    <3>15. NoUnownedTransport'
      BY <3>7, <3>10 DEF PoolInv, NoUnownedTransport
    <3>. QED BY <3>6, <3>7, <3>9, <3>12, <3>13, <3>14, <3>15 DEF PoolInv
  <2>. QED BY <2>2, <2>3
<1>. QED BY <1>1, <1>2

\* Attaching to the pooled connection of the key adds a subscriber and ends the
\* idle period.
LEMMA JoinKeeps ==
  ASSUME IInv, NEW c \in Commands, AttachExisting(c)
  PROVE  PoolInv' /\ AttachPhases'
<1>. USE ConstantsAssumption DEF IInv, TypeOK
<1>. DEFINE p == physical[KeyOf[c]]
<1>1. p \in Commands /\ Pooled(p)
  BY DEF AttachExisting, Entry, Pooled, PoolInv, Keyed
<1>2. attached[c] = NoCommand /\ Registered(c) /\ driver[c] = "none"
  BY DEF AttachExisting, AttachPhases, BeforeAttach
<1>3. /\ subscribers' = [subscribers EXCEPT ![p] = Remaining(c, p) \cup {c}]
      /\ attached' = [attached EXCEPT ![c] = p]
      /\ idleToken' = [idleToken EXCEPT ![p] = 0]
      /\ pc' = [pc EXCEPT ![c] = "replaying"]
      /\ UNCHANGED <<logical, physical, start, timers, stopped, expiring, driver>>
  BY DEF AttachExisting, Revive
<1>4. Remaining(c, p) = AttachedTo(p)
  <2>1. subscribers[p] = AttachedTo(p)
    BY <1>1 DEF PoolInv, TablesAgree
  <2>2. \A d \in AttachedTo(p) : d # c /\ ConnOf[d] # ConnOf[c]
    BY <1>1, <1>2 DEF AttachedTo, Registered, Entry
  <2>. QED BY <2>1, <2>2 DEF Remaining
<1>5. /\ AttachedTo(p)' = AttachedTo(p) \cup {c}
      /\ \A q \in Commands \ {p} : AttachedTo(q)' = AttachedTo(q)
  BY <1>1, <1>2, <1>3 DEF AttachedTo, Registered
<1>6. \A q \in Commands : Pooled(q)' <=> Pooled(q)
  BY <1>3 DEF Pooled
<1>7. TablesAgree'
  BY <1>1, <1>3, <1>4, <1>5, <1>6, ZenonT(60) DEF PoolInv, TablesAgree
<1>8. IdleIffUnused'
  BY <1>1, <1>3, <1>6, ZenonT(60) DEF PoolInv, IdleIffUnused
<1>9. Keyed' /\ EntryHasTransport' /\ NoUnownedTransport'
  BY <1>3, <1>6, ZenonT(60) DEF PoolInv, Keyed, EntryHasTransport, NoUnownedTransport
<1>10. AttachPhases'
  <2>1. driver[p] # "none"
    BY <1>1 DEF PoolInv, EntryHasTransport
  <2>2. ASSUME NEW d \in Commands
        PROVE  /\ pc'[d] \in BeforeAttach => attached'[d] = NoCommand /\ driver'[d] = "none"
               /\ pc'[d] \in AfterAttach => attached'[d] # NoCommand
               /\ driver'[d] = "none" => idleToken'[d] = 0
               /\ driver'[d] # "none" => attached'[d] = d
    BY <1>1, <1>2, <1>3, <2>1 DEF AttachPhases, BeforeAttach, AfterAttach
  <2>. QED BY <2>2 DEF AttachPhases
<1>. QED BY <1>7, <1>8, <1>9, <1>10 DEF PoolInv

\* A command that finds no entry for its key creates one and is its only
\* subscriber: nobody was attached to it before.
LEMMA CreateKeeps ==
  ASSUME IInv, NEW c \in Commands, AttachNew(c)
  PROVE  PoolInv' /\ AttachPhases'
<1>. USE ConstantsAssumption DEF IInv, TypeOK
<1>1. /\ attached[c] = NoCommand /\ Registered(c) /\ driver[c] = "none"
      /\ idleToken[c] = 0 /\ ~Pooled(c)
  BY DEF AttachNew, AttachPhases, BeforeAttach, Pooled
<1>2. /\ physical' = [physical EXCEPT ![KeyOf[c]] = c]
      /\ start' = [start EXCEPT ![c] = "connecting"]
      /\ subscribers' = [subscribers EXCEPT ![c] = {c}]
      /\ attached' = [attached EXCEPT ![c] = c]
      /\ driver' = [driver EXCEPT ![c] = "begin"]
      /\ pc' = [pc EXCEPT ![c] = "starting"]
      /\ UNCHANGED <<logical, idleToken, timers, stopped, expiring>>
  BY DEF AttachNew
<1>3. AttachedTo(c) = {}
  BY <1>1 DEF PoolInv, TablesAgree
<1>4. /\ AttachedTo(c)' = {c}
      /\ \A q \in Commands \ {c} : AttachedTo(q)' = AttachedTo(q)
  BY <1>1, <1>2, <1>3 DEF AttachedTo, Registered
<1>5. /\ Pooled(c)'
      /\ \A q \in Commands \ {c} : Pooled(q)' <=> Pooled(q)
  <2>1. physical[KeyOf[c]] = NoCommand
    BY DEF AttachNew
  <2>. QED BY <1>2, <2>1 DEF Pooled
<1>6. \A q \in Commands \ {c} : /\ subscribers'[q] = subscribers[q]
                               /\ start'[q] = start[q]
                               /\ driver'[q] = driver[q]
  BY <1>2
<1>7. TablesAgree'
  BY <1>2, <1>4, <1>5, <1>6 DEF PoolInv, TablesAgree
<1>8. IdleIffUnused'
  <2>1. ASSUME NEW q \in Commands \ {c}, Pooled(q)'
        PROVE  IF subscribers'[q] = {}
               THEN idleToken'[q] # 0 /\ <<q, idleToken'[q]>> \in timers'
                      /\ start'[q] = "connected"
               ELSE idleToken'[q] = 0
    BY <1>2, <1>5, <1>6, <2>1 DEF PoolInv, IdleIffUnused
  <2>2. subscribers'[c] # {} /\ idleToken'[c] = 0
    BY <1>1, <1>2
  <2>. QED BY <2>1, <2>2 DEF IdleIffUnused
<1>9. Keyed'
  BY <1>2 DEF PoolInv, Keyed
<1>10. EntryHasTransport' /\ NoUnownedTransport'
  BY <1>2, <1>5, <1>6 DEF PoolInv, EntryHasTransport, NoUnownedTransport
<1>11. AttachPhases'
  <2>1. ASSUME NEW d \in Commands
        PROVE  /\ pc'[d] \in BeforeAttach => attached'[d] = NoCommand /\ driver'[d] = "none"
               /\ pc'[d] \in AfterAttach => attached'[d] # NoCommand
               /\ driver'[d] = "none" => idleToken'[d] = 0
               /\ driver'[d] # "none" => attached'[d] = d
    BY <1>1, <1>2 DEF AttachPhases, BeforeAttach, AfterAttach
  <2>. QED BY <2>1 DEF AttachPhases
<1>. QED BY <1>7, <1>8, <1>9, <1>10, <1>11 DEF PoolInv

\* Reserving an identifier attaches nothing.
LEMMA ReserveKeeps ==
  ASSUME IInv, NEW c \in Commands, Reserve(c)
  PROVE  PoolInv' /\ AttachPhases'
<1>. USE ConstantsAssumption DEF IInv, TypeOK
<1>1. UNCHANGED <<attached, physical, start, subscribers, idleToken, timers,
                  stopped, expiring, driver>>
  BY DEF Reserve
<1>2. pc[c] = "queued" /\ attached[c] = NoCommand
  BY DEF Reserve, AttachPhases, BeforeAttach
<1>3. PhaseOrder
  <2>1. \/ pc' = [pc EXCEPT ![c] = "failed"]
        \/ pc' = [pc EXCEPT ![c] = "reserved"]
    BY DEF Reserve
  <2>. QED BY <1>2, <2>1 DEF PhaseOrder, BeforeAttach, AfterAttach
<1>4. \/ logical' = logical
      \/ logical[ConnOf[c]] = NoCommand /\ logical' = [logical EXCEPT ![ConnOf[c]] = c]
  BY DEF Reserve
<1>5. \A d \in Commands : attached[d] # NoCommand => (Registered(d)' <=> Registered(d))
  BY <1>2, <1>4 DEF Registered
<1>6. \A q \in Commands : AttachedTo(q)' = AttachedTo(q)
  BY <1>1, <1>5 DEF AttachedTo
<1>7. PoolInv'
  BY <1>1, <1>6 DEF PoolInv, Keyed, TablesAgree, IdleIffUnused, EntryHasTransport,
     NoUnownedTransport, Pooled
<1>. QED BY <1>1, <1>3, <1>7, PhaseKept

\* A command that moves on without touching the tables
LEMMA GoToKeeps ==
  ASSUME IInv, NEW c \in Commands, NEW next \in CommandSteps, GoTo(c, next),
         next \in BeforeAttach => pc[c] \in BeforeAttach,
         next \in AfterAttach => pc[c] \in AfterAttach
  PROVE  PoolInv' /\ AttachPhases'
<1>1. UNCHANGED tables
  BY DEF GoTo, tables, poolVars
<1>2. PhaseOrder
  BY DEF GoTo, IInv, TypeOK, PhaseOrder
<1>3. UNCHANGED <<attached, driver, idleToken>>
  BY <1>1 DEF tables
<1>. QED BY <1>1, <1>2, <1>3, TablesUntouched, PhaseKept DEF IInv

\* Windows and clients only mark connections; the tables change later.
LEMMA ClientKeeps == IInv /\ (WindowNext \/ ClientNext) => PoolInv' /\ AttachPhases'
<1>. SUFFICES ASSUME IInv, WindowNext \/ ClientNext PROVE PoolInv' /\ AttachPhases'
  OBVIOUS
<1>1. CASE UNCHANGED tables /\ UNCHANGED pc
  BY <1>1, TablesUntouched DEF IInv, AttachPhases, tables
<1>2. ASSUME NEW c \in Commands, IssueConnect(c) PROVE PoolInv' /\ AttachPhases'
  <2>1. UNCHANGED tables
    BY <1>2 DEF IssueConnect, tables, poolVars
  <2>2. PhaseOrder
    BY <1>2 DEF IssueConnect, IInv, TypeOK, PhaseOrder, BeforeAttach, AfterAttach
  <2>3. UNCHANGED <<attached, driver, idleToken>>
    BY <2>1 DEF tables
  <2>. QED BY <2>1, <2>2, <2>3, TablesUntouched, PhaseKept DEF IInv
<1>3. ASSUME NEW c \in Commands, SendFails(c) PROVE PoolInv' /\ AttachPhases'
  <2>. DEFINE p == attached[c]
  <2>1. p \in Commands
    BY <1>3 DEF SendFails, IInv, TypeOK, Entry, AttachPhases, AfterAttach
  <2>2. /\ stopped' = CancelLifecycle(p)
        /\ UNCHANGED <<attached, logical, physical, start, subscribers, idleToken,
                       timers, driver, expiring, pc>>
    BY <1>3 DEF SendFails
  <2>. QED BY <2>1, <2>2, LifecycleCancelled DEF IInv, AttachPhases
<1>4. ASSUME NEW c \in Commands, CancelConnect(c) \/ Release(c)
      PROVE  UNCHANGED tables /\ UNCHANGED pc
  BY <1>4 DEF CancelConnect, Release, tables
<1>5. ASSUME WindowNext PROVE UNCHANGED tables /\ UNCHANGED pc
  BY <1>5 DEF WindowNext, OpenWindow, DestroyWindow, DisconnectWindow, tables, poolVars
<1>. QED BY <1>1, <1>2, <1>3, <1>4, <1>5 DEF ClientNext

\* Every step of connect_configured_server keeps the tables in agreement.
LEMMA CommandKeeps == IInv /\ CommandNext => PoolInv' /\ AttachPhases'
<1>. SUFFICES ASSUME IInv, NEW c \in Commands,
                     \/ Reserve(c) \/ CheckReservation(c) \/ Resolve(c)
                     \/ AttachRefused(c) \/ AttachExisting(c) \/ AttachNew(c) \/ Replay(c)
                     \/ WaitUntilConnected(c) \/ Commit(c) \/ DropReservation(c)
                     \/ FinishRemoval(c)
              PROVE PoolInv' /\ AttachPhases'
  BY DEF CommandNext
<1>1. CASE CheckReservation(c) \/ Resolve(c) \/ AttachRefused(c) \/ WaitUntilConnected(c)
           \/ Commit(c)
  <2>1. \E next \in CommandSteps :
          /\ GoTo(c, next)
          /\ next \in BeforeAttach => pc[c] \in BeforeAttach
          /\ next \in AfterAttach => pc[c] \in AfterAttach
    BY <1>1 DEF CheckReservation, Resolve, AttachRefused, WaitUntilConnected, Commit,
       CommandSteps, BeforeAttach, AfterAttach
  <2>. QED BY <2>1, GoToKeeps
<1>2. CASE Replay(c)
  <2>1. UNCHANGED tables
    BY <1>2 DEF Replay, tables, poolVars
  <2>2. PhaseOrder
    BY <1>2 DEF Replay, IInv, TypeOK, PhaseOrder, BeforeAttach, AfterAttach
  <2>3. UNCHANGED <<attached, driver, idleToken>>
    BY <2>1 DEF tables
  <2>. QED BY <2>1, <2>2, <2>3, TablesUntouched, PhaseKept DEF IInv
<1>3. CASE DropReservation(c) \/ FinishRemoval(c)
  <2>1. RemoveLogical(c) /\ UNCHANGED <<attached, expiring, driver>>
    BY <1>3 DEF DropReservation, FinishRemoval
  <2>2. PhaseOrder
    BY <1>3 DEF DropReservation, FinishRemoval, IInv, TypeOK, PhaseOrder, BeforeAttach, AfterAttach
  <2>3. AttachPhases'
    <3>1. \A d \in Commands : driver[d] = "none" => idleToken'[d] = 0
      BY <2>1, LogicalRemoved DEF IInv, AttachPhases
    <3>. QED BY <2>1, <2>2, <3>1, ConstantsAssumption DEF IInv, TypeOK, AttachPhases, PhaseOrder
  <2>. QED BY <2>1, <2>3, LogicalRemoved
<1>. QED BY <1>1, <1>2, <1>3, ReserveKeeps, JoinKeeps, CreateKeeps

\* Every step of a transport and of the idle period keeps the tables in
\* agreement.
LEMMA DriverKeeps == IInv /\ (DriverNext \/ IdleNext) => PoolInv' /\ AttachPhases'
<1>. USE ConstantsAssumption
<1>a. ASSUME IInv, NEW p \in Commands, NEW token \in 1..tokens[p], ExpireIdle(p, token)
      PROVE  PoolInv' /\ AttachPhases'
  <2>. USE <1>a DEF IInv, TypeOK
  <2>1. UNCHANGED <<attached, logical, start, subscribers, idleToken, stopped, driver, pc>>
    BY DEF ExpireIdle
  <2>2. AttachPhases'
    BY <2>1 DEF AttachPhases
  <2>3. CASE ExpiryApplies(p, token)
    <3>1. /\ physical' = [physical EXCEPT ![KeyOf[p]] = NoCommand]
          /\ expiring' = expiring \cup {p}
          /\ timers' = timers \ {<<p, token>>}
          /\ Pooled(p) /\ subscribers[p] = {}
      BY <1>a, <2>3 DEF ExpireIdle, ExpiryApplies
    <3>2. /\ ~Pooled(p)'
          /\ \A q \in Commands \ {p} : Pooled(q)' <=> Pooled(q)
      BY <3>1 DEF Pooled
    <3>3. \A q \in Commands : AttachedTo(q)' = AttachedTo(q)
      BY <2>1 DEF AttachedTo, Registered
    <3>4. TablesAgree'
      <4>1. AttachedTo(p) = {}
        BY <3>1 DEF PoolInv, TablesAgree
      <4>. QED BY <2>1, <3>2, <3>3, <4>1 DEF PoolInv, TablesAgree
    <3>5. IdleIffUnused'
      BY <2>1, <3>1, <3>2 DEF PoolInv, IdleIffUnused
    <3>6. Keyed' /\ EntryHasTransport' /\ NoUnownedTransport'
      BY <2>1, <3>1, <3>2 DEF PoolInv, Keyed, EntryHasTransport, NoUnownedTransport
    <3>. QED BY <2>2, <3>4, <3>5, <3>6 DEF PoolInv
  <2>4. CASE ~ExpiryApplies(p, token)
    <3>1. UNCHANGED <<physical, expiring>> /\ timers' = timers \ {<<p, token>>}
      BY <1>a, <2>4 DEF ExpireIdle
    <3>2. IdleIffUnused'
      <4>1. ASSUME NEW q \in Commands, Pooled(q), subscribers[q] = {}
            PROVE  <<q, idleToken[q]>> # <<p, token>>
        BY <2>4, <4>1 DEF ExpiryApplies, PoolInv, IdleIffUnused
      <4>. QED BY <2>1, <3>1, <4>1 DEF PoolInv, IdleIffUnused, Pooled
    <3>3. Keyed' /\ TablesAgree' /\ EntryHasTransport' /\ NoUnownedTransport'
      BY <2>1, <3>1 DEF PoolInv, Keyed, TablesAgree, EntryHasTransport,
         NoUnownedTransport, Pooled, AttachedTo, Registered
    <3>. QED BY <2>2, <3>2, <3>3 DEF PoolInv
  <2>. QED BY <2>3, <2>4
<1>b. ASSUME IInv, NEW p \in Commands, CancelExpired(p)
      PROVE  PoolInv' /\ AttachPhases'
  <2>1. /\ stopped' = CancelLifecycle(p)
        /\ expiring' = expiring \ {p}
        /\ UNCHANGED <<attached, logical, physical, start, subscribers, idleToken,
                       timers, driver, pc>>
    BY <1>b DEF CancelExpired
  <2>. QED BY <1>b, <2>1, LifecycleCancelled DEF IInv, AttachPhases
<1>. SUFFICES ASSUME IInv, NEW p \in Commands,
                     \/ BeginStart(p) \/ Progress(p) \/ ConnectFails(p) \/ MarkConnected(p)
                     \/ Activate(p) \/ FailStart(p) \/ Terminate(p) \/ ProtocolMessage(p)
                     \/ DeliverEvents(p) \/ InitializeFails(p)
              PROVE PoolInv' /\ AttachPhases'
  BY <1>a, <1>b DEF DriverNext, IdleNext
<1>. USE DEF IInv
<1>1. ASSUME UNCHANGED tables, UNCHANGED pc PROVE PoolInv' /\ AttachPhases'
  BY <1>1, TablesUntouched DEF AttachPhases, tables
<1>2. ASSUME NEW step \in DriverSteps \ {"none", "done"}, driver[p] # "none",
             driver[p] # "done",
             driver' = [driver EXCEPT ![p] = step],
             Pooled(p) =>
               /\ start[p] = "connected" => step \in {"activating", "running", "error"}
               /\ start[p] = "connecting" => step \in {"begin", "connecting", "error"},
             UNCHANGED <<attached, logical, physical, start, subscribers, idleToken,
                         timers, stopped, expiring>>
      PROVE  PoolInv'
  <2>1. Keyed' /\ TablesAgree' /\ IdleIffUnused'
    BY <1>2 DEF PoolInv, Keyed, TablesAgree, IdleIffUnused, Pooled, AttachedTo, Registered
  <2>2. EntryHasTransport' /\ NoUnownedTransport'
    BY <1>2 DEF PoolInv, TypeOK, EntryHasTransport, NoUnownedTransport, Pooled
  <2>. QED BY <2>1, <2>2 DEF PoolInv
<1>3. CASE BeginStart(p) \/ ConnectFails(p)
  <2>1. PICK step \in {"connecting", "error"} : DriverGoesTo(p, step)
    BY <1>3 DEF BeginStart, ConnectFails
  <2>2. /\ driver[p] \in {"begin", "connecting"}
        /\ driver' = [driver EXCEPT ![p] = step]
        /\ UNCHANGED <<attached, logical, physical, start, subscribers, idleToken,
                       timers, stopped, expiring, pc>>
    BY <1>3, <2>1 DEF BeginStart, ConnectFails, DriverGoesTo, poolVars
  <2>3. Pooled(p) => start[p] # "connected"
    BY <2>2 DEF PoolInv, EntryHasTransport
  <2>4. PoolInv'
    BY <1>2, <2>2, <2>3 DEF DriverSteps
  <2>5. AttachPhases'
    BY <2>2 DEF AttachPhases, TypeOK
  <2>. QED BY <2>4, <2>5
<1>4. CASE MarkConnected(p)
  <2>1. /\ driver[p] = "connecting" /\ driver' = [driver EXCEPT ![p] = "activating"]
        /\ IF Pooled(p) THEN start' = [start EXCEPT ![p] = "connected"]
                        ELSE UNCHANGED start
        /\ UNCHANGED <<attached, logical, physical, subscribers, idleToken, timers,
                       stopped, expiring, pc>>
    BY <1>4 DEF MarkConnected
  <2>2. AttachPhases'
    BY <2>1 DEF AttachPhases, TypeOK
  <2>3. \A q \in Commands : Pooled(q)' <=> Pooled(q)
    BY <2>1 DEF Pooled
  <2>4. \A q \in Commands : Pooled(q) =>
          start'[q] = IF q = p THEN "connected" ELSE start[q]
    BY <2>1 DEF TypeOK
  <2>5. Keyed' /\ TablesAgree' /\ IdleIffUnused'
    BY <2>1, <2>3, <2>4 DEF PoolInv, Keyed, TablesAgree, IdleIffUnused, AttachedTo, Registered
  <2>6. EntryHasTransport'
    BY <2>1, <2>3, <2>4 DEF PoolInv, TypeOK, EntryHasTransport
  <2>7. NoUnownedTransport'
    BY <2>1, <2>3 DEF PoolInv, TypeOK, NoUnownedTransport
  <2>. QED BY <2>2, <2>5, <2>6, <2>7 DEF PoolInv
<1>5. CASE Activate(p)
  <2>1. /\ driver[p] = "activating"
        /\ \/ driver' = [driver EXCEPT ![p] = "error"] /\ UNCHANGED pc
           \/ /\ driver' = [driver EXCEPT ![p] = "running"]
              /\ pc' = [pc EXCEPT ![p] = "waiting"]
        /\ UNCHANGED <<attached, logical, physical, start, subscribers, idleToken,
                       timers, stopped, expiring>>
    BY <1>5 DEF Activate, poolVars
  <2>2. Pooled(p) => start[p] # "connecting"
    BY <2>1 DEF PoolInv, EntryHasTransport
  <2>3. PoolInv'
    BY <1>2, <2>1, <2>2 DEF DriverSteps
  <2>4. AttachPhases'
    BY <2>1 DEF AttachPhases, TypeOK, BeforeAttach, AfterAttach
  <2>. QED BY <2>3, <2>4
<1>6. ASSUME driver[p] \notin {"none", "done"}, driver' = [driver EXCEPT ![p] = "done"],
             ~Pooled(p), UNCHANGED poolVars, UNCHANGED <<attached, expiring>>
      PROVE  PoolInv'
  <2>1. Keyed' /\ TablesAgree' /\ IdleIffUnused'
    BY <1>6 DEF PoolInv, Keyed, TablesAgree, IdleIffUnused, Pooled, AttachedTo,
       Registered, poolVars
  <2>2. EntryHasTransport' /\ NoUnownedTransport'
    BY <1>6 DEF PoolInv, TypeOK, EntryHasTransport, NoUnownedTransport, Pooled, poolVars
  <2>. QED BY <2>1, <2>2 DEF PoolInv
<1>7. CASE FailStart(p) \/ Terminate(p)
  <2>1. /\ driver[p] \in {"error", "running"}
        /\ driver' = [driver EXCEPT ![p] = "done"]
        /\ pc' = pc \/ pc' = [pc EXCEPT ![p] = "dropping"]
        /\ IF Pooled(p) THEN ClosePhysical(p) ELSE UNCHANGED poolVars
        /\ UNCHANGED <<attached, expiring>>
    BY <1>7 DEF FailStart, Terminate, StartFailureApplies, TerminalApplies
  <2>2. PoolInv'
    BY <1>6, <2>1, PhysicalClosed
  <2>3. UNCHANGED idleToken
    BY <2>1 DEF ClosePhysical, poolVars
  <2>4. AttachPhases'
    BY <2>1, <2>3 DEF AttachPhases, TypeOK, BeforeAttach, AfterAttach
  <2>. QED BY <2>2, <2>4
<1>8. CASE Progress(p) \/ ProtocolMessage(p) \/ DeliverEvents(p)
  <2>1. UNCHANGED tables /\ UNCHANGED pc
    BY <1>8 DEF Progress, ProtocolMessage, DeliverEvents, tables, poolVars
  <2>. QED BY <2>1, <1>1
<1>9. CASE InitializeFails(p)
  <2>1. /\ stopped' = CancelLifecycle(p)
        /\ UNCHANGED <<attached, logical, physical, start, subscribers, idleToken,
                       timers, driver, expiring, pc>>
    BY <1>9 DEF InitializeFails
  <2>. QED BY <2>1, LifecycleCancelled DEF AttachPhases
<1>. QED BY <1>3, <1>4, <1>5, <1>7, <1>8, <1>9

-----------------------------------------------------------------------------
(* The theorems                                                            *)

\* Every step keeps the inductive invariant.
LEMMA StepInv == IInv /\ [Next]_vars => IInv'
<1>. SUFFICES ASSUME IInv, [Next]_vars PROVE IInv'
  OBVIOUS
<1>1. CASE UNCHANGED vars
  <2>1. UNCHANGED tables /\ UNCHANGED pc
    BY <1>1 DEF vars, poolVars, tables
  <2>2. AttachPhases'
    BY <2>1 DEF IInv, AttachPhases, tables
  <2>. QED BY <2>1, <2>2, TablesUntouched, TypeStep DEF IInv
<1>. QED BY <1>1, TypeStep, ClientKeeps, CommandKeeps, DriverKeeps DEF IInv, Next

\* IInv holds in every reachable state.
THEOREM Invariance == Spec => []IInv
BY InitInv, StepInv, PTL DEF Spec

\* The two tables of the pool always agree, whoever attaches, leaves, fails or
\* expires in whatever order.
THEOREM TablesAlwaysAgree == Spec => []TablesAgree
<1>1. IInv => TablesAgree
  BY DEF IInv, PoolInv
<1>. QED BY <1>1, Invariance, PTL

\* A pooled connection has an idle token and a timer exactly while nobody uses
\* it.
THEOREM IdleExactlyIfUnused == Spec => []IdleIffUnused
<1>1. IInv => IdleIffUnused
  BY DEF IInv, PoolInv
<1>. QED BY <1>1, Invariance, PTL

\* A pooled connection always has a transport that will report its end, and its
\* start state is the one of that transport.
THEOREM EntryAlwaysHasTransport == Spec => []EntryHasTransport
<1>1. IInv => EntryHasTransport
  BY DEF IInv, PoolInv
<1>. QED BY <1>1, Invariance, PTL

\* No process or socket runs on outside the pool.
THEOREM NoTransportUnowned == Spec => []NoUnownedTransport
<1>1. IInv => NoUnownedTransport
  BY DEF IInv, PoolInv
<1>. QED BY <1>1, Invariance, PTL

\* A connected physical connection in use leaves the pool only when its own
\* transport ends.
THEOREM UsedConnectionAlwaysStays == Spec => UsedConnectionStays
<1>. DEFINE Leaves(p) == /\ Pooled(p) /\ subscribers[p] # {}
                        /\ start[p] = "connected" /\ ~Pooled(p)'
<1>1. ASSUME IInv, [Next]_vars, NEW p \in Commands, Leaves(p)
      PROVE  driver[p] # "done" /\ driver'[p] = "done"
  <2>. USE <1>1, ConstantsAssumption DEF IInv, TypeOK
  <2>1. driver[p] # "done"
    BY DEF PoolInv, EntryHasTransport
  <2>2. ~UNCHANGED physical
    BY DEF Pooled
  <2>3. ~UNCHANGED vars
    BY <2>2 DEF vars, poolVars
  <2>4. ASSUME NEW c \in Commands, RemoveLogical(c) PROVE FALSE
    <3>1. Registered(c) /\ attached[c] # NoCommand /\ Pooled(attached[c])
      BY <2>2, <2>4 DEF RemoveLogical, poolVars
    <3>2. attached[c] \in Commands /\ DetachSubscriber(c, attached[c])
      BY <2>4, <3>1 DEF RemoveLogical, Entry
    <3>3. /\ Remaining(c, attached[c]) = {} /\ start[attached[c]] = "connecting"
          /\ physical' = [physical EXCEPT ![KeyOf[attached[c]]] = NoCommand]
      BY <2>2, <3>2 DEF DetachSubscriber
    <3>4. attached[c] = p
      BY <3>1, <3>2, <3>3 DEF Pooled
    <3>. QED BY <3>3, <3>4
  <2>5. ASSUME NEW q \in Commands, ClosePhysical(q), Pooled(q), driver'[q] = "done"
        PROVE  driver'[p] = "done"
    <3>1. q = p
      BY <2>5 DEF ClosePhysical, Pooled
    <3>. QED BY <2>5, <3>1
  <2>6. ~WindowNext /\ ~ClientNext
    BY <2>2 DEF WindowNext, OpenWindow, DestroyWindow, DisconnectWindow, ClientNext,
       IssueConnect, CancelConnect, Release, SendFails, poolVars
  <2>7. ~IdleNext
    <3>1. ASSUME NEW q \in Commands, NEW token \in 1..tokens[q], ExpireIdle(q, token)
          PROVE  FALSE
      <4>1. ExpiryApplies(q, token) /\ physical' = [physical EXCEPT ![KeyOf[q]] = NoCommand]
        BY <2>2, <3>1 DEF ExpireIdle
      <4>2. q = p
        BY <4>1 DEF ExpiryApplies, Pooled
      <4>. QED BY <4>1, <4>2 DEF ExpiryApplies
    <3>. QED BY <2>2, <3>1 DEF IdleNext, CancelExpired
  <2>8. ~CommandNext
    <3>1. ASSUME NEW c \in Commands, AttachNew(c) PROVE FALSE
      BY <3>1 DEF AttachNew, Pooled
    <3>2. ASSUME NEW c \in Commands, DropReservation(c) \/ FinishRemoval(c) PROVE FALSE
      BY <2>4, <3>2 DEF DropReservation, FinishRemoval
    <3>. QED BY <2>2, <3>1, <3>2 DEF CommandNext, Reserve, CheckReservation, Resolve,
                AttachRefused, AttachExisting, Replay, WaitUntilConnected, Commit, GoTo,
                poolVars
  <2>9. DriverNext => driver'[p] = "done"
    <3>1. ASSUME NEW q \in Commands, FailStart(q) \/ Terminate(q)
          PROVE  driver'[p] = "done"
      <4>1. driver'[q] = "done" /\ Pooled(q) /\ ClosePhysical(q)
        BY <2>2, <3>1 DEF FailStart, Terminate, StartFailureApplies, TerminalApplies,
           poolVars
      <4>. QED BY <2>5, <4>1
    <3>2. ASSUME NEW q \in Commands,
                 \/ BeginStart(q) \/ Progress(q) \/ ConnectFails(q) \/ MarkConnected(q)
                 \/ Activate(q) \/ ProtocolMessage(q) \/ DeliverEvents(q)
                 \/ InitializeFails(q)
          PROVE  UNCHANGED physical
      BY <3>2 DEF BeginStart, Progress, ConnectFails, MarkConnected, Activate,
         ProtocolMessage, DeliverEvents, InitializeFails, DriverGoesTo, poolVars
    <3>. QED BY <2>2, <3>1, <3>2 DEF DriverNext
  <2>. QED BY <2>1, <2>3, <2>6, <2>7, <2>8, <2>9 DEF Next
<1>2. IInv /\ [Next]_vars =>
        [\A p \in Commands :
           Pooled(p) /\ subscribers[p] # {} /\ start[p] = "connected" /\ ~Pooled(p)'
             => driver[p] # "done" /\ driver'[p] = "done"]_vars
  BY <1>1
<1>. QED BY <1>2, Invariance, PTL DEF Spec, UsedConnectionStays

\* A window that is gone leaves no connection behind: what its late commands
\* registered is about to be removed, or will be dropped by the command itself.
THEOREM NoOrphans == Spec => []NoOrphanOfClosedWindow
<1>1. Init => NoOrphanOfClosedWindow
  BY ConstantsAssumption DEF Init, NoOrphanOfClosedWindow, Registered
<1>2. TypeOK /\ NoOrphanOfClosedWindow /\ [Next]_vars => NoOrphanOfClosedWindow'
  <2>. SUFFICES ASSUME TypeOK, NoOrphanOfClosedWindow, [Next]_vars, NEW d \in Commands,
                       Registered(d)', window'[WindowOf[d]] = "cleaned",
                       d \notin removing'
                PROVE  pc'[d] \notin {"checked", "committed"}
    BY DEF NoOrphanOfClosedWindow
  <2>. USE ConstantsAssumption DEF TypeOK
  <2>. DEFINE Kept == /\ Registered(d)' => Registered(d)
                      /\ window'[WindowOf[d]] = "cleaned" => window[WindowOf[d]] = "cleaned"
                      /\ d \in removing => d \in removing'
                      /\ pc'[d] \in {"checked", "committed"} => pc[d] \in {"checked", "committed"}
  <2>1. Kept => pc'[d] \notin {"checked", "committed"}
    BY DEF NoOrphanOfClosedWindow
  <2>2. CASE UNCHANGED vars
    BY <2>1, <2>2 DEF vars, poolVars, Registered
  <2>3. ASSUME NEW c \in Commands, RemoveLogical(c)
        PROVE  Registered(d)' => Registered(d) /\ c # d
    BY <2>3 DEF RemoveLogical, Registered, poolVars
  <2>4. ASSUME NEW p \in Commands, ClosePhysical(p)
        PROVE  Registered(d)' => Registered(d)
    BY <2>4 DEF ClosePhysical, Registered
  <2>5. CASE WindowNext
    <3>1. ASSUME NEW w \in Windows, DisconnectWindow(w)
          PROVE  pc'[d] \notin {"checked", "committed"}
      <4>1. CASE WindowOf[d] = w
        <5>1. d \in OwnedBy(LabelOf[w])
          BY <3>1, <4>1 DEF DisconnectWindow, OwnedBy, OwnerLabel, Registered
        <5>. QED BY <3>1, <5>1 DEF DisconnectWindow
      <4>2. CASE WindowOf[d] # w
        BY <2>1, <3>1, <4>2 DEF DisconnectWindow, Registered
      <4>. QED BY <4>1, <4>2
    <3>2. ASSUME NEW w \in Windows, OpenWindow(w) \/ DestroyWindow(w) PROVE Kept
      BY <3>2 DEF OpenWindow, DestroyWindow, Registered, poolVars
    <3>. QED BY <2>1, <2>5, <3>1, <3>2 DEF WindowNext
  <2>6. CASE ClientNext
    <3>1. Kept
      BY <2>6 DEF ClientNext, IssueConnect, CancelConnect, Release, SendFails, Registered,
         poolVars
    <3>. QED BY <2>1, <3>1
  <2>7. CASE CommandNext
    <3>1. ASSUME NEW c \in Commands, WaitUntilConnected(c)
          PROVE  pc'[d] \notin {"checked", "committed"}
      <4>1. CASE c = d
        BY <3>1, <4>1 DEF WaitUntilConnected, GoTo, GoesOn, Alive
      <4>2. CASE c # d
        <5>1. Kept
          BY <3>1, <4>2 DEF WaitUntilConnected, GoTo, Registered, poolVars
        <5>. QED BY <2>1, <5>1
      <4>. QED BY <4>1, <4>2
    <3>2. ASSUME NEW c \in Commands, Reserve(c)
          PROVE  pc'[d] \notin {"checked", "committed"}
      <4>1. CASE c = d
        BY <3>2, <4>1 DEF Reserve
      <4>2. CASE c # d
        <5>1. Kept
          BY <3>2, <4>2 DEF Reserve, Registered
        <5>. QED BY <2>1, <5>1
      <4>. QED BY <4>1, <4>2
    <3>3. ASSUME NEW c \in Commands, DropReservation(c) \/ FinishRemoval(c) PROVE Kept
      BY <2>3, <3>3 DEF DropReservation, FinishRemoval
    <3>4. ASSUME NEW c \in Commands, Commit(c) \/ CheckReservation(c) \/ Resolve(c)
                                     \/ AttachRefused(c)
          PROVE  Kept
      BY <3>4 DEF Commit, CheckReservation, Resolve, AttachRefused, GoTo, Registered, poolVars
    <3>5. ASSUME NEW c \in Commands, AttachExisting(c) \/ AttachNew(c) \/ Replay(c)
          PROVE  Kept
      BY <3>5 DEF AttachExisting, AttachNew, Replay, Registered, poolVars
    <3>. QED BY <2>1, <2>7, <3>1, <3>2, <3>3, <3>4, <3>5 DEF CommandNext
  <2>8. CASE DriverNext
    <3>1. ASSUME NEW p \in Commands, FailStart(p) \/ Terminate(p) PROVE Kept
      BY <2>4, <3>1 DEF FailStart, Terminate, Registered, poolVars
    <3>2. ASSUME NEW p \in Commands,
                 \/ BeginStart(p) \/ Progress(p) \/ ConnectFails(p) \/ MarkConnected(p)
                 \/ ProtocolMessage(p) \/ DeliverEvents(p) \/ InitializeFails(p)
                 \/ Activate(p)
          PROVE  Kept
      BY <3>2 DEF BeginStart, Progress, ConnectFails, MarkConnected, ProtocolMessage,
         DeliverEvents, InitializeFails, Activate, DriverGoesTo, Registered, poolVars
    <3>. QED BY <2>1, <2>8, <3>1, <3>2 DEF DriverNext
  <2>9. CASE IdleNext
    <3>1. Kept
      BY <2>9 DEF IdleNext, ExpireIdle, CancelExpired, Registered
    <3>. QED BY <2>1, <3>1
  <2>. QED BY <2>2, <2>5, <2>6, <2>7, <2>8, <2>9 DEF Next
<1>. QED BY <1>1, <1>2, TypeCorrect, PTL DEF Spec
-----------------------------------------------------------------------------
(* Why a connection is lost                                                *)

\* Identifiers are fresh: the page draws one at random for every connect command.
FreshIds == \A c, d \in Commands : ConnOf[c] = ConnOf[d] => c = d

\* The transport runs inside its command until it is established, and an entry that
\* was taken out by a timer or whose end was announced does not come back.
DriverPhase(p) ==
  /\ driver[p] \in {"begin", "connecting", "activating", "error"} => pc[p] = "starting"
  /\ pc[p] = "replaying" => driver[p] = "none"
  /\ attached[p] # NoCommand => driver[attached[p]] # "none"
  /\ driver[p] = "none" => ~stopped[p]
  /\ p \in expiring => ~Pooled(p) /\ driver[p] # "none"
  /\ outbox[p].event = "terminal" => driver[p] = "done"

DriverPhases == \A p \in Commands : DriverPhase(p)

\* Two windows of one label are not there at the same time.
WindowOrder ==
  \A v, w \in Windows :
    v # w /\ LabelOf[v] = LabelOf[w] /\ window[v] \in {"open", "destroyed"}
      => window[w] \in {"unborn", "cleaned"}

IssuedFromWindow == \A c \in Commands : pc[c] # "idle" => window[WindowOf[c]] # "unborn"

FiledById ==
  \A i \in ConnIds : logical[i] # NoCommand =>
    ConnOf[logical[i]] = i /\ pc[logical[i]] \notin {"idle", "queued"}

\* What is about to be removed belongs to a window that is gone or to a client that
\* asked for it.
RemovedForAReason ==
  \A c \in removing : pc[c] # "idle" /\ (~Alive(c) \/ cancelSent[c] \/ releaseSent[c])

WindowInv == WindowOrder /\ IssuedFromWindow /\ FiledById /\ RemovedForAReason

\* The transport of p turned a message away before it was active.
Refused(p) == \E d \in turnedAway : attached[d] = p

\* A command goes on only when its connection was established.
Established ==
  \A c \in Commands :
    pc[c] \in {"checked", "committed"} => start[attached[c]] \in {"connected", "failed"}

\* Nothing but a refused message stops a pooled transport before it runs.
StoppedByRefusal ==
  /\ \A d \in turnedAway : pc[d] = "committed" /\ KeyOf[attached[d]] \notin LocalKeys
  /\ \A p \in Commands : Pooled(p) =>
       /\ stopped[p] /\ driver[p] \in {"begin", "connecting", "activating"} => Refused(p)
       /\ start[p] = "connected" /\ driver[p] = "error" => Refused(p)

\* The entry of c is gone though its window is there and its client did not ask.
Lost(c) == ~Registered(c) /\ Alive(c) /\ ~cancelSent[c] /\ ~releaseSent[c]

Announced(c) ==
  \/ told[c] = "closed"
  \/ outbox[attached[c]].event = "terminal" /\ c \in outbox[attached[c]].to

\* A command that lost its connection finds it failed when it waits for it, and the
\* channel of one that goes on gets the terminal status.
Joining == {"replaying", "starting", "waiting"}

Explained(c) ==
  Lost(c) =>
    /\ pc[c] \in Joining => start[attached[c]] = "failed"
    /\ pc[c] \in {"checked", "committed"} => Announced(c) \/ Refused(attached[c])

LossExplained == \A c \in Commands : Explained(c)

\* What the removal of a logical connection leaves alone
LEMMA RemovalFrame ==
  ASSUME TypeOK, NEW c \in Commands, RemoveLogical(c)
  PROVE  /\ \A d \in Commands : Registered(d)' => Registered(d)
         /\ \A d \in Commands \ {c} : Registered(d)' <=> Registered(d)
         /\ \A p \in Commands : Pooled(p)' => Pooled(p) /\ stopped'[p] = stopped[p]
         /\ \A p \in Commands : stopped'[p] => stopped[p] \/ Pooled(p)
         /\ \A p \in Commands : start'[p] = start[p] \/ (start[p] = "connecting" /\ start'[p] = "failed")
         /\ \A i \in ConnIds : logical'[i] \in {logical[i], NoCommand}
<1>. USE ConstantsAssumption
<1>1. CASE ~Registered(c)
  <2>1. UNCHANGED <<logical, physical, start, stopped>> BY <1>1 DEF RemoveLogical, poolVars
  <2>. QED BY <2>1 DEF Registered, Pooled
<1>2. CASE Registered(c)
  <2>1. logical' = [logical EXCEPT ![ConnOf[c]] = NoCommand] BY <1>2 DEF RemoveLogical
  <2>2. /\ \A d \in Commands : Registered(d)' => Registered(d)
        /\ \A d \in Commands \ {c} : Registered(d)' <=> Registered(d)
        /\ \A i \in ConnIds : logical'[i] \in {logical[i], NoCommand}
    BY <1>2, <2>1 DEF Registered, TypeOK
  <2>3. CASE UNCHANGED <<physical, start, stopped>>
    BY <2>2, <2>3 DEF Pooled
  <2>4. CASE attached[c] # NoCommand /\ Pooled(attached[c])
    <3>1. PICK p \in Commands : p = attached[c] /\ Pooled(p) /\ DetachSubscriber(c, p)
      BY <1>2, <2>4 DEF RemoveLogical, TypeOK, Entry
    <3>2. \/ UNCHANGED <<physical, start, stopped>>
          \/ /\ start[p] = "connecting"
             /\ physical' = [physical EXCEPT ![KeyOf[p]] = NoCommand]
             /\ start' = [start EXCEPT ![p] = "failed"] /\ stopped' = [stopped EXCEPT ![p] = TRUE]
      BY <3>1 DEF DetachSubscriber, CancelLifecycle
    <3>3. CASE /\ start[p] = "connecting"
               /\ physical' = [physical EXCEPT ![KeyOf[p]] = NoCommand]
               /\ start' = [start EXCEPT ![p] = "failed"] /\ stopped' = [stopped EXCEPT ![p] = TRUE]
      BY <2>2, <3>1, <3>3 DEF Pooled, TypeOK
    <3>. QED BY <2>3, <3>2, <3>3
  <2>. QED BY <1>2, <2>3, <2>4 DEF RemoveLogical
<1>. QED BY <1>1, <1>2

\* What the end of a physical connection takes along
LEMMA ClosureFrame ==
  ASSUME TypeOK, NEW p \in Commands, Pooled(p), ClosePhysical(p)
  PROVE  /\ \A d \in Commands : Registered(d)' <=> Registered(d) /\ attached[d] # p
         /\ ~Pooled(p)' /\ start'[p] = "failed"
         /\ \A q \in Commands \ {p} : /\ Pooled(q)' <=> Pooled(q)
                                     /\ start'[q] = start[q] /\ stopped'[q] = stopped[q]
         /\ \A i \in ConnIds : logical'[i] \in {logical[i], NoCommand}
<1>. USE ConstantsAssumption
<1>1. \A d \in Commands : Registered(d)' <=> Registered(d) /\ attached[d] # p
  BY DEF ClosePhysical, Registered, AttachedTo, TypeOK
<1>2. /\ ~Pooled(p)' /\ start'[p] = "failed"
      /\ \A q \in Commands \ {p} : /\ Pooled(q)' <=> Pooled(q)
                                  /\ start'[q] = start[q] /\ stopped'[q] = stopped[q]
  BY DEF ClosePhysical, Pooled, CancelLifecycle, TypeOK
<1>3. \A i \in ConnIds : logical'[i] \in {logical[i], NoCommand}
  BY DEF ClosePhysical, TypeOK
<1>. QED BY <1>1, <1>2, <1>3

LEMMA DriverPhasesKept ==
  ASSUME IInv, DriverPhases, UNCHANGED driver,
         \A p \in Commands :
           /\ pc'[p] = "starting" <=> pc[p] = "starting"
           /\ pc'[p] = "replaying" => pc[p] = "replaying"
           /\ attached'[p] = attached[p]
           /\ stopped'[p] => stopped[p] \/ driver[p] # "none"
           /\ p \in expiring' => p \in expiring
           /\ Pooled(p)' => Pooled(p)
           /\ outbox'[p].event = "terminal" => outbox[p].event = "terminal"
  PROVE  DriverPhases'
<1>. SUFFICES ASSUME NEW p \in Commands PROVE DriverPhase(p)' BY DEF DriverPhases
<1>1. DriverPhase(p) BY DEF DriverPhases
<1>. QED BY <1>1 DEF DriverPhase

LEMMA DriverPhasesStep == IInv /\ DriverPhases /\ [Next]_vars => DriverPhases'
<1>. SUFFICES ASSUME IInv, DriverPhases, [Next]_vars PROVE DriverPhases'
  OBVIOUS
<1>. USE ConstantsAssumption
<1>a. TypeOK /\ \A p \in Commands : Pooled(p) => driver[p] # "none"
  BY DEF IInv, PoolInv, EntryHasTransport
<1>1. CASE UNCHANGED vars
  BY <1>1, DriverPhasesKept DEF vars, poolVars, Pooled
<1>2. CASE WindowNext
  <2>1. UNCHANGED <<driver, pc, attached, stopped, expiring, physical, outbox>>
    BY <1>2 DEF WindowNext, OpenWindow, DestroyWindow, DisconnectWindow, poolVars
  <2>. QED BY <2>1, DriverPhasesKept DEF Pooled
<1>3. CASE ClientNext
  <2>1. ASSUME NEW c \in Commands, CancelConnect(c) \/ Release(c) PROVE DriverPhases'
    <3>1. UNCHANGED <<driver, pc, attached, stopped, expiring, physical, outbox>>
      BY <2>1 DEF CancelConnect, Release
    <3>. QED BY <3>1, DriverPhasesKept DEF Pooled
  <2>2. ASSUME NEW c \in Commands, IssueConnect(c) PROVE DriverPhases'
    <3>1. /\ UNCHANGED <<driver, attached, stopped, expiring, physical, outbox>>
          /\ pc[c] = "idle" /\ pc' = [pc EXCEPT ![c] = "queued"]
      BY <2>2 DEF IssueConnect, poolVars
    <3>. QED BY <1>a, <3>1, DriverPhasesKept DEF Pooled, TypeOK
  <2>3. ASSUME NEW c \in Commands, SendFails(c) PROVE DriverPhases'
    <3>1. /\ UNCHANGED <<driver, pc, attached, expiring, physical, outbox>>
          /\ Pooled(attached[c]) /\ stopped' = [stopped EXCEPT ![attached[c]] = TRUE]
          /\ attached[c] # NoCommand
      BY <2>3 DEF SendFails, CancelLifecycle, IInv, AttachPhases, AfterAttach
    <3>2. attached[c] \in Commands BY <1>a, <3>1 DEF TypeOK, Entry
    <3>. QED BY <1>a, <3>1, <3>2, DriverPhasesKept DEF Pooled, TypeOK
  <2>. QED BY <1>3, <2>1, <2>2, <2>3 DEF ClientNext
<1>4. CASE CommandNext
  <2>1. ASSUME NEW c \in Commands, NEW next \in CommandSteps \ {"starting", "replaying"},
               GoTo(c, next), pc[c] # "starting"
        PROVE  DriverPhases'
    <3>1. /\ UNCHANGED <<driver, attached, stopped, expiring, physical, outbox>>
          /\ pc' = [pc EXCEPT ![c] = next]
      BY <2>1 DEF GoTo, poolVars
    <3>. QED BY <1>a, <2>1, <3>1, DriverPhasesKept DEF Pooled, TypeOK
  <2>2. ASSUME NEW c \in Commands,
               CheckReservation(c) \/ Resolve(c) \/ AttachRefused(c) \/ WaitUntilConnected(c) \/ Commit(c)
        PROVE  DriverPhases'
    <3>1. \E next \in CommandSteps \ {"starting", "replaying"} : GoTo(c, next) /\ pc[c] # "starting"
      BY <2>2 DEF CheckReservation, Resolve, AttachRefused, WaitUntilConnected, Commit, CommandSteps
    <3>. QED BY <2>1, <3>1
  <2>3. ASSUME NEW c \in Commands, Reserve(c) PROVE DriverPhases'
    <3>1. /\ UNCHANGED <<driver, attached, stopped, expiring, physical, outbox>>
          /\ pc[c] = "queued" /\ pc' \in {[pc EXCEPT ![c] = "failed"], [pc EXCEPT ![c] = "reserved"]}
      BY <2>3 DEF Reserve
    <3>. QED BY <1>a, <3>1, DriverPhasesKept DEF Pooled, TypeOK
  <2>4. ASSUME NEW c \in Commands, AttachExisting(c) PROVE DriverPhases'
    <3>1. PICK q \in Commands : q = physical[KeyOf[c]]
      BY <1>a, <2>4 DEF AttachExisting, TypeOK, Entry
    <3>2. /\ UNCHANGED <<driver, stopped, expiring, physical>>
          /\ pc[c] = "attaching" /\ pc' = [pc EXCEPT ![c] = "replaying"]
          /\ attached' = [attached EXCEPT ![c] = q]
      BY <2>4, <3>1 DEF AttachExisting
    <3>a. PICK e : e.event # "terminal" /\ outbox' = [outbox EXCEPT ![c] = e]
      <4>. DEFINE f == IF start[q] = "connected" THEN [event |-> "connected", to |-> {c}]
                      ELSE IF stage[q] THEN [event |-> "progress", to |-> {c}] ELSE NoEvent
      <4>1. outbox' = [outbox EXCEPT ![c] = f] BY <2>4, <3>1 DEF AttachExisting
      <4>2. f.event # "terminal" BY DEF NoEvent
      <4>. QED BY <4>1, <4>2
    <3>3. Pooled(q) /\ driver[q] # "none"
      BY <1>a, <3>1 DEF IInv, PoolInv, Keyed, Pooled, TypeOK
    <3>4. driver[c] = "none" BY <3>2 DEF IInv, AttachPhases, BeforeAttach
    <3>. SUFFICES ASSUME NEW p \in Commands PROVE DriverPhase(p)' BY DEF DriverPhases
    <3>5. DriverPhase(p) BY DEF DriverPhases
    <3>. QED BY <1>a, <3>2, <3>a, <3>3, <3>4, <3>5 DEF DriverPhase, Pooled, TypeOK
  <2>5. ASSUME NEW c \in Commands, AttachNew(c) PROVE DriverPhases'
    <3>1. /\ UNCHANGED <<stopped, expiring, outbox>>
          /\ pc[c] = "attaching" /\ pc' = [pc EXCEPT ![c] = "starting"]
          /\ attached' = [attached EXCEPT ![c] = c] /\ driver' = [driver EXCEPT ![c] = "begin"]
          /\ physical' = [physical EXCEPT ![KeyOf[c]] = c]
      BY <2>5 DEF AttachNew
    <3>2. driver[c] = "none" BY <3>1 DEF IInv, AttachPhases, BeforeAttach
    <3>. SUFFICES ASSUME NEW p \in Commands PROVE DriverPhase(p)' BY DEF DriverPhases
    <3>3. DriverPhase(p) /\ DriverPhase(c) BY DEF DriverPhases
    <3>4. attached[p] # NoCommand => attached[p] \in Commands BY <1>a DEF TypeOK, Entry
    <3>. QED BY <1>a, <3>1, <3>2, <3>3, <3>4 DEF DriverPhase, Pooled, TypeOK
  <2>6. ASSUME NEW c \in Commands, Replay(c) PROVE DriverPhases'
    <3>1. /\ UNCHANGED <<driver, attached, stopped, expiring, physical>>
          /\ pc[c] = "replaying" /\ pc' \in {[pc EXCEPT ![c] = "dropping"], [pc EXCEPT ![c] = "waiting"]}
          /\ outbox' = [outbox EXCEPT ![c] = NoEvent]
      BY <2>6 DEF Replay, poolVars
    <3>2. \A p \in Commands : outbox'[p].event = "terminal" => outbox[p].event = "terminal"
      BY <1>a, <3>1 DEF NoEvent, TypeOK
    <3>. QED BY <1>a, <3>1, <3>2, DriverPhasesKept DEF Pooled, TypeOK
  <2>7. ASSUME NEW c \in Commands, DropReservation(c) \/ FinishRemoval(c) PROVE DriverPhases'
    <3>1. /\ UNCHANGED <<driver, attached, expiring, outbox>> /\ RemoveLogical(c)
          /\ pc' = pc \/ (pc[c] = "dropping" /\ pc' = [pc EXCEPT ![c] = "failed"])
      BY <2>7 DEF DropReservation, FinishRemoval
    <3>2. \A p \in Commands : /\ stopped'[p] => stopped[p] \/ driver[p] # "none"
                              /\ Pooled(p)' => Pooled(p)
      BY <1>a, <3>1, RemovalFrame
    <3>. QED BY <1>a, <3>1, <3>2, DriverPhasesKept DEF TypeOK
  <2>. QED BY <1>4, <2>2, <2>3, <2>4, <2>5, <2>6, <2>7 DEF CommandNext
<1>5. CASE DriverNext
  <2>1. ASSUME NEW q \in Commands, BeginStart(q) \/ ConnectFails(q) PROVE DriverPhases'
    <3>1. /\ UNCHANGED <<pc, attached, stopped, expiring, physical, outbox>>
          /\ driver[q] \in {"begin", "connecting"}
          /\ driver' \in {[driver EXCEPT ![q] = "connecting"], [driver EXCEPT ![q] = "error"]}
      BY <2>1 DEF BeginStart, ConnectFails, DriverGoesTo, poolVars
    <3>. SUFFICES ASSUME NEW p \in Commands PROVE DriverPhase(p)' BY DEF DriverPhases
    <3>2. DriverPhase(p) /\ (attached[p] # NoCommand => attached[p] \in Commands)
      BY <1>a DEF DriverPhases, TypeOK, Entry
    <3>. QED BY <1>a, <3>1, <3>2 DEF DriverPhase, Pooled, TypeOK
  <2>2. ASSUME NEW q \in Commands, Progress(q) \/ ProtocolMessage(q) \/ DeliverEvents(q) PROVE DriverPhases'
    <3>1. /\ UNCHANGED <<driver, pc, attached, stopped, expiring, physical>>
          /\ \E e : e.event # "terminal" /\ outbox' = [outbox EXCEPT ![q] = e]
      BY <2>2 DEF Progress, ProtocolMessage, DeliverEvents, poolVars, NoEvent
    <3>2. \A p \in Commands : outbox'[p].event = "terminal" => outbox[p].event = "terminal"
      BY <1>a, <3>1 DEF TypeOK
    <3>. QED BY <3>1, <3>2, DriverPhasesKept DEF Pooled
  <2>3. ASSUME NEW q \in Commands, MarkConnected(q) PROVE DriverPhases'
    <3>1. /\ UNCHANGED <<pc, attached, stopped, expiring, physical>>
          /\ driver[q] = "connecting" /\ driver' = [driver EXCEPT ![q] = "activating"]
          /\ outbox[q] = NoEvent
          /\ outbox' = outbox \/ \E e : e.event # "terminal" /\ outbox' = [outbox EXCEPT ![q] = e]
      BY <2>3 DEF MarkConnected
    <3>2. \A p \in Commands : outbox'[p].event = "terminal" => outbox[p].event = "terminal"
      BY <1>a, <3>1 DEF TypeOK
    <3>. SUFFICES ASSUME NEW p \in Commands PROVE DriverPhase(p)' BY DEF DriverPhases
    <3>3. DriverPhase(p) /\ DriverPhase(q) /\ (attached[p] # NoCommand => attached[p] \in Commands)
      BY <1>a DEF DriverPhases, TypeOK, Entry
    <3>. QED BY <1>a, <3>1, <3>2, <3>3 DEF DriverPhase, Pooled, TypeOK
  <2>4. ASSUME NEW q \in Commands, Activate(q) PROVE DriverPhases'
    <3>1. /\ UNCHANGED <<attached, stopped, expiring, physical, outbox>> /\ driver[q] = "activating"
          /\ \/ driver' = [driver EXCEPT ![q] = "error"] /\ pc' = pc
             \/ driver' = [driver EXCEPT ![q] = "running"] /\ pc' = [pc EXCEPT ![q] = "waiting"]
      BY <2>4 DEF Activate, poolVars
    <3>. SUFFICES ASSUME NEW p \in Commands PROVE DriverPhase(p)' BY DEF DriverPhases
    <3>2. DriverPhase(p) /\ DriverPhase(q) /\ (attached[p] # NoCommand => attached[p] \in Commands)
      BY <1>a DEF DriverPhases, TypeOK, Entry
    <3>. QED BY <1>a, <3>1, <3>2 DEF DriverPhase, Pooled, TypeOK
  <2>5. ASSUME NEW q \in Commands, FailStart(q) \/ Terminate(q) PROVE DriverPhases'
    <3>1. /\ UNCHANGED <<attached, expiring>> /\ driver[q] \in {"error", "running"}
          /\ driver' = [driver EXCEPT ![q] = "done"]
          /\ pc' = pc \/ pc' = [pc EXCEPT ![q] = "dropping"]
          /\ (Pooled(q) /\ ClosePhysical(q)) \/ UNCHANGED poolVars
          /\ outbox' = outbox \/ \E e : outbox' = [outbox EXCEPT ![q] = e]
      BY <2>5 DEF FailStart, Terminate, StartFailureApplies, TerminalApplies
    <3>. SUFFICES ASSUME NEW p \in Commands PROVE DriverPhase(p)' BY DEF DriverPhases
    <3>2. DriverPhase(p) /\ DriverPhase(q) /\ (attached[p] # NoCommand => attached[p] \in Commands)
      BY <1>a DEF DriverPhases, TypeOK, Entry
    <3>3. /\ Pooled(p)' => Pooled(p)
          /\ p # q => stopped'[p] = stopped[p]
      BY <1>a, <3>1, ClosureFrame DEF poolVars, Pooled
    <3>. QED BY <1>a, <3>1, <3>2, <3>3 DEF DriverPhase, TypeOK
  <2>6. ASSUME NEW q \in Commands, InitializeFails(q) PROVE DriverPhases'
    <3>1. /\ UNCHANGED <<driver, pc, attached, expiring, physical, outbox>>
          /\ Pooled(q) /\ stopped' = [stopped EXCEPT ![q] = TRUE]
      BY <2>6 DEF InitializeFails, CancelLifecycle
    <3>. QED BY <1>a, <3>1, DriverPhasesKept DEF Pooled, TypeOK
  <2>. QED BY <1>5, <2>1, <2>2, <2>3, <2>4, <2>5, <2>6 DEF DriverNext
<1>6. CASE IdleNext
  <2>1. ASSUME NEW q \in Commands, NEW token \in 1..tokens[q], ExpireIdle(q, token) PROVE DriverPhases'
    <3>1. /\ UNCHANGED <<driver, pc, attached, stopped, outbox>>
          /\ \/ UNCHANGED <<physical, expiring>>
             \/ /\ Pooled(q) /\ physical' = [physical EXCEPT ![KeyOf[q]] = NoCommand]
                /\ expiring' = expiring \cup {q}
      BY <2>1 DEF ExpireIdle, ExpiryApplies
    <3>. SUFFICES ASSUME NEW p \in Commands PROVE DriverPhase(p)' BY DEF DriverPhases
    <3>2. DriverPhase(p) BY DEF DriverPhases
    <3>. QED BY <1>a, <3>1, <3>2 DEF DriverPhase, Pooled, TypeOK
  <2>2. ASSUME NEW q \in Commands, CancelExpired(q) PROVE DriverPhases'
    <3>1. /\ UNCHANGED <<driver, pc, attached, physical, outbox>> /\ q \in expiring
          /\ expiring' = expiring \ {q} /\ stopped' = [stopped EXCEPT ![q] = TRUE]
      BY <2>2 DEF CancelExpired, CancelLifecycle
    <3>2. driver[q] # "none" BY <3>1 DEF DriverPhases, DriverPhase
    <3>. QED BY <1>a, <3>1, <3>2, DriverPhasesKept DEF Pooled, TypeOK
  <2>. QED BY <1>6, <2>1, <2>2 DEF IdleNext
<1>. QED BY <1>1, <1>2, <1>3, <1>4, <1>5, <1>6 DEF Next
LEMMA WindowInvKept ==
  ASSUME TypeOK, WindowInv, UNCHANGED window, removing' \subseteq removing,
         \A c \in Commands : /\ pc'[c] = "idle" <=> pc[c] = "idle"
                             /\ pc'[c] = "queued" => pc[c] = "queued"
                             /\ cancelSent[c] => cancelSent'[c]
                             /\ releaseSent[c] => releaseSent'[c],
         \A i \in ConnIds : logical'[i] \in {logical[i], NoCommand}
  PROVE  WindowInv'
<1>1. WindowOrder' BY DEF WindowInv, WindowOrder
<1>2. IssuedFromWindow' BY DEF WindowInv, IssuedFromWindow
<1>3. FiledById' BY DEF WindowInv, FiledById, TypeOK, Entry
<1>4. RemovedForAReason' BY DEF WindowInv, RemovedForAReason, Alive, TypeOK
<1>. QED BY <1>1, <1>2, <1>3, <1>4 DEF WindowInv

LEMMA WindowInvStep ==
  ASSUME FreshIds, IInv, DriverPhases, WindowInv, [Next]_vars
  PROVE  WindowInv'
<1>. USE ConstantsAssumption
<1>a. TypeOK BY DEF IInv
<1>1. CASE UNCHANGED vars
  BY <1>a, <1>1, WindowInvKept DEF vars, poolVars, clientVars
<1>2. CASE WindowNext
  <2>1. ASSUME NEW w \in Windows, OpenWindow(w) PROVE WindowInv'
    <3>1. /\ UNCHANGED <<pc, logical, removing, cancelSent, releaseSent>>
          /\ window[w] = "unborn" /\ window' = [window EXCEPT ![w] = "open"]
          /\ \A v \in Windows \ {w} : LabelOf[v] = LabelOf[w] => window[v] \in {"unborn", "cleaned"}
      BY <2>1 DEF OpenWindow, poolVars, clientVars
    <3>2. WindowOrder' BY <1>a, <3>1 DEF WindowInv, WindowOrder, TypeOK
    <3>3. IssuedFromWindow' /\ FiledById' BY <1>a, <3>1 DEF WindowInv, IssuedFromWindow, FiledById, TypeOK
    <3>4. RemovedForAReason'
      BY <1>a, <3>1 DEF WindowInv, IssuedFromWindow, RemovedForAReason, Alive, TypeOK
    <3>. QED BY <3>2, <3>3, <3>4 DEF WindowInv
  <2>2. ASSUME NEW w \in Windows, DestroyWindow(w) PROVE WindowInv'
    <3>1. /\ UNCHANGED <<pc, logical, removing, cancelSent, releaseSent>>
          /\ window[w] = "open" /\ window' = [window EXCEPT ![w] = "destroyed"]
      BY <2>2 DEF DestroyWindow, poolVars, clientVars
    <3>2. WindowOrder' BY <1>a, <3>1 DEF WindowInv, WindowOrder, TypeOK
    <3>3. IssuedFromWindow' /\ FiledById' BY <1>a, <3>1 DEF WindowInv, IssuedFromWindow, FiledById, TypeOK
    <3>4. RemovedForAReason' BY <1>a, <3>1 DEF WindowInv, RemovedForAReason, Alive, TypeOK
    <3>. QED BY <3>2, <3>3, <3>4 DEF WindowInv
  <2>3. ASSUME NEW w \in Windows, DisconnectWindow(w) PROVE WindowInv'
    <3>1. /\ UNCHANGED <<pc, logical, cancelSent, releaseSent>>
          /\ window[w] = "destroyed" /\ window' = [window EXCEPT ![w] = "cleaned"]
          /\ removing' = removing \cup OwnedBy(LabelOf[w])
      BY <2>3 DEF DisconnectWindow, clientVars
    <3>2. WindowOrder' BY <1>a, <3>1 DEF WindowInv, WindowOrder, TypeOK
    <3>3. IssuedFromWindow' /\ FiledById' BY <1>a, <3>1 DEF WindowInv, IssuedFromWindow, FiledById, TypeOK
    <3>4. ASSUME NEW c \in OwnedBy(LabelOf[w]) PROVE pc[c] # "idle" /\ ~Alive(c)'
      <4>1. c \in Commands /\ logical[ConnOf[c]] = c /\ LabelOf[WindowOf[c]] = LabelOf[w]
        BY DEF OwnedBy, Registered, OwnerLabel
      <4>2. pc[c] # "idle" BY <4>1 DEF WindowInv, FiledById
      <4>3. WindowOf[c] # w => window[WindowOf[c]] \in {"unborn", "cleaned"}
        BY <3>1, <4>1 DEF WindowInv, WindowOrder
      <4>. QED BY <1>a, <3>1, <4>1, <4>2, <4>3 DEF Alive, TypeOK
    <3>5. RemovedForAReason'
      BY <1>a, <3>1, <3>4 DEF WindowInv, RemovedForAReason, Alive, TypeOK
    <3>. QED BY <3>2, <3>3, <3>5 DEF WindowInv
  <2>. QED BY <1>2, <2>1, <2>2, <2>3 DEF WindowNext
<1>3. CASE ClientNext
  <2>1. ASSUME NEW c \in Commands, IssueConnect(c) PROVE WindowInv'
    <3>1. /\ UNCHANGED <<window, logical, removing, cancelSent, releaseSent>>
          /\ pc[c] = "idle" /\ Alive(c) /\ pc' = [pc EXCEPT ![c] = "queued"]
      BY <2>1 DEF IssueConnect, poolVars, clientVars
    <3>2. WindowOrder' BY <3>1 DEF WindowInv, WindowOrder
    <3>3. IssuedFromWindow' BY <1>a, <3>1 DEF WindowInv, IssuedFromWindow, Alive, TypeOK
    <3>4. FiledById' BY <1>a, <3>1 DEF WindowInv, FiledById, TypeOK, Entry
    <3>5. RemovedForAReason' BY <1>a, <3>1 DEF WindowInv, RemovedForAReason, Alive, TypeOK
    <3>. QED BY <3>2, <3>3, <3>4, <3>5 DEF WindowInv
  <2>2. ASSUME NEW c \in Commands, CancelConnect(c) \/ Release(c) PROVE WindowInv'
    <3>1. /\ UNCHANGED <<window, logical, pc>> /\ pc[c] # "idle"
          /\ \/ removing' = removing
             \/ logical[ConnOf[c]] # NoCommand /\ removing' = removing \cup {logical[ConnOf[c]]}
          /\ \/ cancelSent' = [cancelSent EXCEPT ![c] = TRUE] /\ releaseSent' = releaseSent
             \/ releaseSent' = [releaseSent EXCEPT ![c] = TRUE] /\ cancelSent' = cancelSent
      BY <2>2 DEF CancelConnect, Release
    <3>2. WindowOrder' /\ IssuedFromWindow' /\ FiledById'
      BY <3>1 DEF WindowInv, WindowOrder, IssuedFromWindow, FiledById
    <3>3. logical[ConnOf[c]] # NoCommand => logical[ConnOf[c]] = c
      BY <1>a DEF WindowInv, FiledById, FreshIds, TypeOK, Entry
    <3>4. \A d \in removing' : d \in removing \/ d = c BY <3>1, <3>3
    <3>5. (cancelSent'[c] \/ releaseSent'[c]) /\ \A d \in Commands : (cancelSent[d] => cancelSent'[d]) /\ (releaseSent[d] => releaseSent'[d])
      BY <1>a, <3>1 DEF TypeOK
    <3>6. \A d \in removing : d \in Commands BY <1>a DEF TypeOK
    <3>7. RemovedForAReason'
      BY <3>1, <3>4, <3>5, <3>6 DEF WindowInv, RemovedForAReason, Alive
    <3>. QED BY <3>2, <3>7 DEF WindowInv
  <2>3. ASSUME NEW c \in Commands, SendFails(c) PROVE WindowInv'
    BY <1>a, <2>3, WindowInvKept DEF SendFails
  <2>. QED BY <1>3, <2>1, <2>2, <2>3 DEF ClientNext
<1>4. CASE CommandNext
  <2>1. ASSUME NEW c \in Commands, Reserve(c) PROVE WindowInv'
    <3>1. /\ UNCHANGED <<window, removing, cancelSent, releaseSent>> /\ pc[c] = "queued"
          /\ \/ logical' = logical /\ pc' = [pc EXCEPT ![c] = "failed"]
             \/ logical' = [logical EXCEPT ![ConnOf[c]] = c] /\ pc' = [pc EXCEPT ![c] = "reserved"]
      BY <2>1 DEF Reserve, clientVars
    <3>2. WindowOrder' BY <3>1 DEF WindowInv, WindowOrder
    <3>3. IssuedFromWindow' BY <1>a, <3>1 DEF WindowInv, IssuedFromWindow, TypeOK
    <3>4. FiledById' BY <1>a, <3>1 DEF WindowInv, FiledById, TypeOK, Entry
    <3>5. RemovedForAReason' BY <1>a, <3>1 DEF WindowInv, RemovedForAReason, Alive, TypeOK
    <3>. QED BY <3>2, <3>3, <3>4, <3>5 DEF WindowInv
  <2>2. ASSUME NEW c \in Commands, NEW next \in CommandSteps \ {"idle", "queued"},
               UNCHANGED <<window, logical, removing, cancelSent, releaseSent>>,
               pc[c] # "idle", pc' = [pc EXCEPT ![c] = next]
        PROVE  WindowInv'
    BY <1>a, <2>2, WindowInvKept DEF TypeOK
  <2>3. ASSUME NEW c \in Commands,
               \/ CheckReservation(c) \/ Resolve(c) \/ AttachRefused(c) \/ WaitUntilConnected(c) \/ Commit(c)
               \/ AttachExisting(c) \/ AttachNew(c) \/ Replay(c)
        PROVE  WindowInv'
    <3>1. /\ UNCHANGED <<window, logical, removing, cancelSent, releaseSent>> /\ pc[c] # "idle"
          /\ \E next \in CommandSteps \ {"idle", "queued"} : pc' = [pc EXCEPT ![c] = next]
      BY <2>3 DEF CheckReservation, Resolve, AttachRefused, WaitUntilConnected, Commit, GoTo, AttachExisting,
         AttachNew, Replay, CommandSteps, poolVars, clientVars
    <3>. QED BY <2>2, <3>1
  <2>4. ASSUME NEW c \in Commands, DropReservation(c) \/ FinishRemoval(c) PROVE WindowInv'
    <3>1. /\ UNCHANGED <<window, cancelSent, releaseSent>> /\ RemoveLogical(c) /\ removing' \subseteq removing
          /\ pc' = pc \/ (pc[c] = "dropping" /\ pc' = [pc EXCEPT ![c] = "failed"])
      BY <2>4 DEF DropReservation, FinishRemoval, clientVars
    <3>2. \A i \in ConnIds : logical'[i] \in {logical[i], NoCommand} BY <1>a, <3>1, RemovalFrame
    <3>. QED BY <1>a, <3>1, <3>2, WindowInvKept DEF TypeOK
  <2>. QED BY <1>4, <2>1, <2>3, <2>4 DEF CommandNext
<1>5. CASE DriverNext
  <2>1. ASSUME NEW p \in Commands,
               \/ BeginStart(p) \/ Progress(p) \/ ConnectFails(p) \/ MarkConnected(p)
               \/ ProtocolMessage(p) \/ InitializeFails(p)
        PROVE  WindowInv'
    <3>1. UNCHANGED <<window, logical, pc, removing, cancelSent, releaseSent>>
      BY <2>1 DEF BeginStart, Progress, ConnectFails, MarkConnected, ProtocolMessage, InitializeFails, DriverGoesTo,
         poolVars, clientVars
    <3>. QED BY <1>a, <3>1, WindowInvKept
  <2>2. ASSUME NEW p \in Commands, Activate(p) \/ FailStart(p) \/ Terminate(p) PROVE WindowInv'
    <3>1. /\ UNCHANGED <<window, removing, cancelSent, releaseSent>>
          /\ \/ pc' = pc
             \/ driver[p] \in {"activating", "error"}
                /\ pc' \in {[pc EXCEPT ![p] = "waiting"], [pc EXCEPT ![p] = "dropping"]}
          /\ logical' = logical \/ (Pooled(p) /\ ClosePhysical(p))
      BY <2>2 DEF Activate, FailStart, Terminate, StartFailureApplies, TerminalApplies, poolVars, clientVars
    <3>2. driver[p] \in {"activating", "error"} => pc[p] = "starting" BY DEF DriverPhases, DriverPhase
    <3>3. \A i \in ConnIds : logical'[i] \in {logical[i], NoCommand} BY <1>a, <3>1, ClosureFrame
    <3>. QED BY <1>a, <3>1, <3>2, <3>3, WindowInvKept DEF TypeOK
  <2>3. ASSUME NEW p \in Commands, DeliverEvents(p) PROVE WindowInv'
    <3>1. /\ UNCHANGED <<window, logical, pc, cancelSent, releaseSent>>
          /\ \A c \in removing' : c \in removing
               \/ \E d \in Commands : ~Alive(d) /\ logical[ConnOf[d]] # NoCommand /\ c = logical[ConnOf[d]]
      BY <1>a, <2>3 DEF DeliverEvents, poolVars, TypeOK
    <3>2. \A d \in Commands : logical[ConnOf[d]] # NoCommand => logical[ConnOf[d]] = d /\ pc[d] # "idle"
      BY <1>a DEF WindowInv, FiledById, FreshIds, TypeOK, Entry
    <3>3. WindowOrder' /\ IssuedFromWindow' /\ FiledById'
      BY <3>1 DEF WindowInv, WindowOrder, IssuedFromWindow, FiledById
    <3>4. RemovedForAReason' BY <3>1, <3>2 DEF WindowInv, RemovedForAReason, Alive
    <3>. QED BY <3>3, <3>4 DEF WindowInv
  <2>. QED BY <1>5, <2>1, <2>2, <2>3 DEF DriverNext
<1>6. CASE IdleNext
  <2>1. UNCHANGED <<window, logical, pc, removing, cancelSent, releaseSent>>
    BY <1>6 DEF IdleNext, ExpireIdle, CancelExpired, clientVars
  <2>. QED BY <1>a, <2>1, WindowInvKept
<1>. QED BY <1>1, <1>2, <1>3, <1>4, <1>5, <1>6 DEF Next

LEMMA StartInvKept ==
  ASSUME IInv, DriverPhases, Established, StoppedByRefusal, UNCHANGED turnedAway,
         \A c \in Commands :
           /\ attached'[c] = attached[c] \/ pc[c] = "attaching"
           /\ pc'[c] \in {"checked", "committed"}
                => /\ pc[c] \in {"checked", "committed"} \/ start[attached[c]] \in {"connected", "failed"}
                   /\ pc[c] \in AfterAttach
           /\ pc[c] = "committed" => pc'[c] = "committed",
         \A p \in Commands :
           /\ driver[p] # "none" => start'[p] = start[p] \/ start'[p] = "failed"
           /\ Pooled(p)' =>
                /\ driver'[p] \in {"begin", "connecting", "activating"} /\ stopped'[p]
                     => Pooled(p) /\ stopped[p] /\ driver[p] \in {"begin", "connecting", "activating"}
                /\ driver'[p] = "error" /\ start'[p] = "connected"
                     => Pooled(p) /\ start[p] = "connected"
                        /\ (driver[p] = "error" \/ (driver[p] = "activating" /\ stopped[p]))
  PROVE  Established' /\ StoppedByRefusal'
<1>1. \A c \in Commands : pc[c] \in AfterAttach => attached[c] \in Commands /\ driver[attached[c]] # "none"
  BY DEF IInv, TypeOK, AttachPhases, DriverPhases, DriverPhase, Entry
<1>2. Established'
  BY <1>1 DEF Established, AfterAttach
<1>3. \A d \in turnedAway : d \in Commands /\ pc[d] = "committed" /\ attached'[d] = attached[d]
  BY DEF StoppedByRefusal, IInv, TypeOK
<1>4. \A p : Refused(p) => Refused(p)'
  BY <1>3 DEF Refused
<1>5. StoppedByRefusal'
  BY <1>3, <1>4 DEF StoppedByRefusal
<1>. QED BY <1>2, <1>5

LEMMA StartInvStep ==
  ASSUME IInv, DriverPhases, Established, StoppedByRefusal, [Next]_vars
  PROVE  Established' /\ StoppedByRefusal'
<1>. USE ConstantsAssumption
<1>a. TypeOK /\ EntryHasTransport /\ \A p \in Commands : Pooled(p) => driver[p] # "none"
  BY DEF IInv, PoolInv, EntryHasTransport
<1>b. \A c \in Commands : pc[c] \in AfterAttach => attached[c] \in Commands /\ driver[attached[c]] # "none"
  BY DEF IInv, TypeOK, AttachPhases, DriverPhases, DriverPhase, Entry
<1>. DEFINE Goal == Established' /\ StoppedByRefusal'
<1>1. ASSUME UNCHANGED <<turnedAway, attached, start, driver, physical, stopped>>,
             \A c \in Commands :
               pc'[c] = pc[c] \/ (pc'[c] \notin {"checked", "committed"} /\ pc[c] # "committed")
      PROVE  Goal
  BY <1>1, StartInvKept DEF Pooled, AfterAttach
<1>2. CASE UNCHANGED vars
  BY <1>1, <1>2 DEF vars, poolVars, clientVars
<1>3. CASE WindowNext
  BY <1>1, <1>3 DEF WindowNext, OpenWindow, DestroyWindow, DisconnectWindow, poolVars, clientVars
<1>4. CASE ClientNext
  <2>1. ASSUME NEW c \in Commands, IssueConnect(c) \/ CancelConnect(c) \/ Release(c) PROVE Goal
    <3>1. /\ UNCHANGED <<turnedAway, attached, start, driver, physical, stopped>>
          /\ pc' = pc \/ (pc[c] = "idle" /\ pc' = [pc EXCEPT ![c] = "queued"])
      BY <2>1 DEF IssueConnect, CancelConnect, Release, poolVars, clientVars
    <3>. QED BY <1>1, <1>a, <3>1 DEF TypeOK
  <2>2. ASSUME NEW c \in Commands, SendFails(c) PROVE Goal
    <3>1. /\ UNCHANGED <<pc, attached, start, driver, physical>>
          /\ pc[c] = "committed" /\ stopped' = [stopped EXCEPT ![attached[c]] = TRUE]
          /\ \/ driver[attached[c]] = "running" /\ turnedAway' = turnedAway
             \/ KeyOf[attached[c]] \notin LocalKeys /\ turnedAway' = turnedAway \cup {c}
      BY <2>2 DEF SendFails, CancelLifecycle
    <3>2. Established' BY <3>1 DEF Established
    <3>3. \A p : Refused(p) => Refused(p)' BY <3>1 DEF Refused
    <3>4. \A p \in Commands : stopped'[p] => stopped[p] \/ driver[p] = "running" \/ Refused(p)'
      BY <1>a, <3>1 DEF Refused, TypeOK
    <3>5. StoppedByRefusal' BY <3>1, <3>3, <3>4 DEF StoppedByRefusal, Pooled
    <3>. QED BY <3>2, <3>5
  <2>. QED BY <1>4, <2>1, <2>2 DEF ClientNext
<1>5. CASE CommandNext
  <2>1. ASSUME NEW c \in Commands,
               Reserve(c) \/ CheckReservation(c) \/ Resolve(c) \/ AttachRefused(c) \/ Replay(c)
        PROVE  Goal
    <3>1. /\ UNCHANGED <<turnedAway, attached, start, driver, physical, stopped>> /\ pc[c] # "committed"
          /\ \E next \in CommandSteps \ {"checked", "committed"} : pc' = [pc EXCEPT ![c] = next]
      BY <2>1 DEF Reserve, CheckReservation, Resolve, AttachRefused, Replay, GoTo, CommandSteps, poolVars,
         clientVars
    <3>. QED BY <1>1, <1>a, <3>1 DEF TypeOK
  <2>2. ASSUME NEW c \in Commands, WaitUntilConnected(c) \/ Commit(c) PROVE Goal
    <3>1. /\ UNCHANGED <<turnedAway, attached, start, driver, physical, stopped>> /\ pc[c] \in {"waiting", "checked"}
          /\ \E next \in CommandSteps :
               /\ pc' = [pc EXCEPT ![c] = next]
               /\ next \in {"checked", "committed"} => pc[c] = "checked" \/ start[attached[c]] = "connected"
      BY <2>2 DEF WaitUntilConnected, Commit, GoTo, CommandSteps, poolVars, clientVars
    <3>. QED BY <1>a, <3>1, StartInvKept DEF TypeOK, Pooled, AfterAttach
  <2>3. ASSUME NEW c \in Commands, AttachExisting(c) PROVE Goal
    <3>1. /\ UNCHANGED <<turnedAway, start, driver, physical, stopped>>
          /\ pc[c] = "attaching" /\ pc' = [pc EXCEPT ![c] = "replaying"]
          /\ \E q : attached' = [attached EXCEPT ![c] = q]
      BY <2>3 DEF AttachExisting, clientVars
    <3>. QED BY <1>a, <3>1, StartInvKept DEF TypeOK, Pooled, AfterAttach
  <2>4. ASSUME NEW c \in Commands, AttachNew(c) PROVE Goal
    <3>1. /\ UNCHANGED <<turnedAway, stopped>>
          /\ pc[c] = "attaching" /\ pc' = [pc EXCEPT ![c] = "starting"]
          /\ attached' = [attached EXCEPT ![c] = c] /\ driver' = [driver EXCEPT ![c] = "begin"]
          /\ start' = [start EXCEPT ![c] = "connecting"]
          /\ physical[KeyOf[c]] = NoCommand /\ physical' = [physical EXCEPT ![KeyOf[c]] = c]
      BY <2>4 DEF AttachNew, clientVars
    <3>2. driver[c] = "none" BY <3>1 DEF IInv, AttachPhases, BeforeAttach
    <3>3. ~stopped[c] BY <3>2 DEF DriverPhases, DriverPhase
    <3>. QED BY <1>a, <3>1, <3>2, <3>3, StartInvKept DEF TypeOK, Pooled, AfterAttach
  <2>5. ASSUME NEW c \in Commands, DropReservation(c) \/ FinishRemoval(c) PROVE Goal
    <3>1. /\ UNCHANGED <<driver, attached, turnedAway>> /\ RemoveLogical(c)
          /\ pc' = pc \/ (pc[c] = "dropping" /\ pc' = [pc EXCEPT ![c] = "failed"])
      BY <2>5 DEF DropReservation, FinishRemoval, clientVars
    <3>2. \A p \in Commands : /\ start'[p] = start[p] \/ start'[p] = "failed"
                              /\ Pooled(p)' => Pooled(p) /\ stopped'[p] = stopped[p]
      BY <1>a, <3>1, RemovalFrame
    <3>. QED BY <1>a, <3>1, <3>2, StartInvKept DEF TypeOK, AfterAttach
  <2>. QED BY <1>5, <2>1, <2>2, <2>3, <2>4, <2>5 DEF CommandNext
<1>6. CASE DriverNext
  <2>1. ASSUME NEW q \in Commands, Progress(q) \/ ProtocolMessage(q) \/ DeliverEvents(q) PROVE Goal
    BY <1>1, <2>1 DEF Progress, ProtocolMessage, DeliverEvents, poolVars, clientVars
  <2>2. ASSUME NEW q \in Commands, BeginStart(q) \/ ConnectFails(q) PROVE Goal
    <3>1. /\ UNCHANGED <<turnedAway, pc, attached, start, physical, stopped>> /\ driver[q] \in {"begin", "connecting"}
          /\ driver' \in {[driver EXCEPT ![q] = "connecting"], [driver EXCEPT ![q] = "error"]}
      BY <2>2 DEF BeginStart, ConnectFails, DriverGoesTo, poolVars, clientVars
    <3>2. Pooled(q) => start[q] # "connected" BY <1>a, <3>1 DEF EntryHasTransport
    <3>. QED BY <1>a, <3>1, <3>2, StartInvKept DEF TypeOK, Pooled, AfterAttach
  <2>3. ASSUME NEW q \in Commands, MarkConnected(q) PROVE Goal
    <3>1. /\ UNCHANGED <<turnedAway, pc, attached, physical, stopped>> /\ driver[q] = "connecting"
          /\ driver' = [driver EXCEPT ![q] = "activating"]
          /\ start' = start \/ (Pooled(q) /\ start' = [start EXCEPT ![q] = "connected"])
      BY <2>3 DEF MarkConnected, clientVars
    <3>2. Established' BY <1>a, <1>b, <3>1 DEF Established, AfterAttach, TypeOK
    <3>3. \A p : Refused(p)' = Refused(p) BY <3>1 DEF Refused
    <3>4. StoppedByRefusal' BY <1>a, <3>1, <3>3 DEF StoppedByRefusal, Pooled, TypeOK
    <3>. QED BY <3>2, <3>4
  <2>4. ASSUME NEW q \in Commands, Activate(q) PROVE Goal
    <3>1. /\ UNCHANGED <<turnedAway, attached, start, physical, stopped>> /\ driver[q] = "activating"
          /\ \/ driver' = [driver EXCEPT ![q] = "error"] /\ pc' = pc /\ stopped[q]
             \/ driver' = [driver EXCEPT ![q] = "running"] /\ pc' = [pc EXCEPT ![q] = "waiting"]
      BY <2>4 DEF Activate, poolVars, clientVars
    <3>2. pc[q] = "starting" BY <3>1 DEF DriverPhases, DriverPhase
    <3>. QED BY <1>a, <3>1, <3>2, StartInvKept DEF TypeOK, Pooled, AfterAttach
  <2>5. ASSUME NEW q \in Commands, FailStart(q) \/ Terminate(q) PROVE Goal
    <3>1. /\ UNCHANGED <<attached, turnedAway>> /\ driver[q] \in {"error", "running"}
          /\ driver' = [driver EXCEPT ![q] = "done"]
          /\ pc' = pc \/ (driver[q] = "error" /\ pc' = [pc EXCEPT ![q] = "dropping"])
          /\ (Pooled(q) /\ ClosePhysical(q)) \/ UNCHANGED poolVars
      BY <2>5 DEF FailStart, Terminate, StartFailureApplies, TerminalApplies, clientVars
    <3>2. driver[q] = "error" => pc[q] = "starting" BY DEF DriverPhases, DriverPhase
    <3>3. /\ \A p \in Commands : start'[p] = start[p] \/ start'[p] = "failed"
          /\ \A p \in Commands : Pooled(p)' => Pooled(p)
          /\ \A p \in Commands \ {q} : stopped'[p] = stopped[p]
      BY <1>a, <3>1, ClosureFrame DEF poolVars, Pooled
    <3>. QED BY <1>a, <3>1, <3>2, <3>3, StartInvKept DEF TypeOK, AfterAttach
  <2>6. ASSUME NEW q \in Commands, InitializeFails(q) PROVE Goal
    <3>1. /\ UNCHANGED <<turnedAway, pc, attached, start, driver, physical>> /\ driver[q] = "running"
          /\ stopped' = [stopped EXCEPT ![q] = TRUE]
      BY <2>6 DEF InitializeFails, CancelLifecycle, clientVars
    <3>. QED BY <1>a, <3>1, StartInvKept DEF TypeOK, Pooled, AfterAttach
  <2>. QED BY <1>6, <2>1, <2>2, <2>3, <2>4, <2>5, <2>6 DEF DriverNext
<1>7. CASE IdleNext
  <2>1. ASSUME NEW q \in Commands, NEW token \in 1..tokens[q], ExpireIdle(q, token) PROVE Goal
    <3>1. /\ UNCHANGED <<turnedAway, pc, attached, start, driver, stopped>>
          /\ physical' = physical \/ physical' = [physical EXCEPT ![KeyOf[q]] = NoCommand]
      BY <2>1 DEF ExpireIdle, clientVars
    <3>2. \A p \in Commands : Pooled(p)' => Pooled(p) BY <1>a, <3>1 DEF Pooled, TypeOK
    <3>. QED BY <3>1, <3>2, StartInvKept DEF AfterAttach
  <2>2. ASSUME NEW q \in Commands, CancelExpired(q) PROVE Goal
    <3>1. /\ UNCHANGED <<turnedAway, pc, attached, start, driver, physical>> /\ q \in expiring
          /\ stopped' = [stopped EXCEPT ![q] = TRUE]
      BY <2>2 DEF CancelExpired, CancelLifecycle, clientVars
    <3>2. ~Pooled(q) BY <3>1 DEF DriverPhases, DriverPhase
    <3>. QED BY <1>a, <3>1, <3>2, StartInvKept DEF TypeOK, Pooled, AfterAttach
  <2>. QED BY <1>7, <2>1, <2>2 DEF IdleNext
<1>. QED BY <1>2, <1>3, <1>4, <1>5, <1>6, <1>7 DEF Next
LEMMA LossKept ==
  ASSUME NEW c \in Commands, Explained(c), Lost(c)' => Lost(c), attached'[c] = attached[c],
         pc'[c] \in Joining => pc[c] \in Joining,
         pc'[c] \in {"checked", "committed"} =>
           pc[c] \in {"checked", "committed"} \/ (pc[c] \in Joining /\ start[attached[c]] # "failed"),
         start[attached[c]] = "failed" => start'[attached[c]] = "failed",
         Lost(c)' /\ Announced(c) => Announced(c)',
         turnedAway \subseteq turnedAway', \A d \in turnedAway : attached'[d] = attached[d]
  PROVE  Explained(c)'
<1>1. Refused(attached[c]) => Refused(attached[c])' BY DEF Refused
<1>. QED BY <1>1 DEF Explained

\* A step that sends nothing, that only commands and transports notice
LEMMA LossUnnoticed ==
  ASSUME NEW c \in Commands, Explained(c), Lost(c)' => Lost(c),
         UNCHANGED <<attached, outbox>>, told[c] = "closed" => told'[c] = "closed",
         turnedAway \subseteq turnedAway',
         pc'[c] \in Joining => pc[c] \in Joining,
         pc'[c] \in {"checked", "committed"} =>
           pc[c] \in {"checked", "committed"} \/ (pc[c] \in Joining /\ start[attached[c]] # "failed"),
         start[attached[c]] = "failed" => start'[attached[c]] = "failed"
  PROVE  Explained(c)'
<1>1. Announced(c) => Announced(c)' BY DEF Announced
<1>. QED BY <1>1, LossKept

LEMMA LossStep ==
  ASSUME IInv, DriverPhases, WindowInv, Established, StoppedByRefusal, LossExplained, [Next]_vars
  PROVE  LossExplained'
<1>. USE ConstantsAssumption
<1>. SUFFICES ASSUME NEW c \in Commands PROVE Explained(c)'
  BY DEF LossExplained
<1>a. TypeOK /\ Explained(c) BY DEF IInv, LossExplained
<1>b. \A q \in Commands : pc[q] \in {"idle", "attaching", "queued"} => driver[q] = "none" /\ attached[q] = NoCommand
  BY DEF IInv, AttachPhases, BeforeAttach
<1>c. pc[c] \in Joining \cup {"checked", "committed"} => attached[c] \in Commands /\ driver[attached[c]] # "none"
  BY DEF IInv, TypeOK, Entry, AttachPhases, AfterAttach, Joining, DriverPhases, DriverPhase
<1>d. \A d \in turnedAway : d \in Commands /\ pc[d] = "committed" BY <1>a DEF StoppedByRefusal, TypeOK
<1>1. ASSUME UNCHANGED <<window, logical, cancelSent, releaseSent>> PROVE Lost(c)' => Lost(c)
  BY <1>1 DEF Lost, Registered, Alive
<1>2. CASE UNCHANGED vars
  BY <1>a, <1>1, <1>2, LossUnnoticed DEF vars, poolVars, clientVars
<1>3. CASE WindowNext
  <2>1. UNCHANGED <<pc, attached, start, outbox, told, turnedAway, logical, cancelSent, releaseSent>>
    BY <1>3 DEF WindowNext, OpenWindow, DestroyWindow, DisconnectWindow, poolVars, clientVars
  <2>2. \A w \in Windows : window'[w] = "open" => window[w] \in {"open", "unborn"}
    BY <1>3, <1>a DEF WindowNext, OpenWindow, DestroyWindow, DisconnectWindow, TypeOK
  <2>3. pc[c] = "idle" => Explained(c)' BY <2>1 DEF Explained, Joining
  <2>4. pc[c] # "idle" => (Lost(c)' => Lost(c))
    BY <2>1, <2>2 DEF WindowInv, IssuedFromWindow, Lost, Alive, Registered
  <2>. QED BY <1>a, <2>1, <2>3, <2>4, LossUnnoticed
<1>4. CASE ClientNext
  <2>1. ASSUME NEW d \in Commands, CancelConnect(d) \/ Release(d) PROVE Explained(c)'
    <3>1. /\ UNCHANGED <<pc, attached, start, outbox, told, turnedAway, logical, window>>
          /\ \/ cancelSent' = [cancelSent EXCEPT ![d] = TRUE] /\ releaseSent' = releaseSent
             \/ releaseSent' = [releaseSent EXCEPT ![d] = TRUE] /\ cancelSent' = cancelSent
      BY <2>1 DEF CancelConnect, Release
    <3>2. Lost(c)' => Lost(c) BY <1>a, <3>1 DEF Lost, Registered, Alive, TypeOK
    <3>. QED BY <1>a, <3>1, <3>2, LossUnnoticed
  <2>2. ASSUME NEW d \in Commands, IssueConnect(d) \/ SendFails(d) PROVE Explained(c)'
    <3>1. /\ UNCHANGED <<attached, start, outbox, told, logical, window, cancelSent, releaseSent>>
          /\ turnedAway \subseteq turnedAway'
          /\ pc' = pc \/ pc' = [pc EXCEPT ![d] = "queued"]
      BY <2>2 DEF IssueConnect, SendFails, poolVars, clientVars
    <3>. QED BY <1>a, <1>1, <3>1, LossUnnoticed DEF TypeOK, Joining
  <2>. QED BY <1>4, <2>1, <2>2 DEF ClientNext
<1>5. CASE CommandNext
  <2>1. ASSUME NEW d \in Commands,
               CheckReservation(d) \/ Resolve(d) \/ AttachRefused(d) \/ WaitUntilConnected(d) \/ Commit(d)
        PROVE  Explained(c)'
    <3>1. /\ UNCHANGED <<attached, start, outbox, told, turnedAway, logical, window, cancelSent, releaseSent>>
          /\ \E next \in CommandSteps \ Joining :
               /\ pc' = [pc EXCEPT ![d] = next]
               /\ next \in {"checked", "committed"} =>
                    \/ pc[d] \in {"checked", "committed"}
                    \/ pc[d] = "waiting" /\ start[attached[d]] = "connected"
      BY <2>1 DEF CheckReservation, Resolve, AttachRefused, WaitUntilConnected, Commit, GoTo, CommandSteps, Joining,
         poolVars, clientVars
    <3>. QED BY <1>a, <1>1, <3>1, LossUnnoticed DEF TypeOK, Joining
  <2>2. ASSUME NEW d \in Commands, Reserve(d) PROVE Explained(c)'
    <3>1. /\ UNCHANGED <<attached, start, outbox, told, turnedAway, window, cancelSent, releaseSent>>
          /\ pc' \in {[pc EXCEPT ![d] = "failed"], [pc EXCEPT ![d] = "reserved"]}
          /\ \/ logical' = logical
             \/ logical[ConnOf[d]] = NoCommand /\ logical' = [logical EXCEPT ![ConnOf[d]] = d]
      BY <2>2 DEF Reserve, clientVars
    <3>2. Registered(c) => Registered(c)' BY <1>a, <3>1 DEF Registered, TypeOK
    <3>3. Lost(c)' => Lost(c) BY <3>1, <3>2 DEF Lost, Alive
    <3>. QED BY <1>a, <3>1, <3>3, LossUnnoticed DEF TypeOK, Joining
  <2>3. ASSUME NEW d \in Commands, AttachExisting(d) \/ AttachNew(d) PROVE Explained(c)'
    <3>1. /\ UNCHANGED <<told, turnedAway, logical, window, cancelSent, releaseSent>> /\ Registered(d)
          /\ pc[d] = "attaching" /\ pc' \in {[pc EXCEPT ![d] = "replaying"], [pc EXCEPT ![d] = "starting"]}
          /\ \E q : attached' = [attached EXCEPT ![d] = q]
          /\ start' = start \/ start' = [start EXCEPT ![d] = "connecting"]
          /\ outbox' = outbox \/ \E e : outbox' = [outbox EXCEPT ![d] = e]
      BY <2>3 DEF AttachExisting, AttachNew, clientVars
    <3>2. CASE c = d
      <4>1. ~Lost(c)' BY <3>1, <3>2 DEF Lost, Registered
      <4>. QED BY <4>1 DEF Explained
    <3>3. CASE c # d /\ pc[c] \in Joining \cup {"checked", "committed"}
      <4>1. attached[c] # d BY <1>b, <1>c, <3>1, <3>3
      <4>2. /\ attached'[c] = attached[c] /\ pc'[c] = pc[c]
            /\ start'[attached[c]] = start[attached[c]] /\ outbox'[attached[c]] = outbox[attached[c]]
        BY <1>a, <1>c, <3>1, <3>3, <4>1 DEF TypeOK
      <4>3. Announced(c) => Announced(c)' BY <3>1, <4>2 DEF Announced
      <4>4. \A e \in turnedAway : attached'[e] = attached[e] BY <1>a, <1>d, <3>1 DEF TypeOK
      <4>. QED BY <1>a, <1>1, <3>1, <4>2, <4>3, <4>4, LossKept
    <3>4. CASE c # d /\ pc[c] \notin Joining \cup {"checked", "committed"}
      BY <1>a, <3>1, <3>4 DEF Explained, TypeOK
    <3>. QED BY <3>2, <3>3, <3>4
  <2>4. ASSUME NEW d \in Commands, Replay(d) PROVE Explained(c)'
    <3>1. /\ UNCHANGED <<attached, start, turnedAway, logical, window, cancelSent, releaseSent>>
          /\ pc[d] = "replaying" /\ pc' \in {[pc EXCEPT ![d] = "dropping"], [pc EXCEPT ![d] = "waiting"]}
          /\ told' = told \/ told' = [told EXCEPT ![d] = Tell(outbox[d].event, told[d])]
          /\ outbox' = [outbox EXCEPT ![d] = NoEvent]
      BY <2>4 DEF Replay, poolVars
    <3>2. driver[d] = "none" BY <3>1 DEF DriverPhases, DriverPhase
    <3>3. CASE pc[c] \in Joining \cup {"checked", "committed"}
      <4>1. attached[c] # d BY <1>c, <3>2, <3>3
      <4>2. outbox'[attached[c]] = outbox[attached[c]] BY <1>a, <1>c, <3>1, <3>3, <4>1 DEF TypeOK
      <4>3. told[c] = "closed" => told'[c] = "closed" BY <1>a, <3>1 DEF Tell, TypeOK
      <4>4. Announced(c) => Announced(c)' BY <3>1, <4>2, <4>3 DEF Announced
      <4>. QED BY <1>a, <1>1, <3>1, <4>4, LossKept DEF TypeOK, Joining
    <3>4. CASE pc[c] \notin Joining \cup {"checked", "committed"}
      BY <1>a, <3>1, <3>4 DEF Explained, TypeOK, Joining
    <3>. QED BY <3>3, <3>4
  <2>5. ASSUME NEW d \in Commands, DropReservation(d) \/ FinishRemoval(d) PROVE Explained(c)'
    <3>1. /\ UNCHANGED <<attached, outbox, told, turnedAway, window, cancelSent, releaseSent>> /\ RemoveLogical(d)
          /\ \/ pc[d] = "dropping" /\ pc' = [pc EXCEPT ![d] = "failed"]
             \/ d \in removing /\ pc' = pc
      BY <2>5 DEF DropReservation, FinishRemoval, clientVars
    <3>2. CASE pc[c] \in Joining \cup {"checked", "committed"}
      <4>1. start[attached[c]] = "failed" => start'[attached[c]] = "failed" BY <1>a, <1>c, <3>1, <3>2, RemovalFrame
      <4>2. Lost(c)' => Lost(c)
        <5>1. CASE c = d
          <6>1. d \in removing BY <3>1, <3>2, <5>1 DEF Joining
          <6>. QED BY <3>1, <5>1, <6>1 DEF WindowInv, RemovedForAReason, Lost, Alive
        <5>2. CASE c # d
          <6>1. Registered(c)' <=> Registered(c) BY <1>a, <3>1, <5>2, RemovalFrame
          <6>. QED BY <3>1, <6>1 DEF Lost, Alive
        <5>. QED BY <5>1, <5>2
      <4>. QED BY <1>a, <3>1, <4>1, <4>2, LossUnnoticed DEF TypeOK, Joining
    <3>3. CASE pc[c] \notin Joining \cup {"checked", "committed"}
      BY <1>a, <3>1, <3>3 DEF Explained, TypeOK, Joining
    <3>. QED BY <3>2, <3>3
  <2>. QED BY <1>5, <2>1, <2>2, <2>3, <2>4, <2>5 DEF CommandNext
<1>6. CASE DriverNext
  <2>1. ASSUME NEW q \in Commands, BeginStart(q) \/ ConnectFails(q) \/ InitializeFails(q) PROVE Explained(c)'
    BY <1>a, <1>1, <2>1, LossUnnoticed DEF BeginStart, ConnectFails, InitializeFails, DriverGoesTo, poolVars,
       clientVars
  <2>2. ASSUME NEW q \in Commands, Progress(q) \/ ProtocolMessage(q) \/ MarkConnected(q) PROVE Explained(c)'
    <3>1. /\ UNCHANGED <<pc, attached, told, turnedAway, logical, window, cancelSent, releaseSent>>
          /\ driver[q] \in {"connecting", "running"}
          /\ start' = start \/ (Pooled(q) /\ start' = [start EXCEPT ![q] = "connected"])
          /\ outbox' = outbox \/ \E e : outbox' = [outbox EXCEPT ![q] = e]
      BY <2>2 DEF Progress, ProtocolMessage, MarkConnected, poolVars, clientVars
    <3>2. CASE pc[c] \in Joining \cup {"checked", "committed"}
      <4>1. start[attached[c]] = "failed" => start'[attached[c]] = "failed"
        BY <1>a, <1>c, <3>1, <3>2 DEF IInv, PoolInv, EntryHasTransport, TypeOK
      <4>2. outbox[attached[c]].event = "terminal" => attached[c] # q
        BY <1>c, <3>1, <3>2 DEF DriverPhases, DriverPhase
      <4>3. Announced(c) => Announced(c)' BY <1>a, <1>c, <3>1, <3>2, <4>2 DEF Announced, TypeOK
      <4>. QED BY <1>a, <1>1, <3>1, <4>1, <4>3, LossKept
    <3>3. CASE pc[c] \notin Joining \cup {"checked", "committed"}
      BY <3>1, <3>3 DEF Explained
    <3>. QED BY <3>2, <3>3
  <2>3. ASSUME NEW q \in Commands, Activate(q) PROVE Explained(c)'
    <3>1. /\ UNCHANGED <<attached, outbox, told, start, turnedAway, logical, window, cancelSent, releaseSent>>
          /\ driver[q] = "activating"
          /\ (pc' = pc \/ pc' = [pc EXCEPT ![q] = "waiting"])
      BY <2>3 DEF Activate, poolVars, clientVars
    <3>2. pc[q] = "starting" BY <3>1 DEF DriverPhases, DriverPhase
    <3>. QED BY <1>a, <1>1, <3>1, <3>2, LossUnnoticed DEF TypeOK, Joining
  <2>4. ASSUME NEW q \in Commands, FailStart(q) \/ Terminate(q), ~UNCHANGED poolVars PROVE Explained(c)'
    <3>1. /\ UNCHANGED <<attached, told, turnedAway, window, cancelSent, releaseSent>>
          /\ Pooled(q) /\ ClosePhysical(q)
          /\ \/ /\ driver[q] = "error" /\ outbox' = outbox /\ pc' = [pc EXCEPT ![q] = "dropping"]
             \/ /\ driver[q] = "running" /\ pc' = pc
                /\ outbox' = [outbox EXCEPT ![q] = [event |-> "terminal", to |-> subscribers[q]]]
      BY <2>4 DEF FailStart, Terminate, StartFailureApplies, TerminalApplies, TerminalTargets, clientVars
    <3>2. CASE pc'[c] \in Joining \cup {"checked", "committed"} /\ Registered(c) /\ attached[c] = q
      <4>0. pc'[c] = pc[c] BY <1>a, <3>1, <3>2 DEF TypeOK, Joining
      <4>1. start'[q] = "failed" BY <1>a, <3>1, ClosureFrame
      <4>2. ASSUME pc[c] \in {"checked", "committed"} PROVE Announced(c)' \/ Refused(q)'
        <5>1. CASE driver[q] = "error"
          <6>1. start[q] = "connected"
            BY <3>1, <3>2, <4>2 DEF Established, IInv, PoolInv, EntryHasTransport
          <6>2. Refused(q) BY <3>1, <5>1, <6>1 DEF StoppedByRefusal
          <6>. QED BY <3>1, <6>2 DEF Refused
        <5>2. CASE driver[q] = "running"
          <6>1. c \in subscribers[q] BY <3>1, <3>2 DEF IInv, PoolInv, TablesAgree, AttachedTo
          <6>2. outbox'[q] = [event |-> "terminal", to |-> subscribers[q]]
            BY <1>a, <3>1, <5>2 DEF TypeOK
          <6>3. outbox'[q].event = "terminal" /\ c \in outbox'[q].to BY <6>1, <6>2
          <6>. QED BY <3>1, <3>2, <6>3 DEF Announced
        <5>. QED BY <3>1, <5>1, <5>2
      <4>. QED BY <3>1, <3>2, <4>0, <4>1, <4>2 DEF Explained, Joining
    <3>3. CASE pc'[c] \in Joining \cup {"checked", "committed"} /\ ~(Registered(c) /\ attached[c] = q)
      <4>0. pc'[c] = pc[c] BY <1>a, <3>1, <3>3 DEF TypeOK, Joining
      <4>1. Registered(c)' <=> Registered(c) BY <1>a, <3>1, <3>3, ClosureFrame
      <4>2. Lost(c)' => Lost(c) BY <3>1, <4>1 DEF Lost, Alive
      <4>3. start[attached[c]] = "failed" => start'[attached[c]] = "failed"
        BY <1>a, <1>c, <3>1, <3>3, <4>0, ClosureFrame
      <4>4. outbox[attached[c]].event = "terminal" => attached[c] # q
        BY <1>c, <3>1, <3>3, <4>0 DEF DriverPhases, DriverPhase
      <4>5. Announced(c) => Announced(c)' BY <1>a, <1>c, <3>1, <3>3, <4>0, <4>4 DEF Announced, TypeOK
      <4>. QED BY <1>a, <3>1, <4>0, <4>2, <4>3, <4>5, LossKept
    <3>4. CASE pc'[c] \notin Joining \cup {"checked", "committed"}
      BY <3>4 DEF Explained
    <3>. QED BY <3>2, <3>3, <3>4
  <2>5. ASSUME NEW q \in Commands, FailStart(q) \/ Terminate(q), UNCHANGED poolVars PROVE Explained(c)'
    <3>1. /\ UNCHANGED <<attached, told, turnedAway, window, cancelSent, releaseSent, start, logical>>
          /\ pc' = pc \/ pc' = [pc EXCEPT ![q] = "dropping"]
          /\ outbox' = outbox \/ (Pooled(q) /\ ClosePhysical(q))
      BY <2>5 DEF FailStart, Terminate, TerminalApplies, clientVars, poolVars
    <3>2. outbox' = outbox
      BY <1>a, <2>5, <3>1, ClosureFrame DEF poolVars, Pooled
    <3>. QED BY <1>a, <1>1, <3>1, <3>2, LossUnnoticed DEF TypeOK, Joining
  <2>6. ASSUME NEW q \in Commands, DeliverEvents(q) PROVE Explained(c)'
    <3>1. /\ UNCHANGED <<pc, attached, start, turnedAway, logical, window, cancelSent, releaseSent>>
          /\ outbox' = [outbox EXCEPT ![q] = NoEvent]
          /\ told'[c] = IF c \in outbox[q].to /\ Alive(c) THEN Tell(outbox[q].event, told[c]) ELSE told[c]
      BY <2>6 DEF DeliverEvents, poolVars
    <3>2. told[c] = "closed" => told'[c] = "closed" BY <3>1 DEF Tell
    <3>3. ASSUME Lost(c)', Announced(c), pc[c] \in Joining \cup {"checked", "committed"} PROVE Announced(c)'
      <4>1. Alive(c) BY <3>1, <3>3 DEF Lost, Alive
      <4>2. CASE attached[c] = q /\ outbox[q].event = "terminal" /\ c \in outbox[q].to
        <5>1. told'[c] = "closed" BY <3>1, <4>1, <4>2 DEF Tell
        <5>. QED BY <5>1 DEF Announced
      <4>3. CASE told[c] = "closed" BY <3>2, <4>3 DEF Announced
      <4>4. CASE attached[c] # q
        BY <1>a, <1>c, <3>1, <3>2, <3>3, <4>4 DEF Announced, TypeOK
      <4>. QED BY <3>3, <4>2, <4>3, <4>4 DEF Announced
    <3>4. CASE pc[c] \in Joining \cup {"checked", "committed"}
      BY <1>a, <1>1, <3>1, <3>3, <3>4, LossKept
    <3>5. CASE pc[c] \notin Joining \cup {"checked", "committed"}
      BY <3>1, <3>5 DEF Explained
    <3>. QED BY <3>4, <3>5
  <2>. QED BY <1>6, <2>1, <2>2, <2>3, <2>4, <2>5, <2>6 DEF DriverNext
<1>7. CASE IdleNext
  <2>1. UNCHANGED <<pc, attached, start, outbox, told, turnedAway, logical, window, cancelSent, releaseSent>>
    BY <1>7 DEF IdleNext, ExpireIdle, CancelExpired, clientVars
  <2>. QED BY <1>a, <1>1, <2>1, LossUnnoticed
<1>. QED BY <1>2, <1>3, <1>4, <1>5, <1>6, <1>7 DEF Next

\* Why a connection is lost: whatever windows, commands, transports and timers do, a
\* connection that goes away without its client or its window is closed by its own
\* transport, and its command or its channel gets to know unless a message was refused.
THEOREM LossesAreExplained ==
  ASSUME FreshIds
  PROVE  Spec => [](DriverPhases /\ WindowInv /\ Established /\ StoppedByRefusal /\ LossExplained)
<1>. USE ConstantsAssumption
<1>. DEFINE LInv == DriverPhases /\ WindowInv /\ Established /\ StoppedByRefusal /\ LossExplained
<1>1. Init => LInv
  <2>. SUFFICES ASSUME Init PROVE LInv OBVIOUS
  <2>1. DriverPhases BY DEF Init, DriverPhases, DriverPhase, NoEvent
  <2>2. WindowOrder BY DEF Init, WindowOrder
  <2>3. IssuedFromWindow /\ FiledById /\ RemovedForAReason
    BY DEF Init, IssuedFromWindow, FiledById, RemovedForAReason
  <2>4. Established /\ LossExplained BY DEF Init, Established, LossExplained, Explained, Joining
  <2>5. StoppedByRefusal BY DEF Init, StoppedByRefusal, Pooled
  <2>. QED BY <2>1, <2>2, <2>3, <2>4, <2>5 DEF WindowInv
<1>2. IInv /\ LInv /\ [Next]_vars => LInv'
  BY DriverPhasesStep, WindowInvStep, StartInvStep, LossStep
<1>. QED BY <1>1, <1>2, Invariance, PTL DEF Spec

\* A connection in use of a local process leaves the pool with the terminal status
\* sent to it, or because its client or its window went, for any number of windows,
\* commands and processes whose clients choose fresh identifiers.  (Over a remote
\* transport this fails: see Refused.)
THEOREM LocalLossesAreAnnounced ==
  ASSUME FreshIds, \A c \in Commands : KeyOf[c] \in LocalKeys
  PROVE  Spec => []LossIsAnnounced
<1>1. IInv /\ StoppedByRefusal /\ LossExplained => LossIsAnnounced
  <2>. SUFFICES ASSUME IInv, StoppedByRefusal, LossExplained, NEW c \in Commands,
                       pc[c] = "committed", Lost(c)
       PROVE  Announced(c)
    BY DEF LossIsAnnounced, Lost, Announced
  <2>1. ASSUME NEW p, Refused(p) PROVE FALSE
    <3>1. PICK d \in turnedAway : attached[d] = p BY <2>1 DEF Refused
    <3>2. d \in Commands /\ pc[d] = "committed" /\ KeyOf[attached[d]] \notin LocalKeys
      BY DEF StoppedByRefusal, IInv, TypeOK
    <3>3. attached[d] \in Commands
      BY <3>2 DEF IInv, TypeOK, Entry, AttachPhases, AfterAttach
    <3>. QED BY <3>2, <3>3
  <2>. QED BY <2>1 DEF LossExplained, Explained
<1>. QED BY <1>1, Invariance, LossesAreExplained, PTL
-----------------------------------------------------------------------------
(* Commands cancelled before they reserved                                 *)

\* Fewer clients give up than records fit into the queue and into the share of a window.
RecordsFit ==
  /\ IsFiniteSet(Impatient)
  /\ Cardinality(Impatient) <= MaxPreCancelledPerWindow
  /\ Cardinality(Impatient) <= MaxPreCancelled

\* The record the cancellation of c leaves
RecordOf(c) == <<OwnerLabel(c), ConnOf[c]>>

Recorded(c) == \E n \in DOMAIN preCancelled : preCancelled[n] = RecordOf(c)

\* Every record stems from the cancellation of one command, which left no other.
RecordsStem ==
  /\ preCancelled \in Seq(Labels \X ConnIds)
  /\ \A n \in DOMAIN preCancelled :
       \E c \in Commands \cap Impatient : cancelSent[c] /\ preCancelled[n] = RecordOf(c)
  /\ \A m, n \in DOMAIN preCancelled : preCancelled[m] = preCancelled[n] => m = n

WindowCleaned(c) == window[WindowOf[c]] = "cleaned"

\* A command that was cancelled in advance finds its record, or finds its window gone.
OwedIsMet(c) ==
  /\ pc[c] \in {"queued", "reserved", "dropping", "failed"}
  /\ pc[c] = "queued" => Recorded(c) \/ WindowCleaned(c)
  /\ pc[c] = "reserved" => WindowCleaned(c)

AdvanceInv == RecordsStem /\ \A c \in owed : OwedIsMet(c)

\* A cancellation that is still to come finds room: the records stem from others.
LEMMA RoomForRecord ==
  ASSUME RecordsFit, RecordsStem, NEW c \in Commands \cap Impatient, ~cancelSent[c]
  PROVE  Len(preCancelled) < MaxPreCancelledPerWindow /\ Len(preCancelled) < MaxPreCancelled
<1>. USE ConstantsAssumption
<1>. DEFINE others == Impatient \ {c}
            size == Len(preCancelled)
            stem == [n \in 1..size |-> CHOOSE d \in others : preCancelled[n] = RecordOf(d)]
<1>1. size \in Nat /\ DOMAIN preCancelled = 1..size BY DEF RecordsStem
<1>2. ASSUME NEW n \in 1..size PROVE stem[n] \in others /\ preCancelled[n] = RecordOf(stem[n])
  <2>1. \E d \in others : preCancelled[n] = RecordOf(d) BY <1>1 DEF RecordsStem
  <2>. QED BY <2>1
<1>3. stem \in Injection(1..size, others)
  <2>1. \A m, n \in 1..size : stem[m] = stem[n] => m = n BY <1>1, <1>2 DEF RecordsStem
  <2>2. stem \in [1..size -> others] BY <1>2
  <2>. HIDE DEF stem
  <2>. QED BY <2>1, <2>2 DEF Injection, IsInjective
<1>4. IsFiniteSet(others) /\ Cardinality(others) = Cardinality(Impatient) - 1
  BY FS_RemoveElement DEF RecordsFit
<1>5. Cardinality(1..size) = size BY <1>1, FS_Interval
<1>6. size <= Cardinality(others) BY <1>3, <1>4, <1>5, FS_Injection DEF ExistsInjection
<1>7. Cardinality(Impatient) \in Nat BY FS_CardinalityType DEF RecordsFit
<1>. QED BY <1>1, <1>4, <1>6, <1>7 DEF RecordsFit

LEMMA AdvanceKept ==
  ASSUME TypeOK, AdvanceInv, UNCHANGED <<preCancelled, owed>>,
         \A c \in Commands : cancelSent[c] => cancelSent'[c],
         \A w \in Windows : window[w] = "cleaned" => window'[w] = "cleaned",
         \A c \in owed : pc'[c] = pc[c] \/ pc'[c] \in {"dropping", "failed"}
  PROVE  AdvanceInv'
<1>. USE ConstantsAssumption
<1>1. RecordsStem' BY DEF AdvanceInv, RecordsStem, RecordOf, OwnerLabel
<1>2. ASSUME NEW c \in owed PROVE OwedIsMet(c)'
  <2>1. c \in Commands /\ OwedIsMet(c) BY DEF AdvanceInv, TypeOK
  <2>. QED BY <2>1 DEF OwedIsMet, Recorded, RecordOf, OwnerLabel, WindowCleaned
<1>. QED BY <1>1, <1>2 DEF AdvanceInv
\* Taking one element out leaves the others in their order.
LEMMA WithoutKeeps ==
  ASSUME NEW S, NEW s \in Seq(S), NEW n \in 1..Len(s)
  PROVE  /\ Without(s, n) \in Seq(S)
         /\ \A i \in DOMAIN Without(s, n) :
              \E j \in DOMAIN s : Without(s, n)[i] = s[j] /\ j = IF i < n THEN i ELSE i + 1
         /\ \A j \in DOMAIN s \ {n} : \E i \in DOMAIN Without(s, n) : Without(s, n)[i] = s[j]
<1>. DEFINE before == SubSeq(s, 1, n - 1)
            after == SubSeq(s, n + 1, Len(s))
<1>1. Len(s) \in Nat /\ DOMAIN s = 1..Len(s) /\ n \in Nat OBVIOUS
<1>2. /\ before \in Seq(S) /\ Len(before) = n - 1
      /\ \A i \in 1..(n - 1) : before[i] = s[i]
  OBVIOUS
<1>3. /\ after \in Seq(S) /\ Len(after) = Len(s) - n
      /\ \A i \in 1..(Len(s) - n) : after[i] = s[n + i]
  OBVIOUS
<1>. HIDE DEF before, after
<1>4. Without(s, n) = before \o after BY DEF Without, before, after
<1>5. /\ before \o after \in Seq(S)
      /\ Len(before \o after) = Len(before) + Len(after)
      /\ \A i \in 1..Len(before) + Len(after) :
           (before \o after)[i] = IF i <= Len(before) THEN before[i] ELSE after[i - Len(before)]
  BY <1>2, <1>3, ConcatProperties
<1>6. Without(s, n) \in Seq(S) /\ DOMAIN Without(s, n) = 1..(Len(s) - 1)
  <2>1. Len(before \o after) = Len(s) - 1 BY <1>1, <1>2, <1>3, <1>5
  <2>. QED BY <1>4, <1>5, <2>1
<1>7. ASSUME NEW i \in 1..(Len(s) - 1) PROVE Without(s, n)[i] = s[IF i < n THEN i ELSE i + 1]
  <2>1. Without(s, n)[i] = IF i <= n - 1 THEN before[i] ELSE after[i - (n - 1)]
    BY <1>1, <1>2, <1>3, <1>4, <1>5
  <2>2. CASE i < n BY <1>1, <1>2, <2>1, <2>2
  <2>3. CASE ~(i < n)
    <3>1. i - (n - 1) \in 1..(Len(s) - n) /\ n + (i - (n - 1)) = i + 1 BY <1>1, <2>3
    <3>2. after[i - (n - 1)] = s[i + 1] BY <1>3, <3>1
    <3>. QED BY <1>1, <2>1, <2>3, <3>2
  <2>. QED BY <2>2, <2>3
<1>8. ASSUME NEW j \in DOMAIN s \ {n} PROVE \E i \in 1..(Len(s) - 1) : Without(s, n)[i] = s[j]
  <2>1. CASE j < n BY <1>1, <1>7, <2>1
  <2>2. CASE j > n
    <3>1. j - 1 \in 1..(Len(s) - 1) /\ ~(j - 1 < n) /\ (j - 1) + 1 = j BY <1>1, <2>2
    <3>2. Without(s, n)[j - 1] = s[j] BY <1>7, <3>1
    <3>. QED BY <3>1, <3>2
  <2>. QED BY <1>1, <2>1, <2>2
<1>9. ASSUME NEW i \in 1..(Len(s) - 1) PROVE (IF i < n THEN i ELSE i + 1) \in DOMAIN s
  BY <1>1
<1>. QED BY <1>6, <1>7, <1>8, <1>9

LEMMA AdvanceStep ==
  ASSUME FreshIds, RecordsFit, IInv, DriverPhases, WindowInv, AdvanceInv, [Next]_vars
  PROVE  AdvanceInv'
<1>. USE ConstantsAssumption
<1>a. TypeOK BY DEF IInv
<1>b. /\ owed \subseteq Commands /\ RecordsStem
      /\ \A c \in owed : pc[c] \in {"queued", "reserved", "dropping", "failed"}
  BY <1>a DEF TypeOK, AdvanceInv, OwedIsMet
<1>1. CASE UNCHANGED vars
  BY <1>a, <1>b, <1>1, AdvanceKept DEF vars, poolVars, clientVars
<1>2. CASE WindowNext
  <2>1. ASSUME NEW w \in Windows, OpenWindow(w) \/ DestroyWindow(w) PROVE AdvanceInv'
    <3>1. /\ UNCHANGED <<pc, preCancelled, owed, cancelSent>>
          /\ \A v \in Windows : window[v] = "cleaned" => window'[v] = "cleaned"
      BY <1>a, <2>1 DEF OpenWindow, DestroyWindow, poolVars, clientVars, TypeOK
    <3>. QED BY <1>a, <1>b, <3>1, AdvanceKept
  <2>2. ASSUME NEW w \in Windows, DisconnectWindow(w) PROVE AdvanceInv'
    <3>. DEFINE keep == {n \in DOMAIN preCancelled : preCancelled[n][1] # LabelOf[w]}
    <3>1. /\ UNCHANGED <<pc, owed, cancelSent>>
          /\ window[w] = "destroyed" /\ window' = [window EXCEPT ![w] = "cleaned"]
          /\ preCancelled' = Subsequence(preCancelled, keep)
      BY <2>2 DEF DisconnectWindow, RecordsWithout, clientVars
    <3>2. /\ preCancelled' \in Seq(Labels \X ConnIds)
          /\ \A k \in DOMAIN preCancelled' : Nth(keep, k) \in keep /\ preCancelled'[k] = preCancelled[Nth(keep, k)]
          /\ \A k, l \in DOMAIN preCancelled' : k < l => Nth(keep, k) < Nth(keep, l)
          /\ \A i \in keep : \E k \in DOMAIN preCancelled' : preCancelled'[k] = preCancelled[i]
      <4>. DEFINE S == Labels \X ConnIds
      <4>1. preCancelled \in Seq(S) /\ keep \in SUBSET DOMAIN preCancelled BY <1>b DEF RecordsStem
      <4>2. DOMAIN preCancelled' = DOMAIN Subsequence(preCancelled, keep) BY <3>1
      <4>. HIDE DEF S, keep
      <4>3. preCancelled' \in Seq(S) BY <3>1, <4>1, SubsequenceKeeps
      <4>. QED BY <3>1, <4>1, <4>2, <4>3, SubsequenceKeeps DEF S
    <3>3. RecordsStem'
      <4>1. ASSUME NEW k \in DOMAIN preCancelled'
            PROVE  \E c \in Commands \cap Impatient : cancelSent'[c] /\ preCancelled'[k] = RecordOf(c)'
        <5>1. PICK n \in DOMAIN preCancelled : preCancelled'[k] = preCancelled[n] BY <3>2
        <5>2. PICK c \in Commands \cap Impatient : cancelSent[c] /\ preCancelled[n] = RecordOf(c)
          BY <1>b DEF RecordsStem
        <5>. QED BY <3>1, <5>1, <5>2 DEF RecordOf, OwnerLabel
      <4>2. ASSUME NEW k \in DOMAIN preCancelled', NEW l \in DOMAIN preCancelled', k < l
            PROVE  preCancelled'[k] # preCancelled'[l]
        <5>1. Nth(keep, k) \in DOMAIN preCancelled /\ Nth(keep, l) \in DOMAIN preCancelled
          BY <3>2
        <5>2. Nth(keep, k) # Nth(keep, l) BY <1>b, <3>2, <4>2, <5>1 DEF RecordsStem
        <5>. QED BY <1>b, <3>2, <5>1, <5>2 DEF RecordsStem
      <4>3. \A k \in DOMAIN preCancelled' : k \in Nat BY <3>2
      <4>4. \A k, l \in DOMAIN preCancelled' : preCancelled'[k] = preCancelled'[l] => k = l
        BY <4>2, <4>3
      <4>. QED BY <3>2, <4>1, <4>4 DEF RecordsStem
    <3>4. ASSUME NEW c \in owed PROVE OwedIsMet(c)'
      <4>1. c \in Commands /\ OwedIsMet(c) /\ pc[c] # "idle" BY <1>b DEF AdvanceInv
      <4>2. CASE OwnerLabel(c) = LabelOf[w]
        <5>1. WindowOf[c] = w \/ window[WindowOf[c]] \in {"unborn", "cleaned"}
          BY <3>1, <4>1, <4>2 DEF OwnerLabel, WindowInv, WindowOrder
        <5>2. WindowCleaned(c)'
          BY <1>a, <3>1, <4>1, <5>1 DEF WindowCleaned, WindowInv, IssuedFromWindow, TypeOK
        <5>. QED BY <3>1, <4>1, <5>2 DEF OwedIsMet
      <4>3. CASE OwnerLabel(c) # LabelOf[w]
        <5>1. WindowCleaned(c) => WindowCleaned(c)' BY <1>a, <3>1, <4>1 DEF WindowCleaned, TypeOK
        <5>2. ASSUME Recorded(c) PROVE Recorded(c)'
          <6>1. PICK n \in DOMAIN preCancelled : preCancelled[n] = RecordOf(c) BY <5>2 DEF Recorded
          <6>2. n \in keep BY <4>3, <6>1 DEF RecordOf
          <6>3. PICK k \in DOMAIN preCancelled' : preCancelled'[k] = preCancelled[n] BY <3>2, <6>2
          <6>. QED BY <6>1, <6>3 DEF Recorded, RecordOf, OwnerLabel
        <5>. QED BY <3>1, <4>1, <5>1, <5>2 DEF OwedIsMet
      <4>. QED BY <4>2, <4>3
    <3>. QED BY <3>1, <3>3, <3>4 DEF AdvanceInv
  <2>. QED BY <1>2, <2>1, <2>2 DEF WindowNext
<1>3. CASE ClientNext
  <2>1. ASSUME NEW c \in Commands, IssueConnect(c) PROVE AdvanceInv'
    <3>1. /\ UNCHANGED <<window, preCancelled, owed, cancelSent>>
          /\ pc[c] = "idle" /\ pc' = [pc EXCEPT ![c] = "queued"]
      BY <2>1 DEF IssueConnect, poolVars, clientVars
    <3>. QED BY <1>a, <1>b, <3>1, AdvanceKept DEF TypeOK
  <2>2. ASSUME NEW c \in Commands, Release(c) \/ SendFails(c) PROVE AdvanceInv'
    BY <1>a, <2>2, AdvanceKept DEF Release, SendFails
  <2>3. ASSUME NEW c \in Commands, CancelConnect(c), preCancelled' = preCancelled, owed' = owed
        PROVE  AdvanceInv'
    <3>1. UNCHANGED <<window, pc>> /\ cancelSent' = [cancelSent EXCEPT ![c] = TRUE]
      BY <2>3 DEF CancelConnect
    <3>. QED BY <1>a, <2>3, <3>1, AdvanceKept DEF TypeOK
  <2>4. ASSUME NEW c \in Commands, CancelConnect(c), logical[ConnOf[c]] = NoCommand PROVE AdvanceInv'
    <3>1. /\ UNCHANGED <<window, pc>> /\ cancelSent' = [cancelSent EXCEPT ![c] = TRUE]
          /\ c \in Impatient /\ ~cancelSent[c]
          /\ preCancelled' = RecordPreCancellation(OwnerLabel(c), ConnOf[c])
          /\ owed' = IF pc[c] = "queued" THEN owed \cup {c} ELSE owed
      BY <2>4 DEF CancelConnect
    <3>2. Len(preCancelled) < MaxPreCancelledPerWindow /\ Len(preCancelled) < MaxPreCancelled
      BY <1>b, <3>1, RoomForRecord
    <3>3. Len(preCancelled) \in Nat /\ DOMAIN preCancelled = 1..Len(preCancelled) BY <1>b DEF RecordsStem
    <3>4. ~ShareIsFull(OwnerLabel(c))
      <4>. DEFINE mine == RecordsOf(OwnerLabel(c))
      <4>1. IsFiniteSet(1..Len(preCancelled)) /\ Cardinality(1..Len(preCancelled)) = Len(preCancelled)
        BY <3>3, FS_Interval
      <4>2. mine \in SUBSET (1..Len(preCancelled)) BY DEF RecordsOf
      <4>3. Cardinality(mine) <= Len(preCancelled) /\ Cardinality(mine) \in Nat
        BY <4>1, <4>2, FS_Subset, FS_CardinalityType
      <4>. QED BY <3>2, <3>3, <4>3 DEF ShareIsFull
    <3>5. \/ preCancelled' = preCancelled /\ Recorded(c)
          \/ preCancelled' = Append(preCancelled, RecordOf(c)) /\ ~Recorded(c)
      <4>1. Recorded(c) <=> \E n \in RecordsOf(OwnerLabel(c)) : preCancelled[n][2] = ConnOf[c]
        <5>1. ASSUME NEW n \in 1..Len(preCancelled)
              PROVE  preCancelled[n] = RecordOf(c) <=>
                       preCancelled[n][1] = OwnerLabel(c) /\ preCancelled[n][2] = ConnOf[c]
          <6>1. preCancelled[n] \in Labels \X ConnIds BY <1>b, <3>3 DEF RecordsStem
          <6>. QED BY <6>1 DEF RecordOf
        <5>. QED BY <3>3, <5>1 DEF Recorded, RecordsOf
      <4>2. ~(Len(preCancelled) >= MaxPreCancelled) BY <3>2, <3>3
      <4>3. RecordPreCancellation(OwnerLabel(c), ConnOf[c]) =
              IF \E n \in RecordsOf(OwnerLabel(c)) : preCancelled[n][2] = ConnOf[c] THEN preCancelled
              ELSE Append(preCancelled, RecordOf(c))
        BY <3>4, <4>2, Zenon DEF RecordPreCancellation, RecordOf
      <4>. QED BY <3>1, <4>1, <4>3
    <3>6. RecordOf(c) \in Labels \X ConnIds BY DEF RecordOf, OwnerLabel
    <3>7. /\ preCancelled' \in Seq(Labels \X ConnIds)
          /\ DOMAIN preCancelled \subseteq DOMAIN preCancelled'
          /\ \A n \in DOMAIN preCancelled : preCancelled'[n] = preCancelled[n]
          /\ \A n \in DOMAIN preCancelled' \ DOMAIN preCancelled :
               n = Len(preCancelled) + 1 /\ preCancelled'[n] = RecordOf(c) /\ ~Recorded(c)
          /\ \E n \in DOMAIN preCancelled' : preCancelled'[n] = RecordOf(c)
      <4>1. preCancelled \in Seq(Labels \X ConnIds) BY <1>b DEF RecordsStem
      <4>2. CASE preCancelled' = preCancelled /\ Recorded(c) BY <4>1, <4>2 DEF Recorded
      <4>3. CASE preCancelled' = Append(preCancelled, RecordOf(c)) /\ ~Recorded(c)
        <5>1. /\ preCancelled' \in Seq(Labels \X ConnIds)
              /\ Len(preCancelled') = Len(preCancelled) + 1
              /\ \A n \in 1..Len(preCancelled) : preCancelled'[n] = preCancelled[n]
              /\ preCancelled'[Len(preCancelled) + 1] = RecordOf(c)
          BY <3>6, <4>1, <4>3, AppendProperties
        <5>2. DOMAIN preCancelled' = 1..(Len(preCancelled) + 1) BY <5>1
        <5>. QED BY <3>3, <4>3, <5>1, <5>2
      <4>. QED BY <3>5, <4>2, <4>3
    <3>8. RecordsStem'
      <4>1. \A d \in Commands : cancelSent[d] => cancelSent'[d] BY <1>a, <3>1 DEF TypeOK
      <4>2. cancelSent'[c] BY <1>a, <3>1 DEF TypeOK
      <4>3. \A n \in DOMAIN preCancelled' :
              \E d \in Commands \cap Impatient : cancelSent'[d] /\ preCancelled'[n] = RecordOf(d)
        BY <1>b, <3>1, <3>7, <4>1, <4>2 DEF RecordsStem
      <4>4. \A m, n \in DOMAIN preCancelled' : preCancelled'[m] = preCancelled'[n] => m = n
        BY <1>b, <3>7 DEF RecordsStem, Recorded
      <4>. QED BY <3>7, <4>3, <4>4 DEF RecordsStem, RecordOf, OwnerLabel
    <3>9. ASSUME NEW d \in owed' PROVE OwedIsMet(d)'
      <4>1. d \in Commands /\ (d = c \/ OwedIsMet(d)) BY <1>b, <3>1 DEF AdvanceInv
      <4>2. CASE d = c
        <5>1. Recorded(c)' BY <3>7 DEF Recorded, RecordOf, OwnerLabel
        <5>2. pc[c] = "queued" \/ OwedIsMet(c) BY <3>1, <4>2 DEF AdvanceInv
        <5>. QED BY <3>1, <4>2, <5>1, <5>2 DEF OwedIsMet, WindowCleaned
      <4>3. CASE OwedIsMet(d)
        <5>1. Recorded(d) => Recorded(d)' BY <3>7 DEF Recorded, RecordOf, OwnerLabel
        <5>. QED BY <3>1, <4>3, <5>1 DEF OwedIsMet, WindowCleaned
      <4>. QED BY <4>1, <4>2, <4>3
    <3>. QED BY <3>8, <3>9 DEF AdvanceInv
  <2>5. ASSUME NEW c \in Commands, CancelConnect(c) PROVE AdvanceInv'
    <3>1. logical[ConnOf[c]] = NoCommand \/ (preCancelled' = preCancelled /\ owed' = owed)
      BY <2>5 DEF CancelConnect
    <3>. QED BY <2>3, <2>4, <2>5, <3>1
  <2>. QED BY <1>3, <2>1, <2>2, <2>5 DEF ClientNext
<1>4. CASE CommandNext
  <2>1. ASSUME NEW c \in Commands, Reserve(c) PROVE AdvanceInv'
    <3>. DEFINE records == PreCancellationsOf(c)
                n == CHOOSE k \in records : \A m \in records : k <= m
    <3>1. /\ UNCHANGED <<window, owed, cancelSent>> /\ pc[c] = "queued"
          /\ \/ preCancelled' = preCancelled /\ pc' = [pc EXCEPT ![c] = "failed"]
             \/ /\ records # {} /\ preCancelled' = Without(preCancelled, n)
                /\ pc' = [pc EXCEPT ![c] = "failed"]
             \/ /\ records = {} /\ preCancelled' = preCancelled
                /\ pc' = [pc EXCEPT ![c] = "reserved"]
      BY <2>1 DEF Reserve, clientVars
    <3>2. /\ Len(preCancelled) \in Nat /\ DOMAIN preCancelled = 1..Len(preCancelled)
          /\ preCancelled \in Seq(Labels \X ConnIds)
      BY <1>b DEF RecordsStem
    <3>3. CASE preCancelled' = preCancelled /\ pc' = [pc EXCEPT ![c] = "failed"]
      BY <1>a, <3>1, <3>3, AdvanceKept DEF TypeOK
    <3>4. CASE records = {} /\ preCancelled' = preCancelled /\ pc' = [pc EXCEPT ![c] = "reserved"]
      <4>1. RecordsStem' BY <1>b, <3>1, <3>4 DEF RecordsStem, RecordOf, OwnerLabel
      <4>2. ~Recorded(c)
        <5>1. ASSUME NEW k \in DOMAIN preCancelled, preCancelled[k] = RecordOf(c) PROVE k \in records
          BY <3>2, <5>1 DEF RecordOf, RecordsOf, PreCancellationsOf
        <5>. QED BY <3>4, <5>1 DEF Recorded
      <4>3. ASSUME NEW d \in owed PROVE OwedIsMet(d)'
        <5>1. d \in Commands /\ OwedIsMet(d) BY <1>b DEF AdvanceInv
        <5>2. CASE d = c
          <6>1. WindowCleaned(c) BY <3>1, <4>2, <5>1, <5>2 DEF OwedIsMet
          <6>. QED BY <1>a, <3>1, <3>4, <5>2, <6>1 DEF OwedIsMet, WindowCleaned, TypeOK
        <5>3. CASE d # c
          BY <1>a, <3>1, <3>4, <5>1, <5>3 DEF OwedIsMet, WindowCleaned, Recorded, RecordOf, OwnerLabel, TypeOK
        <5>. QED BY <5>2, <5>3
      <4>. QED BY <3>1, <4>1, <4>3 DEF AdvanceInv
    <3>5. CASE records # {} /\ preCancelled' = Without(preCancelled, n) /\ pc' = [pc EXCEPT ![c] = "failed"]
      <4>1. records \in SUBSET (1..Len(preCancelled)) BY DEF PreCancellationsOf, RecordsOf
      <4>2. n \in records
        <5>1. PICK k \in records : TRUE BY <3>5
        <5>2. ASSUME NEW m \in records PROVE m = k
          <6>1. m \in DOMAIN preCancelled /\ k \in DOMAIN preCancelled BY <3>2, <4>1
          <6>2. preCancelled[m] = RecordOf(c) /\ preCancelled[k] = RecordOf(c)
            <7>1. preCancelled[m] \in Labels \X ConnIds /\ preCancelled[k] \in Labels \X ConnIds
              BY <3>2, <6>1
            <7>. QED BY <7>1 DEF PreCancellationsOf, RecordsOf, RecordOf
          <6>. QED BY <1>b, <6>1, <6>2 DEF RecordsStem
        <5>3. k <= k BY <3>2, <4>1
        <5>4. \E l \in records : \A m \in records : l <= m BY <5>1, <5>2, <5>3
        <5>. HIDE DEF records
        <5>. QED BY <5>4
      <4>3. n \in 1..Len(preCancelled) /\ preCancelled[n][2] = ConnOf[c]
        BY <4>2 DEF PreCancellationsOf, RecordsOf
      <4>. HIDE DEF n, records
      <4>4. /\ preCancelled' \in Seq(Labels \X ConnIds)
            /\ \A i \in DOMAIN preCancelled' :
                 \E j \in DOMAIN preCancelled : preCancelled'[i] = preCancelled[j] /\ j = IF i < n THEN i ELSE i + 1
            /\ \A j \in DOMAIN preCancelled \ {n} :
                 \E i \in DOMAIN preCancelled' : preCancelled'[i] = preCancelled[j]
        <5>. DEFINE S == Labels \X ConnIds
        <5>1. preCancelled \in Seq(S) BY <3>2
        <5>. HIDE DEF S
        <5>2. /\ Without(preCancelled, n) \in Seq(S)
              /\ \A i \in DOMAIN Without(preCancelled, n) :
                   \E j \in DOMAIN preCancelled :
                     Without(preCancelled, n)[i] = preCancelled[j] /\ j = IF i < n THEN i ELSE i + 1
              /\ \A j \in DOMAIN preCancelled \ {n} :
                   \E i \in DOMAIN Without(preCancelled, n) : Without(preCancelled, n)[i] = preCancelled[j]
          BY <4>3, <5>1, WithoutKeeps
        <5>. QED BY <3>5, <5>2 DEF S
      <4>5. RecordsStem'
        <5>1. \A i \in DOMAIN preCancelled' :
                \E d \in Commands \cap Impatient : cancelSent'[d] /\ preCancelled'[i] = RecordOf(d)
          BY <1>b, <3>1, <4>4 DEF RecordsStem
        <5>2. ASSUME NEW i \in DOMAIN preCancelled', NEW k \in DOMAIN preCancelled',
                     preCancelled'[i] = preCancelled'[k]
              PROVE  i = k
          <6>1. PICK j \in DOMAIN preCancelled :
                  preCancelled'[i] = preCancelled[j] /\ j = IF i < n THEN i ELSE i + 1 BY <4>4
          <6>2. PICK l \in DOMAIN preCancelled :
                  preCancelled'[k] = preCancelled[l] /\ l = IF k < n THEN k ELSE k + 1 BY <4>4
          <6>3. j = l BY <1>b, <5>2, <6>1, <6>2 DEF RecordsStem
          <6>4. i \in Nat /\ k \in Nat /\ n \in Nat BY <3>2, <4>3, <4>4
          <6>. QED BY <6>1, <6>2, <6>3, <6>4
        <5>. QED BY <4>4, <5>1, <5>2 DEF RecordsStem, RecordOf, OwnerLabel
      <4>6. ASSUME NEW d \in owed PROVE OwedIsMet(d)'
        <5>1. d \in Commands /\ OwedIsMet(d) BY <1>b DEF AdvanceInv
        <5>2. CASE d = c BY <1>a, <3>5, <5>2 DEF OwedIsMet, TypeOK
        <5>3. CASE d # c
          <6>1. ASSUME Recorded(d) PROVE Recorded(d)'
            <7>1. PICK j \in DOMAIN preCancelled : preCancelled[j] = RecordOf(d) BY <6>1 DEF Recorded
            <7>2. preCancelled[j][2] = ConnOf[d] BY <7>1 DEF RecordOf
            <7>3. ConnOf[d] # ConnOf[c] BY <5>1, <5>3 DEF FreshIds
            <7>4. j # n BY <4>3, <7>2, <7>3
            <7>. QED BY <4>4, <7>1, <7>4 DEF Recorded, RecordOf, OwnerLabel
          <6>. QED BY <1>a, <3>1, <3>5, <5>1, <5>3, <6>1 DEF OwedIsMet, WindowCleaned, TypeOK
        <5>. QED BY <5>2, <5>3
      <4>. QED BY <3>1, <4>5, <4>6 DEF AdvanceInv
    <3>. QED BY <3>1, <3>3, <3>4, <3>5
  <2>2. ASSUME NEW c \in Commands, CheckReservation(c) PROVE AdvanceInv'
    <3>1. /\ UNCHANGED <<window, preCancelled, owed, cancelSent>> /\ pc[c] = "reserved"
          /\ pc' = [pc EXCEPT ![c] = IF GoesOn(c) THEN "resolving" ELSE "dropping"]
      BY <2>2 DEF CheckReservation, GoTo, clientVars
    <3>2. c \in owed => ~GoesOn(c)
      BY <3>1 DEF AdvanceInv, OwedIsMet, WindowCleaned, GoesOn, Alive
    <3>3. \A d \in owed : pc'[d] = pc[d] \/ pc'[d] = "dropping" BY <1>a, <1>b, <3>1, <3>2 DEF TypeOK
    <3>. QED BY <1>a, <3>1, <3>3, AdvanceKept
  <2>3. ASSUME NEW c \in Commands,
               \/ Resolve(c) \/ AttachRefused(c) \/ WaitUntilConnected(c) \/ Commit(c)
               \/ AttachExisting(c) \/ AttachNew(c) \/ Replay(c) \/ DropReservation(c) \/ FinishRemoval(c)
        PROVE  AdvanceInv'
    <3>1. /\ UNCHANGED <<window, preCancelled, owed, cancelSent>>
          /\ \/ pc' = pc
             \/ pc[c] = "dropping" /\ pc' = [pc EXCEPT ![c] = "failed"]
             \/ /\ pc[c] \in {"resolving", "attaching", "waiting", "checked", "replaying"}
                /\ \E next \in CommandSteps : pc' = [pc EXCEPT ![c] = next]
      BY <2>3 DEF Resolve, AttachRefused, WaitUntilConnected, Commit, GoTo, AttachExisting, AttachNew, Replay,
         DropReservation, FinishRemoval, CommandSteps, clientVars
    <3>2. \A d \in owed : pc'[d] = pc[d] \/ pc'[d] = "failed" BY <1>a, <1>b, <3>1 DEF TypeOK
    <3>. QED BY <1>a, <3>1, <3>2, AdvanceKept
  <2>. QED BY <1>4, <2>1, <2>2, <2>3 DEF CommandNext
<1>5. CASE DriverNext
  <2>1. ASSUME NEW p \in Commands,
               \/ BeginStart(p) \/ Progress(p) \/ ConnectFails(p) \/ MarkConnected(p)
               \/ ProtocolMessage(p) \/ InitializeFails(p) \/ DeliverEvents(p)
        PROVE  AdvanceInv'
    <3>1. UNCHANGED <<window, pc, preCancelled, owed, cancelSent>>
      BY <2>1 DEF BeginStart, Progress, ConnectFails, MarkConnected, ProtocolMessage, InitializeFails, DeliverEvents,
         DriverGoesTo, clientVars
    <3>. QED BY <1>a, <3>1, AdvanceKept
  <2>2. ASSUME NEW p \in Commands, Activate(p) \/ FailStart(p) \/ Terminate(p) PROVE AdvanceInv'
    <3>1. /\ UNCHANGED <<window, preCancelled, owed, cancelSent>>
          /\ \/ pc' = pc
             \/ driver[p] \in {"activating", "error"}
                /\ pc' \in {[pc EXCEPT ![p] = "waiting"], [pc EXCEPT ![p] = "dropping"]}
      BY <2>2 DEF Activate, FailStart, Terminate, clientVars
    <3>2. driver[p] \in {"activating", "error"} => pc[p] = "starting" BY DEF DriverPhases, DriverPhase
    <3>3. \A d \in owed : pc'[d] = pc[d] BY <1>a, <1>b, <3>1, <3>2 DEF TypeOK
    <3>. QED BY <1>a, <3>1, <3>3, AdvanceKept
  <2>. QED BY <1>5, <2>1, <2>2 DEF DriverNext
<1>6. CASE IdleNext
  <2>1. UNCHANGED <<window, pc, preCancelled, owed, cancelSent>>
    BY <1>6 DEF IdleNext, ExpireIdle, CancelExpired, clientVars
  <2>. QED BY <1>a, <2>1, AdvanceKept
<1>. QED BY <1>1, <1>2, <1>3, <1>4, <1>5, <1>6 DEF Next

\* A command that was cancelled before it reserved never gets further, for any number
\* of windows and commands whose clients choose fresh identifiers, as long as no more of
\* them give up than the queue keeps records of.
THEOREM CancelledInAdvanceAlwaysFails ==
  ASSUME FreshIds, RecordsFit
  PROVE  Spec => []CancelledInAdvanceFails
<1>. USE ConstantsAssumption
<1>1. Init => AdvanceInv
  <2>. SUFFICES ASSUME Init PROVE AdvanceInv OBVIOUS
  <2>1. preCancelled = <<>> /\ owed = {} BY DEF Init
  <2>. QED BY <2>1 DEF AdvanceInv, RecordsStem
<1>2. IInv /\ DriverPhases /\ WindowInv /\ AdvanceInv /\ [Next]_vars => AdvanceInv'
  BY AdvanceStep
<1>3. AdvanceInv => CancelledInAdvanceFails
  BY DEF AdvanceInv, OwedIsMet, CancelledInAdvanceFails
<1>. QED BY <1>1, <1>2, <1>3, Invariance, LossesAreExplained, PTL DEF Spec
-----------------------------------------------------------------------------
(* Nobody waits for nothing: the safety behind ConnectEnds                 *)

\* A start that is watched is one of a pooled connection, and a command that runs a
\* transport runs one that has not ended.
StartIsDriven(p) ==
  /\ start[p] = "connecting" => Pooled(p)
  /\ attached[p] # NoCommand => start[attached[p]] # "none"
  /\ pc[p] = "starting" => driver[p] \in {"begin", "connecting", "activating", "error"}

StartsAreDriven == \A p \in Commands : StartIsDriven(p)

\* Whoever waits for a start waits for a result that is there or for a transport that
\* is still to report one.
NobodyStranded ==
  \A c \in Commands :
    /\ pc[c] = "starting" => driver[c] \in {"begin", "connecting", "activating", "error"}
    /\ pc[c] \in {"replaying", "waiting"} =>
         \/ start[attached[c]] \in {"connected", "failed"}
         \/ driver[attached[c]] \in {"begin", "connecting", "error"} /\ Pooled(attached[c])

LEMMA DrivenKept ==
  ASSUME TypeOK, StartsAreDriven, UNCHANGED attached,
         \A p \in Commands :
           /\ start'[p] = start[p] \/ start'[p] \in {"connected", "failed"}
           /\ start'[p] = "connecting" /\ Pooled(p) => Pooled(p)'
           /\ pc'[p] = "starting" => pc[p] = "starting"
           /\ pc'[p] = "starting" => driver'[p] = driver[p] \/ driver'[p] \in {"connecting", "activating", "error"}
  PROVE  StartsAreDriven'
<1>. SUFFICES ASSUME NEW p \in Commands PROVE StartIsDriven(p)' BY DEF StartsAreDriven
<1>1. StartIsDriven(p) /\ (attached[p] # NoCommand => attached[p] \in Commands)
  BY DEF StartsAreDriven, TypeOK, Entry
<1>. QED BY <1>1 DEF StartIsDriven

LEMMA DrivenStep ==
  ASSUME IInv, StartsAreDriven, [Next]_vars
  PROVE  StartsAreDriven'
<1>. USE ConstantsAssumption
<1>a. TypeOK BY DEF IInv
<1>b. \A p \in Commands : Pooled(p) => start[p] \in {"connecting", "connected"}
  BY DEF IInv, PoolInv, EntryHasTransport
<1>1. CASE UNCHANGED vars
  BY <1>a, <1>1, DrivenKept DEF vars, poolVars, Pooled
<1>2. CASE WindowNext
  <2>1. UNCHANGED <<attached, start, physical, pc, driver>>
    BY <1>2 DEF WindowNext, OpenWindow, DestroyWindow, DisconnectWindow, poolVars
  <2>. QED BY <1>a, <2>1, DrivenKept DEF Pooled
<1>3. CASE ClientNext
  <2>1. /\ UNCHANGED <<attached, start, physical, driver>>
        /\ pc' = pc \/ \E c \in Commands : pc' = [pc EXCEPT ![c] = "queued"]
    BY <1>3 DEF ClientNext, IssueConnect, CancelConnect, Release, SendFails, poolVars
  <2>. QED BY <1>a, <2>1, DrivenKept DEF Pooled, TypeOK
<1>4. CASE CommandNext
  <2>1. ASSUME NEW c \in Commands,
               \/ Reserve(c) \/ CheckReservation(c) \/ Resolve(c) \/ AttachRefused(c)
               \/ WaitUntilConnected(c) \/ Commit(c) \/ Replay(c)
        PROVE  StartsAreDriven'
    <3>1. /\ UNCHANGED <<attached, start, physical, driver>>
          /\ \E next \in CommandSteps \ {"starting"} : pc' = [pc EXCEPT ![c] = next]
      BY <2>1 DEF Reserve, CheckReservation, Resolve, AttachRefused, WaitUntilConnected, Commit, Replay, GoTo,
         CommandSteps, poolVars
    <3>. QED BY <1>a, <3>1, DrivenKept DEF Pooled, TypeOK
  <2>2. ASSUME NEW c \in Commands, AttachExisting(c) PROVE StartsAreDriven'
    <3>1. PICK q \in Commands : q = physical[KeyOf[c]]
      BY <1>a, <2>2 DEF AttachExisting, TypeOK, Entry
    <3>2. /\ UNCHANGED <<start, physical, driver>> /\ pc' = [pc EXCEPT ![c] = "replaying"]
          /\ attached' = [attached EXCEPT ![c] = q]
      BY <2>2, <3>1 DEF AttachExisting
    <3>3. Pooled(q) BY <3>1 DEF IInv, PoolInv, Keyed, Pooled, TypeOK
    <3>. SUFFICES ASSUME NEW p \in Commands PROVE StartIsDriven(p)' BY DEF StartsAreDriven
    <3>4. StartIsDriven(p) BY DEF StartsAreDriven
    <3>. QED BY <1>a, <1>b, <3>2, <3>3, <3>4 DEF StartIsDriven, Pooled, TypeOK
  <2>3. ASSUME NEW c \in Commands, AttachNew(c) PROVE StartsAreDriven'
    <3>1. /\ physical[KeyOf[c]] = NoCommand /\ physical' = [physical EXCEPT ![KeyOf[c]] = c]
          /\ start' = [start EXCEPT ![c] = "connecting"]
          /\ attached' = [attached EXCEPT ![c] = c] /\ driver' = [driver EXCEPT ![c] = "begin"]
          /\ pc' = [pc EXCEPT ![c] = "starting"]
      BY <2>3 DEF AttachNew
    <3>. SUFFICES ASSUME NEW p \in Commands PROVE StartIsDriven(p)' BY DEF StartsAreDriven
    <3>2. StartIsDriven(p) /\ (attached[p] # NoCommand => attached[p] \in Commands)
      BY <1>a DEF StartsAreDriven, TypeOK, Entry
    <3>3. start'[p] = "connecting" => Pooled(p)' BY <1>a, <3>1, <3>2 DEF StartIsDriven, Pooled, TypeOK
    <3>4. attached'[p] # NoCommand => start'[attached'[p]] # "none"
      BY <1>a, <3>1, <3>2 DEF StartIsDriven, TypeOK
    <3>5. pc'[p] = "starting" => driver'[p] \in {"begin", "connecting", "activating", "error"}
      BY <1>a, <3>1, <3>2 DEF StartIsDriven, TypeOK
    <3>. QED BY <3>3, <3>4, <3>5 DEF StartIsDriven
  <2>4. ASSUME NEW c \in Commands, DropReservation(c) \/ FinishRemoval(c) PROVE StartsAreDriven'
    <3>1. /\ UNCHANGED <<attached, driver>> /\ RemoveLogical(c)
          /\ pc' = pc \/ pc' = [pc EXCEPT ![c] = "failed"]
      BY <2>4 DEF DropReservation, FinishRemoval
    <3>2. ASSUME NEW p \in Commands, start'[p] = "connecting", Pooled(p) PROVE Pooled(p)'
      <4>1. UNCHANGED physical \/ (attached[c] # NoCommand /\ Pooled(attached[c]) /\ DetachSubscriber(c, attached[c]))
        BY <3>1 DEF RemoveLogical, poolVars
      <4>2. CASE attached[c] # NoCommand /\ Pooled(attached[c]) /\ DetachSubscriber(c, attached[c])
        <5>1. PICK q \in Commands : q = attached[c] BY <1>a, <4>2 DEF TypeOK, Entry
        <5>2. \/ physical' = physical
              \/ /\ physical' = [physical EXCEPT ![KeyOf[q]] = NoCommand]
                 /\ start' = [start EXCEPT ![q] = "failed"]
          BY <4>2, <5>1 DEF DetachSubscriber
        <5>. QED BY <1>a, <3>2, <4>2, <5>1, <5>2 DEF Pooled, TypeOK
      <4>. QED BY <3>2, <4>1, <4>2 DEF Pooled
    <3>3. \A p \in Commands : start'[p] = start[p] \/ start'[p] = "failed" BY <1>a, <3>1, RemovalFrame
    <3>. QED BY <1>a, <3>1, <3>2, <3>3, DrivenKept DEF TypeOK
  <2>. QED BY <1>4, <2>1, <2>2, <2>3, <2>4 DEF CommandNext
<1>5. CASE DriverNext
  <2>1. ASSUME NEW q \in Commands,
               \/ BeginStart(q) \/ Progress(q) \/ ConnectFails(q) \/ MarkConnected(q) \/ Activate(q)
               \/ ProtocolMessage(q) \/ InitializeFails(q) \/ DeliverEvents(q)
        PROVE  StartsAreDriven'
    <3>1. /\ UNCHANGED <<attached, physical>>
          /\ start' = start \/ start' = [start EXCEPT ![q] = "connected"]
          /\ \/ pc' = pc /\ driver' = driver
             \/ \E step \in {"connecting", "activating", "error"} :
                  pc' = pc /\ driver' = [driver EXCEPT ![q] = step]
             \/ pc' = [pc EXCEPT ![q] = "waiting"] /\ driver' = [driver EXCEPT ![q] = "running"]
      BY <2>1 DEF BeginStart, Progress, ConnectFails, MarkConnected, Activate, ProtocolMessage, InitializeFails,
         DeliverEvents, DriverGoesTo, poolVars
    <3>. QED BY <1>a, <3>1, DrivenKept DEF Pooled, TypeOK
  <2>2. ASSUME NEW q \in Commands, FailStart(q) \/ Terminate(q) PROVE StartsAreDriven'
    <3>1. /\ UNCHANGED attached /\ driver' = [driver EXCEPT ![q] = "done"]
          /\ \/ pc' = [pc EXCEPT ![q] = "dropping"]
             \/ pc' = pc /\ driver[q] = "running"
          /\ UNCHANGED <<start, physical>> \/ (Pooled(q) /\ ClosePhysical(q))
      BY <2>2 DEF FailStart, Terminate, StartFailureApplies, TerminalApplies, poolVars
    <3>2. driver[q] = "running" => pc[q] # "starting" BY DEF StartsAreDriven, StartIsDriven
    <3>3. \A p \in Commands : start'[p] = start[p] \/ start'[p] = "failed" BY <1>a, <3>1, ClosureFrame
    <3>4. \A p \in Commands : start'[p] = "connecting" /\ Pooled(p) => Pooled(p)'
      BY <1>a, <3>1, ClosureFrame DEF Pooled
    <3>. QED BY <1>a, <3>1, <3>2, <3>3, <3>4, DrivenKept DEF TypeOK
  <2>. QED BY <1>5, <2>1, <2>2 DEF DriverNext
<1>6. CASE IdleNext
  <2>1. ASSUME NEW q \in Commands, NEW token, ExpireIdle(q, token) PROVE StartsAreDriven'
    <3>1. /\ UNCHANGED <<attached, start, pc, driver>>
          /\ \/ physical' = physical
             \/ /\ start[q] = "connected" /\ Pooled(q)
                /\ physical' = [physical EXCEPT ![KeyOf[q]] = NoCommand]
      BY <2>1 DEF ExpireIdle, ExpiryApplies
    <3>. QED BY <1>a, <3>1, DrivenKept DEF Pooled, TypeOK
  <2>2. ASSUME NEW q \in Commands, CancelExpired(q) PROVE StartsAreDriven'
    <3>1. UNCHANGED <<attached, start, pc, driver, physical>> BY <2>2 DEF CancelExpired
    <3>. QED BY <1>a, <3>1, DrivenKept DEF Pooled
  <2>. QED BY <1>6, <2>1, <2>2 DEF IdleNext
<1>. QED BY <1>1, <1>2, <1>3, <1>4, <1>5, <1>6 DEF Next

\* A connect command never waits for a start that nobody can finish: the result is
\* there, or the transport it waits for is pooled and has still to report, for any
\* cancellations, closings, failures and timers (wait_until_connected).
THEOREM NobodyWaitsForNothing == Spec => []NobodyStranded
<1>1. Init => StartsAreDriven
  BY ConstantsAssumption DEF Init, StartsAreDriven, StartIsDriven
<1>2. IInv /\ StartsAreDriven /\ [Next]_vars => StartsAreDriven'
  BY DrivenStep
<1>3. IInv /\ StartsAreDriven => NobodyStranded
  <2>. SUFFICES ASSUME IInv, StartsAreDriven, NEW c \in Commands, pc[c] \in {"replaying", "waiting"},
                       start[attached[c]] \notin {"connected", "failed"}
       PROVE  driver[attached[c]] \in {"begin", "connecting", "error"} /\ Pooled(attached[c])
    BY DEF NobodyStranded, StartsAreDriven, StartIsDriven
  <2>1. attached[c] \in Commands BY DEF IInv, AttachPhases, AfterAttach, TypeOK, Entry
  <2>2. start[attached[c]] = "connecting"
    BY <2>1 DEF StartsAreDriven, StartIsDriven, IInv, TypeOK, StartStates, AttachPhases, AfterAttach
  <2>. QED BY <2>1, <2>2 DEF StartsAreDriven, StartIsDriven, IInv, PoolInv, EntryHasTransport
<1>. QED BY <1>1, <1>2, <1>3, Invariance, PTL DEF Spec
=============================================================================
