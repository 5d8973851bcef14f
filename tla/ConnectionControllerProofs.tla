---------------------- MODULE ConnectionControllerProofs ----------------------
(* Proofs about ConnectionController, for any servers, any number of calls and *)
(* any limit of short exits.                                                   *)
EXTENDS ConnectionController, SequenceTheorems, TLAPS

-----------------------------------------------------------------------------
(* The inductive invariant                                                 *)

Items == [session : 0..MaxGenerations, waiter : 0..MaxGenerations]

Live == {"pending", "open", "closing"}
Before == {"none", "switching", "switched", "leaving", "left"}
UnderWay == {"cancelling", "waiting", "abandoned", "reclaiming"}

Typed ==
  /\ generation \in 0..MaxGenerations /\ active \in 0..generation
  /\ step \in [Generations -> Before \cup {"starting", "done"}]
  /\ barrier \in Seq(Items)
  /\ phase \in [Generations -> SessionPhases] /\ wire \in [Generations -> WireStates]
  /\ starting \in [Generations -> BOOLEAN]
  /\ closing \in [Generations -> UnderWay \cup {"no", "done"}]
  /\ timer \in 0..generation
  /\ disposed \in BOOLEAN /\ left \in BOOLEAN /\ closeFailed \in BOOLEAN
  /\ stopped \in BOOLEAN /\ reached \in BOOLEAN

\* The session of g waits in the barrier to be closed.
Waits(g) == \E n \in 1..Len(barrier) : barrier[n].session = g

\* Calls are made one after the other; the active session is the latest call's,
\* and a call has no session before its turn.
CallsInOrder ==
  /\ \A g \in Generations : g > generation => step[g] = "none"
  /\ active # 0 => active = generation /\ step[active] \in {"starting", "done"} /\ ~Waits(active)
  /\ \A g \in Generations :
       step[g] \in Before =>
         /\ phase[g] = "none" /\ closing[g] = "no" /\ ~starting[g] /\ ~Waits(g)

\* As long as something is to be closed the latest call waits for its end.
LatestWaits ==
  /\ \A n \in 1..Len(barrier) : barrier[n].waiter <= generation
  /\ ~disposed /\ barrier # <<>> =>
       /\ generation # 0 /\ step[generation] \in {"switching", "leaving"}
       /\ barrier[Len(barrier)].waiter = generation
       /\ \A n \in 1..Len(barrier) : n # Len(barrier) => barrier[n].waiter # generation

\* One session closes at a time, the first of the barrier.
ClosesInTurn ==
  \A g \in Generations :
    /\ closing[g] \in UnderWay => barrier # <<>> /\ Head(barrier).session = g
    /\ closing[g] \in UnderWay <=> phase[g] = "closing"
    /\ closing[g] = "done" <=> phase[g] = "closed"

\* What the phase of a session says about its connection: one that was closed
\* has none left, unless its cancellation failed.
WireOfSession ==
  \A g \in Generations :
    /\ phase[g] = "none" => wire[g] = "none"
    /\ wire[g] = "pending" => starting[g] /\ phase[g] \notin {"initializing", "ready"}
    /\ wire[g] = "closing" => phase[g] \in {"error", "closing", "closed"}
    /\ closing[g] = "reclaiming" => wire[g] \notin {"pending", "open"}
    /\ closing[g] = "done" /\ ~closeFailed => wire[g] \notin Live

KeptSessions ==
  \A g \in Generations : phase[g] \notin {"none", "closed"} => g = active \/ Waits(g)

\* After a disconnect no session is active, and the call under way starts none.
LeftIsFinal ==
  /\ left => active = 0
  /\ left /\ ~disposed => generation # 0 /\ step[generation] \in {"leaving", "left", "done"}
  /\ disposed => active = 0

\* A session whose start has ended is ready or has failed.
ActiveSession ==
  active # 0 =>
    /\ phase[active] \in {"connecting", "initializing", "ready", "error"}
    /\ starting[active] \/ phase[active] \in {"ready", "error"}

ViewOfSwitch ==
  ~disposed /\ generation # 0 /\ step[generation] \in {"switching", "switched"}
    => view = "connecting"

\* A retry is announced after the latest call has started its session.
TimerOfStarted ==
  ~disposed /\ timer # 0 => step[generation] \in {"starting", "done"}

Inv ==
  /\ Typed /\ CallsInOrder /\ LatestWaits /\ ClosesInTurn /\ WireOfSession
  /\ OneWire /\ KeptSessions /\ LeftIsFinal
  /\ ActiveSession /\ ViewOfActive /\ ViewOfSwitch
  /\ RetryAsAnnounced /\ TimerOfStarted

-----------------------------------------------------------------------------
(* The barrier                                                             *)

LEMMA Appended ==
  ASSUME barrier \in Seq(Items), NEW item \in Items, barrier' = Append(barrier, item)
  PROVE  /\ barrier' \in Seq(Items) /\ barrier' # <<>>
         /\ \A g : Waits(g)' <=> Waits(g) \/ item.session = g
         /\ barrier # <<>> => Head(barrier') = Head(barrier)
         /\ barrier'[Len(barrier')] = item
         /\ \A n \in 1..Len(barrier') :
              n # Len(barrier') => n \in 1..Len(barrier) /\ barrier'[n] = barrier[n]
<1>1. /\ barrier' \in Seq(Items) /\ Len(barrier') = Len(barrier) + 1 /\ Len(barrier) \in Nat
      /\ barrier'[Len(barrier) + 1] = item
      /\ \A n \in 1..Len(barrier) : barrier'[n] = barrier[n]
  OBVIOUS
<1>2. \A g : Waits(g)' <=> Waits(g) \/ item.session = g
  <2>. TAKE g
  <2>1. ASSUME Waits(g)' PROVE Waits(g) \/ item.session = g
    <3>1. PICK n \in 1..Len(barrier') : barrier'[n].session = g
      BY <2>1 DEF Waits
    <3>2. n = Len(barrier) + 1 \/ n \in 1..Len(barrier)
      BY <1>1
    <3>. QED BY <1>1, <3>1, <3>2 DEF Waits
  <2>2. ASSUME Waits(g) \/ item.session = g PROVE Waits(g)'
    <3>1. CASE item.session = g
      <4>1. Len(barrier) + 1 \in 1..Len(barrier')
        BY <1>1
      <4>. QED BY <1>1, <3>1, <4>1 DEF Waits
    <3>2. CASE Waits(g)
      <4>1. PICK n \in 1..Len(barrier) : barrier[n].session = g
        BY <3>2 DEF Waits
      <4>2. n \in 1..Len(barrier')
        BY <1>1
      <4>. QED BY <1>1, <4>1, <4>2 DEF Waits
    <3>. QED BY <2>2, <3>1, <3>2
  <2>. QED BY <2>1, <2>2
<1>. QED BY <1>1, <1>2

LEMMA Moved ==
  ASSUME barrier \in Seq(Items), barrier # <<>>, barrier' = Tail(barrier)
  PROVE  /\ barrier' \in Seq(Items) /\ Head(barrier) \in Items
         /\ \A g : Waits(g)' => Waits(g)
         /\ \A g : Waits(g) => Waits(g)' \/ Head(barrier).session = g
         /\ Waits(Head(barrier).session)
         /\ barrier' = <<>> => Head(barrier) = barrier[Len(barrier)]
         /\ barrier' # <<>> => /\ barrier'[Len(barrier')] = barrier[Len(barrier)]
                               /\ Head(barrier) = barrier[1] /\ 1 # Len(barrier)
                               /\ 1 \in 1..Len(barrier)
         /\ \A n \in 1..Len(barrier') :
              n # Len(barrier') =>
                n + 1 \in 1..Len(barrier) /\ n + 1 # Len(barrier) /\ barrier'[n] = barrier[n + 1]
<1>1. /\ barrier' \in Seq(Items) /\ Len(barrier') = Len(barrier) - 1 /\ Len(barrier) \in Nat \ {0}
      /\ Head(barrier) = barrier[1] /\ Head(barrier) \in Items
      /\ \A n \in 1..Len(barrier') : barrier'[n] = barrier[n + 1] /\ n + 1 \in 1..Len(barrier)
      /\ barrier' # <<>> => Len(barrier') # 0
  OBVIOUS
<1>2. \A g : Waits(g)' => Waits(g)
  BY <1>1 DEF Waits
<1>3. \A g : Waits(g) => Waits(g)' \/ Head(barrier).session = g
  <2>. TAKE g
  <2>. HAVE Waits(g)
  <2>1. PICK n \in 1..Len(barrier) : barrier[n].session = g
    BY DEF Waits
  <2>2. CASE n = 1
    BY <1>1, <2>1, <2>2
  <2>3. CASE n # 1
    <3>1. n - 1 \in 1..Len(barrier') /\ (n - 1) + 1 = n
      BY <1>1, <2>3
    <3>. QED BY <1>1, <2>1, <3>1 DEF Waits
  <2>. QED BY <2>2, <2>3
<1>4. Waits(Head(barrier).session)
  BY <1>1 DEF Waits
<1>5. ASSUME barrier' = <<>> PROVE Head(barrier) = barrier[Len(barrier)]
  <2>1. Len(barrier') = 0
    BY <1>5, EmptySeq
  <2>2. Len(barrier) = 1
    BY <1>1, <2>1
  <2>. QED BY <1>1, <2>2
<1>6. ASSUME barrier' # <<>>
      PROVE  /\ barrier'[Len(barrier')] = barrier[Len(barrier)]
             /\ 1 # Len(barrier) /\ 1 \in 1..Len(barrier)
  <2>1. Len(barrier') \in 1..Len(barrier') /\ Len(barrier') + 1 = Len(barrier)
    BY <1>1, <1>6
  <2>. QED BY <1>1, <2>1
<1>7. \A n \in 1..Len(barrier') : n # Len(barrier') => n + 1 # Len(barrier)
  <2>. DEFINE old == Len(barrier)
              new == Len(barrier')
  <2>1. old \in Nat \ {0} /\ new = old - 1
    BY <1>1
  <2>. HIDE DEF old, new
  <2>2. \A n \in 1..new : n # new => n + 1 # old
    BY <2>1
  <2>. QED BY <2>2 DEF old, new
<1>. QED BY <1>1, <1>2, <1>3, <1>4, <1>5, <1>6, <1>7

LEMMA WaitsUnchanged ==
  ASSUME UNCHANGED barrier
  PROVE  \A g : Waits(g)' <=> Waits(g)
BY DEF Waits

-----------------------------------------------------------------------------
(* The invariant holds at first and is kept by every step                   *)

LEMMA InitInv == Init => Inv
<1>. SUFFICES ASSUME Init PROVE Inv
  OBVIOUS
<1>. USE ControllerAssumption
     DEF Init, Generations, Before, UnderWay, SessionPhases, WireStates
<1>1. Typed
  <2>1. /\ barrier \in Seq(Items)
        /\ generation \in 0..MaxGenerations /\ active \in 0..generation /\ timer \in 0..generation
    BY EmptySeq
  <2>2. /\ step \in [Generations -> Before \cup {"starting", "done"}]
        /\ phase \in [Generations -> SessionPhases] /\ wire \in [Generations -> WireStates]
    OBVIOUS
  <2>3. /\ starting \in [Generations -> BOOLEAN]
        /\ closing \in [Generations -> UnderWay \cup {"no", "done"}]
    OBVIOUS
  <2>4. /\ disposed \in BOOLEAN /\ left \in BOOLEAN /\ closeFailed \in BOOLEAN
        /\ stopped \in BOOLEAN /\ reached \in BOOLEAN
    OBVIOUS
  <2>. QED BY <2>1, <2>2, <2>3, <2>4 DEF Typed
<1>2. \A g : ~Waits(g)
  BY DEF Waits
<1>3. CallsInOrder /\ LatestWaits /\ ClosesInTurn /\ WireOfSession /\ OneWire /\ KeptSessions
  BY <1>2 DEF CallsInOrder, LatestWaits, ClosesInTurn, WireOfSession, OneWire, KeptSessions, Live
<1>4. LeftIsFinal /\ ActiveSession /\ ViewOfActive /\ ViewOfSwitch /\ RetryAsAnnounced /\ TimerOfStarted
  BY DEF LeftIsFinal, ActiveSession, ViewOfActive, ViewOfSwitch, RetryAsAnnounced, TimerOfStarted
<1>. QED BY <1>1, <1>3, <1>4 DEF Inv

\* A call hands the active session to the barrier and waits for its turn.
LEMMA CallStep ==
  ASSUME Inv, ~disposed, NEW now \in {"switching", "leaving"}, NextGeneration(now),
         UNCHANGED <<closeFailed, mountVars, sessionVars>>,
         timer' = 0, reconnect' # "scheduled", stopped' \in BOOLEAN, reached' \in BOOLEAN,
         view' = IF now = "switching" THEN "connecting" ELSE "disconnected",
         left' = (now = "leaving")
  PROVE  Inv'
<1>. USE ControllerAssumption DEF Inv, Typed, Generations, mountVars, sessionVars
<1>. DEFINE item == [session |-> active, waiter |-> generation + 1]
<1>1. /\ generation < MaxGenerations /\ generation' = generation + 1 /\ active' = 0
      /\ barrier' = Append(barrier, item)
      /\ step' = [step EXCEPT ![generation + 1] = now]
  BY DEF NextGeneration, Detached
<1>2. /\ item \in Items /\ item.session = active /\ item.waiter = generation + 1
      /\ generation + 1 \in 1..MaxGenerations
  BY <1>1 DEF Items
<1>. HIDE DEF item
<1>3. /\ barrier' \in Seq(Items) /\ barrier' # <<>>
      /\ \A g : Waits(g)' <=> Waits(g) \/ g = active
      /\ barrier # <<>> => Head(barrier') = Head(barrier)
      /\ barrier'[Len(barrier')].waiter = generation + 1
      /\ \A n \in 1..Len(barrier') :
           n # Len(barrier') => n \in 1..Len(barrier) /\ barrier'[n] = barrier[n]
  BY <1>1, <1>2, Appended
<1>4. Typed' /\ CallsInOrder'
  BY <1>1, <1>2, <1>3 DEF CallsInOrder, Before
<1>5. LatestWaits'
  <2>1. \A n \in 1..Len(barrier') : n # Len(barrier') => barrier'[n].waiter # generation + 1
    <3>. TAKE n \in 1..Len(barrier')
    <3>. HAVE n # Len(barrier')
    <3>1. n \in 1..Len(barrier) /\ barrier'[n] = barrier[n] /\ barrier # <<>>
      BY <1>3
    <3>2. barrier[n].waiter <= generation
      BY <3>1 DEF LatestWaits
    <3>. QED BY <3>1, <3>2
  <2>2. \A n \in 1..Len(barrier') : barrier'[n].waiter <= generation + 1
    <3>. TAKE n \in 1..Len(barrier')
    <3>1. CASE n = Len(barrier')
      BY <1>3, <3>1
    <3>2. CASE n # Len(barrier')
      <4>1. n \in 1..Len(barrier) /\ barrier'[n] = barrier[n]
        BY <1>3, <3>2
      <4>2. barrier[n] \in Items /\ barrier[n].waiter <= generation
        BY <4>1 DEF LatestWaits
      <4>3. barrier[n].waiter \in 0..MaxGenerations
        BY <4>2 DEF Items
      <4>. QED BY <4>1, <4>2, <4>3
    <3>. QED BY <3>1, <3>2
  <2>3. step'[generation'] = now
    BY <1>1, <1>2
  <2>. QED BY <1>1, <1>2, <1>3, <2>1, <2>2, <2>3 DEF LatestWaits
<1>6. ClosesInTurn' /\ WireOfSession' /\ OneWire'
  BY <1>1, <1>3 DEF ClosesInTurn, WireOfSession, OneWire
<1>7. KeptSessions' /\ LeftIsFinal' /\ ActiveSession' /\ ViewOfActive' /\ ViewOfSwitch'
  BY <1>1, <1>2, <1>3
     DEF KeptSessions, LeftIsFinal, ActiveSession, ViewOfActive, ViewOfSwitch
<1>8. RetryAsAnnounced' /\ TimerOfStarted'
  BY DEF RetryAsAnnounced, TimerOfStarted
<1>. QED BY <1>4, <1>5, <1>6, <1>7, <1>8

LEMMA UserStep ==
  ASSUME Inv, UserNext \/ TimerFires
  PROVE  Inv'
<1>. USE ControllerAssumption
<1>1. ASSUME NEW s \in Servers, Connect(s) PROVE Inv'
  BY <1>1, CallStep DEF Connect, ResumeReconnect, ReplaceConnection, Inv, Typed
<1>2. CASE Retry
  BY <1>2, CallStep DEF Retry, ResumeReconnect, ReplaceConnection, Inv, Typed
<1>3. CASE Disconnect
  BY <1>3, CallStep DEF Disconnect, Inv, Typed
<1>4. CASE StopReconnect
  <2>1. /\ timer' = 0 /\ reconnect' = "none" /\ stopped' = TRUE
        /\ UNCHANGED <<generation, active, step, barrier, closeFailed, reached, view, disposed, left,
                      phase, wire, starting, closing>>
    BY <1>4 DEF StopReconnect, mountVars, sessionVars
  <2>2. Typed' /\ CallsInOrder' /\ LatestWaits' /\ ClosesInTurn'
    BY <2>1, WaitsUnchanged DEF Inv, Typed, CallsInOrder, LatestWaits, ClosesInTurn
  <2>3. WireOfSession' /\ OneWire' /\ KeptSessions' /\ LeftIsFinal'
    BY <2>1, WaitsUnchanged DEF Inv, WireOfSession, OneWire, KeptSessions, LeftIsFinal
  <2>4. ActiveSession' /\ ViewOfActive' /\ ViewOfSwitch'
    BY <2>1 DEF Inv, ActiveSession, ViewOfActive, ViewOfSwitch
  <2>5. RetryAsAnnounced' /\ TimerOfStarted'
    BY <2>1 DEF RetryAsAnnounced, TimerOfStarted
  <2>. QED BY <2>2, <2>3, <2>4, <2>5 DEF Inv
<1>6. CASE Unmount \/ Remount
  BY <1>6, WaitsUnchanged
     DEF Inv, Typed, CallsInOrder, LatestWaits, ClosesInTurn, WireOfSession, OneWire,
         KeptSessions, LeftIsFinal, ActiveSession, ViewOfActive, ViewOfSwitch,
         RetryAsAnnounced, TimerOfStarted, Unmount, Remount,
         sessionVars, retryVars, snapshotVars
<1>5. CASE TimerFires
  <2>1. CASE RetryIsStale
    <3>1. disposed
      BY <1>5, <2>1 DEF TimerFires, RetryIsStale, Inv, RetryAsAnnounced
    <3>. QED
      BY <1>5, <2>1, <3>1, WaitsUnchanged
         DEF TimerFires, Inv, Typed, CallsInOrder, LatestWaits, ClosesInTurn,
             WireOfSession, OneWire, KeptSessions, LeftIsFinal, ActiveSession, ViewOfActive,
             ViewOfSwitch, RetryAsAnnounced, TimerOfStarted, mountVars, sessionVars, snapshotVars
  <2>2. CASE ~RetryIsStale
    BY <1>5, <2>2, CallStep DEF TimerFires, RetryIsStale, ReplaceConnection, Inv, Typed
  <2>. QED BY <2>1, <2>2
<1>. QED BY <1>1, <1>2, <1>3, <1>4, <1>5, <1>6 DEF UserNext

\* The end of the window hands over the last session.
LEMMA DisposeStep ==
  ASSUME Inv, DisposeUnlessRetained
  PROVE  Inv'
<1>. USE ControllerAssumption DEF Inv, Typed, Generations, sessionVars, snapshotVars
<1>1. CASE mounted
  BY <1>1, WaitsUnchanged
     DEF DisposeUnlessRetained, CallsInOrder, LatestWaits, ClosesInTurn,
         WireOfSession, OneWire, KeptSessions, LeftIsFinal, ActiveSession, ViewOfActive,
         ViewOfSwitch, RetryAsAnnounced, TimerOfStarted
<1>2. CASE ~mounted
  <2>. DEFINE item == [session |-> active, waiter |-> 0]
  <2>1. /\ disposed' = TRUE /\ active' = 0 /\ timer' = 0 /\ left' = TRUE
        /\ barrier' = Append(barrier, item)
        /\ UNCHANGED <<generation, step, closeFailed, stopped, reached, phase, wire, starting, closing>>
    BY <1>2 DEF DisposeUnlessRetained, Detached
  <2>2. item \in Items /\ item.session = active /\ item.waiter = 0
    BY DEF Items
  <2>. HIDE DEF item
  <2>3. /\ barrier' \in Seq(Items) /\ barrier' # <<>>
        /\ \A g : Waits(g)' <=> Waits(g) \/ g = active
        /\ barrier # <<>> => Head(barrier') = Head(barrier)
        /\ barrier'[Len(barrier')].waiter = 0
        /\ \A n \in 1..Len(barrier') :
             n # Len(barrier') => n \in 1..Len(barrier) /\ barrier'[n] = barrier[n]
    BY <2>1, <2>2, Appended
  <2>4. Typed' /\ CallsInOrder'
    BY <2>1, <2>3 DEF CallsInOrder, Before
  <2>5. LatestWaits'
    <3>1. \A n \in 1..Len(barrier') : barrier'[n].waiter <= generation
      <4>. TAKE n \in 1..Len(barrier')
      <4>1. CASE n = Len(barrier')
        BY <2>3, <4>1
      <4>2. CASE n # Len(barrier')
        BY <2>3, <4>2 DEF LatestWaits
      <4>. QED BY <4>1, <4>2
    <3>. QED BY <2>1, <3>1 DEF LatestWaits
  <2>6. ClosesInTurn' /\ WireOfSession' /\ OneWire'
    BY <2>1, <2>3 DEF ClosesInTurn, WireOfSession, OneWire
  <2>7. KeptSessions' /\ LeftIsFinal' /\ ActiveSession' /\ ViewOfActive' /\ ViewOfSwitch'
    BY <2>1, <2>3 DEF KeptSessions, LeftIsFinal, ActiveSession, ViewOfActive, ViewOfSwitch
  <2>8. RetryAsAnnounced' /\ TimerOfStarted'
    BY <2>1 DEF RetryAsAnnounced, TimerOfStarted
  <2>. QED BY <2>4, <2>5, <2>6, <2>7, <2>8
<1>. QED BY <1>1, <1>2

\* When a close is over the first of the barrier goes, and only the call that
\* waited for it goes on.
LEMMA BarrierMovesOn ==
  ASSUME Inv, barrier # <<>>, BarrierMoves, UNCHANGED <<generation, disposed>>
  PROVE  /\ barrier' \in Seq(Items)
         /\ \A g : Waits(g)' => Waits(g)
         /\ \A g : Waits(g) => Waits(g)' \/ Head(barrier).session = g
         /\ Waits(Head(barrier).session)
         /\ step' \in [Generations -> Before \cup {"starting", "done"}]
         /\ \A g \in Generations :
              \/ step'[g] = step[g]
              \/ step[g] = "switching" /\ step'[g] = "switched"
              \/ step[g] = "leaving" /\ step'[g] = "left"
         /\ LatestWaits'
<1>. USE ControllerAssumption
<1>1. barrier \in Seq(Items) /\ barrier' = Tail(barrier)
  BY DEF Inv, Typed, BarrierMoves
<1>2. /\ step' \in [Generations -> Before \cup {"starting", "done"}]
      /\ \A g \in Generations :
           /\ \/ step'[g] = step[g]
              \/ step[g] = "switching" /\ step'[g] = "switched"
              \/ step[g] = "leaving" /\ step'[g] = "left"
           /\ g # Head(barrier).waiter => step'[g] = step[g]
  BY DEF Inv, Typed, BarrierMoves, Before
<1>3. \A n \in 1..Len(barrier') : barrier'[n].waiter <= generation
  <2>1. \A n \in 1..Len(barrier') : n + 1 \in 1..Len(barrier) /\ barrier'[n] = barrier[n + 1]
    BY <1>1
  <2>. QED BY <2>1 DEF Inv, LatestWaits
<1>4. ASSUME ~disposed, barrier' # <<>>
      PROVE  /\ generation # 0 /\ step'[generation] \in {"switching", "leaving"}
             /\ barrier'[Len(barrier')].waiter = generation
             /\ \A n \in 1..Len(barrier') : n # Len(barrier') => barrier'[n].waiter # generation
  <2>1. /\ barrier'[Len(barrier')] = barrier[Len(barrier)]
        /\ Head(barrier) = barrier[1] /\ 1 # Len(barrier) /\ 1 \in 1..Len(barrier)
        /\ \A n \in 1..Len(barrier') :
             n # Len(barrier') =>
               n + 1 \in 1..Len(barrier) /\ n + 1 # Len(barrier) /\ barrier'[n] = barrier[n + 1]
    BY <1>1, <1>4, Moved
  <2>2. /\ generation # 0 /\ step[generation] \in {"switching", "leaving"}
        /\ barrier[Len(barrier)].waiter = generation
        /\ \A n \in 1..Len(barrier) : n # Len(barrier) => barrier[n].waiter # generation
    BY <1>4 DEF Inv, LatestWaits
  <2>3. Head(barrier).waiter # generation
    BY <2>1, <2>2
  <2>4. generation \in Generations
    BY <2>2 DEF Inv, Typed, Generations
  <2>. QED BY <1>2, <2>1, <2>2, <2>3, <2>4
<1>. QED BY <1>1, <1>2, <1>3, <1>4, Moved DEF LatestWaits

\* What a failure makes of the retry, when the session is the current one.
RetryAfterFailure ==
  /\ view' = "error" /\ timer' \in 0..generation
  /\ stopped' \in BOOLEAN /\ reached' = reached
  /\ timer' # 0 <=> reconnect' = "scheduled"
  /\ timer' # 0 => timer' = generation /\ reached /\ ~stopped'

LEMMA AttemptErrorRetries ==
  ASSUME Inv, ~disposed, active # 0, NEW code, HandleAttemptError(code)
  PROVE  RetryAfterFailure
BY DEF Inv, Typed, CallsInOrder, RetryAsAnnounced, HandleAttemptError, MayRetry, RetryAfterFailure

LEMMA ErrorRetries ==
  ASSUME Inv, ~disposed, active # 0, NEW code, NEW exited \in BOOLEAN, HandleError(code, exited)
  PROVE  RetryAfterFailure
<1>1. \/ stopped' = TRUE /\ timer' = 0 /\ view' = "error" /\ reconnect' = "none" /\ reached' = reached
      \/ HandleAttemptError(code)
  BY DEF HandleError
<1>2. CASE HandleAttemptError(code)
  BY <1>2, AttemptErrorRetries
<1>3. CASE ~HandleAttemptError(code)
  <2>1. timer' = 0 /\ view' = "error" /\ reconnect' = "none" /\ reached' = reached
    BY <1>1, <1>3
  <2>2. stopped' \in BOOLEAN
    BY <1>1, <1>3
  <2>3. timer' \in 0..generation
    BY <2>1 DEF Inv, Typed
  <2>. QED BY <2>1, <2>2, <2>3 DEF RetryAfterFailure
<1>. QED BY <1>2, <1>3

LEMMA BarrierStep ==
  ASSUME Inv, NothingToClose \/ \E g \in Generations : CloseEnds(g)
  PROVE  Inv'
<1>. USE ControllerAssumption
     DEF Inv, Typed, Generations, retryVars, snapshotVars, mountVars, sessionVars
<1>1. /\ barrier # <<>> /\ BarrierMoves
      /\ UNCHANGED <<generation, active, disposed, left, timer, stopped, reached, view, reconnect,
                    wire, starting>>
  <2>1. ASSUME NEW g \in Generations, CloseEnds(g) PROVE barrier # <<>>
    BY <2>1 DEF CloseEnds, ClosesInTurn, UnderWay
  <2>. QED BY <2>1 DEF NothingToClose, CloseEnds
<1>2. /\ barrier' \in Seq(Items)
      /\ \A g : Waits(g)' => Waits(g)
      /\ \A g : Waits(g) => Waits(g)' \/ Head(barrier).session = g
      /\ Waits(Head(barrier).session)
      /\ step' \in [Generations -> Before \cup {"starting", "done"}]
      /\ \A g \in Generations :
           \/ step'[g] = step[g]
           \/ step[g] = "switching" /\ step'[g] = "switched"
           \/ step[g] = "leaving" /\ step'[g] = "left"
      /\ LatestWaits'
  BY <1>1, BarrierMovesOn
<1>3. barrier' = Tail(barrier)
  BY <1>1 DEF BarrierMoves
<1>4. LeftIsFinal' /\ ViewOfSwitch' /\ TimerOfStarted' /\ RetryAsAnnounced'
  BY <1>1, <1>2 DEF LeftIsFinal, ViewOfSwitch, TimerOfStarted, RetryAsAnnounced
<1>5. CASE NothingToClose
  <2>1. Head(barrier).session = 0 /\ UNCHANGED <<closeFailed, phase, closing>>
    BY <1>5 DEF NothingToClose
  <2>2. Typed' /\ CallsInOrder'
    <3>1. Typed'
      BY <1>1, <1>2, <2>1
    <3>2. active # 0 => step'[active] = step[active]
      BY <1>1, <1>2 DEF CallsInOrder
    <3>. QED BY <1>1, <1>2, <2>1, <3>1, <3>2 DEF CallsInOrder, Before
  <2>3. ClosesInTurn' /\ WireOfSession' /\ OneWire' /\ KeptSessions'
    BY <1>1, <1>2, <2>1 DEF ClosesInTurn, WireOfSession, OneWire, KeptSessions
  <2>4. ActiveSession' /\ ViewOfActive'
    BY <1>1, <2>1 DEF ActiveSession, ViewOfActive
  <2>. QED BY <1>2, <1>4, <2>2, <2>3, <2>4
<1>6. ASSUME NEW g \in Generations, CloseEnds(g) PROVE Inv'
  <2>1. /\ closing[g] \in UnderWay /\ Head(barrier).session = g /\ g # active
        /\ phase' = [phase EXCEPT ![g] = "closed"] /\ closing' = [closing EXCEPT ![g] = "done"]
        /\ closeFailed' \in BOOLEAN /\ (closeFailed => closeFailed')
        /\ ~closeFailed' => wire[g] \notin Live
        /\ phase[g] = "closing"
    <3>1. closing[g] \in UnderWay
      BY <1>6 DEF CloseEnds, UnderWay
    <3>2. Head(barrier).session = g /\ phase[g] = "closing"
      BY <3>1 DEF ClosesInTurn
    <3>3. g # active
      BY <1>2, <3>2 DEF CallsInOrder
    <3>4. closeFailed' \in BOOLEAN /\ (closeFailed => closeFailed')
          /\ (~closeFailed' => wire[g] \notin Live)
      BY <1>6 DEF CloseEnds, WireOfSession, Live
    <3>. QED BY <1>6, <3>1, <3>2, <3>3, <3>4 DEF CloseEnds
  <2>2. Typed' /\ CallsInOrder'
    <3>1. Typed'
      BY <1>1, <1>2, <2>1 DEF SessionPhases
    <3>2. step[g] \notin Before
      BY <2>1 DEF CallsInOrder, UnderWay
    <3>3. active # 0 => step'[active] = step[active]
      BY <1>1, <1>2 DEF CallsInOrder
    <3>4. \A h \in Generations : step'[h] \in Before => step[h] \in Before
      BY <1>2 DEF Before
    <3>5. ASSUME NEW h \in Generations, step'[h] \in Before
          PROVE  phase'[h] = "none" /\ closing'[h] = "no" /\ ~starting'[h] /\ ~Waits(h)'
      <4>1. step[h] \in Before /\ h # g
        BY <1>2, <3>2, <3>4, <3>5 DEF Before
      <4>. QED BY <1>1, <1>2, <2>1, <4>1 DEF CallsInOrder
    <3>6. \A h \in Generations : h > generation => step'[h] = "none"
      BY <1>2 DEF CallsInOrder
    <3>. QED BY <1>1, <1>2, <3>1, <3>3, <3>5, <3>6 DEF CallsInOrder
  <2>3. ClosesInTurn' /\ WireOfSession' /\ OneWire' /\ KeptSessions'
    BY <1>1, <1>2, <2>1 DEF ClosesInTurn, WireOfSession, OneWire, KeptSessions, UnderWay
  <2>4. ActiveSession' /\ ViewOfActive'
    BY <1>1, <2>1 DEF ActiveSession, ViewOfActive
  <2>. QED BY <1>2, <1>4, <2>2, <2>3, <2>4
<1>. QED BY <1>5, <1>6

\* The steps of a close before its end, and the end of a disconnect command
LEMMA CloseStep ==
  ASSUME Inv, NEW g \in Generations,
         CloseBegins(g) \/ CancelAnswered(g) \/ StartAwaited(g) \/ WireCloses(g)
  PROVE  Inv'
<1>. USE ControllerAssumption
     DEF Inv, Typed, Generations, retryVars, snapshotVars, mountVars
<1>1. /\ UNCHANGED <<generation, active, step, barrier, disposed, left, timer, stopped, reached, view,
                    reconnect, closeFailed>>
      /\ \A h : Waits(h)' <=> Waits(h)
  BY WaitsUnchanged DEF CloseBegins, CancelAnswered, StartAwaited, WireCloses
<1>2. LatestWaits' /\ LeftIsFinal' /\ ViewOfSwitch' /\ TimerOfStarted' /\ RetryAsAnnounced'
  BY <1>1 DEF LatestWaits, LeftIsFinal, ViewOfSwitch, TimerOfStarted, RetryAsAnnounced
<1>3. CASE CloseBegins(g)
  <2>1. /\ barrier # <<>> /\ Head(barrier).session = g /\ Waits(g)
        /\ closing[g] = "no" /\ phase' = [phase EXCEPT ![g] = "closing"]
        /\ closing' = [closing EXCEPT ![g] = IF wire[g] = "pending" THEN "cancelling" ELSE "waiting"]
        /\ starting' = [starting EXCEPT ![g] = @ /\ phase[g] # "initializing"] /\ wire' = wire
    <3>1. barrier # <<>> /\ Head(barrier).session = g
      BY <1>3 DEF CloseBegins
    <3>2. Waits(g)
      <4>1. Len(barrier) \in Nat \ {0} /\ Head(barrier) = barrier[1]
        BY <3>1
      <4>. QED BY <3>1, <4>1 DEF Waits
    <3>. QED BY <1>3, <3>1, <3>2 DEF CloseBegins, StartAfterRouter
  <2>2. g # active /\ step[g] \notin Before /\ phase[g] # "closed"
    BY <2>1 DEF CallsInOrder, ClosesInTurn
  <2>3. Typed'
    BY <1>1, <2>1 DEF SessionPhases, UnderWay
  <2>4. CallsInOrder' /\ ClosesInTurn'
    BY <1>1, <2>1, <2>2 DEF CallsInOrder, ClosesInTurn, UnderWay
  <2>5. WireOfSession' /\ OneWire'
    BY <1>1, <2>1, <2>2 DEF WireOfSession, OneWire
  <2>6. KeptSessions' /\ ActiveSession' /\ ViewOfActive'
    BY <1>1, <2>1, <2>2 DEF KeptSessions, ActiveSession, ViewOfActive
  <2>. QED BY <1>2, <2>3, <2>4, <2>5, <2>6
<1>4. CASE CancelAnswered(g)
  <2>1. /\ closing[g] = "cancelling" /\ UNCHANGED <<phase, wire, starting>>
        /\ \E now \in {"waiting", "abandoned"} : closing' = [closing EXCEPT ![g] = now]
    BY <1>4 DEF CancelAnswered
  <2>2. Typed' /\ CallsInOrder' /\ ClosesInTurn'
    BY <1>1, <2>1 DEF CallsInOrder, ClosesInTurn, UnderWay, Before
  <2>3. WireOfSession' /\ OneWire' /\ KeptSessions' /\ ActiveSession' /\ ViewOfActive'
    BY <1>1, <2>1 DEF WireOfSession, OneWire, KeptSessions, ActiveSession, ViewOfActive
  <2>. QED BY <1>2, <2>2, <2>3
<1>5. CASE StartAwaited(g)
  <2>1. /\ closing[g] = "waiting" /\ ~starting[g] /\ UNCHANGED <<phase, starting>>
        /\ closing' = [closing EXCEPT ![g] = "reclaiming"]
        /\ wire' = IF wire[g] = "open" THEN [wire EXCEPT ![g] = "closing"] ELSE wire
    BY <1>5 DEF StartAwaited, StartIsOver, ClosedWire
  <2>2. phase[g] = "closing"
    BY <2>1 DEF ClosesInTurn, UnderWay
  <2>3. Typed' /\ CallsInOrder' /\ ClosesInTurn'
    BY <1>1, <2>1 DEF CallsInOrder, ClosesInTurn, UnderWay, Before, WireStates
  <2>4. WireOfSession' /\ OneWire'
    BY <1>1, <2>1, <2>2 DEF WireOfSession, OneWire
  <2>5. KeptSessions' /\ ActiveSession' /\ ViewOfActive'
    BY <1>1, <2>1 DEF KeptSessions, ActiveSession, ViewOfActive
  <2>. QED BY <1>2, <2>3, <2>4, <2>5
<1>6. CASE WireCloses(g)
  <2>1. /\ wire[g] = "closing" /\ UNCHANGED <<phase, closing>>
        /\ wire' = [wire EXCEPT ![g] = "closed"]
        /\ starting' = [starting EXCEPT ![g] = FALSE]
    BY <1>6 DEF WireCloses
  <2>2. Typed' /\ CallsInOrder' /\ ClosesInTurn'
    BY <1>1, <2>1 DEF CallsInOrder, ClosesInTurn, WireStates
  <2>3. WireOfSession' /\ OneWire'
    BY <1>1, <2>1 DEF WireOfSession, OneWire, Live
  <2>4. KeptSessions' /\ ViewOfActive'
    BY <1>1, <2>1 DEF KeptSessions, ViewOfActive
  <2>5. ActiveSession'
    <3>1. phase[g] \in {"error", "closing", "closed"}
      BY <2>1 DEF WireOfSession
    <3>2. active # 0 /\ active # g => starting'[active] = starting[active]
      BY <2>1
    <3>. QED BY <1>1, <2>1, <3>1, <3>2 DEF ActiveSession
  <2>. QED BY <1>2, <2>2, <2>3, <2>4, <2>5
<1>. QED BY <1>3, <1>4, <1>5, <1>6

\* A session starts when everything before it was closed.
LEMMA StartStep ==
  ASSUME Inv, NEW g \in Generations, StartSession(g)
  PROVE  Inv'
<1>. USE ControllerAssumption
     DEF Inv, Typed, Generations, snapshotVars, mountVars
<1>1. /\ step[g] = "switched" /\ ~disposed /\ g = generation /\ ~closeFailed
      /\ step' = [step EXCEPT ![g] = "starting"] /\ active' = g
      /\ phase' = [phase EXCEPT ![g] = "connecting"]
      /\ wire' = [wire EXCEPT ![g] = "pending"]
      /\ starting' = [starting EXCEPT ![g] = TRUE]
      /\ UNCHANGED <<generation, barrier, disposed, left, timer, stopped, reached, view,
                    reconnect, closeFailed, closing>>
  BY DEF StartSession, MayStart
<1>2. \A h : Waits(h)' <=> Waits(h)
  BY <1>1, WaitsUnchanged
<1>3. barrier = <<>> /\ active = 0 /\ ~left
  <2>1. barrier = <<>>
    BY <1>1 DEF LatestWaits
  <2>2. active = 0
    BY <1>1 DEF CallsInOrder
  <2>3. ~left
    BY <1>1 DEF LeftIsFinal
  <2>. QED BY <2>1, <2>2, <2>3
<1>4. \A h : ~Waits(h)
  <2>1. Len(barrier) = 0
    BY <1>3, EmptySeq
  <2>. QED BY <2>1 DEF Waits
<1>5. \A h \in Generations : wire[h] \notin Live
  <2>. TAKE h \in Generations
  <2>1. phase[h] \in {"none", "closed"}
    BY <1>3, <1>4 DEF KeptSessions
  <2>2. CASE phase[h] = "none"
    BY <2>2 DEF WireOfSession, Live
  <2>3. CASE phase[h] = "closed"
    BY <1>1, <2>3 DEF WireOfSession, ClosesInTurn
  <2>. QED BY <2>1, <2>2, <2>3
<1>6. Typed'
  BY <1>1 DEF SessionPhases, WireStates
<1>7. CallsInOrder' /\ LatestWaits'
  BY <1>1, <1>2, <1>3, <1>4 DEF CallsInOrder, LatestWaits, Before
<1>8. phase[g] = "none" /\ closing[g] = "no"
  BY <1>1 DEF CallsInOrder, Before
<1>9. ClosesInTurn' /\ WireOfSession'
  BY <1>1, <1>8 DEF ClosesInTurn, WireOfSession, UnderWay
<1>10. OneWire' /\ KeptSessions'
  BY <1>1, <1>2, <1>3, <1>5 DEF OneWire, KeptSessions, Live
<1>11. LeftIsFinal' /\ ActiveSession' /\ ViewOfActive' /\ ViewOfSwitch'
  BY <1>1, <1>3 DEF LeftIsFinal, ActiveSession, ViewOfActive, ViewOfSwitch
<1>12. RetryAsAnnounced' /\ TimerOfStarted'
  BY <1>1 DEF RetryAsAnnounced, TimerOfStarted
<1>. QED BY <1>6, <1>7, <1>9, <1>10, <1>11, <1>12

\* The ends of the calls
LEMMA CallEndsStep ==
  ASSUME Inv, NEW g \in Generations, StartNothing(g) \/ LeaveEnds(g) \/ StartReturns(g)
  PROVE  Inv'
<1>. USE ControllerAssumption
     DEF Inv, Typed, Generations, retryVars, snapshotVars, mountVars, sessionVars
<1>1. /\ step[g] \in {"switched", "left", "starting"}
      /\ step' = [step EXCEPT ![g] = "done"]
      /\ UNCHANGED <<generation, active, barrier, disposed, left, closeFailed, phase, wire, starting,
                    closing>>
  BY DEF StartNothing, LeaveEnds, StartReturns
<1>2. \A h : Waits(h)' <=> Waits(h)
  BY <1>1, WaitsUnchanged
<1>3. /\ UNCHANGED <<timer, stopped, reached>>
      /\ \/ UNCHANGED <<view, reconnect>>
         \/ /\ ~disposed /\ g = generation /\ step[g] # "starting"
            /\ view' = "error" /\ reconnect' = "none"
  <2>1. CASE StartNothing(g) \/ LeaveEnds(g)
    BY <2>1 DEF StartNothing, LeaveEnds
  <2>2. CASE StartReturns(g)
    <3>1. ~(IsCurrentAttempt(g) /\ phase[g] # "ready" /\ view # "error")
      BY <2>2 DEF StartReturns, IsCurrentAttempt, ActiveSession, ViewOfActive
    <3>. QED BY <2>2, <3>1 DEF StartReturns
  <2>. QED BY <2>1, <2>2
<1>4. g = generation /\ step[g] # "starting" => active = 0 /\ (~disposed => timer = 0)
  BY <1>1 DEF CallsInOrder, TimerOfStarted
<1>5. Typed'
  BY <1>1, <1>3
<1>6. CallsInOrder'
  BY <1>1, <1>2 DEF CallsInOrder, Before
<1>7. LatestWaits'
  BY <1>1 DEF LatestWaits
<1>8. ClosesInTurn' /\ WireOfSession' /\ OneWire' /\ KeptSessions'
  BY <1>1, <1>2 DEF ClosesInTurn, WireOfSession, OneWire, KeptSessions
<1>9. LeftIsFinal' /\ ActiveSession'
  BY <1>1 DEF LeftIsFinal, ActiveSession
<1>10. ViewOfActive' /\ ViewOfSwitch'
  BY <1>1, <1>3, <1>4 DEF ViewOfActive, ViewOfSwitch
<1>11. RetryAsAnnounced' /\ TimerOfStarted'
  BY <1>1, <1>3, <1>4 DEF RetryAsAnnounced, TimerOfStarted
<1>. QED BY <1>5, <1>6, <1>7, <1>8, <1>9, <1>10, <1>11

\* A session fails, and the controller schedules a retry at most.
LEMMA FailStep ==
  ASSUME Inv, NEW g \in Generations, ConnectFails(g) \/ SessionFails(g)
  PROVE  Inv'
<1>. USE ControllerAssumption
     DEF Inv, Typed, Generations, mountVars
<1>1. /\ UNCHANGED <<generation, active, step, barrier, disposed, left, closeFailed, closing>>
      /\ \A h : Waits(h)' <=> Waits(h)
  BY WaitsUnchanged DEF ConnectFails, SessionFails
<1>2. /\ starting' = [starting EXCEPT ![g] = FALSE] \/ (starting' = starting /\ phase'[g] = "error")
      /\ \/ phase' = phase /\ phase[g] # "connecting" /\ starting'[g] = FALSE /\ wire[g] = "pending"
         \/ /\ phase[g] \in {"connecting", "initializing", "ready"}
            /\ phase' = [phase EXCEPT ![g] = "error"]
      /\ \/ wire' = wire
         \/ wire[g] = "pending" /\ wire' = [wire EXCEPT ![g] = "refused"]
         \/ wire[g] = "open" /\ phase'[g] = "error" /\ wire' = [wire EXCEPT ![g] = "closing"]
      /\ wire'[g] = "pending" => starting'[g]
  <2>1. CASE ConnectFails(g)
    BY <2>1 DEF ConnectFails, Fail
  <2>2. CASE SessionFails(g)
    <3>1. /\ phase[g] \in {"connecting", "initializing", "ready"}
          /\ phase' = [phase EXCEPT ![g] = "error"]
          /\ starting' = [starting EXCEPT ![g] = @ /\ phase[g] = "connecting"]
          /\ wire' = IF wire[g] = "open" THEN [wire EXCEPT ![g] = "closing"] ELSE wire
      BY <2>2 DEF SessionFails, Fail, ClosedWire
    <3>2. CASE phase[g] = "connecting"
      <4>1. starting' = starting
        BY <3>1, <3>2
      <4>. QED BY <3>1, <3>2, <4>1 DEF WireOfSession
    <3>3. CASE phase[g] # "connecting"
      BY <3>1, <3>3 DEF WireOfSession
    <3>. QED BY <3>2, <3>3
  <2>. QED BY <2>1, <2>2
<1>3. \/ UNCHANGED <<retryVars, snapshotVars>> /\ (phase' = phase \/ ~IsCurrentAttempt(g))
      \/ phase' # phase /\ IsCurrentAttempt(g) /\ RetryAfterFailure
  <2>1. ASSUME NEW code, NEW exited \in BOOLEAN, Fail(g, code, exited), phase[g] # "error"
        PROVE  \/ UNCHANGED <<retryVars, snapshotVars>> /\ ~IsCurrentAttempt(g)
               \/ phase' # phase /\ IsCurrentAttempt(g) /\ RetryAfterFailure
    BY <2>1, ErrorRetries DEF Fail, IsCurrentAttempt, SessionPhases
  <2>2. CASE ConnectFails(g)
    BY <2>1, <2>2 DEF ConnectFails
  <2>3. CASE SessionFails(g)
    BY <2>1, <2>3 DEF SessionFails
  <2>. QED BY <2>2, <2>3
<1>4. Typed'
  <2>1. timer' \in 0..generation /\ stopped' \in BOOLEAN /\ reached' \in BOOLEAN
    BY <1>3 DEF RetryAfterFailure, retryVars
  <2>2. phase' \in [Generations -> SessionPhases]
    BY <1>2 DEF SessionPhases
  <2>3. wire' \in [Generations -> WireStates]
    BY <1>2 DEF WireStates
  <2>4. starting' \in [Generations -> BOOLEAN]
    BY <1>2
  <2>. QED BY <1>1, <2>1, <2>2, <2>3, <2>4
<1>5. CallsInOrder' /\ LatestWaits'
  <2>1. step[g] \notin Before
    BY <1>2 DEF CallsInOrder, WireOfSession
  <2>2. \A h \in Generations : h # g => phase'[h] = phase[h] /\ starting'[h] = starting[h]
    BY <1>2
  <2>3. CallsInOrder'
    BY <1>1, <2>1, <2>2 DEF CallsInOrder
  <2>4. LatestWaits'
    BY <1>1 DEF LatestWaits
  <2>. QED BY <2>3, <2>4
<1>6. ClosesInTurn' /\ WireOfSession'
  BY <1>1, <1>2 DEF ClosesInTurn, WireOfSession, UnderWay, Live
<1>7. OneWire' /\ KeptSessions'
  BY <1>1, <1>2 DEF OneWire, KeptSessions
<1>8. LeftIsFinal' /\ ViewOfSwitch'
  BY <1>1, <1>3
     DEF LeftIsFinal, ViewOfSwitch, IsCurrentAttempt, CallsInOrder, snapshotVars
<1>9. ActiveSession'
  <2>1. CASE active = g
    <3>1. phase'[g] = "error"
      BY <1>2, <2>1 DEF ActiveSession, WireOfSession
    <3>. QED BY <1>1, <2>1, <3>1 DEF ActiveSession
  <2>2. CASE active # g
    <3>1. active # 0 => phase'[active] = phase[active] /\ starting'[active] = starting[active]
      BY <1>2, <2>2
    <3>. QED BY <1>1, <3>1 DEF ActiveSession
  <2>. QED BY <2>1, <2>2
<1>10. ViewOfActive'
  BY <1>1, <1>2, <1>3
     DEF ViewOfActive, IsCurrentAttempt, CallsInOrder, RetryAfterFailure, snapshotVars
<1>11. RetryAsAnnounced' /\ TimerOfStarted'
  BY <1>1, <1>3
     DEF RetryAsAnnounced, TimerOfStarted, RetryAfterFailure, IsCurrentAttempt, CallsInOrder,
         LeftIsFinal, retryVars, snapshotVars
<1>. QED BY <1>4, <1>5, <1>6, <1>7, <1>8, <1>9, <1>10, <1>11

\* A session goes on: its connection is up, or it is initialized.
LEMMA ProgressStep ==
  ASSUME Inv, NEW g \in Generations, ConnectSucceeds(g) \/ Initialized(g)
  PROVE  Inv'
<1>. USE ControllerAssumption
     DEF Inv, Typed, Generations, retryVars, mountVars
<1>1. /\ UNCHANGED <<generation, active, step, barrier, disposed, left, closeFailed, closing>>
      /\ \A h : Waits(h)' <=> Waits(h)
  BY WaitsUnchanged DEF ConnectSucceeds, Initialized
<1>2. CASE ConnectSucceeds(g)
  <2>1. /\ wire[g] = "pending" /\ UNCHANGED <<timer, stopped, reached, reconnect, starting>>
        /\ \/ /\ phase[g] = "connecting" /\ phase' = [phase EXCEPT ![g] = "initializing"]
              /\ wire' = [wire EXCEPT ![g] = "open"]
              /\ view' = IF IsCurrentAttempt(g) THEN "initializing" ELSE view
           \/ /\ phase[g] # "connecting" /\ UNCHANGED <<phase, view>>
              /\ wire' = [wire EXCEPT ![g] = "closing"]
    BY <1>2 DEF ConnectSucceeds
  <2>2. phase[g] \notin {"none", "initializing", "ready"} /\ starting[g]
    BY <2>1 DEF WireOfSession
  <2>3. Typed'
    BY <1>1, <2>1 DEF SessionPhases, WireStates
  <2>4. CallsInOrder' /\ LatestWaits'
    BY <1>1, <2>1 DEF CallsInOrder, LatestWaits
  <2>5. ClosesInTurn' /\ WireOfSession'
    BY <1>1, <2>1, <2>2 DEF ClosesInTurn, WireOfSession, UnderWay, Live, SessionPhases
  <2>6. OneWire' /\ KeptSessions'
    BY <1>1, <2>1 DEF OneWire, KeptSessions
  <2>7. LeftIsFinal' /\ ActiveSession' /\ ViewOfActive'
    BY <1>1, <2>1, <2>2 DEF LeftIsFinal, ActiveSession, ViewOfActive, IsCurrentAttempt, CallsInOrder
  <2>8. ViewOfSwitch' /\ RetryAsAnnounced' /\ TimerOfStarted'
    BY <1>1, <2>1
       DEF ViewOfSwitch, RetryAsAnnounced, TimerOfStarted, IsCurrentAttempt, CallsInOrder,
           ViewOfActive
  <2>. QED BY <2>3, <2>4, <2>5, <2>6, <2>7, <2>8
<1>3. CASE Initialized(g)
  <2>1. /\ phase[g] = "initializing" /\ phase' = [phase EXCEPT ![g] = "ready"] /\ wire' = wire
        /\ starting' = [starting EXCEPT ![g] = FALSE]
        /\ \/ ~IsCurrentAttempt(g) /\ UNCHANGED <<view, reconnect, reached, stopped, timer>>
           \/ /\ IsCurrentAttempt(g) /\ view' = "ready" /\ reconnect' = "none"
              /\ reached' = TRUE /\ stopped' = FALSE /\ timer' = 0
    BY <1>3 DEF Initialized
  <2>2. Typed'
    <3>1. phase' \in [Generations -> SessionPhases] /\ starting' \in [Generations -> BOOLEAN]
      BY <2>1 DEF SessionPhases
    <3>2. timer' \in 0..generation /\ stopped' \in BOOLEAN /\ reached' \in BOOLEAN
      <4>1. CASE IsCurrentAttempt(g)
        <5>1. timer' = 0 /\ stopped' = FALSE /\ reached' = TRUE
          BY <2>1, <4>1
        <5>2. 0 \in 0..generation
          OBVIOUS
        <5>. HIDE DEF Inv, Typed
        <5>. QED BY <5>1, <5>2
      <4>2. CASE ~IsCurrentAttempt(g)
        BY <2>1, <4>2
      <4>. QED BY <4>1, <4>2
    <3>. QED BY <1>1, <2>1, <3>1, <3>2
  <2>3. CallsInOrder' /\ LatestWaits'
    BY <1>1, <2>1 DEF CallsInOrder, LatestWaits
  <2>4. ClosesInTurn' /\ WireOfSession'
    BY <1>1, <2>1 DEF ClosesInTurn, WireOfSession, UnderWay, Live
  <2>5. OneWire' /\ KeptSessions'
    BY <1>1, <2>1 DEF OneWire, KeptSessions
  <2>6. LeftIsFinal' /\ ActiveSession' /\ ViewOfActive'
    BY <1>1, <2>1 DEF LeftIsFinal, ActiveSession, ViewOfActive, IsCurrentAttempt, CallsInOrder
  <2>7. ViewOfSwitch' /\ RetryAsAnnounced' /\ TimerOfStarted'
    BY <1>1, <2>1
       DEF ViewOfSwitch, RetryAsAnnounced, TimerOfStarted, IsCurrentAttempt, CallsInOrder
  <2>. QED BY <2>2, <2>3, <2>4, <2>5, <2>6, <2>7
<1>. QED BY <1>2, <1>3

LEMMA Step ==
  ASSUME Inv, [Next]_vars
  PROVE  Inv'
<1>1. CASE UNCHANGED vars
  BY <1>1, WaitsUnchanged
     DEF vars, Inv, Typed, CallsInOrder, LatestWaits, ClosesInTurn, WireOfSession, OneWire,
         KeptSessions, LeftIsFinal, ActiveSession, ViewOfActive, ViewOfSwitch, RetryAsAnnounced,
         TimerOfStarted, retryVars, snapshotVars, mountVars, sessionVars
<1>. QED
  BY <1>1, UserStep, DisposeStep, BarrierStep, CloseStep, StartStep, CallEndsStep, FailStep,
     ProgressStep
     DEF Next, ControllerNext, SessionNext

-----------------------------------------------------------------------------
(* The values of the variables                                             *)

Scalars ==
  /\ target \in Servers \cup {NoServer}
  /\ view \in Views /\ reconnect \in {"none", "trying", "scheduled"}
  /\ mounted \in BOOLEAN /\ checking \in BOOLEAN /\ timed \in BOOLEAN
  /\ cause \in {"none", "network", "attention"}
  /\ retries \in Nat /\ shortExits \in Nat

\* The view shows a session that has not failed, or waits for one.
Hopeful == ~disposed /\ view \in {"connecting", "initializing", "ready"}

\* A call or retry adds at most one retry: its session fails once.
RetriesCounted ==
  /\ retries <= generation
  /\ Hopeful => retries < generation

\* Once the last short exit was counted nothing starts a session before the count
\* is reset: the automatic retries are over.
ExitsCounted ==
  /\ shortExits <= MaxShortExits
  /\ ~disposed /\ shortExits = MaxShortExits =>
       ~timed /\ timer = 0 /\ view \in {"error", "disconnected"}

\* What waits to be closed belongs to a call that was made.
SessionsMade == \A n \in 1..Len(barrier) : barrier[n].session <= generation

TypeInv == Scalars /\ RetriesCounted /\ ExitsCounted /\ SessionsMade

LEMMA CurrentIsHopeful ==
  ASSUME Inv, TypeInv, NEW g \in Generations, IsCurrentAttempt(g), phase[g] # "error"
  PROVE  Hopeful /\ retries < generation /\ shortExits < MaxShortExits
<1>1. active = g /\ g # 0 /\ ~disposed /\ view = phase[g] /\ phase[g] \in {"connecting", "initializing", "ready"}
  BY DEF Inv, ActiveSession, ViewOfActive, IsCurrentAttempt, Generations
<1>2. Hopeful BY <1>1 DEF Hopeful
<1>3. shortExits <= MaxShortExits /\ shortExits # MaxShortExits
  BY <1>1 DEF TypeInv, ExitsCounted
<1>4. shortExits \in Nat /\ MaxShortExits \in Nat BY ControllerAssumption DEF TypeInv, Scalars
<1>. QED BY <1>2, <1>3, <1>4 DEF TypeInv, RetriesCounted

LEMMA AttemptErrorCounts ==
  ASSUME Inv, TypeInv, retries < generation, NEW code, HandleAttemptError(code)
  PROVE  /\ view' = "error" /\ reconnect' \in {"none", "trying", "scheduled"}
         /\ retries' \in Nat /\ retries' <= generation
<1>1. view' = "error" BY DEF HandleAttemptError
<1>2. CASE view = "error" /\ reconnect # "none"
  <2>1. UNCHANGED <<retries, reconnect>> BY <1>2 DEF HandleAttemptError
  <2>. QED BY <1>1, <2>1 DEF TypeInv, Scalars, RetriesCounted
<1>3. CASE ~(view = "error" /\ reconnect # "none") /\ MayRetry(code)
  <2>1. retries' = retries + 1 /\ reconnect' = "scheduled" BY <1>3 DEF HandleAttemptError
  <2>2. generation \in Nat /\ retries \in Nat BY ControllerAssumption DEF Inv, Typed, TypeInv, Scalars
  <2>. QED BY <1>1, <2>1, <2>2
<1>4. CASE ~(view = "error" /\ reconnect # "none") /\ ~MayRetry(code)
  <2>1. retries' = retries /\ reconnect' = "none" BY <1>4 DEF HandleAttemptError
  <2>. QED BY <1>1, <2>1 DEF TypeInv, Scalars, RetriesCounted
<1>. QED BY <1>2, <1>3, <1>4

LEMMA ErrorCounts ==
  ASSUME Inv, TypeInv, NEW g \in Generations, IsCurrentAttempt(g), phase[g] # "error",
         NEW code, NEW exited \in BOOLEAN, HandleError(code, exited)
  PROVE  /\ view' = "error" /\ reconnect' \in {"none", "trying", "scheduled"} /\ timed' = FALSE
         /\ retries' \in Nat /\ retries' <= generation
         /\ shortExits' \in Nat /\ shortExits' <= MaxShortExits
         /\ shortExits' = MaxShortExits => timer' = 0
<1>1. retries < generation /\ shortExits < MaxShortExits BY CurrentIsHopeful
<1>2. shortExits \in Nat /\ MaxShortExits \in Nat \ {0} /\ retries \in Nat
  BY ControllerAssumption DEF TypeInv, Scalars
<1>3. timed' = FALSE BY DEF HandleError
<1>4. shortExits' = 0 \/ (exited /\ shortExits' = shortExits + 1) BY DEF HandleError
<1>5. shortExits' \in Nat /\ shortExits' <= MaxShortExits BY <1>1, <1>2, <1>4
<1>6. CASE exited /\ TooManyExits(shortExits')
  <2>1. timer' = 0 /\ view' = "error" /\ reconnect' = "none" /\ retries' = retries
    BY <1>6 DEF HandleError
  <2>. QED BY <1>2, <1>3, <1>5, <2>1 DEF TypeInv, RetriesCounted
<1>7. CASE ~(exited /\ TooManyExits(shortExits'))
  <2>1. HandleAttemptError(code) BY <1>7 DEF HandleError
  <2>2. shortExits' # MaxShortExits BY <1>2, <1>4, <1>7 DEF TooManyExits
  <2>. QED BY <1>1, <1>3, <1>5, <2>1, <2>2, AttemptErrorCounts
<1>. QED BY <1>6, <1>7

\* A call: the barrier gets the session that was active.
LEMMA CallCounts ==
  ASSUME Inv, TypeInv, NEW now, NextGeneration(now)
  PROVE  /\ SessionsMade' /\ generation' = generation + 1 /\ generation \in Nat
<1>1. /\ generation \in Nat /\ MaxGenerations \in Nat /\ active \in 0..generation
      /\ generation' = generation + 1 /\ generation < MaxGenerations
      /\ barrier' = Append(barrier, [session |-> active, waiter |-> generation + 1])
  BY ControllerAssumption DEF Inv, Typed, NextGeneration, Detached
<1>2. PICK item : item = [session |-> active, waiter |-> generation + 1] OBVIOUS
<1>3. item \in Items /\ item.session = active BY <1>1, <1>2 DEF Items
<1>4. /\ barrier'[Len(barrier')] = item
      /\ \A n \in 1..Len(barrier') :
              n # Len(barrier') => n \in 1..Len(barrier) /\ barrier'[n] = barrier[n]
  BY <1>1, <1>2, <1>3, Appended DEF Inv, Typed
<1>5. ASSUME NEW n \in 1..Len(barrier') PROVE barrier'[n].session <= generation'
  <2>1. CASE n = Len(barrier') BY <1>1, <1>3, <1>4, <2>1
  <2>2. CASE n # Len(barrier')
    <3>1. n \in 1..Len(barrier) /\ barrier'[n] = barrier[n] BY <1>4, <2>2
    <3>2. barrier[n].session <= generation BY <3>1 DEF TypeInv, SessionsMade
    <3>3. barrier[n].session \in Nat
      <4>1. barrier[n] \in Items BY <3>1 DEF Inv, Typed
      <4>. QED BY <4>1 DEF Items
    <3>. QED BY <1>1, <3>1, <3>2, <3>3
  <2>. QED BY <2>1, <2>2
<1>. QED BY <1>1, <1>5 DEF SessionsMade

LEMMA SessionsMadeKept ==
  ASSUME Inv, TypeInv, UNCHANGED generation,
         barrier' = barrier \/ (barrier # <<>> /\ barrier' = Tail(barrier))
  PROVE  SessionsMade'
<1>1. CASE barrier' = barrier BY <1>1 DEF TypeInv, SessionsMade
<1>2. CASE barrier # <<>> /\ barrier' = Tail(barrier)
  <2>1. \A n \in 1..Len(barrier') : n + 1 \in 1..Len(barrier) /\ barrier'[n] = barrier[n + 1]
    BY <1>2 DEF Inv, Typed
  <2>. QED BY <2>1 DEF TypeInv, SessionsMade
<1>. QED BY <1>1, <1>2

LEMMA TypeCallStep ==
  ASSUME Inv, TypeInv,
         \/ \E s \in Servers : Connect(s)
         \/ Retry \/ Disconnect \/ (TimerFires /\ ~RetryIsStale)
  PROVE  TypeInv'
<1>1. /\ SessionsMade' /\ generation' = generation + 1 /\ generation \in Nat
  BY CallCounts DEF Connect, Retry, Disconnect, TimerFires, ReplaceConnection
<1>2. Scalars'
  <2>1. CASE (\E s \in Servers : Connect(s)) \/ Retry
    <3>1. /\ target' \in Servers \cup {NoServer} /\ view' = "connecting" /\ reconnect' = "none"
          /\ UNCHANGED <<mounted, checking, cause>>
      BY <2>1 DEF TypeInv, Scalars, Connect, Retry, ReplaceConnection, mountVars
    <3>2. timed' = FALSE /\ retries' = 0 /\ shortExits' = 0
      BY <2>1 DEF Connect, Retry, ResumeReconnect
    <3>. QED BY <3>1, <3>2 DEF TypeInv, Scalars, Views
  <2>2. CASE Disconnect
    BY <2>2 DEF TypeInv, Scalars, Views, Disconnect, mountVars
  <2>3. CASE TimerFires /\ ~RetryIsStale
    BY <2>3 DEF TypeInv, Scalars, Views, TimerFires, ReplaceConnection, mountVars
  <2>. QED BY <2>1, <2>2, <2>3
<1>3. retries' = 0 \/ retries' = retries
  BY DEF Connect, Retry, Disconnect, TimerFires, ResumeReconnect
<1>4. RetriesCounted'
  BY <1>1, <1>3 DEF TypeInv, Scalars, RetriesCounted
<1>5. MaxShortExits \in Nat \ {0} /\ shortExits \in Nat BY ControllerAssumption DEF TypeInv, Scalars
<1>6. CASE TimerFires /\ ~RetryIsStale
  <2>1. ~disposed /\ timer # 0 /\ shortExits' = shortExits BY <1>6 DEF TimerFires, RetryIsStale, Inv, Typed
  <2>2. shortExits # MaxShortExits BY <2>1 DEF TypeInv, ExitsCounted
  <2>3. ExitsCounted' BY <2>1, <2>2 DEF TypeInv, ExitsCounted
  <2>. QED BY <1>1, <1>2, <1>4, <2>3 DEF TypeInv
<1>7. CASE Disconnect
  <2>1. ExitsCounted' BY <1>7 DEF TypeInv, ExitsCounted, Disconnect, mountVars
  <2>. QED BY <1>1, <1>2, <1>4, <2>1 DEF TypeInv
<1>8. CASE (\E s \in Servers : Connect(s)) \/ Retry
  <2>1. shortExits' = 0 BY <1>8 DEF Connect, Retry, ResumeReconnect
  <2>2. ExitsCounted' BY <1>5, <2>1 DEF ExitsCounted
  <2>. QED BY <1>1, <1>2, <1>4, <2>2 DEF TypeInv
<1>. QED BY <1>6, <1>7, <1>8

\* Steps that start no call and report no failure.
LEMMA TypeKept ==
  ASSUME Inv, TypeInv, Scalars', UNCHANGED <<generation, retries, shortExits>>,
         barrier' = barrier \/ (barrier # <<>> /\ barrier' = Tail(barrier)),
         Hopeful' => Hopeful,
         ~disposed' => ~disposed,
         \/ timed' = timed /\ timer' \in {0, timer} /\ (view' = view \/ view' = "error")
         \/ Hopeful /\ Hopeful'
  PROVE  TypeInv'
<1>1. SessionsMade' BY SessionsMadeKept
<1>2. RetriesCounted' BY DEF TypeInv, RetriesCounted
<1>3. ExitsCounted' BY DEF TypeInv, ExitsCounted, Hopeful
<1>. QED BY <1>1, <1>2, <1>3 DEF TypeInv

LEMMA TypeUserStep ==
  ASSUME Inv, TypeInv,
         \/ UNCHANGED vars
         \/ StopReconnect \/ Unmount \/ Remount \/ (TimerFires /\ RetryIsStale) \/ NothingToClose
         \/ \E g \in Generations :
              \/ CloseBegins(g) \/ CancelAnswered(g) \/ StartAwaited(g) \/ CloseEnds(g) \/ WireCloses(g)
              \/ StartNothing(g) \/ LeaveEnds(g)
  PROVE  TypeInv'
<1>1. /\ UNCHANGED <<generation, target, retries, shortExits, timed, checking, cause>> \/ Unmount
      /\ UNCHANGED <<generation, target, retries, shortExits, timed, cause, disposed>>
      /\ timer' \in {0, timer}
      /\ \/ view' = view /\ reconnect' \in {reconnect, "none"}
         \/ view' = "error" /\ reconnect' = "none"
      /\ mounted' \in {mounted, TRUE, FALSE} /\ checking' \in {checking, TRUE}
      /\ barrier' = barrier \/ (barrier # <<>> /\ barrier' = Tail(barrier))
  <2>1. CASE UNCHANGED vars BY <2>1 DEF vars, retryVars, snapshotVars, mountVars
  <2>2. CASE StopReconnect \/ Unmount \/ Remount \/ (TimerFires /\ RetryIsStale) \/ NothingToClose
    BY <2>2
       DEF StopReconnect, Unmount, Remount, TimerFires, NothingToClose, BarrierMoves, retryVars, snapshotVars,
           mountVars
  <2>3. ASSUME NEW g \in Generations,
               CloseBegins(g) \/ CancelAnswered(g) \/ StartAwaited(g) \/ WireCloses(g)
        PROVE  UNCHANGED <<generation, target, retryVars, snapshotVars, mountVars, cause, barrier>>
    BY <2>3 DEF CloseBegins, CancelAnswered, StartAwaited, WireCloses
  <2>4. ASSUME NEW g \in Generations, StartNothing(g) \/ LeaveEnds(g)
        PROVE  /\ UNCHANGED <<generation, target, retryVars, mountVars, cause, barrier>>
               /\ UNCHANGED snapshotVars \/ (view' = "error" /\ reconnect' = "none")
    BY <2>4 DEF StartNothing, LeaveEnds
  <2>5. ASSUME NEW g \in Generations, CloseEnds(g)
        PROVE  /\ UNCHANGED <<generation, target, retryVars, snapshotVars, mountVars, cause>>
               /\ barrier # <<>> /\ barrier' = Tail(barrier)
    <3>1. closing[g] \in UnderWay BY <2>5 DEF CloseEnds, UnderWay
    <3>2. barrier # <<>> BY <3>1 DEF Inv, ClosesInTurn
    <3>. QED BY <2>5, <3>2 DEF CloseEnds, BarrierMoves
  <2>. QED BY <2>1, <2>2, <2>3, <2>4, <2>5 DEF retryVars, snapshotVars, mountVars
<1>2. Scalars' BY <1>1 DEF TypeInv, Scalars, Views
<1>3. Hopeful' => Hopeful BY <1>1 DEF Hopeful
<1>. QED BY <1>1, <1>2, <1>3, TypeKept

LEMMA TypeDisposeStep ==
  ASSUME Inv, TypeInv, DisposeUnlessRetained
  PROVE  TypeInv'
<1>1. CASE mounted
  <2>1. /\ UNCHANGED <<generation, target, retries, shortExits, timed, cause, disposed, view, reconnect, timer,
                       mounted, barrier>>
        /\ checking' = FALSE
    BY <1>1 DEF DisposeUnlessRetained, snapshotVars
  <2>2. Scalars' BY <2>1 DEF TypeInv, Scalars
  <2>3. Hopeful' => Hopeful BY <2>1 DEF Hopeful
  <2>. QED BY <2>1, <2>2, <2>3, TypeKept
<1>2. CASE ~mounted
  <2>1. /\ UNCHANGED <<generation, target, retries, shortExits, timed, cause, view, reconnect, mounted>>
        /\ checking' = FALSE /\ disposed' = TRUE /\ timer' = 0
        /\ barrier' = Append(barrier, [session |-> active, waiter |-> 0])
    BY <1>2 DEF DisposeUnlessRetained, snapshotVars, Detached
  <2>2. Scalars' BY <2>1 DEF TypeInv, Scalars
  <2>3. RetriesCounted' BY <2>1 DEF TypeInv, RetriesCounted, Hopeful
  <2>4. ExitsCounted' BY <2>1 DEF TypeInv, ExitsCounted
  <2>5. SessionsMade'
    <3>1. PICK item : item = [session |-> active, waiter |-> 0] OBVIOUS
    <3>2. item \in Items /\ item.session = active /\ active <= generation
      BY <3>1, ControllerAssumption DEF Items, Inv, Typed
    <3>3. /\ barrier'[Len(barrier')] = item
          /\ \A n \in 1..Len(barrier') :
               n # Len(barrier') => n \in 1..Len(barrier) /\ barrier'[n] = barrier[n]
      BY <2>1, <3>1, <3>2, Appended DEF Inv, Typed
    <3>. QED BY <2>1, <3>2, <3>3 DEF TypeInv, SessionsMade
  <2>. QED BY <2>2, <2>3, <2>4, <2>5 DEF TypeInv
<1>. QED BY <1>1, <1>2

LEMMA TypeStartStep ==
  ASSUME Inv, TypeInv, NEW g \in Generations, StartSession(g) \/ ConnectSucceeds(g)
  PROVE  TypeInv'
<1>1. UNCHANGED <<generation, target, retries, shortExits, reconnect, mountVars, cause, barrier, timer>>
  BY DEF StartSession, ConnectSucceeds, retryVars, snapshotVars
<1>2. CASE StartSession(g)
  <2>1. view' = view /\ timed' = TRUE /\ ~disposed BY <1>2 DEF StartSession, MayStart, snapshotVars
  <2>2. view = "connecting"
    BY <1>2 DEF StartSession, MayStart, Inv, ViewOfSwitch, Generations
  <2>3. Hopeful /\ Hopeful' BY <1>1, <2>1, <2>2 DEF Hopeful, mountVars
  <2>4. Scalars' BY <1>1, <2>1 DEF TypeInv, Scalars, mountVars
  <2>. QED BY <1>1, <2>3, <2>4, TypeKept DEF mountVars
<1>3. CASE ConnectSucceeds(g) /\ view' = view
  <2>1. timed' = timed BY <1>3 DEF ConnectSucceeds, retryVars
  <2>2. Scalars' BY <1>1, <1>3, <2>1 DEF TypeInv, Scalars, mountVars
  <2>3. Hopeful' => Hopeful BY <1>1, <1>3 DEF Hopeful, mountVars
  <2>. QED BY <1>1, <1>3, <2>1, <2>2, <2>3, TypeKept DEF mountVars
<1>4. CASE ConnectSucceeds(g) /\ view' # view
  <2>1. timed' = timed /\ view' = "initializing" /\ IsCurrentAttempt(g) /\ phase[g] = "connecting"
    BY <1>4 DEF ConnectSucceeds, retryVars
  <2>2. Hopeful BY <2>1, CurrentIsHopeful
  <2>3. Hopeful' BY <1>1, <2>1, <2>2 DEF Hopeful, mountVars
  <2>4. Scalars' BY <1>1, <2>1 DEF TypeInv, Scalars, Views, mountVars
  <2>. QED BY <1>1, <2>2, <2>3, <2>4, TypeKept DEF mountVars
<1>. QED BY <1>2, <1>3, <1>4

LEMMA TypeInitializedStep ==
  ASSUME Inv, TypeInv, NEW g \in Generations, Initialized(g)
  PROVE  TypeInv'
<1>1. UNCHANGED <<generation, target, shortExits, timed, mountVars, cause, barrier>>
  BY DEF Initialized
<1>2. CASE IsCurrentAttempt(g)
  <2>1. view' = "ready" /\ reconnect' = "none" /\ retries' = 0 /\ phase[g] = "initializing"
    BY <1>2 DEF Initialized
  <2>2. retries < generation /\ shortExits < MaxShortExits BY <1>2, <2>1, CurrentIsHopeful
  <2>3. Scalars' BY <1>1, <2>1 DEF TypeInv, Scalars, Views, mountVars
  <2>4. shortExits \in Nat /\ MaxShortExits \in Nat /\ retries \in Nat /\ generation \in Nat
    BY ControllerAssumption DEF TypeInv, Scalars, Inv, Typed
  <2>5. RetriesCounted' BY <1>1, <2>1, <2>2, <2>4 DEF RetriesCounted
  <2>6. ExitsCounted' BY <1>1, <2>2, <2>4 DEF ExitsCounted
  <2>. QED BY <1>1, <2>3, <2>5, <2>6, SessionsMadeKept DEF TypeInv
<1>3. CASE ~IsCurrentAttempt(g)
  <2>1. UNCHANGED <<view, reconnect, retries, timer>> BY <1>3 DEF Initialized
  <2>2. Scalars' BY <1>1, <2>1 DEF TypeInv, Scalars, mountVars
  <2>3. Hopeful' => Hopeful BY <1>1, <2>1 DEF Hopeful, mountVars
  <2>. QED BY <1>1, <2>1, <2>2, <2>3, TypeKept DEF mountVars
<1>. QED BY <1>2, <1>3

LEMMA TypeFailStep ==
  ASSUME Inv, TypeInv, NEW g \in Generations, ConnectFails(g) \/ SessionFails(g)
  PROVE  TypeInv'
<1>1. /\ UNCHANGED <<generation, target, mountVars, barrier>>
      /\ cause' \in {cause, "network", "attention"}
  BY DEF ConnectFails, SessionFails
<1>2. \/ UNCHANGED <<retryVars, snapshotVars>>
      \/ /\ IsCurrentAttempt(g) /\ phase[g] # "error"
         /\ \E code \in {"transportConnectFailed", "transportClosed", "transportFailure", "inboundQueueOverflow"},
               exited \in BOOLEAN : HandleError(code, exited)
  <2>1. CASE ConnectFails(g) BY <2>1 DEF ConnectFails, Fail
  <2>2. CASE SessionFails(g) BY <2>2 DEF SessionFails, Fail
  <2>. QED BY <2>1, <2>2
<1>3. CASE UNCHANGED <<retryVars, snapshotVars>>
  <2>1. Scalars' BY <1>1, <1>3 DEF TypeInv, Scalars, mountVars, retryVars, snapshotVars
  <2>2. Hopeful' => Hopeful BY <1>1, <1>3 DEF Hopeful, mountVars, snapshotVars
  <2>. QED BY <1>1, <1>3, <2>1, <2>2, TypeKept DEF mountVars, retryVars, snapshotVars
<1>4. CASE ~UNCHANGED <<retryVars, snapshotVars>>
  <2>1. IsCurrentAttempt(g) /\ phase[g] # "error" BY <1>2, <1>4
  <2>2. PICK code \in {"transportConnectFailed", "transportClosed", "transportFailure", "inboundQueueOverflow"},
             exited \in BOOLEAN : HandleError(code, exited)
    BY <1>2, <1>4
  <2>3. /\ view' = "error" /\ reconnect' \in {"none", "trying", "scheduled"} /\ timed' = FALSE
        /\ retries' \in Nat /\ retries' <= generation
        /\ shortExits' \in Nat /\ shortExits' <= MaxShortExits
        /\ shortExits' = MaxShortExits => timer' = 0
    BY <2>1, <2>2, ErrorCounts
  <2>4. Scalars' BY <1>1, <2>3 DEF TypeInv, Scalars, Views, mountVars
  <2>5. RetriesCounted' BY <1>1, <2>3 DEF RetriesCounted, Hopeful
  <2>6. ExitsCounted' BY <2>3 DEF ExitsCounted
  <2>. QED BY <1>1, <2>4, <2>5, <2>6, SessionsMadeKept DEF TypeInv
<1>. QED BY <1>3, <1>4

LEMMA TypeReturnsStep ==
  ASSUME Inv, TypeInv, NEW g \in Generations, StartReturns(g)
  PROVE  TypeInv'
<1>1. UNCHANGED <<generation, target, mountVars, cause, barrier, timed, shortExits>>
  BY DEF StartReturns, retryVars
<1>2. CASE UNCHANGED <<retryVars, snapshotVars>>
  <2>1. Scalars' BY <1>1, <1>2 DEF TypeInv, Scalars, mountVars, retryVars, snapshotVars
  <2>2. Hopeful' => Hopeful BY <1>1, <1>2 DEF Hopeful, mountVars, snapshotVars
  <2>. QED BY <1>1, <1>2, <2>1, <2>2, TypeKept DEF mountVars, retryVars, snapshotVars
<1>3. CASE ~UNCHANGED <<retryVars, snapshotVars>>
  <2>1. IsCurrentAttempt(g) /\ view # "error" /\ HandleAttemptError("initializationFailed")
    BY <1>3 DEF StartReturns
  <2>2. phase[g] # "error"
    BY <2>1 DEF IsCurrentAttempt, Inv, ViewOfActive, Generations
  <2>3. retries < generation /\ shortExits < MaxShortExits BY <2>1, <2>2, CurrentIsHopeful
  <2>4. /\ view' = "error" /\ reconnect' \in {"none", "trying", "scheduled"}
        /\ retries' \in Nat /\ retries' <= generation
    BY <2>1, <2>3, AttemptErrorCounts
  <2>5. Scalars' BY <1>1, <2>4 DEF TypeInv, Scalars, Views, mountVars
  <2>6. RetriesCounted' BY <1>1, <2>4 DEF RetriesCounted, Hopeful
  <2>7. ExitsCounted'
    <3>1. shortExits \in Nat /\ MaxShortExits \in Nat BY ControllerAssumption DEF TypeInv, Scalars
    <3>. QED BY <1>1, <2>3, <3>1 DEF ExitsCounted
  <2>. QED BY <1>1, <2>5, <2>6, <2>7, SessionsMadeKept DEF TypeInv
<1>. QED BY <1>2, <1>3

LEMMA TypeStep ==
  ASSUME Inv, TypeInv, [Next]_vars
  PROVE  TypeInv'
BY TypeCallStep, TypeUserStep, TypeDisposeStep, TypeStartStep, TypeInitializedStep, TypeFailStep, TypeReturnsStep
   DEF Next, UserNext, ControllerNext, SessionNext

-----------------------------------------------------------------------------
(* Theorems                                                                *)

\* The inductive invariant of the controller, its sessions and the barrier.
THEOREM Invariance == Spec => []Inv
BY InitInv, Step, PTL DEF Spec

\* A window has at most one connection at the pool, however connects, retries,
\* disconnects and the timer overlap (enqueueClose, replaceConnection).
THEOREM OneConnection == Spec => []OneWire
BY Invariance, PTL DEF Inv

\* No session is lost, and none is active after a disconnect or the end of the
\* window (detachActiveSession, dispose).
THEOREM SessionsAreKept == Spec => []NoSessionLost
<1>1. Inv => NoSessionLost
  BY DEF Inv, KeptSessions, LeftIsFinal, Waits, NoSessionLost
<1>. QED BY <1>1, Invariance, PTL

\* The view shows the session the user chose last, whatever an earlier session
\* still reports (isCurrentAttempt).
THEOREM ViewFollows == Spec => []ViewOfActive
BY Invariance, PTL DEF Inv

\* An automatic retry is pending exactly while the window announces it
\* (scheduleReconnect, clearReconnectTimer).
THEOREM RetriesAreAnnounced == Spec => []RetryAsAnnounced
BY Invariance, PTL DEF Inv

\* Every variable keeps to its values: the retries a window announces are not more
\* than its calls, and a local process that ends at once is not started more often
\* than allowed (scheduleReconnect, recordLocalProcessExit).
THEOREM TypeCorrect == Spec => []TypeOK
<1>1. Init => Inv /\ TypeInv
  <2>. SUFFICES ASSUME Init PROVE TypeInv BY InitInv
  <2>1. Len(<<>>) = 0 BY EmptySeq
  <2>2. Scalars BY DEF Init, Scalars, Views
  <2>3. RetriesCounted /\ SessionsMade BY <2>1 DEF Init, RetriesCounted, Hopeful, SessionsMade
  <2>4. ExitsCounted BY ControllerAssumption DEF Init, ExitsCounted
  <2>. QED BY <2>2, <2>3, <2>4 DEF TypeInv
<1>2. Inv /\ TypeInv /\ [Next]_vars => Inv' /\ TypeInv'
  BY Step, TypeStep
<1>3. Inv /\ TypeInv => TypeOK
  <2>. SUFFICES ASSUME Inv, TypeInv PROVE TypeOK OBVIOUS
  <2>1. generation \in 0..MaxGenerations /\ retries \in 0..MaxGenerations /\ shortExits \in 0..MaxShortExits
    BY ControllerAssumption DEF Inv, Typed, TypeInv, Scalars, RetriesCounted, ExitsCounted
  <2>2. ASSUME NEW n \in 1..Len(barrier)
        PROVE  barrier[n] \in [session : 0..generation, waiter : 0..generation]
    <3>1. barrier[n] \in Items BY DEF Inv, Typed
    <3>2. barrier[n].session <= generation /\ barrier[n].waiter <= generation
      BY DEF TypeInv, SessionsMade, Inv, LatestWaits
    <3>. QED BY <3>1, <3>2, <2>1 DEF Items
  <2>. QED
    BY <2>1, <2>2 DEF TypeOK, Inv, Typed, Before, UnderWay, TypeInv, Scalars
<1>. QED BY <1>1, <1>2, <1>3, PTL DEF Spec
=============================================================================
