------------------------ MODULE StatusBroadcastProofs ------------------------
(* Proofs about StatusBroadcast, for any servers, windows and subscriptions.  *)
EXTENDS StatusBroadcast, TLAPS

-----------------------------------------------------------------------------
(* The inductive invariant                                                 *)

\* A label belongs to one window at a time, until its cleanup has run.
OneWindowPerLabel ==
  \A v, w \in Windows :
    LabelOf[v] = LabelOf[w] /\ {window[v], window[w]} \subseteq {"open", "destroyed"} => v = w

\* Only windows that were opened subscribe, and only those are sent to.
SubscribersWereBorn ==
  /\ \A s \in Subscriptions : call[s] # "idle" => window[WindowOf[s]] # "unborn"
  /\ \A l \in Labels : table[l] # Nobody => call[table[l]] # "idle"
  /\ \A n \in Notifiers : \A s \in targets[n] \cup failed[n] : call[s] # "idle"

\* A window that could not be sent to does not come back.
FailedAreGone == \A n \in Notifiers : \A s \in failed[n] : ~Alive(s)

\* A task announces a change that happened, with a snapshot taken after it.
TasksAreLater ==
  /\ \A n \in Notifiers : task[n] # "none" => n <= changes
  /\ \A n \in Notifiers : task[n] = "sending" => event[n].at >= n

\* The subscriptions a change must reach
Lasting(s) == call[s] \in {"sending", "subscribed"} /\ Alive(s) /\ s \notin replaced

\* A change whose snapshot was taken has reached a lasting subscription, is in
\* the snapshot it starts with, or has still to be sent to it.
UnderWay ==
  \A s \in Subscriptions : \A n \in Notifiers :
    Lasting(s) /\ task[n] \in {"sending", "done"} =>
      \/ heard[s] >= n
      \/ call[s] = "sending" /\ initial[s].at >= n
      \/ task[n] = "sending" /\ s \in targets[n]

Inv ==
  /\ TypeOK
  /\ OneWindowPerLabel
  /\ SubscribersWereBorn
  /\ FailedAreGone
  /\ SubscriptionKept
  /\ TasksAreLater
  /\ UnderWay

-----------------------------------------------------------------------------
(* The invariant holds at first and is kept by every step                   *)

LEMMA SnapshotType ==
  ASSUME changes \in 0..MaxChanges
  PROVE  Snapshot \in Events /\ Snapshot.at = changes /\ NoSnapshot \in Events
BY BroadcastAssumption DEF Snapshot, Statuses, NoSnapshot, Events, StatusStates

LEMMA EventFields ==
  ASSUME NEW e \in Events
  PROVE  e.at \in 0..MaxChanges /\ e.statuses \in [Servers -> StatusStates]
BY DEF Events

\* What a channel carries only adds to what was heard.
LEMMA ReceivesMore ==
  ASSUME TypeOK, NEW s \in Subscriptions, NEW e \in Events, Receives(s, e)
  PROVE  /\ heard' \in [Subscriptions -> 0..MaxChanges]
         /\ shown' \in [Subscriptions -> [Servers -> StatusStates]]
         /\ \A t \in Subscriptions : heard'[t] >= heard[t]
         /\ heard'[s] >= e.at
<1>. DEFINE at == e.at
            statuses == e.statuses
<1>1. at \in 0..MaxChanges /\ statuses \in [Servers -> StatusStates]
  BY EventFields
<1>2. /\ heard' = [heard EXCEPT ![s] = IF at > @ THEN at ELSE @]
      /\ shown' = [shown EXCEPT ![s] = statuses]
  BY DEF Receives
<1>3. /\ heard \in [Subscriptions -> 0..MaxChanges]
      /\ shown \in [Subscriptions -> [Servers -> StatusStates]]
  BY DEF TypeOK
<1>. HIDE DEF at, statuses
<1>4. \A t \in Subscriptions : heard[t] \in 0..MaxChanges
  BY <1>3
<1>5. /\ heard' \in [Subscriptions -> 0..MaxChanges]
      /\ \A t \in Subscriptions : heard'[t] >= heard[t]
      /\ heard'[s] >= at
  BY <1>1, <1>2, <1>3, <1>4, BroadcastAssumption
<1>6. shown' \in [Subscriptions -> [Servers -> StatusStates]]
  BY <1>1, <1>2, <1>3
<1>. QED BY <1>5, <1>6 DEF at

LEMMA InitInv == Init => Inv
BY BroadcastAssumption, SnapshotType
   DEF Init, Inv, TypeOK, OneWindowPerLabel, SubscribersWereBorn, FailedAreGone, SubscriptionKept,
       TasksAreLater, Lasting, UnderWay, Alive, EntryStates, CallStates, NoSnapshot, Events,
       StatusStates, Notifiers

\* The pool and the windows
LEMMA OutsideStep ==
  ASSUME Inv,
         \/ \E p \in Physicals : Change(p)
         \/ \E w \in Windows : OpenWindow(w) \/ DestroyWindow(w) \/ DisconnectWindow(w)
  PROVE  Inv'
<1>. USE BroadcastAssumption
     DEF Inv, TypeOK, OneWindowPerLabel, SubscribersWereBorn, FailedAreGone, SubscriptionKept,
         TasksAreLater, Lasting, UnderWay, Alive, Slot, Notifiers, taskVars, callVars
<1>1. ASSUME NEW p \in Physicals, Change(p) PROVE Inv'
  BY <1>1, SMTT(60) DEF Change, AfterChange, EntryStates
<1>2. ASSUME NEW w \in Windows, OpenWindow(w) PROVE Inv'
  <2>1. TypeOK' /\ OneWindowPerLabel' /\ SubscribersWereBorn' /\ TasksAreLater'
    BY <1>2, ZenonT(60) DEF OpenWindow
  <2>2. \A s \in Subscriptions : call[s] # "idle" => Alive(s)' = Alive(s)
    BY <1>2 DEF OpenWindow
  <2>3. FailedAreGone'
    BY <1>2, <2>2 DEF OpenWindow
  <2>4. SubscriptionKept' /\ UnderWay'
    BY <1>2, <2>2 DEF OpenWindow
  <2>. QED BY <2>1, <2>3, <2>4
<1>3. ASSUME NEW w \in Windows, DestroyWindow(w) PROVE Inv'
  BY <1>3 DEF DestroyWindow
<1>4. ASSUME NEW w \in Windows, DisconnectWindow(w) PROVE Inv'
  BY <1>4 DEF DisconnectWindow
<1>. QED BY <1>1, <1>2, <1>3, <1>4

\* Telling a change
LEMMA NotifyStep ==
  ASSUME Inv, NEW n \in Notifiers,
         TakeSnapshot(n) \/ DropFailed(n) \/ \E s \in Subscriptions : SendTo(n, s)
  PROVE  Inv'
<1>. USE BroadcastAssumption
     DEF Inv, TypeOK, OneWindowPerLabel, SubscribersWereBorn, FailedAreGone, SubscriptionKept,
         TasksAreLater, Lasting, UnderWay, Alive, Slot, Notifiers, taskVars, callVars
<1>1. CASE TakeSnapshot(n)
  BY <1>1, SnapshotType DEF TakeSnapshot
<1>2. CASE DropFailed(n)
  BY <1>2, SnapshotType DEF DropFailed, Dropped
<1>3. ASSUME NEW s \in Subscriptions, SendTo(n, s) PROVE Inv'
  <2>1. /\ heard' \in [Subscriptions -> 0..MaxChanges]
        /\ shown' \in [Subscriptions -> [Servers -> StatusStates]]
        /\ \A t \in Subscriptions : heard'[t] >= heard[t]
        /\ Alive(s) => heard'[s] >= event[n].at
    <3>1. CASE Alive(s)
      BY <1>3, <3>1, ReceivesMore DEF SendTo
    <3>2. CASE ~Alive(s)
      BY <1>3, <3>2 DEF SendTo
    <3>. QED BY <3>1, <3>2
  <2>2. /\ targets' = [targets EXCEPT ![n] = @ \ {s}]
        /\ failed' \in {failed, [failed EXCEPT ![n] = @ \cup {s}]}
        /\ ~Alive(s) \/ failed' = failed
        /\ s \in targets[n]
        /\ UNCHANGED <<entry, changes, window, table, task, event, call, initial, replaced>>
    BY <1>3 DEF SendTo
  <2>3. TypeOK'
    <3>1. targets' \in [Notifiers -> SUBSET Subscriptions] /\ failed' \in [Notifiers -> SUBSET Subscriptions]
      BY <2>2
    <3>. QED BY <2>1, <2>2, <3>1
  <2>4. OneWindowPerLabel' /\ SubscriptionKept' /\ TasksAreLater'
    BY <2>2
  <2>5. SubscribersWereBorn' /\ FailedAreGone'
    BY <2>2
  <2>6. UnderWay'
    <3>1. ASSUME NEW t \in Subscriptions, NEW k \in Notifiers, Lasting(t)', task[k] \in {"sending", "done"}
          PROVE  \/ heard'[t] >= k
                 \/ call[t] = "sending" /\ initial[t].at >= k
                 \/ task[k] = "sending" /\ t \in targets'[k]
      <4>1. Lasting(t)
        BY <1>3, <3>1 DEF SendTo
      <4>2. CASE heard[t] >= k
        BY <2>1, <4>2
      <4>3. CASE call[t] = "sending" /\ initial[t].at >= k
        BY <4>3
      <4>4. CASE task[k] = "sending" /\ t \in targets[k]
        <5>1. CASE t = s /\ k = n
          BY <2>1, <4>1, <5>1, <1>3 DEF SendTo, Events
        <5>2. CASE ~(t = s /\ k = n)
          BY <4>4, <5>2, <1>3 DEF SendTo
        <5>. QED BY <5>1, <5>2
      <4>. QED BY <3>1, <4>1, <4>2, <4>3, <4>4
    <3>. QED BY <1>3, <3>1 DEF SendTo
  <2>. QED BY <2>3, <2>4, <2>5, <2>6
<1>. QED BY <1>1, <1>2, <1>3

\* Subscribing and leaving
LEMMA SubscriptionStep ==
  ASSUME Inv, NEW s \in Subscriptions,
         \/ Subscribe(s) \/ SubscribeRefused(s) \/ SendInitial(s)
         \/ Leave(s) \/ Unsubscribe(s)
  PROVE  Inv'
<1>. USE BroadcastAssumption
     DEF Inv, TypeOK, OneWindowPerLabel, SubscribersWereBorn, FailedAreGone, SubscriptionKept,
         TasksAreLater, Lasting, UnderWay, Alive, Slot, Notifiers, taskVars, callVars
<1>1. CASE Subscribe(s)
  BY <1>1, SnapshotType DEF Subscribe, MaySubscribe, CallStates
<1>2. CASE SendInitial(s)
  <2>1. initial' \in [Subscriptions -> Events]
    <3>1. NoSnapshot \in Events /\ initial \in [Subscriptions -> Events]
      BY SnapshotType
    <3>2. initial' = [initial EXCEPT ![s] = NoSnapshot]
      BY <1>2 DEF SendInitial
    <3>. QED BY <3>1, <3>2
  <2>2. /\ heard' \in [Subscriptions -> 0..MaxChanges]
        /\ shown' \in [Subscriptions -> [Servers -> StatusStates]]
        /\ \A t \in Subscriptions : heard'[t] >= heard[t]
        /\ Alive(s) => heard'[s] >= initial[s].at
    <3>1. CASE Alive(s)
      BY <1>2, <3>1, ReceivesMore DEF SendInitial
    <3>2. CASE ~Alive(s)
      BY <1>2, <3>2 DEF SendInitial
    <3>. QED BY <3>1, <3>2
  <2>3. TypeOK'
    <3>1. /\ table' \in [Labels -> Subscriptions \cup {Nobody}]
          /\ \A l \in Labels : table'[l] # Nobody => table'[l] = table[l]
      BY <1>2 DEF SendInitial, AfterRefusal, Dropped
    <3>2. call' \in [Subscriptions -> CallStates]
      <4>1. \/ call' = [call EXCEPT ![s] = "subscribed"]
            \/ call' = [call EXCEPT ![s] = "refused"]
        BY <1>2 DEF SendInitial
      <4>2. call \in [Subscriptions -> CallStates]
        OBVIOUS
      <4>. HIDE DEF Inv
      <4>. QED BY <4>1, <4>2 DEF CallStates
    <3>3. UNCHANGED <<entry, changes, window, task, event, targets, failed, replaced>>
      BY <1>2 DEF SendInitial
    <3>. QED BY <2>1, <2>2, <3>1, <3>2, <3>3
  <2>4. OneWindowPerLabel' /\ SubscribersWereBorn' /\ FailedAreGone' /\ TasksAreLater'
    BY <1>2 DEF SendInitial, AfterRefusal, Dropped
  <2>5. \A t \in Subscriptions : Lasting(t)' => Lasting(t)
    BY <1>2 DEF SendInitial
  <2>6. SubscriptionKept'
    BY <1>2, <2>5 DEF SendInitial, AfterRefusal, Dropped
  <2>7. UnderWay'
    <3>1. ASSUME NEW t \in Subscriptions, NEW k \in Notifiers, Lasting(t)', task[k] \in {"sending", "done"}
          PROVE  \/ heard'[t] >= k
                 \/ call'[t] = "sending" /\ initial'[t].at >= k
                 \/ task[k] = "sending" /\ t \in targets[k]
      <4>1. heard[t] \in 0..MaxChanges /\ heard'[t] \in 0..MaxChanges /\ heard'[t] >= heard[t]
        BY <2>2
      <4>2. CASE heard[t] >= k
        BY <4>1, <4>2
      <4>3. CASE call[t] = "sending" /\ initial[t].at >= k
        <5>1. CASE t = s
          <6>1. initial[s].at \in 0..MaxChanges /\ Alive(s)
            BY <2>5, <3>1, <5>1, EventFields
          <6>. QED BY <2>2, <4>1, <4>3, <5>1, <6>1
        <5>2. CASE t # s
          BY <1>2, <4>3, <5>2 DEF SendInitial
        <5>. QED BY <5>1, <5>2
      <4>. QED BY <2>5, <3>1, <4>2, <4>3
    <3>. QED BY <1>2, <3>1 DEF SendInitial
  <2>. QED BY <2>3, <2>4, <2>6, <2>7
<1>3. CASE Unsubscribe(s)
  BY <1>3 DEF Unsubscribe, AfterLeave, Dropped, CallStates
<1>4. CASE Leave(s)
  BY <1>4 DEF Leave, CallStates
<1>5. CASE SubscribeRefused(s)
  BY <1>5 DEF SubscribeRefused, CallStates
<1>. QED BY <1>1, <1>2, <1>3, <1>4, <1>5

LEMMA Step == Inv /\ [Next]_vars => Inv'
<1>. SUFFICES ASSUME Inv, [Next]_vars PROVE Inv'
  OBVIOUS
<1>1. CASE UNCHANGED vars
  BY <1>1
     DEF Inv, TypeOK, OneWindowPerLabel, SubscribersWereBorn, FailedAreGone, SubscriptionKept,
         TasksAreLater, Lasting, UnderWay, Alive, Slot, vars, taskVars, callVars
<1>. QED BY <1>1, OutsideStep, NotifyStep, SubscriptionStep DEF Next

-----------------------------------------------------------------------------
(* Theorems                                                                *)

\* The inductive invariant of the broadcast.
THEOREM Invariance == Spec => []Inv
BY InitInv, Step, PTL DEF Spec

\* Types of the table, the tasks and the subscriptions.
THEOREM TypeCorrect == Spec => []TypeOK
BY Invariance, PTL DEF Inv

\* The latest subscription of an open window stays in the table until its page
\* leaves it: the unsubscribe of an earlier subscription, of the same window or of a
\* destroyed one of its label, and a send to it that fails may come at any later time,
\* and a subscribe of a destroyed window is refused (subscribe_statuses,
\* unsubscribe_statuses, notify_status_subscribers).
THEOREM SubscriptionsAreKept == Spec => []SubscriptionKept
BY Invariance, PTL DEF Inv

\* A change whose task is done was told to every subscription that lasts, with
\* any number of tasks sending at the same time (notify_status_subscribers).
THEOREM ChangesAreHeard == Spec => []ChangeIsHeard
<1>1. Inv => ChangeIsHeard
  BY DEF Inv, UnderWay, Lasting, ChangeIsHeard
<1>. QED BY <1>1, Invariance, PTL
=============================================================================
