--------------------------- MODULE StatusBroadcast ---------------------------
(***************************************************************************)
(* How every window is told the connection statuses of all servers          *)
(* (notify_status_subscribers, subscribe_statuses, unsubscribe_statuses and *)
(* configured_server_statuses in src-tauri/src/connection/shared_pool.rs,   *)
(* src/transport/configuredServerStatuses.ts).                              *)
(*                                                                         *)
(* The task that changed the pool takes a snapshot of the statuses and of   *)
(* the subscribers under the lock and sends it after the lock is released;  *)
(* tasks are independent of each other.  A subscription stands for its       *)
(* generation number and its channel.                                       *)
(***************************************************************************)
EXTENDS Naturals

CONSTANTS
  Physicals,      \* physical connections
  Servers,
  ServerOf,       \* the server a physical connection belongs to
  Labels,         \* window labels
  Windows,        \* window instances
  LabelOf,        \* the label of a window instance
  FirstWindows,   \* the window instances open at the start, one per label
  Closing,        \* bound: the window instances that may be destroyed
  Subscriptions,  \* subscribe commands, each issued at most once
  WindowOf,       \* the window instance that issues a subscription
  Nobody,         \* no subscriber
  MaxChanges      \* bound: the changes of the pool

ASSUME BroadcastAssumption ==
  /\ ServerOf \in [Physicals -> Servers]
  /\ LabelOf \in [Windows -> Labels]
  /\ FirstWindows \subseteq Windows
  /\ \A v, w \in FirstWindows : LabelOf[v] = LabelOf[w] => v = w
  /\ WindowOf \in [Subscriptions -> Windows]
  /\ Nobody \notin Subscriptions
  /\ MaxChanges \in Nat

Notifiers == 1..MaxChanges

VARIABLES
  entry,     \* the start state and stage of a physical connection
  changes,   \* how often entry changed
  window,    \* unborn, open, destroyed or cleaned
  table,     \* status_subscribers
  task,      \* the task of change n: none, due, sending or done
  event,     \* the snapshot a task sends
  targets,   \* the subscriptions a task has still to send to
  failed,    \* the subscriptions a task could not send to
  call,      \* a subscription: idle, sending, subscribed, leaving, left or refused
  initial,   \* the snapshot a subscription starts with
  shown,     \* the last statuses a subscription was sent
  heard,     \* the latest change a subscription was sent
  replaced   \* history: subscriptions that a later one of their window replaced

taskVars == <<task, event, targets, failed>>
callVars == <<call, initial, shown, heard, replaced>>
vars == <<entry, changes, window, table, taskVars, callVars>>

-----------------------------------------------------------------------------

EntryStates == {"none", "connecting", "staged", "connected"}
StatusStates == {"absent", "connecting", "staged", "ready"}

\* configured_server_statuses: a connection that is up wins over one that is
\* connecting, a stage over none.
Statuses ==
  [s \in Servers |->
     LET states == {entry[p] : p \in {p \in Physicals : ServerOf[p] = s}}
     IN CASE "connected" \in states -> "ready"
          [] "connected" \notin states /\ "staged" \in states -> "staged"
          [] states \cap {"connected", "staged"} = {} /\ "connecting" \in states -> "connecting"
          [] OTHER -> "absent"]

Snapshot == [statuses |-> Statuses, at |-> changes]

\* The empty snapshot, where none is kept
NoSnapshot == [statuses |-> [s \in Servers |-> "absent"], at |-> 0]

Init ==
  /\ entry = [p \in Physicals |-> "none"]
  /\ changes = 0
  /\ window = [w \in Windows |-> IF w \in FirstWindows THEN "open" ELSE "unborn"]
  /\ table = [l \in Labels |-> Nobody]
  /\ task = [n \in Notifiers |-> "none"]
  /\ event = [n \in Notifiers |-> NoSnapshot]
  /\ targets = [n \in Notifiers |-> {}]
  /\ failed = [n \in Notifiers |-> {}]
  /\ call = [s \in Subscriptions |-> "idle"]
  /\ initial = [s \in Subscriptions |-> NoSnapshot]
  /\ shown = [s \in Subscriptions |-> NoSnapshot.statuses]
  /\ heard = [s \in Subscriptions |-> 0]
  /\ replaced = {}

-----------------------------------------------------------------------------

Alive(s) == window[WindowOf[s]] = "open"

\* The entry of status_subscribers a subscription takes
Slot(s) == LabelOf[WindowOf[s]]

\* The steps of the life of an entry: attach, Progress, Connected, the end
Follows(from, to) ==
  <<from, to>> \in {<<"none", "connecting">>, <<"connecting", "staged">>,
                    <<"connecting", "connected">>, <<"staged", "connected">>,
                    <<"connecting", "none">>, <<"staged", "none">>, <<"connected", "none">>}

\* Mutant of AfterChange: the progress of a start is not announced.
AfterChangeQuiet(to) == IF to = "staged" THEN "done" ELSE "due"

\* Whatever changed, the one who changed it notifies.
AfterChange(to) == "due"

\* Whoever changes the pool notifies after its lock is released.
Change(p) ==
  /\ changes < MaxChanges
  /\ changes' = changes + 1
  /\ \E to \in EntryStates :
       /\ Follows(entry[p], to)
       /\ entry' = [entry EXCEPT ![p] = to]
       /\ task' = [task EXCEPT ![changes + 1] = AfterChange(to)]
  /\ UNCHANGED <<window, table, event, targets, failed, callVars>>

OpenWindow(w) ==
  /\ window[w] = "unborn"
  /\ \A v \in Windows \ {w} :
       LabelOf[v] = LabelOf[w] => window[v] \in {"unborn", "cleaned"}
  /\ window' = [window EXCEPT ![w] = "open"]
  /\ UNCHANGED <<entry, changes, table, taskVars, callVars>>

DestroyWindow(w) ==
  /\ window[w] = "open" /\ w \in Closing
  /\ window' = [window EXCEPT ![w] = "destroyed"]
  /\ UNCHANGED <<entry, changes, table, taskVars, callVars>>

\* disconnect_window
DisconnectWindow(w) ==
  /\ window[w] = "destroyed"
  /\ window' = [window EXCEPT ![w] = "cleaned"]
  /\ table' = [table EXCEPT ![LabelOf[w]] = Nobody]
  /\ UNCHANGED <<entry, changes, taskVars, callVars>>

-----------------------------------------------------------------------------
(* notify_status_subscribers                                               *)

TakeSnapshot(n) ==
  /\ task[n] = "due"
  /\ task' = [task EXCEPT ![n] = "sending"]
  /\ event' = [event EXCEPT ![n] = Snapshot]
  /\ targets' = [targets EXCEPT ![n] = {table[l] : l \in Labels} \ {Nobody}]
  /\ UNCHANGED <<entry, changes, window, table, failed, callVars>>

\* The channel of s carries one more event.
Receives(s, e) ==
  /\ shown' = [shown EXCEPT ![s] = e.statuses]
  /\ heard' = [heard EXCEPT ![s] = IF e.at > @ THEN e.at ELSE @]

SendTo(n, s) ==
  /\ task[n] = "sending" /\ s \in targets[n]
  /\ targets' = [targets EXCEPT ![n] = @ \ {s}]
  /\ IF Alive(s)
     THEN Receives(s, event[n]) /\ UNCHANGED failed
     ELSE failed' = [failed EXCEPT ![n] = @ \cup {s}] /\ UNCHANGED <<shown, heard>>
  /\ UNCHANGED <<entry, changes, window, table, task, event, call, initial, replaced>>

\* Mutant of Dropped: the entry of the label goes, whoever holds it now.
DroppedByLabel(subscriptions) ==
  [l \in Labels |-> IF \E s \in subscriptions : Slot(s) = l THEN Nobody ELSE table[l]]

\* Entries go when they still are the generation that failed.
Dropped(subscriptions) ==
  [l \in Labels |-> IF table[l] \in subscriptions THEN Nobody ELSE table[l]]

DropFailed(n) ==
  /\ task[n] = "sending" /\ targets[n] = {}
  /\ task' = [task EXCEPT ![n] = "done"]
  /\ table' = Dropped(failed[n])
  /\ event' = [event EXCEPT ![n] = NoSnapshot]
  /\ failed' = [failed EXCEPT ![n] = {}]
  /\ UNCHANGED <<entry, changes, window, targets, callVars>>

-----------------------------------------------------------------------------
(* subscribe_statuses and unsubscribe_statuses                             *)

\* Mutant of MaySubscribe: a destroyed window subscribes, too.
MaySubscribeWindowless(s) == window[WindowOf[s]] # "unborn"

\* subscribe_configured_server_statuses asks the webview for its URL, which a
\* window that is gone has no more.
MaySubscribe(s) == Alive(s)

\* The entry of the label is taken over.  The command is synchronous and runs on the
\* thread that destroys windows, so the check and the insertion are one step; the
\* tasks of the pool run beside it, so the first event is a step of its own.
Subscribe(s) ==
  /\ call[s] = "idle" /\ MaySubscribe(s)
  /\ call' = [call EXCEPT ![s] = "sending"]
  /\ initial' = [initial EXCEPT ![s] = Snapshot]
  /\ table' = [table EXCEPT ![Slot(s)] = s]
  /\ replaced' = replaced \cup {t \in Subscriptions : t = table[Slot(s)] /\ WindowOf[t] = WindowOf[s]}
  /\ UNCHANGED <<entry, changes, window, taskVars, shown, heard>>

\* A command that was queued by a window that is gone by now.
SubscribeRefused(s) ==
  /\ call[s] = "idle" /\ window[WindowOf[s]] # "unborn" /\ ~MaySubscribe(s)
  /\ call' = [call EXCEPT ![s] = "refused"]
  /\ UNCHANGED <<entry, changes, window, table, taskVars, initial, shown, heard, replaced>>

\* The table after the first event of s was refused
AfterRefusal(s) == Dropped({s})

SendInitial(s) ==
  /\ call[s] = "sending"
  /\ \/ /\ Alive(s)
        /\ Receives(s, initial[s])
        /\ call' = [call EXCEPT ![s] = "subscribed"]
        /\ UNCHANGED table
     \/ /\ ~Alive(s)
        /\ table' = AfterRefusal(s)
        /\ call' = [call EXCEPT ![s] = "refused"]
        /\ UNCHANGED <<shown, heard>>
  /\ initial' = [initial EXCEPT ![s] = NoSnapshot]
  /\ UNCHANGED <<entry, changes, window, taskVars, replaced>>

\* The page calls the function it was given when its view goes, also when that view
\* has been mounted again and subscribed anew meanwhile.
Leave(s) ==
  /\ call[s] = "subscribed" /\ Alive(s)
  /\ call' = [call EXCEPT ![s] = "leaving"]
  /\ UNCHANGED <<entry, changes, window, table, taskVars, initial, shown, heard, replaced>>

\* Mutant of AfterLeave: the entry of the label goes, whoever holds it now.
AfterLeaveByLabel(s) == DroppedByLabel({s})

AfterLeave(s) == Dropped({s})

\* The command does not ask for the window: it may run when the window has gone and
\* its label belongs to another one.
Unsubscribe(s) ==
  /\ call[s] = "leaving"
  /\ call' = [call EXCEPT ![s] = "left"]
  /\ table' = AfterLeave(s)
  /\ UNCHANGED <<entry, changes, window, taskVars, initial, shown, heard, replaced>>

-----------------------------------------------------------------------------

Next ==
  \/ \E p \in Physicals : Change(p)
  \/ \E w \in Windows : OpenWindow(w) \/ DestroyWindow(w) \/ DisconnectWindow(w)
  \/ \E n \in Notifiers :
       \/ TakeSnapshot(n) \/ DropFailed(n)
       \/ \E s \in Subscriptions : SendTo(n, s)
  \/ \E s \in Subscriptions :
       \/ Subscribe(s) \/ SubscribeRefused(s) \/ SendInitial(s)
       \/ Leave(s) \/ Unsubscribe(s)

Spec == Init /\ [][Next]_vars

-----------------------------------------------------------------------------
(* Safety                                                                  *)

CallStates == {"idle", "sending", "subscribed", "leaving", "left", "refused"}

Events == [statuses : [Servers -> StatusStates], at : 0..MaxChanges]

\* Types of the table, the tasks and the subscriptions; an entry of the table
\* belongs to a window of its label.
TypeOK ==
  /\ entry \in [Physicals -> EntryStates]
  /\ changes \in 0..MaxChanges
  /\ window \in [Windows -> {"unborn", "open", "destroyed", "cleaned"}]
  /\ table \in [Labels -> Subscriptions \cup {Nobody}]
  /\ \A l \in Labels : table[l] # Nobody => LabelOf[WindowOf[table[l]]] = l
  /\ task \in [Notifiers -> {"none", "due", "sending", "done"}]
  /\ event \in [Notifiers -> Events]
  /\ targets \in [Notifiers -> SUBSET Subscriptions]
  /\ failed \in [Notifiers -> SUBSET Subscriptions]
  /\ call \in [Subscriptions -> CallStates]
  /\ initial \in [Subscriptions -> Events]
  /\ shown \in [Subscriptions -> [Servers -> StatusStates]]
  /\ heard \in [Subscriptions -> 0..MaxChanges]
  /\ replaced \in SUBSET Subscriptions

\* The latest subscription of an open window stays in the table until its page
\* leaves it.  Nothing of an earlier subscription takes it away, neither a send to it
\* that fails late nor its own unsubscribe that runs late, whether it was one of the
\* same window or of a destroyed window whose label is used again; and a destroyed
\* window does not take the entry over.
SubscriptionKept ==
  \A s \in Subscriptions :
    call[s] \in {"sending", "subscribed"} /\ Alive(s) /\ s \notin replaced
      => table[Slot(s)] = s

\* A change whose task is done has been told to every subscription that lasts,
\* also to one that was made while the change was being announced.
ChangeIsHeard ==
  \A s \in Subscriptions : \A n \in Notifiers :
    task[n] = "done" /\ call[s] = "subscribed" /\ Alive(s) /\ s \notin replaced
      => heard[s] >= n

=============================================================================
