----------------------------- MODULE WindowState -----------------------------
(* The windows of the application, the server each is bound to and its tabs.   *)
(* The repository keeps a versioned row per window and the reference of the    *)
(* window that holds a server in SQLite, and the tabs in memory; its lock and  *)
(* an immediate transaction make each of its operations atomic.  The controller *)
(* of a page holds a copy of its window's state: it queues the user's changes,  *)
(* sends one at a time with the version it is based on, and hears of tabs that  *)
(* open_app_window opens in its window by an event.                            *)
(*                                                                             *)
(* A window may close at any moment with a command on its way, server           *)
(* profiles may be deleted and the application may restart.                     *)
EXTENDS Naturals, Sequences, FiniteSets, Subsequences

CONSTANTS
  Windows,       \* window identifiers; all but Main are drawn when they open
  Main,
  Servers,       \* the server profiles
  Threads,       \* threads of the servers
  Openers,       \* calls of open_app_window
  None,          \* no server, no thread, no window
  Capacity,      \* MAX_TABS
  MaxMutations,  \* bound of the model: changes the users make
  MaxRestarts    \* bound of the model

ASSUME WindowAssumption ==
  Main \in Windows /\ None \notin Windows \cup Servers \cup Threads
ASSUME BoundAssumption ==
  Capacity \in Nat \ {0} /\ MaxMutations \in Nat /\ MaxRestarts \in Nat

VARIABLES
  servers,       \* the rows of servers
  row,           \* window_states: version (0 without a row) and server
  reference,     \* server_window_references: the server a window holds
  runtime,       \* runtime_states: server, tabs and active tab of a window
  open,          \* windows the application has
  cleanup,       \* tasks of destroyed windows: deactivate_window
  opener,        \* the calls of open_app_window
  drawn,         \* identifiers of windows drawn so far
  tabIds,        \* identifiers of tabs drawn so far
  status,        \* the controller's snapshot: status
  view,          \* the controller's snapshot: windowState
  known,         \* authoritativeState
  queue,         \* mutations on mutationTail, the running one first
  command,       \* the command the page waits for
  events,        \* window-state-changed events on their way to a window: calls
                 \* announce what they did in any order
  listening,     \* the page has subscribed to them
  mutations, restarts  \* bounds of the model

rowVars == <<servers, row, reference, runtime>>
appVars == <<open, cleanup, opener, drawn>>
pageVars == <<status, view, known, queue, listening>>
boundVars == <<mutations, restarts>>
vars == <<rowVars, appVars, tabIds, pageVars, command, events, boundVars>>

-----------------------------------------------------------------------------
(* States of a window                                                      *)

NoTabs == [server |-> None, tabs |-> <<>>, active |-> 0]

\* WindowRuntimeState::new
OneTab(s, id, t) == [server |-> s, tabs |-> <<[id |-> id, thread |-> t]>>, active |-> id]

\* The tabs of a window that has just been bound to s
FreshTabs(s, id, t) == IF s = None THEN NoTabs ELSE OneTab(s, id, t)

NoState == [version |-> 0, server |-> None, tabs |-> <<>>, active |-> 0]

\* attach_runtime_state: the row with the tabs kept in memory
StateOf(r, t) == [version |-> r.version, server |-> r.server, tabs |-> t.tabs, active |-> t.active]

Ids(tabs) == {tabs[i].id : i \in DOMAIN tabs}

\* Where a thread is already open
TabsOf(tabs, t) == {i \in DOMAIN tabs : t # None /\ tabs[i].thread = t}

\* The windows that hold a server, but for w
HoldersBut(w, s) == {v \in Windows \ {w} : s # None /\ reference[v] = s}

NoCommand == [kind |-> "none", phase |-> "none", base |-> NoState, tabs |-> <<>>, active |-> 0,
              server |-> None, answer |-> "none", state |-> NoState, holder |-> None]

Load == [NoCommand EXCEPT !.kind = "load", !.phase = "sent"]

Idle == [pc |-> "idle", server |-> None, thread |-> None, window |-> None, state |-> NoState]

Init ==
  /\ servers = Servers
  /\ row = [w \in Windows |-> [version |-> 0, server |-> None]]
  /\ reference = [w \in Windows |-> None]
  /\ runtime = [w \in Windows |-> NoTabs]
  /\ open = {Main} /\ cleanup = {}
  /\ opener = [o \in Openers |-> Idle] /\ drawn = {Main}
  /\ tabIds = 0
  /\ status = [w \in Windows |-> IF w = Main THEN "loading" ELSE "idle"]
  /\ view = [w \in Windows |-> NoState]
  /\ known = [w \in Windows |-> NoState]
  /\ queue = [w \in Windows |-> <<>>]
  /\ command = [w \in Windows |-> IF w = Main THEN Load ELSE NoCommand]
  /\ events = [w \in Windows |-> {}]
  /\ listening = [w \in Windows |-> FALSE]
  /\ mutations = 0 /\ restarts = 0

-----------------------------------------------------------------------------
(* What a mutation makes of the tabs: applyTabsMutation                     *)

With(tabs, active) == [tabs |-> tabs, active |-> active]

Bound(tabs, id, t) == [i \in DOMAIN tabs |-> IF tabs[i].id = id THEN [tabs[i] EXCEPT !.thread = t] ELSE tabs[i]]

Without(tabs, ids) == Subsequence(tabs, {i \in DOMAIN tabs : tabs[i].id \notin ids})

\* The identifier of the tab that shows t, if there is one
Showing(tabs, t) == {tabs[i].id : i \in TabsOf(tabs, t)}

Shown(tabs, t) == With(tabs, CHOOSE id \in Showing(tabs, t) : TRUE)

Replaced(s, t) ==
  IF Showing(s.tabs, t) # {}
  THEN Shown(s.tabs, t)
  ELSE With(Bound(s.tabs, s.active, t), s.active)

\* Mutant of Opened: the thread is not looked for in the window.
OpenedAgain(s, id, t) == With(Append(s.tabs, [id |-> id, thread |-> t]), id)

\* A new tab, or the one that shows the thread already
Opened(s, id, t) ==
  IF Showing(s.tabs, t) # {}
  THEN Shown(s.tabs, t)
  ELSE With(Append(s.tabs, [id |-> id, thread |-> t]), id)

\* The tab right of a closed active tab, or else the one left of it
Neighbour(tabs, id) ==
  LET i == CHOOSE j \in DOMAIN tabs : tabs[j].id = id
  IN  IF i < Len(tabs) THEN tabs[i + 1].id ELSE tabs[i - 1].id

Closed(s, id, fresh) ==
  IF id \notin Ids(s.tabs) THEN With(s.tabs, s.active)
  ELSE IF Len(s.tabs) = 1 THEN With(<<[id |-> fresh, thread |-> None]>>, fresh)
  ELSE With(Without(s.tabs, {id}), IF id = s.active THEN Neighbour(s.tabs, id) ELSE s.active)

ClosedAll(s, ids, active) ==
  IF ids \cap Ids(s.tabs) = {} THEN With(s.tabs, s.active)
  ELSE With(Without(s.tabs, ids), active)

\* A tab whose thread another tab shows is closed in favour of that one.
Attached(s, id, t) ==
  LET others == Showing(s.tabs, t) \ {id}
  IN  IF others # {} THEN With(Without(s.tabs, {id}), CHOOSE other \in others : TRUE)
      ELSE With(Bound(s.tabs, id, t), s.active)

Applied(s, m) ==
  CASE m.kind = "replace"  -> Replaced(s, m.thread)
    [] m.kind = "open"     -> Opened(s, m.tab, m.thread)
    [] m.kind = "activate" -> With(s.tabs, m.tab)
    [] m.kind = "close"    -> Closed(s, m.tab, m.fresh)
    [] m.kind = "closeAll" -> ClosedAll(s, m.tabs, m.tab)
    [] m.kind = "attach"   -> Attached(s, m.tab, m.thread)

\* applyTabsMutation throws.
Refused(s, m) ==
  \/ s.server = None
  \/ m.kind \in {"activate", "attach"} /\ m.tab \notin Ids(s.tabs)
  \/ /\ m.kind = "closeAll" /\ m.tabs \cap Ids(s.tabs) # {}
     /\ m.tab \notin Ids(s.tabs) \ m.tabs

\* validate_tabs
Distinct(tabs, active) ==
  /\ active \in Ids(tabs)
  /\ \A i, j \in DOMAIN tabs :
       tabs[i].id = tabs[j].id \/ (tabs[i].thread # None /\ tabs[i].thread = tabs[j].thread) => i = j

ValidTabs(tabs, active) == Len(tabs) <= Capacity /\ Distinct(tabs, active)

-----------------------------------------------------------------------------
(* The repository                                                          *)

\* The command of w has been carried out with an answer; a bind or a load that
\* holds or met a server has the windows to look at before it returns.
Answers(w, answer, state) ==
  command' = [command EXCEPT ![w].phase = "answered", ![w].answer = answer, ![w].state = state]

Executed(w, state) ==
  command' = [command EXCEPT ![w].phase = "executed", ![w].answer = "state", ![w].state = state]

\* ServerAlreadyOpen, with the window that holds the server
Taken(w, s) ==
  \E v \in HoldersBut(w, s) :
    command' = [command EXCEPT ![w].phase = "executed", ![w].answer = "taken", ![w].holder = v]

\* Mutant of IsOpen: the window is taken to be there still.
StaysOpen(w) == TRUE

\* get_webview_window
IsOpen(w) == w \in open

\* The window w holds s from now on, with the tabs t.
Holds(w, s, t) ==
  /\ reference' = [reference EXCEPT ![w] = s]
  /\ runtime' = [runtime EXCEPT ![w] = t]

Sent(w, kind) == command[w].kind = kind /\ command[w].phase = "sent"

\* Mutant of Current: the version the page expects is not looked at.
CurrentWhatever(w, version) ==
  row[w].version # 0 /\ runtime[w].server = row[w].server

\* current_runtime_state and the version check
Current(w, version) ==
  /\ row[w].version # 0 /\ row[w].version = version
  /\ runtime[w].server = row[w].server

\* load_and_activate: a row is made for a new window; tabs of the server that are
\* in memory are kept.
ExecuteLoad(w) ==
  /\ Sent(w, "load")
  /\ LET r == IF row[w].version = 0 THEN [row[w] EXCEPT !.version = 1] ELSE row[w]
         t == IF runtime[w].server = r.server THEN runtime[w]
              ELSE FreshTabs(r.server, tabIds + 1, None)
     IN  \/ /\ HoldersBut(w, r.server) = {}
            /\ row' = [row EXCEPT ![w] = r]
            /\ Holds(w, r.server, t)
            /\ tabIds' = IF t = runtime[w] \/ t = NoTabs THEN tabIds ELSE tabIds + 1
            /\ Executed(w, StateOf(r, t))
         \/ /\ Taken(w, r.server)
            /\ UNCHANGED <<row, reference, runtime, tabIds>>
  /\ UNCHANGED <<servers, appVars, pageVars, events, boundVars>>

\* bind_server; no page asks for the server it has, or for none
ExecuteBind(w) ==
  /\ Sent(w, "bind")
  /\ LET s == command[w].server
         r == [version |-> row[w].version + 1, server |-> s]
         t == OneTab(s, tabIds + 1, None)
     IN  \/ /\ Current(w, command[w].base.version) /\ s \in servers
            /\ HoldersBut(w, s) = {}
            /\ row' = [row EXCEPT ![w] = r]
            /\ Holds(w, s, t)
            /\ tabIds' = tabIds + 1
            /\ Executed(w, StateOf(r, t))
         \/ /\ Current(w, command[w].base.version) /\ s \in servers
            /\ Taken(w, s)
            /\ UNCHANGED <<row, reference, runtime, tabIds>>
         \/ /\ ~(Current(w, command[w].base.version) /\ s \in servers)
            /\ Answers(w, "failed", NoState)
            /\ UNCHANGED <<row, reference, runtime, tabIds>>
  /\ UNCHANGED <<servers, appVars, pageVars, events, boundVars>>

\* update_tabs
ExecuteUpdate(w) ==
  /\ Sent(w, "update")
  /\ LET c == command[w]
         r == [row[w] EXCEPT !.version = @ + 1]
         t == [server |-> row[w].server, tabs |-> c.tabs, active |-> c.active]
     IN  IF ValidTabs(c.tabs, c.active) /\ Current(w, c.base.version) /\ row[w].server # None
         THEN /\ row' = [row EXCEPT ![w] = r]
              /\ runtime' = [runtime EXCEPT ![w] = t]
              /\ Answers(w, "state", StateOf(r, t))
         ELSE Answers(w, "failed", NoState) /\ UNCHANGED <<row, runtime>>
  /\ UNCHANGED <<servers, reference, tabIds, appVars, pageVars, events, boundVars>>

\* complete_window_reference_update and activate_window_by_id: a window destroyed
\* meanwhile gives its server back; an occupied server is only reported when its
\* window can be shown.
CompleteCommand(w) ==
  /\ command[w].phase = "executed"
  /\ IF command[w].answer = "taken"
     THEN /\ Answers(w, IF command[w].holder \in open THEN "taken" ELSE "failed", NoState)
          /\ UNCHANGED <<reference, runtime>>
     ELSE IF IsOpen(w)
     THEN Answers(w, "state", command[w].state) /\ UNCHANGED <<reference, runtime>>
     ELSE Answers(w, "failed", NoState) /\ Holds(w, None, NoTabs)
  /\ UNCHANGED <<servers, row, tabIds, appVars, pageVars, events, boundVars>>

\* deactivate_window, the task of a destroyed window
Deactivate(w) ==
  /\ w \in cleanup
  /\ cleanup' = cleanup \ {w}
  /\ Holds(w, None, NoTabs)
  /\ UNCHANGED <<servers, row, tabIds, open, opener, drawn, pageVars, command, events, boundVars>>

\* Mutant of Deletable: the windows that hold the server are not looked for.
DeletableAnyway(s) == s \in servers

Deletable(s) == s \in servers /\ HoldersBut(None, s) = {}

\* delete_server of the configuration: refused while a window holds the server;
\* closed windows that were bound to it lose it.
DeleteServer(s) ==
  /\ Deletable(s)
  /\ servers' = servers \ {s}
  /\ row' = [w \in Windows |-> IF row[w].server # s THEN row[w]
                               ELSE [version |-> row[w].version + 1, server |-> None]]
  /\ UNCHANGED <<reference, runtime, tabIds, appVars, pageVars, command, events, boundVars>>

-----------------------------------------------------------------------------
(* open_app_window                                                         *)

\* The server is looked for among the open windows.
LookUp(o) ==
  /\ opener[o].pc = "idle"
  /\ \E s \in Servers, t \in Threads \cup {None} :
       \/ \E v \in HoldersBut(None, s) :
            opener' = [opener EXCEPT ![o] = [Idle EXCEPT !.pc = "found", !.server = s, !.thread = t, !.window = v]]
       \/ /\ HoldersBut(None, s) = {}
          /\ opener' = [opener EXCEPT ![o] = [Idle EXCEPT !.pc = "absent", !.server = s, !.thread = t]]
  /\ UNCHANGED <<rowVars, open, cleanup, drawn, tabIds, pageVars, command, events, boundVars>>

Returns(o) == opener' = [opener EXCEPT ![o] = [Idle EXCEPT !.pc = "done"]]

\* open_tab_for_server: the tab is added behind the back of the window's page.
OpenTab(o) ==
  /\ opener[o].pc = "found"
  /\ LET w == opener[o].window
         s == StateOf(row[w], runtime[w])
         new == Opened(s, tabIds + 1, opener[o].thread)
         t == [server |-> s.server, tabs |-> new.tabs, active |-> new.active]
         r == IF new = With(s.tabs, s.active) THEN row[w] ELSE [row[w] EXCEPT !.version = @ + 1]
     IN  IF Current(w, row[w].version) /\ row[w].server = opener[o].server /\ ValidTabs(new.tabs, new.active)
         THEN /\ row' = [row EXCEPT ![w] = r]
              /\ runtime' = [runtime EXCEPT ![w] = t]
              /\ tabIds' = IF new.tabs = s.tabs THEN tabIds ELSE tabIds + 1
              /\ opener' = [opener EXCEPT ![o].pc = "opened", ![o].state = StateOf(r, t)]
         ELSE Returns(o) /\ UNCHANGED <<row, runtime, tabIds>>
  /\ UNCHANGED <<servers, reference, open, cleanup, drawn, pageVars, command, events, boundVars>>

\* emit_window_state_change, when the window can be shown
Announce(o) ==
  /\ opener[o].pc = "opened"
  /\ LET w == opener[o].window
     IN  IF w \in open THEN events' = [events EXCEPT ![w] = @ \cup {opener[o].state}]
         ELSE UNCHANGED events
  /\ Returns(o)
  /\ UNCHANGED <<rowVars, open, cleanup, drawn, tabIds, pageVars, command, boundVars>>

\* WindowId::new: an identifier no window has had
Unused(w) == w \notin drawn

\* reserve_new_window; an occupied or deleted server is an error.
Reserve(o) ==
  /\ opener[o].pc = "absent"
  /\ LET s == opener[o].server IN
       \/ /\ s \in servers /\ HoldersBut(None, s) = {}
          /\ \E w \in Windows :
               /\ Unused(w)
               /\ row' = [row EXCEPT ![w] = [version |-> 1, server |-> s]]
               /\ Holds(w, s, OneTab(s, tabIds + 1, opener[o].thread))
               /\ opener' = [opener EXCEPT ![o].pc = "reserved", ![o].window = w]
               /\ drawn' = drawn \cup {w}
          /\ tabIds' = tabIds + 1
       \/ /\ ~(s \in servers /\ HoldersBut(None, s) = {})
          /\ Returns(o)
          /\ UNCHANGED <<row, reference, runtime, tabIds, drawn>>
  /\ UNCHANGED <<servers, open, cleanup, pageVars, command, events, boundVars>>

\* The window is built and its page loads the state.
Build(o) ==
  /\ opener[o].pc = "reserved"
  /\ LET w == opener[o].window IN
       /\ open' = open \cup {w}
       /\ status' = [status EXCEPT ![w] = "loading"]
       /\ command' = [command EXCEPT ![w] = Load]
  /\ Returns(o)
  /\ UNCHANGED <<rowVars, cleanup, drawn, tabIds, view, known, queue, listening, events, boundVars>>

\* discard_reserved_window: the window could not be built.
Discard(o) ==
  /\ opener[o].pc = "reserved"
  /\ LET w == opener[o].window IN
       /\ row' = [row EXCEPT ![w] = [version |-> 0, server |-> None]]
       /\ Holds(w, None, NoTabs)
  /\ Returns(o)
  /\ UNCHANGED <<servers, open, cleanup, drawn, tabIds, pageVars, command, events, boundVars>>

-----------------------------------------------------------------------------
(* The page                                                                *)

Publish(w, st, state) ==
  /\ status' = [status EXCEPT ![w] = st]
  /\ view' = [view EXCEPT ![w] = state]

\* Microtasks of the page run before its next task: the next mutation starts.
Running(w) == queue[w] # <<>> /\ command[w].kind = "none"

Awake(w) == w \in open /\ ~Running(w)

\* enqueueMutation: refused without an authoritative state; answered at once when
\* nothing is pending and the server is the one asked for.
Enqueue(w, m) ==
  /\ Awake(w) /\ mutations < MaxMutations /\ known[w] # NoState
  /\ ~(queue[w] = <<>> /\ m.kind = "bind" /\ m.server = known[w].server)
  /\ queue' = [queue EXCEPT ![w] = Append(@, m)]
  /\ Publish(w, "updating", view[w])
  /\ mutations' = mutations + 1
  /\ UNCHANGED <<rowVars, appVars, known, listening, command, events, restarts>>

\* connectServer, and a deep link
Bind(w) ==
  /\ status[w] = "ready"
  /\ \E s \in Servers : Enqueue(w, [kind |-> "bind", server |-> s])
  /\ UNCHANGED tabIds

\* openNewTab and openThreadInNewTab wait for the state to be ready; the thread of a
\* deep link is opened after its bind, whatever the status is then.
OpenTabOf(w) ==
  /\ \E t \in Threads \cup {None} :
       /\ status[w] = "ready" \/ t # None
       /\ t = None \/ view[w].server # None
       /\ Enqueue(w, [kind |-> "open", tab |-> tabIds + 1, thread |-> t])
  /\ tabIds' = tabIds + 1

\* openNewTask, and openThreadFromSidebar with a blank tab: the thread replaces it,
\* or the tab that shows the thread already does.
Replace(w) ==
  /\ status[w] = "ready" /\ view[w].server # None
  /\ \E t \in Threads \cup {None} :
       IF TabsOf(view[w].tabs, t) = {} THEN Enqueue(w, [kind |-> "replace", thread |-> t])
       ELSE Enqueue(w, [kind |-> "closeAll", tabs |-> {view[w].active},
                        tab |-> Shown(view[w].tabs, t).active])
  /\ UNCHANGED tabIds

CloseTab(w) ==
  /\ status[w] = "ready"
  /\ \E id \in Ids(view[w].tabs) : Enqueue(w, [kind |-> "close", tab |-> id, fresh |-> tabIds + 1])
  /\ tabIds' = tabIds + 1

\* closeTabGroup: the other tabs, or those right of a tab
CloseGroup(w) ==
  /\ status[w] = "ready"
  /\ \E i \in DOMAIN view[w].tabs :
       LET tabs == view[w].tabs
           right == Ids(SubSeq(tabs, i + 1, Len(tabs)))
       IN  \/ /\ Len(tabs) > 1
              /\ Enqueue(w, [kind |-> "closeAll", tabs |-> Ids(tabs) \ {tabs[i].id}, tab |-> tabs[i].id])
           \/ /\ right # {}
              /\ Enqueue(w, [kind |-> "closeAll", tabs |-> right,
                             tab |-> IF view[w].active \in right THEN tabs[i].id ELSE view[w].active])
  /\ UNCHANGED tabIds

\* The shortcuts activate a tab of the view at any time.
Activate(w) ==
  /\ \E id \in Ids(view[w].tabs) : Enqueue(w, [kind |-> "activate", tab |-> id])
  /\ UNCHANGED tabIds

\* A thread started from a tab of the view is attached when its response arrives.
Attach(w) ==
  /\ \E id \in Ids(view[w].tabs), t \in Threads : Enqueue(w, [kind |-> "attach", tab |-> id, thread |-> t])
  /\ UNCHANGED tabIds

\* The status after a mutation: pendingMutationCount still counts it.
After(w) == IF Len(queue[w]) > 1 THEN "updating" ELSE "ready"

\* Mutant of Starts: mutations that follow a failed one are left waiting.
StartsIfKnown(w) == Running(w) /\ known[w] # NoState

Starts(w) == Running(w)

\* executeMutation up to the command: a mutation that throws publishes nothing.
StartMutation(w) ==
  /\ w \in open /\ Starts(w)
  /\ LET m == Head(queue[w])
         s == known[w]
         new == Applied(s, m)
         same == IF m.kind = "bind" THEN m.server = s.server ELSE new = With(s.tabs, s.active)
         refused == s = NoState \/ (m.kind # "bind" /\ Refused(s, m))
     IN  \/ /\ refused
            /\ queue' = [queue EXCEPT ![w] = Tail(@)]
            /\ UNCHANGED <<status, view, command>>
         \/ /\ ~refused /\ same
            /\ queue' = [queue EXCEPT ![w] = Tail(@)]
            /\ Publish(w, After(w), s)
            /\ UNCHANGED command
         \/ /\ ~refused /\ ~same
            /\ command' = [command EXCEPT ![w] =
                 IF m.kind = "bind"
                 THEN [NoCommand EXCEPT !.kind = "bind", !.phase = "sent", !.base = s, !.server = m.server]
                 ELSE [NoCommand EXCEPT !.kind = "update", !.phase = "sent", !.base = s,
                                        !.tabs = new.tabs, !.active = new.active]]
            /\ UNCHANGED <<status, view, queue>>
  /\ UNCHANGED <<rowVars, appVars, tabIds, known, listening, events, boundVars>>

Answered(w, answer) ==
  /\ w \in open /\ command[w].phase = "answered" /\ command[w].answer = answer
  /\ command' = [command EXCEPT ![w] = NoCommand]
  /\ queue' = [queue EXCEPT ![w] = IF command[w].kind = "load" THEN @ ELSE Tail(@)]
  /\ UNCHANGED <<rowVars, appVars, tabIds, listening, events, boundVars>>

\* finishLoad, and a mutation that succeeded
Succeed(w) ==
  /\ Answered(w, "state")
  /\ known' = [known EXCEPT ![w] = command[w].state]
  /\ Publish(w, IF command[w].kind = "load" THEN "ready" ELSE After(w), command[w].state)

\* The server is in another window: the state a bind was based on is shown again.
ServerAlreadyOpen(w) ==
  /\ command[w].kind = "bind" /\ Answered(w, "taken")
  /\ Publish(w, After(w), command[w].base)
  /\ UNCHANGED known

\* finishLoadFailure, and a mutation whose outcome is uncertain
Fail(w) ==
  /\ Answered(w, "failed") \/ (command[w].kind = "load" /\ Answered(w, "taken"))
  /\ known' = [known EXCEPT ![w] = NoState]
  /\ Publish(w, "error", view[w])

\* reload, from the error that is shown
Reload(w) ==
  /\ Awake(w) /\ status[w] = "error" /\ queue[w] = <<>>
  /\ Publish(w, "loading", view[w])
  /\ command' = [command EXCEPT ![w] = Load]
  /\ UNCHANGED <<rowVars, appVars, tabIds, known, queue, listening, events, boundVars>>

\* subscribeWindowStateChanges, once the identifier of the window is known
Listen(w) ==
  /\ Awake(w) /\ view[w] # NoState /\ ~listening[w]
  /\ listening' = [listening EXCEPT ![w] = TRUE]
  /\ UNCHANGED <<rowVars, appVars, tabIds, status, view, known, queue, command, events, boundVars>>

\* applyExternalState; an event nobody listens to is lost.
Hear(w) ==
  /\ Awake(w)
  /\ \E s \in events[w] :
       /\ events' = [events EXCEPT ![w] = @ \ {s}]
       /\ IF listening[w] /\ known[w] # NoState /\ s.version > known[w].version
          THEN /\ known' = [known EXCEPT ![w] = s]
               /\ Publish(w, IF queue[w] = <<>> THEN "ready" ELSE "updating", s)
          ELSE UNCHANGED <<status, view, known>>
  /\ UNCHANGED <<rowVars, appVars, tabIds, queue, listening, command, boundVars>>

-----------------------------------------------------------------------------
(* Windows that go, and the application that starts again                   *)

\* The page of w is gone; commands the application already has go on.
Leaves(w) ==
  /\ status' = [status EXCEPT ![w] = "idle"]
  /\ view' = [view EXCEPT ![w] = NoState]
  /\ known' = [known EXCEPT ![w] = NoState]
  /\ queue' = [queue EXCEPT ![w] = <<>>]
  /\ listening' = [listening EXCEPT ![w] = FALSE]
  /\ events' = [events EXCEPT ![w] = {}]

\* The window is destroyed: it is no longer found, and a task gives its server back.
Destroy(w) ==
  /\ w \in open
  /\ open' = open \ {w}
  /\ cleanup' = cleanup \cup {w}
  /\ Leaves(w)
  /\ UNCHANGED <<rowVars, opener, drawn, tabIds, command, boundVars>>

\* The process ends; initialize clears the references at the next start, where
\* only the main window opens.
Restart ==
  /\ restarts < MaxRestarts /\ restarts' = restarts + 1
  /\ reference' = [w \in Windows |-> None]
  /\ runtime' = [w \in Windows |-> NoTabs]
  /\ open' = {Main} /\ cleanup' = {}
  /\ opener' = [o \in Openers |-> IF opener[o].pc = "idle" THEN Idle ELSE [Idle EXCEPT !.pc = "done"]]
  /\ status' = [w \in Windows |-> IF w = Main THEN "loading" ELSE "idle"]
  /\ view' = [w \in Windows |-> NoState]
  /\ known' = [w \in Windows |-> NoState]
  /\ queue' = [w \in Windows |-> <<>>]
  /\ command' = [w \in Windows |-> IF w = Main THEN Load ELSE NoCommand]
  /\ events' = [w \in Windows |-> {}]
  /\ listening' = [w \in Windows |-> FALSE]
  /\ UNCHANGED <<servers, row, drawn, tabIds, mutations>>

-----------------------------------------------------------------------------

Repository(w) == ExecuteLoad(w) \/ ExecuteBind(w) \/ ExecuteUpdate(w) \/ CompleteCommand(w)

Page(w) == StartMutation(w) \/ Succeed(w) \/ ServerAlreadyOpen(w) \/ Fail(w)

User(w) ==
  \/ Bind(w) \/ OpenTabOf(w) \/ Replace(w) \/ CloseTab(w) \/ CloseGroup(w)
  \/ Activate(w) \/ Attach(w) \/ Reload(w) \/ Destroy(w)

Next ==
  \/ \E w \in Windows :
       Repository(w) \/ Deactivate(w) \/ Page(w) \/ User(w) \/ Listen(w) \/ Hear(w)
  \/ \E o \in Openers :
       LookUp(o) \/ OpenTab(o) \/ Announce(o) \/ Reserve(o) \/ Build(o) \/ Discard(o)
  \/ \E s \in Servers : DeleteServer(s)
  \/ Restart

Spec == Init /\ [][Next]_vars

\* The runtime carries out the commands it was given and answers them; pages
\* handle the answers.  Users, openers and the environment may stop.
FairSpec == Spec /\ \A w \in Windows : WF_vars(Repository(w)) /\ WF_vars(Page(w))

-----------------------------------------------------------------------------
(* Properties                                                              *)

\* The page of w has nothing under way that could change the server of w.
Settled(w) == w \in open /\ known[w] # NoState /\ command[w].kind = "none"

\* The server a page shows and connects to exists, is the one of the window's row
\* and of its tabs, and the window holds it, so no other window has it and its
\* profile cannot be deleted: whatever is bound, opened, closed, deleted or
\* restarted around it.
ShownServerIsHeld ==
  \A w \in Windows : Settled(w) =>
    /\ row[w].version # 0
    /\ row[w].server = known[w].server
    /\ reference[w] = known[w].server
    /\ runtime[w].server = known[w].server
    /\ known[w].server \in servers \cup {None}
    /\ HoldersBut(w, known[w].server) = {}

\* A window that is gone holds a server only while something is under way that
\* will give it back: its task, its last command, or the call that is building it.
\* A reference beyond that would make the server unusable until the next start.
ReferenceIsLive ==
  \A w \in Windows : reference[w] # None =>
    \/ w \in open \cup cleanup
    \/ command[w].phase = "executed"
    \/ \E o \in Openers : opener[o].pc = "reserved" /\ opener[o].window = w

\* A change of a page never removes a tab the page did not know when it made the
\* change: a tab opened behind its back by open_app_window survives it.
NoTabLost ==
  [][\A w \in Windows :
       w \in open /\ w \in open' /\ runtime[w].server # None /\ runtime'[w].server = runtime[w].server =>
         Ids(runtime[w].tabs) \subseteq Ids(runtime'[w].tabs) \cup Ids(command[w].base.tabs)]_vars

\* Whatever mutations were queued before it, the tabs a page sends are never
\* refused for naming a tab or a thread twice or an active tab that is not there.
UpdatesAreDistinct ==
  \A w \in Windows : command[w].kind = "update" => Distinct(command[w].tabs, command[w].active)

Busy(w) == w \in open /\ (queue[w] # <<>> \/ command[w].kind # "none")

\* Every load and every mutation of a page ends, those queued behind a failed one
\* included.
RequestsEnd == (\E w \in Windows : Busy(w)) ~> (\A w \in Windows : ~Busy(w))

\* While a page says that it is updating, a mutation is pending: connectServer
\* (App.tsx) tells the user to wait for it.
UpdatingIsPending ==
  \A w \in Windows : w \in open /\ status[w] = "updating" => queue[w] # <<>>
=============================================================================
