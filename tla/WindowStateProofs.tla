-------------------------- MODULE WindowStateProofs --------------------------
(* Proofs about WindowState, for any number of windows, servers, openers,      *)
(* mutations and restarts.                                                     *)
EXTENDS WindowState, SubsequencesProofs, TLAPS

-----------------------------------------------------------------------------
(* The inductive invariant                                                 *)

IsCommand(c) ==
  c = [kind |-> c.kind, phase |-> c.phase, base |-> c.base, tabs |-> c.tabs, active |-> c.active,
       server |-> c.server, answer |-> c.answer, state |-> c.state, holder |-> c.holder]

IsOpener(x) ==
  x = [pc |-> x.pc, server |-> x.server, thread |-> x.thread, window |-> x.window, state |-> x.state]

\* o is building the window w.
Builds(o, w) == opener[o].pc = "reserved" /\ opener[o].window = w

Reserved(w) == \E o \in Openers : Builds(o, w)

\* The command of w changed what w holds, and its page does not know yet.
Done(w) == command[w].phase \in {"executed", "answered"} /\ command[w].answer = "state"

\* The states of w that its page may yet hear of
Told(w) ==
  events[w] \cup {opener[o].state : o \in {p \in Openers : opener[p].pc = "opened" /\ opener[p].window = w}}

\* The row, the reference and the tabs of w agree.
Tied(w) ==
  /\ row[w].version # 0
  /\ reference[w] = row[w].server
  /\ runtime[w].server = row[w].server

RowsType ==
  /\ servers \subseteq Servers
  /\ row \in [Windows -> [version : Nat, server : Servers \cup {None}]]
  /\ reference \in [Windows -> Servers \cup {None}]
  /\ DOMAIN runtime = Windows

PagesType ==
  /\ DOMAIN status = Windows
  /\ DOMAIN known = Windows
  /\ \A w \in Windows : known[w].version \in Nat
  /\ DOMAIN events = Windows
  /\ \A w \in Windows : \A e \in events[w] : e.version \in Nat

CommandsType ==
  /\ DOMAIN command = Windows
  /\ \A w \in Windows : /\ IsCommand(command[w])
                        /\ command[w].state.version \in Nat
                        /\ command[w].kind \in {"none", "load", "bind", "update"}
                        /\ command[w].kind = "none" => command[w] = NoCommand
                        /\ command[w].phase = "executed" => command[w].answer \in {"state", "taken"}

OpenersType ==
  /\ DOMAIN opener = Openers
  /\ \A o \in Openers :
       /\ IsOpener(opener[o])
       /\ opener[o].state.version \in Nat
       /\ opener[o].pc \in {"found", "absent"} => opener[o].server \in Servers
       /\ opener[o].pc \in {"found", "opened", "reserved"} => opener[o].window \in drawn

\* Where a window is: a window being built is nowhere else, and nobody else builds it.
Places ==
  /\ open \cup cleanup \subseteq drawn /\ drawn \subseteq Windows /\ Main \in drawn
  /\ open \cap cleanup = {}
  /\ \A o \in Openers : \A w \in Windows : Builds(o, w) =>
       /\ w \notin open \cup cleanup
       /\ command[w] = NoCommand
       /\ Tied(w)
       /\ \A p \in Openers : Builds(p, w) => p = o

\* A window that was not drawn has nothing, and a window that is not open has no page.
Absent ==
  \A w \in Windows :
    /\ w \notin drawn => command[w] = NoCommand /\ reference[w] = None
    /\ w \notin open => known[w] = NoState /\ events[w] = {}

LiveReference ==
  \A w \in Windows : reference[w] # None =>
    \/ w \in open \cup cleanup
    \/ command[w].phase = "executed" /\ command[w].answer = "state"
    \/ Reserved(w)

Exclusive ==
  \A v, w \in Windows : reference[v] # None /\ reference[v] = reference[w] => v = w

Existing ==
  \A w \in Windows : reference[w] \in servers \cup {None} /\ row[w].server \in servers \cup {None}

\* What the page of an open window knows, or is about to be told by its command
Known ==
  \A w \in open :
    /\ known[w] # NoState /\ ~Done(w) => Tied(w) /\ known[w].server = row[w].server
    /\ Done(w) => /\ Tied(w)
                  /\ command[w].state.server = row[w].server
                  /\ command[w].state.version # 0
    /\ command[w].kind = "load" \/ status[w] = "error" => known[w] = NoState
    /\ command[w].kind \in {"bind", "update"} => known[w] # NoState

\* An event newer than what the page knows names the server the window has.
Newer ==
  \A w \in Windows : \A e \in Told(w) :
    /\ w \in open \/ Reserved(w) => e.version <= row[w].version
    /\ w \in open /\ known[w] # NoState /\ ~Done(w) /\ e.version > known[w].version
         => e.server = row[w].server
    /\ w \in open /\ Done(w) /\ e.version > command[w].state.version
         => e.server = row[w].server

Inv ==
  /\ RowsType /\ PagesType /\ CommandsType /\ OpenersType
  /\ Places /\ Absent /\ LiveReference /\ Exclusive /\ Existing /\ Known /\ Newer

-----------------------------------------------------------------------------
(* The invariant holds at first                                            *)

LEMMA LoadFields ==
  /\ IsCommand(Load) /\ Load.kind = "load" /\ Load.phase = "sent" /\ Load.state = NoState
  /\ IsCommand(NoCommand) /\ NoCommand.kind = "none" /\ NoCommand.phase = "none"
  /\ NoCommand.state = NoState /\ NoState.version = 0
<1>1. /\ IsCommand(NoCommand) /\ NoCommand.kind = "none" /\ NoCommand.phase = "none"
      /\ NoCommand.state = NoState
  BY DEF NoCommand, IsCommand
<1>2. PICK c : c = [NoCommand EXCEPT !.kind = "load", !.phase = "sent"] OBVIOUS
<1>3. c = [kind |-> "load", phase |-> "sent", base |-> NoCommand.base, tabs |-> NoCommand.tabs,
           active |-> NoCommand.active, server |-> NoCommand.server, answer |-> NoCommand.answer,
           state |-> NoCommand.state, holder |-> NoCommand.holder]
  BY <1>1, <1>2 DEF IsCommand
<1>4. IsCommand(c) /\ c.kind = "load" /\ c.phase = "sent" /\ c.state = NoState
  BY <1>1, <1>3 DEF IsCommand
<1>5. Load = c BY <1>2 DEF Load
<1>. QED BY <1>1, <1>4, <1>5 DEF NoState

LEMMA InitInv == Init => Inv
<1>. SUFFICES ASSUME Init PROVE Inv OBVIOUS
<1>. USE WindowAssumption DEF Init
<1>1. RowsType /\ PagesType BY DEF RowsType, PagesType, NoState
<1>2. CommandsType BY DEF CommandsType, IsCommand, NoCommand, Load, NoState
<1>3. OpenersType BY DEF OpenersType, IsOpener, Idle, NoState
<1>4. Places /\ Absent /\ LiveReference
  BY DEF Places, Absent, LiveReference, Builds, Idle, NoCommand, Load
<1>5. Exclusive /\ Existing BY DEF Exclusive, Existing
<1>6. Known BY DEF Known, Done, NoCommand, Load
<1>7. Newer BY DEF Newer, Told, Idle
<1>. QED BY <1>1, <1>2, <1>3, <1>4, <1>5, <1>6, <1>7 DEF Inv

-----------------------------------------------------------------------------
(* The steps of the repository                                             *)

\* The command of w reached another phase with this answer; nothing else of it changed.
Becomes(w, phase, answer) ==
  /\ DOMAIN command' = Windows /\ IsCommand(command'[w])
  /\ command'[w].kind = command[w].kind /\ command'[w].server = command[w].server
  /\ command'[w].base = command[w].base
  /\ command'[w].tabs = command[w].tabs /\ command'[w].active = command[w].active
  /\ command'[w].phase = phase /\ command'[w].answer = answer
  /\ command'[w].state.version \in Nat
  /\ \A v \in Windows \ {w} : command'[v] = command[v]

LEMMA ExecutedBecomes ==
  ASSUME CommandsType, NEW w \in Windows, NEW st, st.version \in Nat, Executed(w, st)
  PROVE  Becomes(w, "executed", "state") /\ command'[w].state = st
<1>1. /\ command'[w] = [command[w] EXCEPT !.phase = "executed", !.answer = "state", !.state = st]
      /\ DOMAIN command' = Windows /\ \A v \in Windows \ {w} : command'[v] = command[v]
  BY DEF CommandsType, Executed
<1>2. command'[w] =
         [kind |-> command[w].kind, phase |-> "executed", base |-> command[w].base, tabs |-> command[w].tabs,
          active |-> command[w].active, server |-> command[w].server, answer |-> "state",
          state |-> st, holder |-> command[w].holder]
  BY <1>1 DEF CommandsType, IsCommand
<1>. QED BY <1>1, <1>2 DEF CommandsType, IsCommand, Becomes

LEMMA AnswersBecomes ==
  ASSUME CommandsType, NEW w \in Windows, NEW st, st.version \in Nat, NEW answer, Answers(w, answer, st)
  PROVE  Becomes(w, "answered", answer) /\ command'[w].state = st
<1>1. /\ command'[w] = [command[w] EXCEPT !.phase = "answered", !.answer = answer, !.state = st]
      /\ DOMAIN command' = Windows /\ \A v \in Windows \ {w} : command'[v] = command[v]
  BY DEF CommandsType, Answers
<1>2. command'[w] =
         [kind |-> command[w].kind, phase |-> "answered", base |-> command[w].base, tabs |-> command[w].tabs,
          active |-> command[w].active, server |-> command[w].server, answer |-> answer,
          state |-> st, holder |-> command[w].holder]
  BY <1>1 DEF CommandsType, IsCommand
<1>. QED BY <1>1, <1>2 DEF CommandsType, IsCommand, Becomes

LEMMA TakenBecomes ==
  ASSUME CommandsType, NEW w \in Windows, NEW s, Taken(w, s)
  PROVE  Becomes(w, "executed", "taken") /\ command'[w].state = command[w].state
<1>0. PICK x \in HoldersBut(w, s) :
       command' = [command EXCEPT ![w].phase = "executed", ![w].answer = "taken", ![w].holder = x]
  BY DEF Taken
<1>1. /\ command'[w] = [command[w] EXCEPT !.phase = "executed", !.answer = "taken", !.holder = x]
      /\ DOMAIN command' = Windows /\ \A v \in Windows \ {w} : command'[v] = command[v]
  BY <1>0 DEF CommandsType
<1>2. command'[w] =
         [kind |-> command[w].kind, phase |-> "executed", base |-> command[w].base, tabs |-> command[w].tabs,
          active |-> command[w].active, server |-> command[w].server, answer |-> "taken",
          state |-> command[w].state, holder |-> x]
  BY <1>1 DEF CommandsType, IsCommand
<1>. QED BY <1>1, <1>2 DEF CommandsType, IsCommand, Becomes

\* Unless its kind is "none", the command of w is one of a window that was drawn and
\* is not being built.
LEMMA CommandOfDrawn ==
  ASSUME Inv, NEW w \in Windows, command[w].kind # "none"
  PROVE  w \in drawn /\ ~Reserved(w)
BY DEF Inv, Places, Absent, Reserved, NoCommand

LEMMA KeepsCommands ==
  ASSUME Inv, NEW w \in Windows, NEW phase, NEW answer, Becomes(w, phase, answer),
         command[w].kind # "none", phase = "executed" => answer \in {"state", "taken"}
  PROVE  CommandsType'
BY DEF Inv, CommandsType, Becomes

\* A command that is refused or fails leaves everything as it was.
LEMMA WithoutEffect ==
  ASSUME Inv, NEW w \in Windows, NEW phase, NEW answer, Becomes(w, phase, answer),
         phase = "executed" => answer = "taken", answer # "state", ~Done(w), command[w].kind # "none",
         UNCHANGED <<rowVars, appVars, pageVars, events>>
  PROVE  Inv'
<1>. USE DEF rowVars, appVars, pageVars, Becomes
<1>1. RowsType' /\ PagesType' /\ OpenersType' BY DEF Inv, RowsType, PagesType, OpenersType
<1>2. CommandsType' BY KeepsCommands
<1>3. Places' /\ Absent' BY CommandOfDrawn DEF Inv, Places, Absent, Builds, Reserved, Tied
<1>4. LiveReference' BY DEF Inv, LiveReference, Reserved, Builds, Done
<1>5. Exclusive' /\ Existing' BY DEF Inv, Exclusive, Existing
<1>7. Known' BY DEF Inv, Places, Known, Done, Tied
<1>6. Newer' BY DEF Inv, Newer, Told, Done, Reserved, Builds
<1>. QED BY <1>1, <1>2, <1>3, <1>4, <1>5, <1>6, <1>7 DEF Inv

\* A load or a bind is carried out: w holds a server that no other window holds.
LEMMA Binding ==
  ASSUME Inv, NEW w \in Windows, command[w].kind # "none",
         Becomes(w, "executed", "state"),
         row' \in [Windows -> [version : Nat, server : Servers \cup {None}]],
         \A v \in Windows \ {w} : row'[v] = row[v],
         row'[w].version # 0, row'[w].version >= row[w].version,
         row'[w].server \in servers \cup {None}, HoldersBut(w, row'[w].server) = {},
         Holds(w, row'[w].server, runtime'[w]), runtime'[w].server = row'[w].server,
         command'[w].state.version = row'[w].version, command'[w].state.server = row'[w].server,
         UNCHANGED <<servers, appVars, pageVars, events>>
  PROVE  Inv'
<1>. USE DEF appVars, pageVars, Becomes
<1>1. RowsType' /\ PagesType' /\ OpenersType' BY DEF Inv, RowsType, PagesType, OpenersType, Holds
<1>2. CommandsType' BY KeepsCommands
<1>3. /\ reference'[w] = row'[w].server
      /\ \A v \in Windows \ {w} : reference'[v] = reference[v] /\ runtime'[v] = runtime[v]
  BY DEF Inv, RowsType, Holds
<1>4. Places' /\ Absent' BY <1>3, CommandOfDrawn DEF Inv, Places, Absent, Builds, Reserved, Tied
<1>5. LiveReference' BY <1>3 DEF Inv, LiveReference, Reserved, Builds
<1>6. Exclusive' BY <1>3 DEF Inv, Exclusive, HoldersBut
<1>9. Existing' BY <1>3 DEF Inv, Existing
<1>7. Known' BY <1>3 DEF Inv, Places, Known, Done, Tied
<1>8. Newer'
  <2>1. ~Reserved(w) BY CommandOfDrawn
  <2>2. \A v \in Windows : /\ Told(v)' = Told(v) /\ (Reserved(v)' <=> Reserved(v))
                            /\ \A e \in Told(v) : e.version \in Nat
    BY DEF Inv, PagesType, OpenersType, Told, Reserved, Builds
  <2>. QED BY <2>1, <2>2 DEF Inv, Newer, Done, RowsType
<1>. QED BY <1>1, <1>2, <1>4, <1>5, <1>6, <1>7, <1>8, <1>9 DEF Inv

LEMMA LoadStep ==
  ASSUME Inv, NEW w \in Windows, ExecuteLoad(w)
  PROVE  Inv'
<1>. DEFINE r == IF row[w].version = 0 THEN [row[w] EXCEPT !.version = 1] ELSE row[w]
            t == IF runtime[w].server = r.server THEN runtime[w]
                 ELSE FreshTabs(r.server, tabIds + 1, None)
<1>1. /\ command[w].kind # "none" /\ ~Done(w) /\ CommandsType
      /\ UNCHANGED <<servers, appVars, pageVars, events>>
  BY DEF Inv, ExecuteLoad, Sent, Done
<1>2. CASE Taken(w, r.server) /\ UNCHANGED <<row, reference, runtime>>
  <2>1. Becomes(w, "executed", "taken") BY <1>1, <1>2, TakenBecomes
  <2>. QED BY <1>1, <1>2, <2>1, WithoutEffect DEF rowVars
<1>3. CASE /\ HoldersBut(w, r.server) = {}
           /\ row' = [row EXCEPT ![w] = r] /\ Holds(w, r.server, t) /\ Executed(w, StateOf(r, t))
  <2>1. /\ r \in [version : Nat, server : Servers \cup {None}]
        /\ r.version # 0 /\ r.version >= row[w].version /\ r.server = row[w].server
        /\ r.server \in servers \cup {None}
    BY DEF Inv, RowsType, Existing
  <2>2. t.server = r.server BY DEF FreshTabs, OneTab, NoTabs
  <2>3. StateOf(r, t).version = r.version /\ StateOf(r, t).server = r.server BY DEF StateOf
  <2>. HIDE DEF r, t
  <2>4. /\ Becomes(w, "executed", "state") /\ command'[w].state = StateOf(r, t)
    BY <1>1, <1>3, <2>1, <2>3, ExecutedBecomes
  <2>5. /\ row'[w] = r /\ \A v \in Windows \ {w} : row'[v] = row[v]
        /\ row' \in [Windows -> [version : Nat, server : Servers \cup {None}]]
        /\ runtime'[w] = t
    BY <1>3, <2>1 DEF Inv, RowsType, Holds
  <2>. QED BY <1>1, <1>3, <2>1, <2>2, <2>3, <2>4, <2>5, Binding
<1>. QED BY <1>2, <1>3 DEF ExecuteLoad

LEMMA BindStep ==
  ASSUME Inv, NEW w \in Windows, ExecuteBind(w)
  PROVE  Inv'
<1>. DEFINE s == command[w].server
            r == [version |-> row[w].version + 1, server |-> s]
            t == OneTab(s, tabIds + 1, None)
<1>1. /\ command[w].kind # "none" /\ ~Done(w) /\ CommandsType
      /\ UNCHANGED <<servers, appVars, pageVars, events>>
  BY DEF Inv, ExecuteBind, Sent, Done, CommandsType
<1>2. CASE Taken(w, s) /\ UNCHANGED <<row, reference, runtime>>
  <2>1. Becomes(w, "executed", "taken") BY <1>1, <1>2, TakenBecomes
  <2>. QED BY <1>1, <1>2, <2>1, WithoutEffect DEF rowVars
<1>3. CASE Answers(w, "failed", NoState) /\ UNCHANGED <<row, reference, runtime>>
  <2>1. Becomes(w, "answered", "failed") BY <1>1, <1>3, AnswersBecomes DEF NoState
  <2>. QED BY <1>1, <1>3, <2>1, WithoutEffect DEF rowVars
<1>4. CASE /\ s \in servers /\ HoldersBut(w, s) = {}
           /\ row' = [row EXCEPT ![w] = r] /\ Holds(w, s, t) /\ Executed(w, StateOf(r, t))
  <2>1. /\ r \in [version : Nat, server : Servers \cup {None}]
        /\ r.version # 0 /\ r.version >= row[w].version /\ r.server = s
    BY <1>4 DEF Inv, RowsType
  <2>2. t.server = s BY DEF OneTab
  <2>3. StateOf(r, t).version = r.version /\ StateOf(r, t).server = s BY DEF StateOf
  <2>. HIDE DEF r, t
  <2>4. /\ Becomes(w, "executed", "state") /\ command'[w].state = StateOf(r, t)
    BY <1>1, <1>4, <2>1, <2>3, ExecutedBecomes
  <2>5. /\ row'[w] = r /\ \A v \in Windows \ {w} : row'[v] = row[v]
        /\ row' \in [Windows -> [version : Nat, server : Servers \cup {None}]]
        /\ runtime'[w] = t
    BY <1>4, <2>1 DEF Inv, RowsType, Holds
  <2>. QED BY <1>1, <1>4, <2>1, <2>2, <2>3, <2>4, <2>5, Binding
<1>. QED BY <1>2, <1>3, <1>4 DEF ExecuteBind

LEMMA UpdateStep ==
  ASSUME Inv, NEW w \in Windows, ExecuteUpdate(w)
  PROVE  Inv'
<1>. DEFINE r == [row[w] EXCEPT !.version = @ + 1]
            t == [server |-> row[w].server, tabs |-> command[w].tabs, active |-> command[w].active]
<1>1. /\ command[w].kind = "update" /\ command[w].phase = "sent" /\ ~Done(w) /\ CommandsType
      /\ UNCHANGED <<servers, reference, appVars, pageVars, events>>
  BY DEF Inv, ExecuteUpdate, Sent, Done
<1>2. CASE Answers(w, "failed", NoState) /\ UNCHANGED <<row, runtime>>
  <2>1. Becomes(w, "answered", "failed") BY <1>1, <1>2, AnswersBecomes DEF NoState
  <2>. QED BY <1>1, <1>2, <2>1, WithoutEffect DEF rowVars
<1>3. CASE /\ row' = [row EXCEPT ![w] = r] /\ runtime' = [runtime EXCEPT ![w] = t]
           /\ Answers(w, "state", StateOf(r, t))
  <2>1. /\ r \in [version : Nat, server : Servers \cup {None}]
        /\ r.version # 0 /\ r.version > row[w].version /\ r.server = row[w].server
    BY DEF Inv, RowsType
  <2>2. t.server = r.server BY <2>1
  <2>3. StateOf(r, t).version = r.version /\ StateOf(r, t).server = r.server BY DEF StateOf
  <2>. HIDE DEF r, t
  <2>4. /\ Becomes(w, "answered", "state") /\ command'[w].state = StateOf(r, t)
    BY <1>1, <1>3, <2>1, <2>3, AnswersBecomes
  <2>5. /\ row'[w] = r /\ runtime'[w] = t
        /\ \A v \in Windows \ {w} : row'[v] = row[v] /\ runtime'[v] = runtime[v]
    BY <1>3 DEF Inv, RowsType
  <2>. USE DEF appVars, pageVars, Becomes
  <2>6. RowsType' /\ PagesType' /\ OpenersType'
    BY <1>1, <1>3, <2>1 DEF Inv, RowsType, PagesType, OpenersType
  <2>7. CommandsType' BY <1>1, <2>4, KeepsCommands
  <2>8. Places' /\ Absent'
    BY <1>1, <2>4, <2>5, CommandOfDrawn DEF Inv, Places, Absent, Builds, Reserved, Tied
  <2>9. LiveReference' /\ Exclusive'
    BY <1>1, <2>4 DEF Inv, LiveReference, Exclusive, Reserved, Builds
  <2>10. Existing' BY <1>1, <2>1, <2>5 DEF Inv, Existing
  <2>11. Known'
    BY <1>1, <2>1, <2>2, <2>3, <2>4, <2>5 DEF Inv, Places, Known, Done, Tied
  <2>12. Newer'
    <3>1. \A v \in Windows : /\ Told(v)' = Told(v) /\ (Reserved(v)' <=> Reserved(v))
                              /\ \A e \in Told(v) : e.version \in Nat
      BY <1>1 DEF Inv, PagesType, OpenersType, Told, Reserved, Builds
    <3>. QED BY <1>1, <2>1, <2>3, <2>4, <2>5, <3>1 DEF Inv, Newer, Done, RowsType
  <2>. QED BY <2>6, <2>7, <2>8, <2>9, <2>10, <2>11, <2>12 DEF Inv
<1>. QED BY <1>2, <1>3 DEF ExecuteUpdate

LEMMA CompleteStep ==
  ASSUME Inv, NEW w \in Windows, CompleteCommand(w)
  PROVE  Inv'
<1>1. /\ command[w].kind # "none" /\ CommandsType /\ command[w].phase = "executed"
      /\ UNCHANGED <<servers, row, appVars, pageVars, events>>
  BY DEF Inv, CompleteCommand, CommandsType, NoCommand
<1>2. CASE command[w].answer = "taken"
  <2>1. PICK answer \in {"taken", "failed"} :
          Answers(w, answer, NoState) /\ UNCHANGED <<reference, runtime>>
    BY <1>2 DEF CompleteCommand
  <2>2. Becomes(w, "answered", answer) BY <1>1, <2>1, AnswersBecomes DEF NoState
  <2>. QED BY <1>1, <1>2, <2>1, <2>2, WithoutEffect DEF rowVars, Done
<1>3. CASE command[w].answer = "state" /\ w \in open
  <2>1. Answers(w, "state", command[w].state) /\ UNCHANGED <<reference, runtime>>
    BY <1>3 DEF CompleteCommand, IsOpen
  <2>2. Becomes(w, "answered", "state") /\ command'[w].state = command[w].state
    BY <1>1, <2>1, AnswersBecomes DEF CommandsType
  <2>. USE <1>1, <2>1, <2>2 DEF appVars, pageVars, Becomes
  <2>3. RowsType' /\ PagesType' /\ OpenersType' BY DEF Inv, RowsType, PagesType, OpenersType
  <2>4. CommandsType' BY KeepsCommands
  <2>5. Places' /\ Absent' BY CommandOfDrawn DEF Inv, Places, Absent, Builds, Reserved, Tied
  <2>6. LiveReference' BY <1>3 DEF Inv, LiveReference, Reserved, Builds
  <2>7. Exclusive' /\ Existing' BY DEF Inv, Exclusive, Existing
  <2>8. Known' BY <1>3 DEF Inv, Places, Known, Done, Tied
  <2>9. Newer' BY <1>3 DEF Inv, Newer, Told, Done, Reserved, Builds
  <2>. QED BY <2>3, <2>4, <2>5, <2>6, <2>7, <2>8, <2>9 DEF Inv
<1>4. CASE command[w].answer = "state" /\ w \notin open
  <2>1. Answers(w, "failed", NoState) /\ Holds(w, None, NoTabs)
    BY <1>4 DEF CompleteCommand, IsOpen
  <2>2. Becomes(w, "answered", "failed") BY <1>1, <2>1, AnswersBecomes DEF NoState
  <2>3. /\ reference'[w] = None
        /\ \A v \in Windows \ {w} : reference'[v] = reference[v] /\ runtime'[v] = runtime[v]
    BY <2>1 DEF Inv, RowsType, Holds
  <2>. USE <1>1, <2>2, <2>3 DEF appVars, pageVars, Becomes
  <2>4. RowsType' BY <2>1 DEF Inv, RowsType, Holds
  <2>5. PagesType' /\ OpenersType' BY DEF Inv, PagesType, OpenersType
  <2>6. CommandsType' BY KeepsCommands
  <2>7. Places' /\ Absent' BY CommandOfDrawn DEF Inv, Places, Absent, Builds, Reserved, Tied
  <2>8. LiveReference' BY DEF Inv, LiveReference, Reserved, Builds
  <2>9. Exclusive' /\ Existing' BY DEF Inv, Exclusive, Existing
  <2>10. Known' BY <1>4 DEF Inv, Places, Known, Done, Tied
  <2>11. Newer' BY <1>4 DEF Inv, Newer, Told, Done, Reserved, Builds
  <2>. QED BY <2>4, <2>5, <2>6, <2>7, <2>8, <2>9, <2>10, <2>11 DEF Inv
<1>. QED BY <1>1, <1>2, <1>3, <1>4 DEF CommandsType

LEMMA DeactivateStep ==
  ASSUME Inv, NEW w \in Windows, Deactivate(w)
  PROVE  Inv'
<1>1. /\ reference'[w] = None /\ w \in cleanup /\ w \notin open /\ w \in drawn /\ ~Reserved(w)
      /\ \A v \in Windows \ {w} : reference'[v] = reference[v] /\ runtime'[v] = runtime[v]
  BY DEF Inv, RowsType, Holds, Deactivate, Places, Reserved
<1>. USE <1>1 DEF Deactivate, pageVars
<1>2. RowsType' BY DEF Inv, RowsType, Holds
<1>3. PagesType' /\ CommandsType' /\ OpenersType' BY DEF Inv, PagesType, CommandsType, OpenersType
<1>4. Places' /\ Absent' BY DEF Inv, Places, Absent, Builds, Reserved, Tied
<1>5. LiveReference' BY DEF Inv, LiveReference, Reserved, Builds
<1>6. Exclusive' /\ Existing' BY DEF Inv, Exclusive, Existing
<1>7. Known' BY DEF Inv, Places, Known, Done, Tied
<1>8. Newer' BY DEF Inv, Newer, Told, Done, Reserved, Builds
<1>. QED BY <1>2, <1>3, <1>4, <1>5, <1>6, <1>7, <1>8 DEF Inv

LEMMA DeleteStep ==
  ASSUME Inv, NEW s \in Servers, DeleteServer(s)
  PROVE  Inv'
<1>1. \A w \in Windows : reference[w] # s
  BY WindowAssumption DEF DeleteServer, Deletable, HoldersBut
<1>2. /\ row' \in [Windows -> [version : Nat, server : Servers \cup {None}]]
      /\ \A w \in Windows : /\ row'[w].version >= row[w].version
                            /\ IF row[w].server # s THEN row'[w] = row[w]
                               ELSE ~Tied(w) /\ row'[w].server = None
  BY <1>1 DEF Inv, RowsType, DeleteServer, Tied
<1>. USE <1>1, <1>2 DEF DeleteServer, appVars, pageVars
<1>3. RowsType' BY DEF Inv, RowsType, Deletable
<1>4. PagesType' /\ CommandsType' /\ OpenersType' BY DEF Inv, PagesType, CommandsType, OpenersType
<1>5. Places' /\ Absent' BY DEF Inv, Places, Absent, Builds, Tied
<1>6. LiveReference' /\ Exclusive' BY DEF Inv, LiveReference, Exclusive, Reserved, Builds
<1>7. Existing' BY DEF Inv, Existing
<1>8. Known' BY DEF Inv, Places, Known, Done, Tied
<1>9. Newer'
  <2>1. \A v \in Windows : /\ Told(v)' = Told(v) /\ (Reserved(v)' <=> Reserved(v)) /\ (Done(v)' <=> Done(v))
                            /\ \A e \in Told(v) : e.version \in Nat
    BY DEF Inv, PagesType, OpenersType, Told, Reserved, Builds, Done
  <2>2. \A w \in open : known[w] # NoState \/ Done(w) => Tied(w) BY DEF Inv, Known
  <2>. QED BY <2>1, <2>2 DEF Inv, Newer, RowsType
<1>. QED BY <1>3, <1>4, <1>5, <1>6, <1>7, <1>8, <1>9 DEF Inv

-----------------------------------------------------------------------------
(* The steps of open_app_window                                            *)

\* The call o reached another point and names this window.
Moves(o, pc, w) ==
  /\ DOMAIN opener' = Openers /\ IsOpener(opener'[o])
  /\ opener'[o].pc = pc /\ opener'[o].window = w /\ opener'[o].state.version \in Nat
  /\ pc \in {"found", "absent"} => opener'[o].server \in Servers
  /\ \A p \in Openers \ {o} : opener'[p] = opener[p]

LEMMA ReturnsMoves ==
  ASSUME OpenersType, NEW o \in Openers, Returns(o)
  PROVE  Moves(o, "done", None)
BY DEF OpenersType, Returns, Moves, IsOpener, Idle, NoState

\* A call that looks or returns leaves everything as it was.
LEMMA OpenerOnly ==
  ASSUME Inv, NEW o \in Openers, NEW pc, NEW w, Moves(o, pc, w),
         pc \in {"found", "absent", "done"}, pc = "found" => w \in drawn,
         opener[o].pc # "reserved",
         UNCHANGED <<rowVars, open, cleanup, drawn, pageVars, command, events>>
  PROVE  Inv'
<1>. USE DEF rowVars, pageVars, Moves
<1>1. RowsType' /\ PagesType' /\ CommandsType' BY DEF Inv, RowsType, PagesType, CommandsType
<1>2. OpenersType' BY DEF Inv, OpenersType
<1>3. \A v \in Windows : /\ Told(v)' \subseteq Told(v)
                          /\ \A p \in Openers : Builds(p, v)' <=> Builds(p, v)
  BY DEF Told, Builds
<1>4. Places' /\ Absent' BY <1>3 DEF Inv, Places, Absent, Tied
<1>5. LiveReference' /\ Exclusive' /\ Existing'
  BY <1>3 DEF Inv, LiveReference, Exclusive, Existing, Reserved
<1>6. Known' BY DEF Inv, Known, Done, Tied
<1>7. Newer' BY <1>3 DEF Inv, Newer, Done, Reserved
<1>. QED BY <1>1, <1>2, <1>4, <1>5, <1>6, <1>7 DEF Inv

LEMMA LookUpStep ==
  ASSUME Inv, NEW o \in Openers, LookUp(o)
  PROVE  Inv'
<1>1. PICK s \in Servers, t \in Threads \cup {None} :
        \/ \E v \in HoldersBut(None, s) :
             opener' = [opener EXCEPT ![o] = [Idle EXCEPT !.pc = "found", !.server = s, !.thread = t, !.window = v]]
        \/ opener' = [opener EXCEPT ![o] = [Idle EXCEPT !.pc = "absent", !.server = s, !.thread = t]]
  BY DEF LookUp
<1>2. \A v \in HoldersBut(None, s) : v \in drawn
  BY WindowAssumption DEF Inv, Absent, HoldersBut, RowsType
<1>3. Moves(o, "absent", None) \/ \E v \in drawn : Moves(o, "found", v)
  <2>1. /\ DOMAIN opener = Openers /\ IsOpener(opener'[o]) /\ opener'[o].server = s
        /\ opener'[o].state = NoState
        /\ \/ opener'[o].pc = "absent" /\ opener'[o].window = None
           \/ \E v \in drawn : opener'[o].pc = "found" /\ opener'[o].window = v
    BY <1>1, <1>2 DEF Inv, OpenersType, IsOpener, Idle
  <2>2. DOMAIN opener' = Openers /\ \A p \in Openers \ {o} : opener'[p] = opener[p]
    BY <1>1 DEF Inv, OpenersType
  <2>. QED BY <2>1, <2>2 DEF Moves, NoState
<1>. QED BY <1>3, OpenerOnly DEF LookUp

LEMMA OpenTabStep ==
  ASSUME Inv, NEW o \in Openers, OpenTab(o)
  PROVE  Inv'
<1>0. PICK w \in drawn : w = opener[o].window BY DEF OpenTab, Inv, OpenersType
<1>. DEFINE old == StateOf(row[w], runtime[w])
            new == Opened(old, tabIds + 1, opener[o].thread)
            t == [server |-> old.server, tabs |-> new.tabs, active |-> new.active]
            r == IF new = With(old.tabs, old.active) THEN row[w] ELSE [row[w] EXCEPT !.version = @ + 1]
<1>1. w \in drawn /\ w \in Windows /\ opener[o].pc = "found" BY DEF OpenTab, Inv, Places
<1>2. CASE Returns(o) /\ UNCHANGED <<row, runtime>>
  <2>1. Moves(o, "done", None) BY <1>2, ReturnsMoves DEF Inv
  <2>. QED BY <1>1, <1>2, <2>1, OpenerOnly DEF OpenTab, rowVars
<1>3. CASE /\ row' = [row EXCEPT ![w] = r] /\ runtime' = [runtime EXCEPT ![w] = t]
           /\ opener' = [opener EXCEPT ![o].pc = "opened", ![o].state = StateOf(r, t)]
           /\ row[w].version # 0 /\ runtime[w].server = row[w].server
  <2>1. /\ r \in [version : Nat, server : Servers \cup {None}]
        /\ r.version # 0 /\ r.version >= row[w].version /\ r.server = row[w].server
    BY <1>1, <1>3 DEF Inv, RowsType
  <2>2. t.server = row[w].server BY DEF StateOf
  <2>3. StateOf(r, t).version = r.version /\ StateOf(r, t).server = r.server BY DEF StateOf
  <2>. HIDE DEF r, t
  <2>4. Moves(o, "opened", w) /\ opener'[o].state = StateOf(r, t)
    <3>1. opener'[o] = [pc |-> "opened", server |-> opener[o].server, thread |-> opener[o].thread,
                        window |-> w, state |-> StateOf(r, t)]
      <4>1. opener'[o] = [opener[o] EXCEPT !.pc = "opened", !.state = StateOf(r, t)]
        BY <1>3 DEF Inv, OpenersType
      <4>. QED BY <1>0, <4>1 DEF Inv, OpenersType, IsOpener
    <3>. QED BY <1>3, <2>1, <2>3, <3>1 DEF Inv, OpenersType, Moves, IsOpener
  <2>5. /\ row'[w] = r /\ runtime'[w] = t
        /\ \A v \in Windows \ {w} : row'[v] = row[v] /\ runtime'[v] = runtime[v]
    BY <1>1, <1>3 DEF Inv, RowsType
  <2>6. /\ RowsType'
        /\ UNCHANGED <<servers, reference, open, cleanup, drawn, pageVars, command, events>>
    BY <1>1, <1>3, <2>1 DEF Inv, RowsType, OpenTab
  <2>. USE <1>1, <2>6 DEF pageVars
  <2>7. PagesType' /\ CommandsType' BY DEF Inv, PagesType, CommandsType
  <2>8. OpenersType' BY <2>4 DEF Inv, OpenersType, Moves
  <2>9. \A v \in Windows : \A p \in Openers : Builds(p, v)' <=> Builds(p, v)
    BY <2>4 DEF Moves, Builds
  <2>10. Places' /\ Absent' BY <2>1, <2>2, <2>5, <2>9 DEF Inv, Places, Absent, Tied
  <2>11. LiveReference' /\ Exclusive' BY <2>9 DEF Inv, LiveReference, Exclusive, Reserved
  <2>12. Existing' BY <2>1, <2>5 DEF Inv, Existing
  <2>13. Known' BY <2>1, <2>2, <2>5 DEF Inv, Places, Known, Done, Tied
  <2>14. Newer'
    <3>1. \A v \in Windows \ {w} : Told(v)' \subseteq Told(v) BY <2>4 DEF Moves, Told
    <3>2. ASSUME NEW e \in Told(w)' PROVE e \in Told(w) \/ e = StateOf(r, t)
      <4>1. CASE e \in events[w] BY <4>1 DEF Told
      <4>2. ASSUME NEW p \in Openers, opener'[p].pc = "opened", opener'[p].window = w, e = opener'[p].state
            PROVE  e \in Told(w) \/ e = StateOf(r, t)
        BY <2>4, <4>2 DEF Moves, Told
      <4>. QED BY <4>1, <4>2 DEF Told
    <3>3. \A v \in Windows : /\ (Reserved(v)' <=> Reserved(v)) /\ (Done(v)' <=> Done(v))
                              /\ \A e \in Told(v) : e.version \in Nat
      BY <2>9 DEF Inv, PagesType, OpenersType, Told, Reserved, Done
    <3>. QED BY <2>1, <2>3, <2>5, <3>1, <3>2, <3>3 DEF Inv, Newer, RowsType
  <2>. QED BY <2>6, <2>7, <2>8, <2>10, <2>11, <2>12, <2>13, <2>14 DEF Inv
<1>. QED BY <1>0, <1>2, <1>3 DEF OpenTab, Current

LEMMA AnnounceStep ==
  ASSUME Inv, NEW o \in Openers, Announce(o)
  PROVE  Inv'
<1>. DEFINE w == opener[o].window
<1>1. /\ opener[o].pc = "opened" /\ w \in Windows /\ opener[o].state.version \in Nat
      /\ Moves(o, "done", None) /\ UNCHANGED <<rowVars, open, cleanup, drawn, pageVars, command>>
  BY ReturnsMoves DEF Announce, Inv, OpenersType, Places
<1>2. /\ DOMAIN events' = Windows
      /\ \A v \in Windows :
           events'[v] = events[v] \/ (v \in open /\ v = w /\ events'[v] = events[v] \cup {opener[o].state})
  <2>1. \/ events' = events
        \/ w \in open /\ events' = [events EXCEPT ![w] = @ \cup {opener[o].state}]
    BY DEF Announce
  <2>. QED BY <1>1, <2>1 DEF Inv, PagesType
<1>. USE <1>1, <1>2 DEF rowVars, pageVars, Moves
<1>3. RowsType' /\ CommandsType' BY DEF Inv, RowsType, CommandsType
<1>4. PagesType' BY DEF Inv, PagesType
<1>5. OpenersType' BY DEF Inv, OpenersType
<1>6. \A v \in Windows : /\ Told(v)' \subseteq Told(v)
                          /\ \A p \in Openers : Builds(p, v)' <=> Builds(p, v)
  BY DEF Told, Builds
<1>7. Places' /\ Absent' BY <1>6 DEF Inv, Places, Absent, Tied
<1>8. LiveReference' /\ Exclusive' /\ Existing'
  BY <1>6 DEF Inv, LiveReference, Exclusive, Existing, Reserved
<1>9. Known' BY DEF Inv, Known, Done, Tied
<1>10. Newer' BY <1>6 DEF Inv, Newer, Done, Reserved
<1>. QED BY <1>3, <1>4, <1>5, <1>7, <1>8, <1>9, <1>10 DEF Inv

LEMMA ReserveStep ==
  ASSUME Inv, NEW o \in Openers, Reserve(o)
  PROVE  Inv'
<1>. DEFINE s == opener[o].server
<1>1. opener[o].pc = "absent" BY DEF Reserve
<1>2. CASE Returns(o) /\ UNCHANGED <<row, reference, runtime, drawn>>
  <2>1. Moves(o, "done", None) BY <1>2, ReturnsMoves DEF Inv
  <2>. QED BY <1>1, <1>2, <2>1, OpenerOnly DEF Reserve, rowVars
<1>3. CASE /\ s \in servers /\ HoldersBut(None, s) = {}
           /\ \E w \in Windows :
                /\ Unused(w) /\ drawn' = drawn \cup {w}
                /\ row' = [row EXCEPT ![w] = [version |-> 1, server |-> s]]
                /\ Holds(w, s, OneTab(s, tabIds + 1, opener[o].thread))
                /\ opener' = [opener EXCEPT ![o].pc = "reserved", ![o].window = w]
  <2>1. PICK w \in Windows :
          /\ w \notin drawn /\ drawn' = drawn \cup {w}
          /\ row' = [row EXCEPT ![w] = [version |-> 1, server |-> s]]
          /\ Holds(w, s, OneTab(s, tabIds + 1, opener[o].thread))
          /\ opener' = [opener EXCEPT ![o].pc = "reserved", ![o].window = w]
    BY <1>3 DEF Unused
  <2>2. s \in Servers BY <1>1 DEF Inv, OpenersType
  <2>3. /\ row'[w].version = 1 /\ row'[w].server = s /\ reference'[w] = s /\ runtime'[w].server = s
        /\ \A v \in Windows \ {w} :
             row'[v] = row[v] /\ reference'[v] = reference[v] /\ runtime'[v] = runtime[v]
    BY <2>1 DEF Inv, RowsType, Holds, OneTab
  <2>4. Moves(o, "reserved", w)
    <3>1. opener'[o] = [pc |-> "reserved", server |-> opener[o].server, thread |-> opener[o].thread,
                        window |-> w, state |-> opener[o].state]
      <4>1. opener'[o] = [opener[o] EXCEPT !.pc = "reserved", !.window = w]
        BY <2>1 DEF Inv, OpenersType
      <4>. QED BY <4>1 DEF Inv, OpenersType, IsOpener
    <3>. QED BY <2>1, <3>1 DEF Inv, OpenersType, Moves, IsOpener
  <2>5. /\ w \notin open \cup cleanup /\ command[w] = NoCommand /\ reference[w] = None
        /\ events[w] = {} /\ \A p \in Openers : ~(opener[p].pc = "opened" /\ opener[p].window = w)
        /\ UNCHANGED <<servers, open, cleanup, pageVars, command, events>>
    BY <2>1 DEF Reserve, Inv, Places, Absent, OpenersType
  <2>. USE <2>5 DEF pageVars
  <2>6. RowsType' BY <2>1, <2>2 DEF Inv, RowsType, Holds
  <2>7. PagesType' /\ CommandsType' BY DEF Inv, PagesType, CommandsType
  <2>8. OpenersType' BY <2>1, <2>4 DEF Inv, OpenersType, Moves
  <2>9. /\ Builds(o, w)' /\ \A p \in Openers : ~Builds(p, w)
        /\ \A p \in Openers : \A v \in Windows : Builds(p, v)' <=> Builds(p, v) \/ (p = o /\ v = w)
    BY <1>1, <2>1, <2>4 DEF Inv, OpenersType, Moves, Builds
  <2>10. Places' BY <2>1, <2>3, <2>9 DEF Inv, Places, Tied
  <2>11. Absent' BY <2>1, <2>3 DEF Inv, Absent
  <2>12. LiveReference' BY <2>3, <2>9 DEF Inv, LiveReference, Reserved
  <2>13. Exclusive' BY <1>3, <2>3, WindowAssumption DEF Inv, Exclusive, HoldersBut
  <2>14. Existing' BY <1>3, <2>3 DEF Inv, Existing
  <2>15. Known' BY <2>3 DEF Inv, Places, Known, Done, Tied
  <2>16. Newer'
    <3>1. \A v \in Windows : Told(v)' = Told(v) BY <1>1, <2>4 DEF Moves, Told
    <3>2. Told(w) = {} BY DEF Told
    <3>. QED BY <2>3, <2>9, <3>1, <3>2 DEF Inv, Newer, Reserved, Done
  <2>. QED BY <2>6, <2>7, <2>8, <2>10, <2>11, <2>12, <2>13, <2>14, <2>15, <2>16 DEF Inv
<1>. QED BY <1>2, <1>3 DEF Reserve

LEMMA BuildStep ==
  ASSUME Inv, NEW o \in Openers, Build(o)
  PROVE  Inv'
<1>1. PICK w \in Windows : w = opener[o].window /\ w \in drawn BY DEF Build, Inv, OpenersType, Places
<1>2. /\ Builds(o, w) /\ Moves(o, "done", None) /\ open' = open \cup {w}
      /\ status' = [status EXCEPT ![w] = "loading"] /\ command' = [command EXCEPT ![w] = Load]
      /\ UNCHANGED <<rowVars, cleanup, drawn, known, events>>
  BY <1>1, ReturnsMoves DEF Build, Builds, Inv
<1>3. /\ w \notin open \cup cleanup /\ known[w] = NoState /\ events[w] = {}
      /\ \A p \in Openers : \A v \in Windows : Builds(p, v)' <=> Builds(p, v) /\ v # w
  BY <1>2 DEF Inv, Places, Absent, Builds, Moves
<1>4. /\ DOMAIN command' = Windows /\ command'[w] = Load
      /\ \A v \in Windows \ {w} : command'[v] = command[v] /\ status'[v] = status[v]
      /\ DOMAIN status' = Windows /\ status'[w] = "loading"
  BY <1>2 DEF Inv, CommandsType, PagesType
<1>. USE <1>1, <1>3, <1>4 DEF rowVars
<1>5. RowsType' /\ PagesType' BY <1>2 DEF Inv, RowsType, PagesType
<1>6. CommandsType' BY LoadFields DEF Inv, CommandsType
<1>7. OpenersType' BY <1>2 DEF Inv, OpenersType, Moves
<1>8. Places' /\ Absent' BY <1>2 DEF Inv, Places, Absent, Tied
<1>9. LiveReference' /\ Exclusive' /\ Existing'
  BY <1>2 DEF Inv, LiveReference, Exclusive, Existing, Reserved
<1>10. Known' BY <1>2 DEF Inv, Places, Known, Done, Tied, Load, NoCommand
<1>11. Newer'
  <2>1. \A v \in Windows : Told(v)' \subseteq Told(v) BY <1>2 DEF Moves, Told
  <2>2. \A v \in Windows \ {w} : (Reserved(v)' <=> Reserved(v)) /\ (Done(v)' <=> Done(v))
    BY DEF Reserved, Done
  <2>3. Reserved(w) /\ ~Done(w)' BY <1>2 DEF Reserved, Done, Load, NoCommand
  <2>. QED BY <1>2, <2>1, <2>2, <2>3 DEF Inv, Newer
<1>. QED BY <1>5, <1>6, <1>7, <1>8, <1>9, <1>10, <1>11 DEF Inv

LEMMA DiscardStep ==
  ASSUME Inv, NEW o \in Openers, Discard(o)
  PROVE  Inv'
<1>1. PICK w \in Windows : w = opener[o].window /\ w \in drawn BY DEF Discard, Inv, OpenersType, Places
<1>2. /\ Builds(o, w) /\ Moves(o, "done", None) /\ Holds(w, None, NoTabs)
      /\ row' = [row EXCEPT ![w] = [version |-> 0, server |-> None]]
      /\ UNCHANGED <<servers, open, cleanup, drawn, pageVars, command, events>>
  BY <1>1, ReturnsMoves DEF Discard, Builds, Inv
<1>3. /\ w \notin open \cup cleanup
      /\ \A p \in Openers : \A v \in Windows : Builds(p, v)' <=> Builds(p, v) /\ v # w
  BY <1>2 DEF Inv, Places, Builds, Moves
<1>4. /\ reference'[w] = None /\ row'[w].server = None
      /\ \A v \in Windows \ {w} :
           row'[v] = row[v] /\ reference'[v] = reference[v] /\ runtime'[v] = runtime[v]
  BY <1>2 DEF Inv, RowsType, Holds
<1>. USE <1>1, <1>3, <1>4 DEF pageVars
<1>5. RowsType' BY <1>2 DEF Inv, RowsType, Holds
<1>6. PagesType' /\ CommandsType' BY <1>2 DEF Inv, PagesType, CommandsType
<1>7. OpenersType' BY <1>2 DEF Inv, OpenersType, Moves
<1>8. Places' /\ Absent' BY <1>2 DEF Inv, Places, Absent, Tied
<1>9. LiveReference' /\ Exclusive' /\ Existing'
  BY <1>2 DEF Inv, LiveReference, Exclusive, Existing, Reserved
<1>10. Known' BY <1>2 DEF Inv, Places, Known, Done, Tied
<1>11. Newer'
  <2>1. \A v \in Windows : Told(v)' \subseteq Told(v) BY <1>2 DEF Moves, Told
  <2>. QED BY <1>2, <2>1 DEF Inv, Newer, Reserved, Done
<1>. QED BY <1>5, <1>6, <1>7, <1>8, <1>9, <1>10, <1>11 DEF Inv

-----------------------------------------------------------------------------
(* The steps of a page                                                     *)

\* A step of the page of w that leaves what it knows.
LEMMA KeepsKnown ==
  ASSUME Inv, NEW w \in Windows,
         DOMAIN status' = Windows, \A v \in Windows \ {w} : status'[v] = status[v],
         status'[w] # "error" \/ status'[w] = status[w],
         UNCHANGED <<rowVars, appVars, known, command, events>>
  PROVE  Inv'
<1>. USE DEF rowVars, appVars
<1>1. RowsType' /\ PagesType' /\ CommandsType' /\ OpenersType'
  BY DEF Inv, RowsType, PagesType, CommandsType, OpenersType
<1>2. Places' /\ Absent' BY DEF Inv, Places, Absent, Builds, Tied
<1>3. LiveReference' /\ Exclusive' /\ Existing'
  BY DEF Inv, LiveReference, Exclusive, Existing, Reserved, Builds
<1>4. Known' BY DEF Inv, Places, Known, Done, Tied
<1>5. Newer' BY DEF Inv, Newer, Told, Reserved, Builds, Done
<1>. QED BY <1>1, <1>2, <1>3, <1>4, <1>5 DEF Inv

\* The page of w sends a command, or drops one that has been answered, and knows what
\* it is told or nothing.
LEMMA PageStep ==
  ASSUME Inv, NEW w \in open,
         DOMAIN command' = Windows, \A v \in Windows \ {w} : command'[v] = command[v],
         DOMAIN status' = Windows, \A v \in Windows \ {w} : status'[v] = status[v],
         DOMAIN known' = Windows, \A v \in Windows \ {w} : known'[v] = known[v],
         IsCommand(command'[w]), command'[w].state.version \in Nat,
         command'[w].kind \in {"none", "load", "bind", "update"},
         command'[w].kind = "none" => command'[w] = NoCommand,
         command'[w].phase \in {"none", "sent"},
         known'[w].version \in Nat,
         known'[w] # NoState =>
           /\ known'[w].server = row[w].server /\ Tied(w)
           /\ \A e \in Told(w) : e.version > known'[w].version => e.server = row[w].server,
         command'[w].kind = "load" \/ status'[w] = "error" => known'[w] = NoState,
         command'[w].kind \in {"bind", "update"} => known'[w] # NoState,
         UNCHANGED <<rowVars, appVars, events>>
  PROVE  Inv'
<1>. USE DEF rowVars, appVars
<1>1. w \in Windows /\ w \in drawn BY DEF Inv, Places
<1>2. RowsType' /\ OpenersType' BY DEF Inv, RowsType, OpenersType
<1>3. PagesType' BY DEF Inv, PagesType
<1>4. CommandsType' BY DEF Inv, CommandsType
<1>5. Places' /\ Absent' BY <1>1 DEF Inv, Places, Absent, Builds, Tied
<1>6. LiveReference' BY DEF Inv, LiveReference, Reserved, Builds
<1>7. Exclusive' /\ Existing' BY DEF Inv, Exclusive, Existing
<1>8. Known' BY DEF Inv, Places, Known, Done, Tied
<1>9. Newer'
  <2>1. \A v \in Windows : Told(v)' = Told(v) /\ (Reserved(v)' <=> Reserved(v))
    BY DEF Told, Reserved, Builds
  <2>. QED BY <2>1 DEF Inv, Newer, Done
<1>. QED BY <1>2, <1>3, <1>4, <1>5, <1>6, <1>7, <1>8, <1>9 DEF Inv

LEMMA EnqueueStep ==
  ASSUME Inv, NEW w \in Windows, NEW m, Enqueue(w, m)
  PROVE  Inv'
BY KeepsKnown DEF Enqueue, Publish, Inv, PagesType, appVars

LEMMA UserStep ==
  ASSUME Inv, NEW w \in Windows,
         Bind(w) \/ OpenTabOf(w) \/ Replace(w) \/ CloseTab(w) \/ CloseGroup(w) \/ Activate(w) \/ Attach(w)
  PROVE  Inv'
<1>1. \E m : Enqueue(w, m) BY DEF Bind, OpenTabOf, Replace, CloseTab, CloseGroup, Activate, Attach
<1>. QED BY <1>1, EnqueueStep

LEMMA StartStep ==
  ASSUME Inv, NEW w \in Windows, StartMutation(w)
  PROVE  Inv'
<1>1. /\ w \in open /\ command[w].kind = "none" /\ ~Done(w)
      /\ UNCHANGED <<rowVars, appVars, known, events>>
  BY DEF StartMutation, Starts, Running, Inv, CommandsType, NoCommand, Done
<1>2. CASE UNCHANGED <<status, command>> BY <1>1, <1>2, KeepsKnown DEF Inv, PagesType
<1>3. CASE UNCHANGED command /\ Publish(w, After(w), known[w])
  <2>1. After(w) # "error" BY DEF After
  <2>2. status' = [status EXCEPT ![w] = After(w)] BY <1>3 DEF Publish
  <2>. QED BY <1>1, <1>3, <2>1, <2>2, KeepsKnown DEF Inv, PagesType
<1>4. ASSUME NEW c, IsCommand(c), c.kind \in {"bind", "update"}, c.phase = "sent", c.state = NoState,
             command' = [command EXCEPT ![w] = c], known[w] # NoState, UNCHANGED status
      PROVE  Inv'
  <2>1. /\ DOMAIN command' = Windows /\ command'[w] = c
        /\ \A v \in Windows \ {w} : command'[v] = command[v]
    BY <1>1, <1>4 DEF Inv, CommandsType, Places
  <2>2. /\ known[w].server = row[w].server /\ Tied(w) /\ status[w] # "error"
        /\ \A e \in Told(w) : e.version > known[w].version => e.server = row[w].server
    BY <1>1, <1>4 DEF Inv, Known, Newer
  <2>. QED BY <1>1, <1>4, <2>1, <2>2, PageStep, LoadFields DEF Inv, PagesType
<1>5. ASSUME NEW m, UNCHANGED status, known[w] # NoState,
             command' = [command EXCEPT ![w] = [NoCommand EXCEPT !.kind = "bind", !.phase = "sent",
                                                                 !.base = known[w], !.server = m.server]]
      PROVE  Inv'
  <2>0. PICK c : c = [NoCommand EXCEPT !.kind = "bind", !.phase = "sent", !.base = known[w], !.server = m.server] OBVIOUS
  <2>1. c = [kind |-> "bind", phase |-> "sent", base |-> known[w], tabs |-> NoCommand.tabs,
             active |-> NoCommand.active, server |-> m.server, answer |-> NoCommand.answer,
             state |-> NoCommand.state, holder |-> NoCommand.holder]
    BY <2>0, LoadFields DEF IsCommand
  <2>2. IsCommand(c) /\ c.kind = "bind" /\ c.phase = "sent" /\ c.state = NoState
    BY <2>1, LoadFields DEF IsCommand
  <2>. QED BY <1>4, <1>5, <2>0, <2>2
<1>6. ASSUME NEW new, UNCHANGED status, known[w] # NoState,
             command' = [command EXCEPT ![w] = [NoCommand EXCEPT !.kind = "update", !.phase = "sent",
                                      !.base = known[w], !.tabs = new.tabs, !.active = new.active]]
      PROVE  Inv'
  <2>0. PICK c : c = [NoCommand EXCEPT !.kind = "update", !.phase = "sent",
                                     !.base = known[w], !.tabs = new.tabs, !.active = new.active] OBVIOUS
  <2>1. c = [kind |-> "update", phase |-> "sent", base |-> known[w], tabs |-> new.tabs,
             active |-> new.active, server |-> NoCommand.server, answer |-> NoCommand.answer,
             state |-> NoCommand.state, holder |-> NoCommand.holder]
    BY <2>0, LoadFields DEF IsCommand
  <2>2. IsCommand(c) /\ c.kind = "update" /\ c.phase = "sent" /\ c.state = NoState
    BY <2>1, LoadFields DEF IsCommand
  <2>. QED BY <1>4, <1>6, <2>0, <2>2
<1>. QED BY <1>2, <1>3, <1>5, <1>6 DEF StartMutation

LEMMA AnsweredSteps ==
  ASSUME Inv, NEW w \in Windows, Succeed(w) \/ ServerAlreadyOpen(w) \/ Fail(w)
  PROVE  Inv'
<1>1. /\ w \in open /\ command[w].phase = "answered"
      /\ command' = [command EXCEPT ![w] = NoCommand]
      /\ UNCHANGED <<rowVars, appVars, events>>
  BY DEF Succeed, ServerAlreadyOpen, Fail, Answered
<1>2. /\ DOMAIN command' = Windows /\ command'[w] = NoCommand
      /\ \A v \in Windows \ {w} : command'[v] = command[v]
  BY <1>1 DEF Inv, CommandsType
<1>3. CASE Succeed(w)
  <2>1. /\ Done(w) /\ \E st : st # "error" /\ status' = [status EXCEPT ![w] = st]
        /\ known' = [known EXCEPT ![w] = command[w].state]
    BY <1>1, <1>3 DEF Succeed, Answered, Publish, Done, After
  <2>2. /\ Tied(w) /\ command[w].state.server = row[w].server /\ command[w].state.version \in Nat
        /\ \A e \in Told(w) : e.version > command[w].state.version => e.server = row[w].server
    BY <1>1, <2>1 DEF Inv, Known, Newer, CommandsType
  <2>. QED BY <1>1, <1>2, <2>1, <2>2, PageStep, LoadFields DEF Inv, PagesType
<1>4. CASE ServerAlreadyOpen(w)
  <2>1. /\ ~Done(w) /\ known' = known /\ \E st : st # "error" /\ status' = [status EXCEPT ![w] = st]
    BY <1>1, <1>4 DEF ServerAlreadyOpen, Answered, Publish, Done, After
  <2>2. known[w] # NoState =>
          /\ known[w].server = row[w].server /\ Tied(w)
          /\ \A e \in Told(w) : e.version > known[w].version => e.server = row[w].server
    BY <1>1, <2>1 DEF Inv, Known, Newer
  <2>. QED BY <1>1, <1>2, <2>1, <2>2, PageStep, LoadFields DEF Inv, PagesType
<1>5. CASE Fail(w)
  <2>1. known' = [known EXCEPT ![w] = NoState] /\ status' = [status EXCEPT ![w] = "error"]
    BY <1>5 DEF Fail, Publish
  <2>. QED BY <1>1, <1>2, <2>1, PageStep, LoadFields DEF Inv, PagesType
<1>. QED BY <1>3, <1>4, <1>5

LEMMA ReloadStep ==
  ASSUME Inv, NEW w \in Windows, Reload(w)
  PROVE  Inv'
<1>1. /\ w \in open /\ status[w] = "error" /\ known[w] = NoState /\ known' = known
      /\ status' = [status EXCEPT ![w] = "loading"] /\ command' = [command EXCEPT ![w] = Load]
      /\ UNCHANGED <<rowVars, appVars, events>>
  BY DEF Reload, Awake, Publish, Inv, Known
<1>2. /\ DOMAIN command' = Windows /\ command'[w] = Load
      /\ \A v \in Windows \ {w} : command'[v] = command[v]
  BY <1>1 DEF Inv, CommandsType
<1>. QED BY <1>1, <1>2, PageStep, LoadFields DEF Inv, PagesType

LEMMA ListenStep ==
  ASSUME Inv, NEW w \in Windows, Listen(w)
  PROVE  Inv'
BY KeepsKnown DEF Listen, Inv, PagesType

LEMMA HearStep ==
  ASSUME Inv, NEW w \in Windows, Hear(w)
  PROVE  Inv'
<1>1. PICK e \in events[w] :
        /\ events' = [events EXCEPT ![w] = @ \ {e}]
        /\ \/ /\ known[w] # NoState /\ e.version > known[w].version
              /\ known' = [known EXCEPT ![w] = e] /\ \E st : st # "error" /\ status' = [status EXCEPT ![w] = st]
           \/ UNCHANGED <<status, known>>
  BY DEF Hear, Publish
<1>2. w \in open /\ UNCHANGED <<rowVars, appVars, command>> BY DEF Hear, Awake
<1>3. /\ DOMAIN events' = Windows /\ \A v \in Windows : events'[v] \subseteq events[v]
      /\ DOMAIN known' = Windows /\ DOMAIN status' = Windows
      /\ \A v \in Windows \ {w} : known'[v] = known[v] /\ status'[v] = status[v]
      /\ \/ /\ known[w] # NoState /\ known'[w] = e /\ e.version > known[w].version
            /\ status'[w] # "error" /\ e # NoState
         \/ UNCHANGED <<status, known>>
  BY <1>1, LoadFields DEF Inv, PagesType
<1>4. e \in Told(w) /\ e.version \in Nat /\ known[w].version \in Nat BY DEF Told, Inv, PagesType
<1>. USE <1>2, <1>3 DEF rowVars, appVars
<1>5. RowsType' /\ CommandsType' /\ OpenersType' BY DEF Inv, RowsType, CommandsType, OpenersType
<1>6. PagesType' BY <1>4 DEF Inv, PagesType
<1>7. Places' /\ Absent' BY DEF Inv, Places, Absent, Builds, Tied
<1>8. LiveReference' /\ Exclusive' /\ Existing'
  BY DEF Inv, LiveReference, Exclusive, Existing, Reserved, Builds
<1>9. Known' BY <1>4 DEF Inv, Places, Known, Newer, Done, Tied
<1>10. Newer'
  <2>1. \A v \in Windows : /\ Told(v)' \subseteq Told(v) /\ (Reserved(v)' <=> Reserved(v))
                            /\ \A d \in Told(v) : d.version \in Nat
    BY DEF Told, Reserved, Builds, Inv, PagesType, OpenersType
  <2>. QED BY <1>4, <2>1 DEF Inv, Newer, Done
<1>. QED BY <1>5, <1>6, <1>7, <1>8, <1>9, <1>10 DEF Inv

-----------------------------------------------------------------------------
(* Windows that go, and the application that starts again                   *)

LEMMA DestroyStep ==
  ASSUME Inv, NEW w \in Windows, Destroy(w)
  PROVE  Inv'
<1>1. /\ w \in open /\ open' = open \ {w} /\ cleanup' = cleanup \cup {w} /\ w \in drawn
      /\ UNCHANGED <<rowVars, opener, drawn, command>>
  BY DEF Destroy, Inv, Places
<1>2. /\ DOMAIN known' = Windows /\ DOMAIN status' = Windows /\ DOMAIN events' = Windows
      /\ known'[w] = NoState /\ events'[w] = {}
      /\ \A v \in Windows \ {w} : known'[v] = known[v] /\ status'[v] = status[v] /\ events'[v] = events[v]
  BY DEF Destroy, Leaves, Inv, PagesType
<1>. USE <1>1, <1>2 DEF rowVars
<1>3. RowsType' /\ CommandsType' /\ OpenersType' BY DEF Inv, RowsType, CommandsType, OpenersType
<1>4. PagesType' BY LoadFields DEF Inv, PagesType
<1>5. Places' /\ Absent' BY DEF Inv, Places, Absent, Builds, Tied
<1>6. LiveReference' /\ Exclusive' /\ Existing'
  BY DEF Inv, LiveReference, Exclusive, Existing, Reserved, Builds
<1>7. Known' BY DEF Inv, Places, Known, Done, Tied
<1>8. Newer'
  <2>1. ~Reserved(w) BY DEF Inv, Places, Reserved
  <2>2. \A v \in Windows : Told(v)' \subseteq Told(v) /\ (Reserved(v)' <=> Reserved(v))
    BY DEF Told, Reserved, Builds
  <2>. QED BY <2>1, <2>2 DEF Inv, Newer, Done
<1>. QED BY <1>3, <1>4, <1>5, <1>6, <1>7, <1>8 DEF Inv

LEMMA RestartStep ==
  ASSUME Inv, Restart
  PROVE  Inv'
<1>. USE WindowAssumption, LoadFields DEF Restart
<1>1. \A o \in Openers : IsOpener(opener'[o]) /\ opener'[o].pc \in {"idle", "done"} /\ opener'[o].state = NoState
  BY DEF Idle, IsOpener
<1>2. RowsType' /\ PagesType' BY DEF Inv, RowsType, PagesType
<1>3. CommandsType' BY DEF CommandsType
<1>4. OpenersType' BY <1>1 DEF OpenersType
<1>5. Places' /\ Absent' BY <1>1 DEF Inv, Places, Absent, Builds
<1>6. LiveReference' /\ Exclusive' BY DEF LiveReference, Exclusive
<1>7. Existing' BY DEF Inv, Existing
<1>8. Known' BY DEF Known, Done
<1>9. Newer' BY <1>1 DEF Newer, Told
<1>. QED BY <1>2, <1>3, <1>4, <1>5, <1>6, <1>7, <1>8, <1>9 DEF Inv

-----------------------------------------------------------------------------
(* The theorems                                                            *)

LEMMA NextInv == Inv /\ [Next]_vars => Inv'
<1>. SUFFICES ASSUME Inv, [Next]_vars PROVE Inv' OBVIOUS
<1>1. ASSUME NEW w \in Windows, Repository(w) PROVE Inv'
  BY <1>1, LoadStep, BindStep, UpdateStep, CompleteStep DEF Repository
<1>2. ASSUME NEW w \in Windows, Page(w) PROVE Inv'
  BY <1>2, StartStep, AnsweredSteps DEF Page
<1>3. ASSUME NEW w \in Windows, User(w) PROVE Inv'
  BY <1>3, UserStep, ReloadStep, DestroyStep DEF User
<1>4. ASSUME NEW w \in Windows, Deactivate(w) \/ Listen(w) \/ Hear(w) PROVE Inv'
  BY <1>4, DeactivateStep, ListenStep, HearStep
<1>5. ASSUME NEW o \in Openers,
             LookUp(o) \/ OpenTab(o) \/ Announce(o) \/ Reserve(o) \/ Build(o) \/ Discard(o)
      PROVE  Inv'
  BY <1>5, LookUpStep, OpenTabStep, AnnounceStep, ReserveStep, BuildStep, DiscardStep
<1>6. CASE UNCHANGED vars
  <2>. USE <1>6 DEF vars, rowVars, appVars, pageVars
  <2>1. RowsType' /\ PagesType' /\ CommandsType' /\ OpenersType'
    BY DEF Inv, RowsType, PagesType, CommandsType, OpenersType
  <2>2. Places' /\ Absent' /\ Existing' BY DEF Inv, Places, Absent, Existing, Builds, Tied
  <2>3. LiveReference' /\ Exclusive' BY DEF Inv, LiveReference, Exclusive, Reserved, Builds
  <2>4. Known' /\ Newer' BY DEF Inv, Known, Newer, Told, Done, Tied, Reserved, Builds
  <2>. QED BY <2>1, <2>2, <2>3, <2>4 DEF Inv
<1>. QED BY <1>1, <1>2, <1>3, <1>4, <1>5, <1>6, DeleteStep, RestartStep DEF Next

\* The inductive invariant holds in every state.
THEOREM Invariance == Spec => []Inv
BY InitInv, NextInv, PTL DEF Spec

\* The server a page shows and connects to is the one its window holds, alone, in the
\* row, the references and the memory of the repository.
THEOREM ServersAreHeld == Spec => []ShownServerIsHeld
<1>1. Inv => ShownServerIsHeld
  <2>. SUFFICES ASSUME Inv, NEW w \in Windows, Settled(w)
                PROVE  /\ row[w].version # 0
                       /\ row[w].server = known[w].server
                       /\ reference[w] = known[w].server
                       /\ runtime[w].server = known[w].server
                       /\ known[w].server \in servers \cup {None}
                       /\ HoldersBut(w, known[w].server) = {}
    BY DEF ShownServerIsHeld
  <2>1. ~Done(w) BY LoadFields DEF Settled, Done, Inv, CommandsType
  <2>2. Tied(w) /\ known[w].server = row[w].server BY <2>1 DEF Inv, Known, Settled
  <2>. QED BY <2>2 DEF Tied, Inv, Existing, Exclusive, HoldersBut
<1>. QED BY <1>1, Invariance, PTL

\* A server is held by a window that is there, or by one for which something is under
\* way that gives the server back.
THEOREM ReferencesAreLive == Spec => []ReferenceIsLive
<1>1. Inv => ReferenceIsLive BY DEF Inv, LiveReference, ReferenceIsLive, Reserved, Builds
<1>. QED BY <1>1, Invariance, PTL

-----------------------------------------------------------------------------
(* What a mutation makes of the tabs                                        *)

Tab == [id : Nat, thread : Threads \cup {None}]

\* No identifier and no thread is there twice.
Apart(tabs) ==
  \A i, j \in DOMAIN tabs :
    tabs[i].id = tabs[j].id \/ (tabs[i].thread # None /\ tabs[i].thread = tabs[j].thread) => i = j

\* The tabs are what a window may have, with identifiers among ids.
Good(new, ids) ==
  new.tabs \in Seq(Tab) /\ Ids(new.tabs) \subseteq ids /\ Distinct(new.tabs, new.active)

LEMMA DistinctTabs ==
  ASSUME NEW tabs, NEW active
  PROVE  Distinct(tabs, active) <=> active \in Ids(tabs) /\ Apart(tabs)
BY DEF Distinct, Apart

LEMMA TabsHave ==
  ASSUME NEW tabs \in Seq(Tab)
  PROVE  /\ DOMAIN tabs = 1..Len(tabs) /\ Len(tabs) \in Nat
         /\ \A i \in DOMAIN tabs : tabs[i] \in Tab /\ tabs[i].id \in Nat
         /\ Ids(tabs) \subseteq Nat
<1>1. DOMAIN tabs = 1..Len(tabs) /\ Len(tabs) \in Nat OBVIOUS
<1>2. \A i \in DOMAIN tabs : tabs[i] \in Tab BY <1>1, ElementOfSeq
<1>3. \A i \in DOMAIN tabs : tabs[i].id \in Nat BY <1>2 DEF Tab
<1>. QED BY <1>1, <1>2, <1>3 DEF Ids

LEMMA WithoutKeeps ==
  ASSUME NEW tabs \in Seq(Tab), Apart(tabs), NEW ids
  PROVE  /\ Without(tabs, ids) \in Seq(Tab)
         /\ Ids(Without(tabs, ids)) = Ids(tabs) \ ids
         /\ Apart(Without(tabs, ids))
<1>. DEFINE keep == {i \in DOMAIN tabs : tabs[i].id \notin ids}
            left == Subsequence(tabs, keep)
<1>1. left = Without(tabs, ids) BY DEF Without
<1>2. keep \in SUBSET DOMAIN tabs OBVIOUS
<1>3. /\ left \in Seq(Tab)
      /\ \A k \in DOMAIN left : Nth(keep, k) \in keep /\ left[k] = tabs[Nth(keep, k)]
      /\ \A k, l \in DOMAIN left : k < l => Nth(keep, k) < Nth(keep, l)
      /\ \A i \in keep : \E k \in DOMAIN left : left[k] = tabs[i]
  <2>. HIDE DEF keep, left
  <2>. QED BY <1>2, SubsequenceKeeps DEF left
<1>4. DOMAIN left = 1..Len(left) /\ Len(left) \in Nat BY <1>3, TabsHave
<1>5. Ids(left) = Ids(tabs) \ ids
  <2>. HIDE DEF left
  <2>1. ASSUME NEW id \in Ids(left) PROVE id \in Ids(tabs) /\ id \notin ids
    <3>1. PICK k \in DOMAIN left : id = left[k].id BY DEF Ids
    <3>. QED BY <1>3, <3>1 DEF Ids
  <2>2. ASSUME NEW id \in Ids(tabs), id \notin ids PROVE id \in Ids(left)
    <3>1. PICK i \in keep : id = tabs[i].id BY <2>2 DEF Ids
    <3>. QED BY <1>3, <3>1 DEF Ids
  <2>. QED BY <2>1, <2>2
<1>6. Apart(left)
  <2>. SUFFICES ASSUME NEW k \in DOMAIN left, NEW l \in DOMAIN left, k < l
                PROVE  /\ left[k].id # left[l].id
                       /\ ~(left[k].thread # None /\ left[k].thread = left[l].thread)
    <3>. HIDE DEF left
    <3>1. \A k, l \in DOMAIN left : k = l \/ k < l \/ l < k BY <1>4
    <3>. QED BY <3>1 DEF Apart
  <2>. HIDE DEF left
  <2>1. Nth(keep, k) \in keep /\ Nth(keep, l) \in keep /\ Nth(keep, k) < Nth(keep, l) BY <1>3
  <2>2. Nth(keep, k) # Nth(keep, l) BY <2>1, TabsHave
  <2>. QED BY <1>3, <2>1, <2>2 DEF Apart
<1>. QED BY <1>1, <1>3, <1>5, <1>6

\* A tab gets a thread that no other tab shows.
LEMMA BoundKeeps ==
  ASSUME NEW tabs \in Seq(Tab), Apart(tabs), NEW id, NEW t \in Threads \cup {None},
         Showing(tabs, t) \subseteq {id}
  PROVE  /\ Bound(tabs, id, t) \in Seq(Tab)
         /\ Ids(Bound(tabs, id, t)) = Ids(tabs)
         /\ Apart(Bound(tabs, id, t))
<1>. DEFINE new == Bound(tabs, id, t)
<1>1. \A i \in DOMAIN tabs : tabs[i] = [id |-> tabs[i].id, thread |-> tabs[i].thread]
  BY TabsHave DEF Tab
<1>2. /\ DOMAIN new = DOMAIN tabs
      /\ \A i \in DOMAIN tabs : new[i] = IF tabs[i].id = id THEN [id |-> tabs[i].id, thread |-> t] ELSE tabs[i]
  <2>1. ASSUME NEW i \in DOMAIN tabs
        PROVE  [tabs[i] EXCEPT !.thread = t] = [id |-> tabs[i].id, thread |-> t]
    BY <1>1
  <2>. QED BY <2>1 DEF Bound
<1>3. \A i \in DOMAIN tabs : new[i] \in Tab /\ new[i].id = tabs[i].id
  <2>. HIDE DEF new
  <2>1. \A i \in DOMAIN tabs : [id |-> tabs[i].id, thread |-> t] \in Tab BY TabsHave DEF Tab
  <2>. QED BY <1>2, <2>1, TabsHave
<1>4. new \in Seq(Tab)
  <2>1. new = [i \in 1..Len(tabs) |-> new[i]] BY TabsHave DEF Bound
  <2>2. Len(tabs) \in Nat /\ \A i \in 1..Len(tabs) : new[i] \in Tab BY <1>3, TabsHave
  <2>. HIDE DEF new
  <2>3. [i \in 1..Len(tabs) |-> new[i]] \in Seq(Tab) BY <2>2, IsASeq
  <2>. QED BY <2>1, <2>3
<1>5. Ids(new) = Ids(tabs) BY <1>2, <1>3 DEF Ids
<1>6. Apart(new)
  <2>1. \A i \in DOMAIN tabs : t # None /\ tabs[i].thread = t => tabs[i].id = id
    BY DEF Showing, TabsOf
  <2>2. \A i \in DOMAIN tabs : new[i].thread = IF tabs[i].id = id THEN t ELSE tabs[i].thread
    BY <1>2
  <2>. HIDE DEF new
  <2>. QED BY <1>2, <1>3, <2>1, <2>2 DEF Apart
<1>. QED BY <1>4, <1>5, <1>6

LEMMA ShownIsThere ==
  ASSUME NEW tabs \in Seq(Tab), NEW active, Distinct(tabs, active), NEW t, Showing(tabs, t) # {}
  PROVE  Good(Shown(tabs, t), Ids(tabs))
<1>1. (CHOOSE id \in Showing(tabs, t) : TRUE) \in Ids(tabs) BY DEF Showing, TabsOf, Ids
<1>. QED BY <1>1 DEF Good, Shown, With, Distinct

LEMMA ReplacedGood ==
  ASSUME NEW s, s.tabs \in Seq(Tab), Distinct(s.tabs, s.active), NEW t \in Threads \cup {None}
  PROVE  Good(Replaced(s, t), Ids(s.tabs))
<1>1. CASE Showing(s.tabs, t) # {} BY <1>1, ShownIsThere DEF Replaced
<1>2. CASE Showing(s.tabs, t) = {}
  <2>1. Replaced(s, t) = With(Bound(s.tabs, s.active, t), s.active) BY <1>2 DEF Replaced
  <2>. QED BY <1>2, <2>1, BoundKeeps, DistinctTabs DEF Good, With
<1>. QED BY <1>1, <1>2

LEMMA OpenedGood ==
  ASSUME NEW s, s.tabs \in Seq(Tab), s.tabs # <<>> => Distinct(s.tabs, s.active),
         NEW id \in Nat, id \notin Ids(s.tabs), NEW t \in Threads \cup {None}
  PROVE  Good(Opened(s, id, t), Ids(s.tabs) \cup {id})
<1>1. CASE Showing(s.tabs, t) # {}
  <2>1. s.tabs # <<>> BY <1>1 DEF Showing, TabsOf
  <2>. QED BY <1>1, <2>1, ShownIsThere DEF Opened, Good
<1>2. CASE Showing(s.tabs, t) = {}
  <2>. DEFINE tab == [id |-> id, thread |-> t]
              new == Append(s.tabs, tab)
  <2>1. Opened(s, id, t) = With(new, id) BY <1>2 DEF Opened
  <2>2. tab \in Tab /\ tab.id = id /\ tab.thread = t BY DEF Tab
  <2>. HIDE DEF tab
  <2>3. /\ new \in Seq(Tab) /\ DOMAIN new = 1..(Len(s.tabs) + 1) /\ new[Len(s.tabs) + 1] = tab
        /\ \A i \in DOMAIN s.tabs : new[i] = s.tabs[i]
        /\ DOMAIN s.tabs = 1..Len(s.tabs) /\ Len(s.tabs) \in Nat
    BY <2>2, AppendProperties, TabsHave
  <2>. HIDE DEF new
  <2>4. Ids(new) = Ids(s.tabs) \cup {id} BY <2>2, <2>3 DEF Ids
  <2>5. \A i \in DOMAIN s.tabs : s.tabs[i].id # id /\ ~(t # None /\ s.tabs[i].thread = t)
    BY <1>2 DEF Ids, Showing, TabsOf
  <2>6. Apart(s.tabs)
    <3>1. CASE s.tabs = <<>> BY <3>1 DEF Apart
    <3>. QED BY <3>1, DistinctTabs
  <2>7. Apart(new)
    <3>1. \A i \in DOMAIN new : i = Len(s.tabs) + 1 \/ i \in DOMAIN s.tabs BY <2>3
    <3>. QED BY <2>2, <2>3, <2>5, <2>6, <3>1 DEF Apart
  <2>. QED BY <2>1, <2>3, <2>4, <2>7, DistinctTabs DEF Good, With
<1>. QED BY <1>1, <1>2

LEMMA ClosedGood ==
  ASSUME NEW s, s.tabs \in Seq(Tab), Distinct(s.tabs, s.active), NEW id, NEW fresh \in Nat
  PROVE  Good(Closed(s, id, fresh), Ids(s.tabs) \cup {fresh})
<1>. DEFINE tabs == s.tabs
<1>1. CASE id \notin Ids(tabs) BY <1>1 DEF Closed, Good, With
<1>2. CASE id \in Ids(tabs) /\ Len(tabs) = 1
  <2>1. Closed(s, id, fresh) = With(<<[id |-> fresh, thread |-> None]>>, fresh) BY <1>2 DEF Closed
  <2>2. <<[id |-> fresh, thread |-> None]>> \in Seq(Tab) BY DEF Tab
  <2>. QED BY <2>1, <2>2 DEF Good, With, Distinct, Ids
<1>3. CASE id \in Ids(tabs) /\ Len(tabs) # 1
  <2>. DEFINE active == IF id = s.active THEN Neighbour(tabs, id) ELSE s.active
              i == CHOOSE j \in DOMAIN tabs : tabs[j].id = id
  <2>1. Closed(s, id, fresh) = With(Without(tabs, {id}), active) BY <1>3 DEF Closed
  <2>2. i \in DOMAIN tabs /\ tabs[i].id = id BY <1>3 DEF Ids
  <2>3. Neighbour(tabs, id) = IF i < Len(tabs) THEN tabs[i + 1].id ELSE tabs[i - 1].id BY DEF Neighbour
  <2>. HIDE DEF i
  <2>4. Neighbour(tabs, id) \in Ids(tabs) \ {id}
    <3>1. PICK j \in DOMAIN tabs : j # i /\ Neighbour(tabs, id) = tabs[j].id
      <4>1. CASE i < Len(tabs)
        <5>1. i + 1 \in DOMAIN tabs /\ i + 1 # i BY <2>2, <4>1, TabsHave
        <5>. QED BY <2>3, <4>1, <5>1
      <4>2. CASE ~(i < Len(tabs))
        <5>0. DOMAIN tabs = 1..Len(tabs) /\ Len(tabs) \in Nat BY TabsHave
        <5>2. \A n \in Nat : \A j \in 1..n : n # 1 /\ ~(j < n) => j - 1 \in 1..n /\ j - 1 # j OBVIOUS
        <5>1. i - 1 \in 1..Len(tabs) /\ i - 1 # i BY <1>3, <2>2, <4>2, <5>0, <5>2
        <5>. QED BY <2>3, <4>2, <5>0, <5>1
      <4>. QED BY <4>1, <4>2
    <3>. QED BY <2>2, <3>1 DEF Distinct, Ids
  <2>5. active \in Ids(tabs) \ {id} BY <2>4 DEF Distinct
  <2>. HIDE DEF active, tabs
  <2>. QED BY <2>1, <2>5, WithoutKeeps, DistinctTabs DEF Good, With, tabs
<1>. QED BY <1>1, <1>2, <1>3

LEMMA ClosedAllGood ==
  ASSUME NEW s, s.tabs \in Seq(Tab), Distinct(s.tabs, s.active), NEW ids, NEW active,
         ids \cap Ids(s.tabs) # {} => active \in Ids(s.tabs) \ ids
  PROVE  Good(ClosedAll(s, ids, active), Ids(s.tabs))
<1>1. CASE ids \cap Ids(s.tabs) = {} BY <1>1 DEF ClosedAll, Good, With
<1>2. CASE ids \cap Ids(s.tabs) # {}
  <2>1. ClosedAll(s, ids, active) = With(Without(s.tabs, ids), active) BY <1>2 DEF ClosedAll
  <2>. QED BY <1>2, <2>1, WithoutKeeps, DistinctTabs DEF Good, With
<1>. QED BY <1>1, <1>2

LEMMA AttachedGood ==
  ASSUME NEW s, s.tabs \in Seq(Tab), Distinct(s.tabs, s.active), NEW id \in Ids(s.tabs),
         NEW t \in Threads \cup {None}
  PROVE  Good(Attached(s, id, t), Ids(s.tabs))
<1>. DEFINE others == Showing(s.tabs, t) \ {id}
<1>1. CASE others # {}
  <2>. DEFINE other == CHOOSE x \in others : TRUE
  <2>1. Attached(s, id, t) = With(Without(s.tabs, {id}), other) BY <1>1 DEF Attached
  <2>2. other \in Ids(s.tabs) \ {id} BY <1>1 DEF Showing, TabsOf, Ids
  <2>. HIDE DEF other
  <2>. QED BY <2>1, <2>2, WithoutKeeps, DistinctTabs DEF Good, With
<1>2. CASE others = {}
  <2>1. Attached(s, id, t) = With(Bound(s.tabs, id, t), s.active) BY <1>2 DEF Attached
  <2>2. Showing(s.tabs, t) \subseteq {id} BY <1>2
  <2>. QED BY <2>1, <2>2, BoundKeeps, DistinctTabs DEF Good, With
<1>. QED BY <1>1, <1>2

-----------------------------------------------------------------------------
(* The tabs that are about: in the memory of the repository, in the copies of   *)
(* the pages, and on their way between them                                     *)

\* x names tabs that a window may have, with identifiers up to n.
Sound(n, x) ==
  /\ x.tabs \in Seq(Tab) /\ Ids(x.tabs) \subseteq 1..n /\ x.active \in Nat
  /\ x.server # None => Distinct(x.tabs, x.active)

\* What the page of w asks the repository to make of its tabs
Proposed(w) == [server |-> command[w].base.server, tabs |-> command[w].tabs, active |-> command[w].active]

\* Every state of w there is a copy of
Seen(w) ==
  {runtime[w], known[w], view[w], command[w].base, command[w].state} \cup Told(w)
  \cup (IF command[w].kind = "update" THEN {Proposed(w)} ELSE {})

Used(w) == UNION {Ids(x.tabs) : x \in Seen(w)}

Mutation ==
  [kind : {"bind"}, server : Servers]
  \cup [kind : {"replace"}, thread : Threads \cup {None}]
  \cup [kind : {"open"}, tab : Nat, thread : Threads \cup {None}]
  \cup [kind : {"activate"}, tab : Nat]
  \cup [kind : {"close"}, tab : Nat, fresh : Nat]
  \cup [kind : {"closeAll"}, tabs : SUBSET Nat, tab : Nat]
  \cup [kind : {"attach"}, tab : Nat, thread : Threads]

\* The identifiers that m brings into the tabs
Draws(m) == CASE m.kind = "open" -> {m.tab} [] m.kind = "close" -> {m.fresh} [] OTHER -> {}

\* A mutation of w is under way: the first of its queue.
UnderWay(w) == command[w].kind \in {"bind", "update"}

TabsType ==
  /\ tabIds \in Nat /\ DOMAIN view = Windows /\ queue \in [Windows -> Seq(Mutation)]
  /\ \A o \in Openers : opener[o].thread \in Threads \cup {None}
  /\ \A w \in Windows : command[w].kind = "update" => command[w].base.server # None
  /\ \A w \in open : UnderWay(w) => queue[w] # <<>>

AllSound == \A w \in Windows : \A x \in Seen(w) : Sound(tabIds, x)

\* The identifiers drawn for a queued mutation are its own until it runs.
FreshIds ==
  \A w \in Windows : \A i \in DOMAIN queue[w] :
    /\ Draws(queue[w][i]) \subseteq 1..tabIds
    /\ i > 1 \/ ~UnderWay(w) => Draws(queue[w][i]) \cap Used(w) = {}
    /\ \A j \in DOMAIN queue[w] : i < j => Draws(queue[w][i]) \cap Draws(queue[w][j]) = {}

TabsInv == TabsType /\ AllSound /\ FreshIds

LEMMA SoundGrows ==
  ASSUME NEW n \in Nat, NEW k \in Nat, n <= k, NEW x, Sound(n, x)
  PROVE  Sound(k, x)
BY DEF Sound

LEMMA SoundPlain ==
  ASSUME NEW n \in Nat
  PROVE  /\ Sound(n, NoState) /\ Ids(NoState.tabs) = {} /\ NoState.server = None
         /\ Sound(n, NoTabs) /\ Ids(NoTabs.tabs) = {} /\ NoTabs.server = None
<1>1. <<>> \in Seq(Tab) /\ Ids(<<>>) = {} BY EmptySeq DEF Ids
<1>. QED BY <1>1 DEF Sound, NoState, NoTabs

LEMMA LoadBase == Load.base = NoState /\ NoCommand.base = NoState
<1>1. NoCommand.base = NoState BY DEF NoCommand
<1>2. PICK c : c = [NoCommand EXCEPT !.kind = "load", !.phase = "sent"] OBVIOUS
<1>3. c = [kind |-> "load", phase |-> "sent", base |-> NoCommand.base, tabs |-> NoCommand.tabs,
           active |-> NoCommand.active, server |-> NoCommand.server, answer |-> NoCommand.answer,
           state |-> NoCommand.state, holder |-> NoCommand.holder]
  BY <1>2, LoadFields DEF IsCommand
<1>4. Load = c BY <1>2 DEF Load
<1>. QED BY <1>1, <1>3, <1>4

LEMMA SoundOne ==
  ASSUME NEW n \in Nat, NEW s, NEW t \in Threads \cup {None}
  PROVE  /\ Sound(n + 1, OneTab(s, n + 1, t)) /\ Ids(OneTab(s, n + 1, t).tabs) = {n + 1}
         /\ OneTab(s, n + 1, t).server = s
<1>. DEFINE tab == [id |-> n + 1, thread |-> t]
<1>1. tab \in Tab BY DEF Tab
<1>2. <<tab>> \in Seq(Tab) /\ DOMAIN <<tab>> = {1} /\ <<tab>>[1] = tab BY <1>1
<1>3. Ids(<<tab>>) = {n + 1} /\ Distinct(<<tab>>, n + 1) BY <1>2 DEF Ids, Distinct
<1>. QED BY <1>2, <1>3 DEF Sound, OneTab

\* A state of the row r with the tabs t is as sound as they are.
LEMMA SoundState ==
  ASSUME NEW n, NEW r, NEW t, Sound(n, t), r.server = t.server
  PROVE  Sound(n, StateOf(r, t)) /\ StateOf(r, t).tabs = t.tabs /\ StateOf(r, t).server = t.server
BY DEF Sound, StateOf

\* A step after which the copies of every window are those before and sound ones.
LEMMA KeepsSound ==
  ASSUME TabsInv, tabIds' \in {tabIds, tabIds + 1},
         \A w \in Windows : \A x \in Seen(w)' :
           \/ x \in Seen(w)
           \/ Sound(tabIds', x) /\ Ids(x.tabs) \subseteq Used(w) \cup {tabIds + 1}
  PROVE  AllSound' /\ \A w \in Windows : Used(w)' \subseteq Used(w) \cup {tabIds + 1}
<1>1. tabIds \in Nat /\ tabIds' \in Nat /\ tabIds <= tabIds' BY DEF TabsInv, TabsType
<1>2. ASSUME NEW w \in Windows, NEW x \in Seen(w)' PROVE Sound(tabIds', x)
  <2>1. CASE x \in Seen(w)
    <3>1. Sound(tabIds, x) BY <2>1 DEF TabsInv, AllSound
    <3>. QED BY <1>1, <3>1, SoundGrows
  <2>. QED BY <2>1
<1>3. ASSUME NEW w \in Windows, NEW id \in Used(w)' PROVE id \in Used(w) \cup {tabIds + 1}
  <2>1. PICK x \in Seen(w)' : id \in Ids(x.tabs) BY DEF Used
  <2>2. CASE x \in Seen(w) BY <2>1, <2>2 DEF Used
  <2>. QED BY <2>1, <2>2
<1>. QED BY <1>2, <1>3 DEF AllSound

LEMMA UsedDrawn ==
  ASSUME TabsInv, NEW w \in Windows
  PROVE  Used(w) \subseteq 1..tabIds
BY DEF TabsInv, AllSound, Sound, Used

\* A step that leaves the queues or drops one of them.
LEMMA KeepsFresh ==
  ASSUME TabsInv, tabIds' \in {tabIds, tabIds + 1},
         \A w \in Windows : Used(w)' \subseteq Used(w) \cup {tabIds + 1},
         \A w \in Windows :
           queue'[w] = <<>> \/ (queue'[w] = queue[w] /\ (UnderWay(w) => UnderWay(w)'))
  PROVE  FreshIds'
<1>1. tabIds \in Nat BY DEF TabsInv, TabsType
<1>. SUFFICES ASSUME NEW w \in Windows, NEW i \in DOMAIN queue'[w]
              PROVE  /\ Draws(queue'[w][i]) \subseteq 1..tabIds'
                     /\ i > 1 \/ ~UnderWay(w)' => Draws(queue'[w][i]) \cap Used(w)' = {}
                     /\ \A j \in DOMAIN queue'[w] : i < j => Draws(queue'[w][i]) \cap Draws(queue'[w][j]) = {}
  BY DEF FreshIds
<1>2. queue'[w] = queue[w] /\ (UnderWay(w) => UnderWay(w)') BY DOMAIN <<>> = {}
<1>. HIDE DEF Draws
<1>3. /\ Draws(queue[w][i]) \subseteq 1..tabIds
      /\ i > 1 \/ ~UnderWay(w) => Draws(queue[w][i]) \cap Used(w) = {}
      /\ \A j \in DOMAIN queue[w] : i < j => Draws(queue[w][i]) \cap Draws(queue[w][j]) = {}
  BY <1>2 DEF TabsInv, FreshIds
<1>. QED BY <1>1, <1>2, <1>3

\* The first mutation of the queue of w is done with.
LEMMA PopsFresh ==
  ASSUME TabsInv, tabIds' = tabIds, NEW w \in Windows, queue[w] # <<>>,
         queue' = [queue EXCEPT ![w] = Tail(@)],
         \A v \in Windows : Used(v)' \subseteq Used(v) \cup {tabIds + 1},
         \A v \in Windows \ {w} : command'[v] = command[v]
  PROVE  FreshIds' /\ queue' \in [Windows -> Seq(Mutation)]
<1>1. /\ tabIds \in Nat /\ queue \in [Windows -> Seq(Mutation)] /\ queue[w] \in Seq(Mutation)
      /\ queue'[w] = Tail(queue[w]) /\ \A v \in Windows \ {w} : queue'[v] = queue[v]
  BY DEF TabsInv, TabsType
<1>2. /\ Tail(queue[w]) \in Seq(Mutation)
      /\ \A i \in DOMAIN Tail(queue[w]) :
           i \in Nat /\ i + 1 \in DOMAIN queue[w] /\ i + 1 > 1 /\ Tail(queue[w])[i] = queue[w][i + 1]
  BY <1>1
<1>3. queue' \in [Windows -> Seq(Mutation)] BY <1>1, <1>2
<1>. SUFFICES ASSUME NEW v \in Windows, NEW i \in DOMAIN queue'[v]
              PROVE  /\ Draws(queue'[v][i]) \subseteq 1..tabIds'
                     /\ i > 1 \/ ~UnderWay(v)' => Draws(queue'[v][i]) \cap Used(v)' = {}
                     /\ \A j \in DOMAIN queue'[v] : i < j => Draws(queue'[v][i]) \cap Draws(queue'[v][j]) = {}
  BY <1>3 DEF FreshIds
<1>. HIDE DEF Draws
<1>4. CASE v = w
  <2>1. /\ Draws(queue[w][i + 1]) \subseteq 1..tabIds
        /\ Draws(queue[w][i + 1]) \cap Used(w) = {}
        /\ \A j \in DOMAIN queue[w] : i + 1 < j => Draws(queue[w][i + 1]) \cap Draws(queue[w][j]) = {}
    BY <1>1, <1>2, <1>4 DEF TabsInv, FreshIds
  <2>2. \A j \in DOMAIN Tail(queue[w]) : i < j => Draws(queue[w][i + 1]) \cap Draws(queue[w][j + 1]) = {}
    BY <1>1, <1>2, <1>4, <2>1
  <2>. QED BY <1>1, <1>2, <1>4, <2>1, <2>2
<1>5. CASE v # w
  <2>1. /\ Draws(queue[v][i]) \subseteq 1..tabIds
        /\ i > 1 \/ ~UnderWay(v) => Draws(queue[v][i]) \cap Used(v) = {}
        /\ \A j \in DOMAIN queue[v] : i < j => Draws(queue[v][i]) \cap Draws(queue[v][j]) = {}
    BY <1>1, <1>5 DEF TabsInv, FreshIds
  <2>2. UnderWay(v)' <=> UnderWay(v) BY <1>5 DEF UnderWay
  <2>. QED BY <1>1, <1>5, <2>1, <2>2
<1>. QED BY <1>4, <1>5

\* The page of w takes up the first mutation of its queue.
LEMMA StartsFresh ==
  ASSUME TabsInv, tabIds' = tabIds, NEW w \in Windows, queue[w] # <<>>, ~UnderWay(w), UNCHANGED queue,
         UnderWay(w)', Used(w)' \subseteq Used(w) \cup Draws(Head(queue[w])),
         \A v \in Windows \ {w} : command'[v] = command[v] /\ Used(v)' \subseteq Used(v)
  PROVE  FreshIds'
<1>1. queue[w] \in Seq(Mutation) BY DEF TabsInv, TabsType
<1>2. 1 \in DOMAIN queue[w] /\ Head(queue[w]) = queue[w][1] /\ DOMAIN queue[w] \subseteq Nat \ {0} BY <1>1
<1>. HIDE DEF Draws
<1>3. \A i \in DOMAIN queue[w] :
        /\ Draws(queue[w][i]) \subseteq 1..tabIds /\ Draws(queue[w][i]) \cap Used(w) = {}
        /\ i > 1 => Draws(queue[w][1]) \cap Draws(queue[w][i]) = {}
        /\ \A j \in DOMAIN queue[w] : i < j => Draws(queue[w][i]) \cap Draws(queue[w][j]) = {}
  BY <1>2 DEF TabsInv, FreshIds
<1>4. \A i \in DOMAIN queue[w] : i > 1 => Draws(queue[w][i]) \cap Used(w)' = {} BY <1>2, <1>3
<1>5. \A v \in Windows \ {w} : UnderWay(v)' <=> UnderWay(v) BY DEF UnderWay
<1>. QED BY <1>3, <1>4, <1>5 DEF TabsInv, FreshIds

\* The user of w makes a change, which may draw an identifier.
LEMMA AppendsFresh ==
  ASSUME TabsInv, NEW w \in Windows, NEW m \in Mutation, queue' = [queue EXCEPT ![w] = Append(@, m)],
         \/ tabIds' = tabIds /\ Draws(m) = {}
         \/ tabIds' = tabIds + 1 /\ Draws(m) = {tabIds + 1},
         UNCHANGED command, \A v \in Windows : Used(v)' \subseteq Used(v)
  PROVE  /\ queue' \in [Windows -> Seq(Mutation)] /\ FreshIds'
         /\ \A v \in Windows : queue[v] # <<>> => queue'[v] # <<>>
<1>1. /\ tabIds \in Nat /\ queue \in [Windows -> Seq(Mutation)] /\ queue[w] \in Seq(Mutation)
      /\ queue'[w] = Append(queue[w], m) /\ \A v \in Windows \ {w} : queue'[v] = queue[v]
  BY DEF TabsInv, TabsType
<1>. DEFINE n == Len(queue[w])
<1>2. /\ Append(queue[w], m) \in Seq(Mutation) /\ Append(queue[w], m) # <<>>
      /\ n \in Nat /\ DOMAIN queue[w] = 1..n
      /\ DOMAIN queue'[w] = 1..(n + 1) /\ queue'[w][n + 1] = m
      /\ \A i \in DOMAIN queue[w] : queue'[w][i] = queue[w][i]
  BY <1>1, AppendProperties
<1>3. queue' \in [Windows -> Seq(Mutation)] BY <1>1, <1>2
<1>. HIDE DEF Draws, n
<1>4. \A v \in Windows : UnderWay(v)' <=> UnderWay(v) BY DEF UnderWay
<1>5. \A v \in Windows : Used(v) \subseteq 1..tabIds BY UsedDrawn
<1>6. ASSUME NEW v \in Windows, NEW i \in DOMAIN queue'[v]
      PROVE  /\ Draws(queue'[v][i]) \subseteq 1..tabIds'
             /\ i > 1 \/ ~UnderWay(v)' => Draws(queue'[v][i]) \cap Used(v)' = {}
             /\ \A j \in DOMAIN queue'[v] : i < j => Draws(queue'[v][i]) \cap Draws(queue'[v][j]) = {}
  <2>1. CASE i \in DOMAIN queue[v]
    <3>1. /\ Draws(queue[v][i]) \subseteq 1..tabIds
          /\ i > 1 \/ ~UnderWay(v) => Draws(queue[v][i]) \cap Used(v) = {}
          /\ \A j \in DOMAIN queue[v] : i < j => Draws(queue[v][i]) \cap Draws(queue[v][j]) = {}
      BY <2>1 DEF TabsInv, FreshIds
    <3>2. queue'[v][i] = queue[v][i] BY <1>1, <1>2, <2>1
    <3>3. \A j \in DOMAIN queue'[v] :
            \/ j \in DOMAIN queue[v] /\ queue'[v][j] = queue[v][j]
            \/ queue'[v][j] = m
      BY <1>1, <1>2
    <3>4. tabIds + 1 \notin Draws(queue[v][i]) BY <1>1, <3>1
    <3>. QED BY <1>1, <1>4, <3>1, <3>2, <3>3, <3>4
  <2>2. CASE i \notin DOMAIN queue[v]
    <3>1. v = w /\ i = n + 1 BY <1>1, <1>2, <2>2
    <3>. QED BY <1>1, <1>2, <1>5, <3>1
  <2>. QED BY <2>1, <2>2
<1>7. FreshIds' BY <1>6 DEF FreshIds
<1>. QED BY <1>1, <1>2, <1>3, <1>7

\* x is sound in the next state and names tabs of w or the one drawn by the step.
Fits(w, x) == Sound(tabIds', x) /\ Ids(x.tabs) \subseteq Used(w) \cup {tabIds + 1}

LEMMA SeenFits ==
  ASSUME TabsInv, tabIds' \in {tabIds, tabIds + 1}, NEW w \in Windows, NEW x \in Seen(w)
  PROVE  Fits(w, x)
<1>1. Sound(tabIds, x) /\ tabIds \in Nat /\ tabIds' \in Nat /\ tabIds <= tabIds'
  BY DEF TabsInv, TabsType, AllSound
<1>. QED BY <1>1, SoundGrows DEF Fits, Used

LEMMA PlainFits ==
  ASSUME TabsInv, tabIds' \in {tabIds, tabIds + 1}, NEW w
  PROVE  Fits(w, NoState) /\ Fits(w, NoTabs)
BY SoundPlain DEF Fits, TabsInv, TabsType

LEMMA StateFits ==
  ASSUME NEW w, NEW r, NEW t, Fits(w, t), r.server = t.server
  PROVE  Fits(w, StateOf(r, t))
BY SoundState DEF Fits

\* What the repository does for w changes the tabs of w and the answer of its command.
LEMMA RepositoryTabs ==
  ASSUME Inv, TabsInv, NEW w \in Windows, NEW phase, NEW answer, Becomes(w, phase, answer),
         tabIds' \in {tabIds, tabIds + 1},
         \A v \in Windows \ {w} : runtime'[v] = runtime[v],
         Fits(w, runtime'[w]), Fits(w, command'[w].state),
         UNCHANGED <<appVars, pageVars, events>>
  PROVE  TabsInv'
<1>. USE DEF appVars, pageVars
<1>1. /\ command'[w].kind = command[w].kind /\ command'[w].base = command[w].base
      /\ command'[w].tabs = command[w].tabs /\ command'[w].active = command[w].active
      /\ \A v \in Windows \ {w} : command'[v] = command[v]
  BY DEF Becomes
<1>2. TabsType'
  <2>1. \A v \in Windows : command'[v].kind = command[v].kind /\ command'[v].base = command[v].base
    BY <1>1
  <2>2. open \subseteq Windows BY DEF Inv, Places
  <2>3. tabIds' \in Nat BY DEF TabsInv, TabsType
  <2>. QED BY <2>1, <2>2, <2>3 DEF TabsInv, TabsType, UnderWay
<1>3. ASSUME NEW v \in Windows, NEW x \in Seen(v)' PROVE x \in Seen(v) \/ Fits(v, x)
  <2>1. Told(v)' = Told(v) BY DEF Told
  <2>2. Proposed(v)' = Proposed(v) /\ command'[v].kind = command[v].kind BY <1>1 DEF Proposed
  <2>3. CASE v = w BY <1>1, <2>1, <2>2, <2>3 DEF Seen
  <2>4. CASE v # w BY <1>1, <2>1, <2>2, <2>4 DEF Seen
  <2>. QED BY <2>3, <2>4
<1>4. AllSound' /\ \A v \in Windows : Used(v)' \subseteq Used(v) \cup {tabIds + 1}
  BY <1>3, KeepsSound DEF Fits
<1>5. FreshIds' BY <1>1, <1>4, KeepsFresh DEF UnderWay
<1>. QED BY <1>2, <1>4, <1>5 DEF TabsInv

LEMMA UntouchedTabs ==
  ASSUME Inv, TabsInv, NEW w \in Windows, NEW phase, NEW answer, NEW st,
         Becomes(w, phase, answer), command'[w].state = NoState \/ command'[w].state = command[w].state,
         UNCHANGED <<runtime, tabIds, appVars, pageVars, events>>
  PROVE  TabsInv'
<1>1. runtime[w] \in Seen(w) /\ command[w].state \in Seen(w) BY DEF Seen
<1>2. Fits(w, runtime'[w]) /\ Fits(w, command'[w].state) BY <1>1, SeenFits, PlainFits
<1>. QED BY <1>2, RepositoryTabs

LEMMA LoadTabs ==
  ASSUME Inv, TabsInv, NEW w \in Windows, ExecuteLoad(w)
  PROVE  TabsInv'
<1>. DEFINE r == IF row[w].version = 0 THEN [row[w] EXCEPT !.version = 1] ELSE row[w]
            t == IF runtime[w].server = r.server THEN runtime[w]
                 ELSE FreshTabs(r.server, tabIds + 1, None)
<1>1. CommandsType /\ tabIds \in Nat /\ UNCHANGED <<appVars, pageVars, events>>
  BY DEF Inv, ExecuteLoad, TabsInv, TabsType
<1>2. CASE Taken(w, r.server) /\ UNCHANGED <<runtime, tabIds>>
  BY <1>1, <1>2, TakenBecomes, UntouchedTabs
<1>3. CASE /\ Holds(w, r.server, t) /\ Executed(w, StateOf(r, t))
           /\ tabIds' = IF t = runtime[w] \/ t = NoTabs THEN tabIds ELSE tabIds + 1
  <2>1. r.version \in Nat BY DEF Inv, RowsType
  <2>2. t.server = r.server BY DEF FreshTabs, OneTab, NoTabs
  <2>3. tabIds' \in {tabIds, tabIds + 1} BY <1>3
  <2>4. Fits(w, t)
    <3>1. CASE t = runtime[w] BY <2>3, <3>1, SeenFits DEF Seen
    <3>2. CASE t = NoTabs BY <2>3, <3>2, PlainFits
    <3>3. CASE t = OneTab(r.server, tabIds + 1, None) /\ tabIds' = tabIds + 1
      BY <1>1, <3>3, SoundOne DEF Fits
    <3>. QED BY <1>3, <3>1, <3>2, <3>3 DEF FreshTabs
  <2>5. StateOf(r, t).version = r.version BY DEF StateOf
  <2>. HIDE DEF r, t
  <2>6. Becomes(w, "executed", "state") /\ command'[w].state = StateOf(r, t)
    BY <1>1, <1>3, <2>1, <2>5, ExecutedBecomes
  <2>7. runtime'[w] = t /\ \A v \in Windows \ {w} : runtime'[v] = runtime[v]
    BY <1>3 DEF Inv, RowsType, Holds
  <2>8. Fits(w, StateOf(r, t)) BY <2>2, <2>4, StateFits
  <2>. QED BY <1>1, <2>3, <2>4, <2>6, <2>7, <2>8, RepositoryTabs
<1>. QED BY <1>2, <1>3 DEF ExecuteLoad

LEMMA BindTabs ==
  ASSUME Inv, TabsInv, NEW w \in Windows, ExecuteBind(w)
  PROVE  TabsInv'
<1>. DEFINE s == command[w].server
            r == [version |-> row[w].version + 1, server |-> s]
            t == OneTab(s, tabIds + 1, None)
<1>1. CommandsType /\ tabIds \in Nat /\ UNCHANGED <<appVars, pageVars, events>>
  BY DEF Inv, ExecuteBind, TabsInv, TabsType
<1>2. CASE Taken(w, s) /\ UNCHANGED <<runtime, tabIds>>
  BY <1>1, <1>2, TakenBecomes, UntouchedTabs
<1>3. CASE Answers(w, "failed", NoState) /\ UNCHANGED <<runtime, tabIds>>
  BY <1>1, <1>3, AnswersBecomes, UntouchedTabs DEF NoState
<1>4. CASE Holds(w, s, t) /\ Executed(w, StateOf(r, t)) /\ tabIds' = tabIds + 1
  <2>1. r.version \in Nat /\ r.server = s BY DEF Inv, RowsType
  <2>2. t.server = s /\ Fits(w, t) BY <1>1, <1>4, SoundOne DEF Fits
  <2>3. StateOf(r, t).version = r.version BY DEF StateOf
  <2>. HIDE DEF r, t
  <2>4. Becomes(w, "executed", "state") /\ command'[w].state = StateOf(r, t)
    BY <1>1, <1>4, <2>1, <2>3, ExecutedBecomes
  <2>5. runtime'[w] = t /\ \A v \in Windows \ {w} : runtime'[v] = runtime[v]
    BY <1>4 DEF Inv, RowsType, Holds
  <2>6. Fits(w, StateOf(r, t)) BY <2>1, <2>2, StateFits
  <2>. QED BY <1>1, <1>4, <2>2, <2>4, <2>5, <2>6, RepositoryTabs
<1>. QED BY <1>2, <1>3, <1>4 DEF ExecuteBind

LEMMA UpdateTabs ==
  ASSUME Inv, TabsInv, NEW w \in Windows, ExecuteUpdate(w)
  PROVE  TabsInv'
<1>. DEFINE r == [row[w] EXCEPT !.version = @ + 1]
            t == [server |-> row[w].server, tabs |-> command[w].tabs, active |-> command[w].active]
<1>1. /\ CommandsType /\ tabIds \in Nat /\ command[w].kind = "update"
      /\ UNCHANGED <<tabIds, appVars, pageVars, events>>
  BY DEF Inv, ExecuteUpdate, Sent, TabsInv, TabsType
<1>2. CASE Answers(w, "failed", NoState) /\ UNCHANGED runtime
  BY <1>1, <1>2, AnswersBecomes, UntouchedTabs DEF NoState
<1>3. CASE /\ runtime' = [runtime EXCEPT ![w] = t] /\ Answers(w, "state", StateOf(r, t))
           /\ Distinct(command[w].tabs, command[w].active)
  <2>1. r.version \in Nat /\ r.server = row[w].server BY DEF Inv, RowsType
  <2>2. Fits(w, t)
    <3>1. Proposed(w) \in Seen(w) BY <1>1 DEF Seen
    <3>2. Fits(w, Proposed(w)) BY <1>1, <3>1, SeenFits
    <3>. QED BY <1>3, <3>2 DEF Fits, Sound, Proposed
  <2>3. StateOf(r, t).version = r.version /\ t.server = r.server BY <2>1 DEF StateOf
  <2>. HIDE DEF r, t
  <2>4. Becomes(w, "answered", "state") /\ command'[w].state = StateOf(r, t)
    BY <1>1, <1>3, <2>1, <2>3, AnswersBecomes
  <2>5. runtime'[w] = t /\ \A v \in Windows \ {w} : runtime'[v] = runtime[v]
    BY <1>3 DEF Inv, RowsType
  <2>6. Fits(w, StateOf(r, t)) BY <2>2, <2>3, StateFits
  <2>. QED BY <1>1, <2>2, <2>4, <2>5, <2>6, RepositoryTabs
<1>. QED BY <1>2, <1>3 DEF ExecuteUpdate, ValidTabs

LEMMA CompleteTabs ==
  ASSUME Inv, TabsInv, NEW w \in Windows, CompleteCommand(w)
  PROVE  TabsInv'
<1>1. CommandsType /\ UNCHANGED <<tabIds, appVars, pageVars, events>>
  BY DEF Inv, CompleteCommand
<1>2. ASSUME NEW answer, Answers(w, answer, NoState), UNCHANGED runtime PROVE TabsInv'
  BY <1>1, <1>2, AnswersBecomes, UntouchedTabs DEF NoState
<1>3. CASE Answers(w, "state", command[w].state) /\ UNCHANGED runtime
  BY <1>1, <1>3, AnswersBecomes, UntouchedTabs DEF CommandsType
<1>4. CASE Answers(w, "failed", NoState) /\ Holds(w, None, NoTabs)
  <2>1. Becomes(w, "answered", "failed") /\ command'[w].state = NoState
    BY <1>1, <1>4, AnswersBecomes DEF NoState
  <2>2. runtime'[w] = NoTabs /\ \A v \in Windows \ {w} : runtime'[v] = runtime[v]
    BY <1>4 DEF Inv, RowsType, Holds
  <2>. QED BY <1>1, <2>1, <2>2, PlainFits, RepositoryTabs
<1>. QED BY <1>2, <1>3, <1>4 DEF CompleteCommand

\* A step outside the pages and their commands.
LEMMA OutsideTabs ==
  ASSUME Inv, TabsInv, tabIds' \in {tabIds, tabIds + 1},
         \A v \in Windows : runtime'[v] = runtime[v] \/ Fits(v, runtime'[v]),
         \A v \in Windows : \A x \in Told(v)' : x \in Told(v) \/ Fits(v, x),
         \A p \in Openers : opener'[p].thread \in Threads \cup {None},
         UNCHANGED <<open, command, view, known, queue>>
  PROVE  TabsInv'
<1>1. TabsType'
  <2>1. tabIds' \in Nat BY DEF TabsInv, TabsType
  <2>. QED BY <2>1 DEF TabsInv, TabsType, UnderWay
<1>2. ASSUME NEW v \in Windows, NEW x \in Seen(v)' PROVE x \in Seen(v) \/ Fits(v, x)
  <2>1. Proposed(v)' = Proposed(v) BY DEF Proposed
  <2>. QED BY <2>1 DEF Seen
<1>3. AllSound' /\ \A v \in Windows : Used(v)' \subseteq Used(v) \cup {tabIds + 1}
  BY <1>2, KeepsSound DEF Fits
<1>4. FreshIds' BY <1>3, KeepsFresh DEF UnderWay
<1>. QED BY <1>1, <1>3, <1>4 DEF TabsInv

\* A call that goes on, but for the state it got.
LEMMA MovesTold ==
  ASSUME NEW o \in Openers, NEW pc, NEW w, Moves(o, pc, w), pc # "opened", UNCHANGED events
  PROVE  \A v \in Windows : Told(v)' \subseteq Told(v)
BY DEF Moves, Told

LEMMA ReturnsThreads ==
  ASSUME OpenersType, TabsInv, NEW o \in Openers, Returns(o)
  PROVE  \A p \in Openers : opener'[p].thread \in Threads \cup {None}
BY DEF OpenersType, TabsInv, TabsType, Returns, Idle

LEMMA RowTabs ==
  ASSUME Inv, TabsInv, \/ \E w \in Windows : Deactivate(w)
                       \/ \E s \in Servers : DeleteServer(s)
  PROVE  TabsInv'
<1>1. UNCHANGED <<tabIds, open, command, view, known, queue, opener, events>>
  BY DEF Deactivate, DeleteServer, appVars, pageVars
<1>2. \A v \in Windows : runtime'[v] = runtime[v] \/ runtime'[v] = NoTabs
  BY DEF Deactivate, DeleteServer, Holds, Inv, RowsType
<1>3. \A v \in Windows : Told(v)' = Told(v) BY <1>1 DEF Told
<1>. QED BY <1>1, <1>2, <1>3, PlainFits, OutsideTabs DEF TabsInv, TabsType

LEMMA LookUpTabs ==
  ASSUME Inv, TabsInv, NEW o \in Openers, LookUp(o)
  PROVE  TabsInv'
<1>1. PICK s \in Servers, t \in Threads \cup {None} :
        \/ \E v \in HoldersBut(None, s) :
             opener' = [opener EXCEPT ![o] = [Idle EXCEPT !.pc = "found", !.server = s, !.thread = t, !.window = v]]
        \/ opener' = [opener EXCEPT ![o] = [Idle EXCEPT !.pc = "absent", !.server = s, !.thread = t]]
  BY DEF LookUp
<1>2. UNCHANGED <<tabIds, runtime, open, command, view, known, queue, events>>
  BY DEF LookUp, rowVars, pageVars
<1>3. /\ opener'[o].thread = t /\ opener'[o].pc \in {"found", "absent"}
      /\ \A p \in Openers \ {o} : opener'[p] = opener[p]
  BY <1>1 DEF Inv, OpenersType, Idle
<1>4. \A v \in Windows : Told(v)' \subseteq Told(v) BY <1>2, <1>3 DEF Told
<1>5. \A p \in Openers : opener'[p].thread \in Threads \cup {None} BY <1>3 DEF TabsInv, TabsType
<1>. QED BY <1>2, <1>4, <1>5, OutsideTabs

LEMMA OpenTabTabs ==
  ASSUME Inv, TabsInv, NEW o \in Openers, OpenTab(o)
  PROVE  TabsInv'
<1>0. PICK w \in drawn : w = opener[o].window BY DEF OpenTab, Inv, OpenersType
<1>. DEFINE old == StateOf(row[w], runtime[w])
            new == Opened(old, tabIds + 1, opener[o].thread)
            t == [server |-> old.server, tabs |-> new.tabs, active |-> new.active]
            r == IF new = With(old.tabs, old.active) THEN row[w] ELSE [row[w] EXCEPT !.version = @ + 1]
<1>1. /\ w \in Windows /\ opener[o].pc = "found" /\ tabIds \in Nat
      /\ UNCHANGED <<open, command, view, known, queue, events>>
  BY DEF OpenTab, Inv, Places, TabsInv, TabsType, pageVars
<1>2. CASE Returns(o) /\ UNCHANGED <<runtime, tabIds>>
  <2>1. Moves(o, "done", None) BY <1>2, ReturnsMoves DEF Inv
  <2>2. \A v \in Windows : Told(v)' \subseteq Told(v) BY <1>1, <2>1, MovesTold
  <2>. QED BY <1>1, <1>2, <2>2, ReturnsThreads, OutsideTabs DEF Inv
<1>3. CASE /\ runtime' = [runtime EXCEPT ![w] = t]
           /\ opener' = [opener EXCEPT ![o].pc = "opened", ![o].state = StateOf(r, t)]
           /\ tabIds' = IF new.tabs = old.tabs THEN tabIds ELSE tabIds + 1
           /\ runtime[w].server = row[w].server /\ row[w].server = opener[o].server
           /\ Distinct(new.tabs, new.active)
  <2>1. /\ old.tabs = runtime[w].tabs /\ old.active = runtime[w].active /\ old.server = row[w].server
        /\ runtime[w] \in Seen(w)
    BY DEF StateOf, Seen
  <2>2. Sound(tabIds, runtime[w]) /\ Ids(runtime[w].tabs) \subseteq Used(w) /\ opener[o].thread \in Threads \cup {None}
    BY <1>1, <2>1 DEF TabsInv, TabsType, AllSound, Used
  <2>3. opener[o].server \in Servers /\ opener[o].server # None
    BY <1>1, WindowAssumption DEF Inv, OpenersType
  <2>4. /\ old.tabs \in Seq(Tab) /\ Distinct(old.tabs, old.active)
        /\ tabIds + 1 \notin Ids(old.tabs) /\ Ids(old.tabs) \subseteq 1..tabIds
    BY <1>1, <1>3, <2>1, <2>2, <2>3 DEF Sound
  <2>. HIDE DEF old
  <2>5. Good(new, Ids(old.tabs) \cup {tabIds + 1}) BY <1>1, <2>2, <2>4, OpenedGood
  <2>6. Sound(tabIds', t) /\ Ids(t.tabs) \subseteq Used(w) \cup {tabIds + 1}
    <3>1. Ids(new.tabs) \subseteq 1..tabIds'
      <4>1. CASE new.tabs = old.tabs BY <1>3, <2>4, <4>1
      <4>2. CASE new.tabs # old.tabs BY <1>1, <1>3, <2>4, <2>5, <4>2 DEF Good
      <4>. QED BY <4>1, <4>2
    <3>2. new.active \in 1..tabIds' BY <2>5, <3>1 DEF Good, Distinct
    <3>3. new.active \in Nat BY <3>2
    <3>. HIDE DEF new
    <3>. QED BY <2>1, <2>2, <2>5, <3>1, <3>3 DEF Good, Sound
  <2>7. r.server = row[w].server BY <1>1 DEF Inv, RowsType
  <2>8. t.server = r.server BY <2>1, <2>7
  <2>9. tabIds' \in {tabIds, tabIds + 1} BY <1>3
  <2>10. opener[o].state.version \in Nat BY DEF Inv, OpenersType
  <2>. HIDE DEF r, t, new
  <2>11. Fits(w, t) /\ Fits(w, StateOf(r, t)) BY <2>6, <2>8, StateFits DEF Fits
  <2>12. /\ opener'[o].state = StateOf(r, t) /\ opener'[o].window = w /\ opener'[o].thread = opener[o].thread
         /\ \A p \in Openers \ {o} : opener'[p] = opener[p]
    <3>1. opener'[o] = [opener[o] EXCEPT !.pc = "opened", !.state = StateOf(r, t)]
      BY <1>3 DEF Inv, OpenersType
    <3>2. opener'[o] = [pc |-> "opened", server |-> opener[o].server, thread |-> opener[o].thread,
                        window |-> w, state |-> StateOf(r, t)]
      BY <1>0, <3>1 DEF Inv, OpenersType, IsOpener
    <3>. QED BY <1>3, <3>2 DEF Inv, OpenersType
  <2>13. ASSUME NEW v \in Windows, NEW x \in Told(v)' PROVE x \in Told(v) \/ Fits(v, x)
    <3>1. CASE x \in events[v] BY <3>1 DEF Told
    <3>2. ASSUME NEW p \in Openers, opener'[p].pc = "opened", opener'[p].window = v, x = opener'[p].state
          PROVE  x \in Told(v) \/ Fits(v, x)
      <4>1. CASE p = o BY <2>11, <2>12, <3>2, <4>1
      <4>2. CASE p # o BY <2>12, <3>2, <4>2 DEF Told
      <4>. QED BY <4>1, <4>2
    <3>. QED BY <1>1, <3>1, <3>2 DEF Told
  <2>14. \A p \in Openers : opener'[p].thread \in Threads \cup {None} BY <2>12 DEF TabsInv, TabsType
  <2>15. \A v \in Windows : runtime'[v] = runtime[v] \/ Fits(v, runtime'[v])
    BY <1>3, <2>11 DEF Inv, RowsType
  <2>. QED BY <1>1, <2>9, <2>13, <2>14, <2>15, OutsideTabs
<1>. QED BY <1>0, <1>2, <1>3 DEF OpenTab, Current, ValidTabs

LEMMA AnnounceTabs ==
  ASSUME Inv, TabsInv, NEW o \in Openers, Announce(o)
  PROVE  TabsInv'
<1>0. PICK w \in Windows : w = opener[o].window BY DEF Announce, Inv, OpenersType, Places
<1>1. /\ opener[o].pc = "opened" /\ Returns(o)
      /\ UNCHANGED <<runtime, tabIds, open, command, view, known, queue>>
  BY DEF Announce, rowVars, pageVars
<1>2. \A v \in Windows : events'[v] = events[v] \/ (v = w /\ events'[v] = events[v] \cup {opener[o].state})
  BY <1>0 DEF Announce, Inv, PagesType
<1>3. Moves(o, "done", None) BY <1>1, ReturnsMoves DEF Inv
<1>4. opener[o].state \in Told(w) BY <1>0, <1>1 DEF Told
<1>5. \A v \in Windows : Told(v)' \subseteq Told(v) BY <1>2, <1>3, <1>4 DEF Told, Moves
<1>. QED BY <1>1, <1>5, ReturnsThreads, OutsideTabs DEF Inv

LEMMA ReserveTabs ==
  ASSUME Inv, TabsInv, NEW o \in Openers, Reserve(o)
  PROVE  TabsInv'
<1>1. /\ opener[o].pc = "absent" /\ tabIds \in Nat /\ opener[o].thread \in Threads \cup {None}
      /\ UNCHANGED <<open, command, view, known, queue, events>>
  BY DEF Reserve, TabsInv, TabsType, pageVars
<1>2. CASE Returns(o) /\ UNCHANGED <<runtime, tabIds>>
  <2>1. Moves(o, "done", None) BY <1>2, ReturnsMoves DEF Inv
  <2>2. \A v \in Windows : Told(v)' \subseteq Told(v) BY <1>1, <2>1, MovesTold
  <2>. QED BY <1>1, <1>2, <2>2, ReturnsThreads, OutsideTabs DEF Inv
<1>3. ASSUME NEW w \in Windows, NEW s, tabIds' = tabIds + 1,
             Holds(w, s, OneTab(s, tabIds + 1, opener[o].thread)),
             opener' = [opener EXCEPT ![o].pc = "reserved", ![o].window = w]
      PROVE  TabsInv'
  <2>1. Fits(w, OneTab(s, tabIds + 1, opener[o].thread)) BY <1>1, <1>3, SoundOne DEF Fits
  <2>2. \A v \in Windows : runtime'[v] = runtime[v] \/ Fits(v, runtime'[v])
    BY <1>3, <2>1 DEF Inv, RowsType, Holds
  <2>3. /\ opener'[o].pc = "reserved" /\ opener'[o].thread = opener[o].thread
        /\ \A p \in Openers \ {o} : opener'[p] = opener[p]
    <3>1. opener'[o] = [opener[o] EXCEPT !.pc = "reserved", !.window = w] BY <1>3 DEF Inv, OpenersType
    <3>2. opener'[o] = [pc |-> "reserved", server |-> opener[o].server, thread |-> opener[o].thread,
                        window |-> w, state |-> opener[o].state]
      BY <3>1 DEF Inv, OpenersType, IsOpener
    <3>. QED BY <1>3, <3>2 DEF Inv, OpenersType
  <2>4. \A v \in Windows : Told(v)' \subseteq Told(v) BY <1>1, <2>3 DEF Told
  <2>5. \A p \in Openers : opener'[p].thread \in Threads \cup {None} BY <2>3 DEF TabsInv, TabsType
  <2>. QED BY <1>1, <1>3, <2>2, <2>4, <2>5, OutsideTabs
<1>. QED BY <1>2, <1>3 DEF Reserve

LEMMA DiscardTabs ==
  ASSUME Inv, TabsInv, NEW o \in Openers, Discard(o)
  PROVE  TabsInv'
<1>1. /\ Returns(o) /\ UNCHANGED <<tabIds, open, command, view, known, queue, events>>
      /\ \E w : Holds(w, None, NoTabs)
  BY DEF Discard, pageVars
<1>2. Moves(o, "done", None) BY <1>1, ReturnsMoves DEF Inv
<1>3. \A v \in Windows : Told(v)' \subseteq Told(v) BY <1>1, <1>2, MovesTold
<1>4. \A v \in Windows : runtime'[v] = runtime[v] \/ runtime'[v] = NoTabs
  BY <1>1 DEF Holds, Inv, RowsType
<1>. QED BY <1>1, <1>3, <1>4, PlainFits, ReturnsThreads, OutsideTabs DEF Inv

\* The page of w, or its command, takes over states that there are already.
LEMMA PageSound ==
  ASSUME Inv, TabsInv, NEW w \in Windows, UNCHANGED <<tabIds, runtime>>,
         \A v \in Windows \ {w} : known'[v] = known[v] /\ view'[v] = view[v] /\ command'[v] = command[v],
         Fits(w, known'[w]), Fits(w, view'[w]), Fits(w, command'[w].base), Fits(w, command'[w].state),
         command'[w].kind = "update" => command'[w] = command[w],
         \A v \in Windows : Told(v)' \subseteq Told(v)
  PROVE  AllSound' /\ \A v \in Windows : Used(v)' \subseteq Used(v) \cup {tabIds + 1}
<1>1. ASSUME NEW v \in Windows, NEW x \in Seen(v)' PROVE x \in Seen(v) \/ Fits(v, x)
  <2>1. CASE v # w
    <3>1. Proposed(v)' = Proposed(v) BY <2>1 DEF Proposed
    <3>. QED BY <2>1, <3>1 DEF Seen
  <2>2. CASE v = w
    <3>1. command'[w].kind = "update" => Proposed(w)' = Proposed(w) BY DEF Proposed
    <3>. QED BY <2>2, <3>1 DEF Seen
  <2>. QED BY <2>1, <2>2
<1>. QED BY <1>1, KeepsSound DEF Fits

LEMMA ToldByEvents ==
  ASSUME UNCHANGED opener, \A v \in Windows : events'[v] \subseteq events[v]
  PROVE  \A v \in Windows : Told(v)' \subseteq Told(v)
BY DEF Told

LEMMA BuildTabs ==
  ASSUME Inv, TabsInv, NEW o \in Openers, Build(o)
  PROVE  TabsInv'
<1>1. PICK w \in Windows : w = opener[o].window /\ w \in drawn BY DEF Build, Inv, OpenersType, Places
<1>2. /\ Builds(o, w) /\ Returns(o) /\ open' = open \cup {w} /\ command' = [command EXCEPT ![w] = Load]
      /\ UNCHANGED <<tabIds, runtime, known, view, queue, events>>
  BY <1>1 DEF Build, Builds, rowVars
<1>3. command[w] = NoCommand BY <1>2 DEF Inv, Places
<1>4. /\ command'[w] = Load /\ \A v \in Windows \ {w} : command'[v] = command[v]
  BY <1>2 DEF Inv, CommandsType
<1>5. Load.base = NoState /\ Load.state = NoState /\ Load.kind = "load" /\ NoCommand.kind = "none"
  BY LoadFields, LoadBase
<1>6. Moves(o, "done", None) BY <1>2, ReturnsMoves DEF Inv
<1>7. \A v \in Windows : Told(v)' \subseteq Told(v) BY <1>2, <1>6, MovesTold
<1>8. Fits(w, known[w]) /\ Fits(w, view[w]) BY <1>2, SeenFits DEF Seen
<1>9. AllSound' /\ \A v \in Windows : Used(v)' \subseteq Used(v) \cup {tabIds + 1}
  BY <1>2, <1>4, <1>5, <1>7, <1>8, PlainFits, PageSound
<1>10. \A v \in Windows : UnderWay(v)' <=> UnderWay(v) BY <1>3, <1>4, <1>5 DEF UnderWay
<1>11. FreshIds' BY <1>2, <1>9, <1>10, KeepsFresh
<1>12. \A p \in Openers : opener'[p].thread \in Threads \cup {None} BY <1>2, ReturnsThreads DEF Inv
<1>13. TabsType'
  <2>1. \A v \in Windows : command'[v].kind = "update" => command'[v] = command[v] BY <1>4, <1>5
  <2>2. \A v \in open' : UnderWay(v)' => v \in open BY <1>2, <1>3, <1>5, <1>10 DEF UnderWay
  <2>3. open \subseteq Windows BY DEF Inv, Places
  <2>. QED BY <1>2, <1>10, <1>12, <2>1, <2>2, <2>3 DEF TabsInv, TabsType
<1>. QED BY <1>9, <1>11, <1>13 DEF TabsInv

LEMMA QuietTabs ==
  ASSUME Inv, TabsInv, NEW w \in Windows, Listen(w) \/ Hear(w)
  PROVE  TabsInv'
<1>1. UNCHANGED <<tabIds, runtime, opener, open, command, queue>>
  BY DEF Listen, Hear, rowVars, appVars
<1>2. \A v \in Windows : events'[v] \subseteq events[v] BY DEF Listen, Hear, Inv, PagesType
<1>3. \A v \in Windows : Told(v)' \subseteq Told(v) BY <1>1, <1>2, ToldByEvents
<1>4. /\ DOMAIN view' = Windows
      /\ \A v \in Windows \ {w} : known'[v] = known[v] /\ view'[v] = view[v]
      /\ known'[w] \in Seen(w) /\ view'[w] \in Seen(w)
  <2>1. CASE UNCHANGED <<known, view>> BY <2>1 DEF Seen, TabsInv, TabsType
  <2>2. ASSUME NEW e \in events[w], known' = [known EXCEPT ![w] = e], view' = [view EXCEPT ![w] = e]
        PROVE  /\ DOMAIN view' = Windows
               /\ \A v \in Windows \ {w} : known'[v] = known[v] /\ view'[v] = view[v]
               /\ known'[w] \in Seen(w) /\ view'[w] \in Seen(w)
    <3>1. e \in Seen(w) BY DEF Seen, Told
    <3>. QED BY <2>2, <3>1 DEF Inv, PagesType, TabsInv, TabsType
  <2>. QED BY <2>1, <2>2 DEF Listen, Hear, Publish
<1>5. /\ Fits(w, known'[w]) /\ Fits(w, view'[w])
      /\ Fits(w, command[w].base) /\ Fits(w, command[w].state)
  <2>1. command[w].base \in Seen(w) /\ command[w].state \in Seen(w) BY DEF Seen
  <2>. QED BY <1>1, <1>4, <2>1, SeenFits
<1>6. AllSound' /\ \A v \in Windows : Used(v)' \subseteq Used(v) \cup {tabIds + 1}
  BY <1>1, <1>3, <1>4, <1>5, PageSound
<1>7. \A v \in Windows : UnderWay(v)' <=> UnderWay(v) BY <1>1 DEF UnderWay
<1>8. FreshIds' BY <1>1, <1>6, <1>7, KeepsFresh
<1>9. TabsType' BY <1>1, <1>4, <1>7 DEF TabsInv, TabsType, Inv, Places
<1>. QED BY <1>6, <1>8, <1>9 DEF TabsInv

LEMMA ReloadTabs ==
  ASSUME Inv, TabsInv, NEW w \in Windows, Reload(w)
  PROVE  TabsInv'
<1>1. /\ UNCHANGED <<tabIds, runtime, opener, open, events, known, queue>> /\ queue[w] = <<>>
      /\ view' = [view EXCEPT ![w] = view[w]] /\ command' = [command EXCEPT ![w] = Load]
  BY DEF Reload, Publish, rowVars, appVars
<1>2. /\ DOMAIN view' = Windows /\ \A v \in Windows : view'[v] = view[v]
      /\ command'[w] = Load /\ \A v \in Windows \ {w} : command'[v] = command[v]
  BY <1>1 DEF TabsInv, TabsType, Inv, CommandsType
<1>3. Load.base = NoState /\ Load.state = NoState /\ Load.kind = "load" BY LoadFields, LoadBase
<1>4. \A v \in Windows : Told(v)' \subseteq Told(v) BY <1>1, ToldByEvents
<1>5. Fits(w, known[w]) /\ Fits(w, view[w]) BY <1>1, SeenFits DEF Seen
<1>6. AllSound' /\ \A v \in Windows : Used(v)' \subseteq Used(v) \cup {tabIds + 1}
  BY <1>1, <1>2, <1>3, <1>4, <1>5, PlainFits, PageSound
<1>7. FreshIds'
  <2>1. \A v \in Windows : queue'[v] = <<>> \/ (queue'[v] = queue[v] /\ (UnderWay(v) => UnderWay(v)'))
    BY <1>1, <1>2 DEF UnderWay
  <2>. QED BY <1>1, <1>6, <2>1, KeepsFresh
<1>8. TabsType'
  <2>1. ~UnderWay(w)' /\ \A v \in Windows \ {w} : UnderWay(v)' <=> UnderWay(v) BY <1>2, <1>3 DEF UnderWay
  <2>. QED BY <1>1, <1>2, <1>3, <2>1 DEF TabsInv, TabsType, Inv, Places
<1>. QED BY <1>6, <1>7, <1>8 DEF TabsInv

\* The page of w learns the answer of its command.
LEMMA AnsweredTabs ==
  ASSUME Inv, TabsInv, NEW w \in Windows, Succeed(w) \/ ServerAlreadyOpen(w) \/ Fail(w)
  PROVE  TabsInv'
<1>1. /\ w \in open /\ command[w].phase = "answered" /\ command' = [command EXCEPT ![w] = NoCommand]
      /\ queue' = [queue EXCEPT ![w] = IF command[w].kind = "load" THEN @ ELSE Tail(@)]
      /\ UNCHANGED <<tabIds, runtime, opener, open, events>>
  BY DEF Succeed, ServerAlreadyOpen, Fail, Answered, rowVars, appVars
<1>2. /\ command'[w] = NoCommand /\ \A v \in Windows \ {w} : command'[v] = command[v]
      /\ command[w].kind = "load" \/ UnderWay(w)
  BY <1>1, LoadFields DEF Inv, CommandsType, UnderWay
<1>3. NoCommand.base = NoState /\ NoCommand.state = NoState /\ NoCommand.kind = "none"
  BY LoadFields, LoadBase
<1>4. \A v \in Windows : Told(v)' \subseteq Told(v) BY <1>1, ToldByEvents
<1>5. /\ DOMAIN view' = Windows
      /\ \A v \in Windows \ {w} : known'[v] = known[v] /\ view'[v] = view[v]
      /\ known'[w] \in Seen(w) \cup {NoState} /\ view'[w] \in Seen(w)
  <2>1. \E st : /\ view' = [view EXCEPT ![w] = st] /\ st \in {command[w].state, command[w].base, view[w]}
    BY DEF Succeed, ServerAlreadyOpen, Fail, Publish
  <2>2. known' = [known EXCEPT ![w] = command[w].state] \/ known' = known \/ known' = [known EXCEPT ![w] = NoState]
    BY DEF Succeed, ServerAlreadyOpen, Fail
  <2>. QED BY <2>1, <2>2 DEF Seen, Inv, PagesType, TabsInv, TabsType
<1>6. Fits(w, known'[w]) /\ Fits(w, view'[w]) BY <1>1, <1>5, SeenFits, PlainFits
<1>7. AllSound' /\ \A v \in Windows : Used(v)' \subseteq Used(v) \cup {tabIds + 1}
  BY <1>1, <1>2, <1>3, <1>4, <1>5, <1>6, PlainFits, PageSound
<1>8. ~UnderWay(w)' /\ \A v \in Windows \ {w} : UnderWay(v)' <=> UnderWay(v)
  BY <1>2, <1>3 DEF UnderWay
<1>9. FreshIds' /\ queue' \in [Windows -> Seq(Mutation)] /\ \A v \in Windows \ {w} : queue'[v] = queue[v]
  <2>1. CASE command[w].kind = "load"
    <3>1. queue' = queue /\ ~UnderWay(w) BY <1>1, <2>1 DEF TabsInv, TabsType, UnderWay
    <3>. QED BY <1>1, <1>7, <1>8, <3>1, KeepsFresh DEF TabsInv, TabsType
  <2>2. CASE command[w].kind # "load"
    <3>1. queue' = [queue EXCEPT ![w] = Tail(@)] /\ queue[w] # <<>>
      BY <1>1, <1>2, <2>2 DEF TabsInv, TabsType
    <3>. QED BY <1>1, <1>2, <1>7, <3>1, PopsFresh DEF TabsInv, TabsType
  <2>. QED BY <2>1, <2>2
<1>10. TabsType'
  BY <1>1, <1>2, <1>3, <1>5, <1>8, <1>9 DEF TabsInv, TabsType, Inv, Places
<1>. QED BY <1>7, <1>9, <1>10 DEF TabsInv

LEMMA EnqueueTabs ==
  ASSUME Inv, TabsInv, NEW w \in Windows, NEW m \in Mutation, Enqueue(w, m),
         \/ tabIds' = tabIds /\ Draws(m) = {}
         \/ tabIds' = tabIds + 1 /\ Draws(m) = {tabIds + 1}
  PROVE  TabsInv'
<1>1. /\ queue' = [queue EXCEPT ![w] = Append(@, m)] /\ view' = [view EXCEPT ![w] = view[w]]
      /\ UNCHANGED <<runtime, opener, open, events, command, known>>
  BY DEF Enqueue, Publish, rowVars, appVars
<1>2. DOMAIN view' = Windows /\ \A v \in Windows : view'[v] = view[v]
  BY <1>1 DEF TabsInv, TabsType
<1>3. \A v \in Windows : Seen(v)' = Seen(v)
  <2>1. \A v \in Windows : Told(v)' = Told(v) /\ Proposed(v)' = Proposed(v) BY <1>1 DEF Told, Proposed
  <2>. QED BY <1>1, <1>2, <2>1 DEF Seen
<1>4. \A v \in Windows : Used(v)' = Used(v) BY <1>3 DEF Used
<1>5. AllSound'
  <2>1. tabIds \in Nat /\ tabIds' \in Nat /\ tabIds <= tabIds' BY DEF TabsInv, TabsType
  <2>. HIDE DEF Draws
  <2>. QED BY <1>3, <2>1, SoundGrows DEF TabsInv, AllSound
<1>6. /\ queue' \in [Windows -> Seq(Mutation)] /\ FreshIds'
      /\ \A v \in Windows : queue[v] # <<>> => queue'[v] # <<>>
  BY <1>1, <1>4, AppendsFresh
<1>7. TabsType'
  <2>1. tabIds' \in Nat BY DEF TabsInv, TabsType
  <2>2. open \subseteq Windows BY DEF Inv, Places
  <2>. QED BY <1>1, <1>2, <1>6, <2>1, <2>2 DEF TabsInv, TabsType, UnderWay
<1>. QED BY <1>5, <1>6, <1>7 DEF TabsInv

LEMMA UserTabs ==
  ASSUME Inv, TabsInv, NEW w \in Windows,
         Bind(w) \/ OpenTabOf(w) \/ Replace(w) \/ CloseTab(w) \/ CloseGroup(w) \/ Activate(w) \/ Attach(w)
  PROVE  TabsInv'
<1>1. /\ tabIds \in Nat /\ view[w].tabs \in Seq(Tab) /\ view[w].active \in Nat
      /\ Ids(view[w].tabs) \subseteq Nat
  <2>1. view[w] \in Seen(w) /\ tabIds \in Nat BY DEF Seen, TabsInv, TabsType
  <2>2. Sound(tabIds, view[w]) BY <2>1 DEF TabsInv, AllSound
  <2>3. 1..tabIds \subseteq Nat BY <2>1
  <2>. QED BY <2>1, <2>2, <2>3 DEF Sound
<1>2. CASE Bind(w)
  <2>1. PICK s \in Servers : Enqueue(w, [kind |-> "bind", server |-> s]) /\ tabIds' = tabIds
    BY <1>2 DEF Bind
  <2>2. [kind |-> "bind", server |-> s] \in Mutation BY DEF Mutation
  <2>. QED BY <2>1, <2>2, EnqueueTabs DEF Draws
<1>3. CASE OpenTabOf(w)
  <2>1. PICK t \in Threads \cup {None} : Enqueue(w, [kind |-> "open", tab |-> tabIds + 1, thread |-> t])
    BY <1>3 DEF OpenTabOf
  <2>2. [kind |-> "open", tab |-> tabIds + 1, thread |-> t] \in Mutation BY <1>1 DEF Mutation
  <2>. QED BY <1>3, <2>1, <2>2, EnqueueTabs DEF Draws, OpenTabOf
<1>4. CASE Replace(w)
  <2>1. PICK t \in Threads \cup {None} :
          IF TabsOf(view[w].tabs, t) = {} THEN Enqueue(w, [kind |-> "replace", thread |-> t])
          ELSE Enqueue(w, [kind |-> "closeAll", tabs |-> {view[w].active}, tab |-> Shown(view[w].tabs, t).active])
    BY <1>4 DEF Replace
  <2>2. tabIds' = tabIds BY <1>4 DEF Replace
  <2>3. CASE TabsOf(view[w].tabs, t) = {}
    <3>1. [kind |-> "replace", thread |-> t] \in Mutation BY DEF Mutation
    <3>. QED BY <2>1, <2>2, <2>3, <3>1, EnqueueTabs DEF Draws
  <2>4. CASE TabsOf(view[w].tabs, t) # {}
    <3>. DEFINE id == Shown(view[w].tabs, t).active
    <3>1. id \in Nat
      <4>1. \E x : x \in Showing(view[w].tabs, t) BY <2>4 DEF Showing
      <4>2. Showing(view[w].tabs, t) \subseteq Ids(view[w].tabs) BY DEF Showing, TabsOf, Ids
      <4>3. id = CHOOSE x \in Showing(view[w].tabs, t) : TRUE BY DEF Shown, With
      <4>. QED BY <1>1, <4>1, <4>2, <4>3
    <3>. HIDE DEF id
    <3>2. [kind |-> "closeAll", tabs |-> {view[w].active}, tab |-> id] \in Mutation
      BY <1>1, <3>1 DEF Mutation
    <3>. QED BY <2>1, <2>2, <2>4, <3>2, EnqueueTabs DEF Draws, id
  <2>. QED BY <2>3, <2>4
<1>5. CASE CloseTab(w)
  <2>1. PICK id \in Ids(view[w].tabs) : Enqueue(w, [kind |-> "close", tab |-> id, fresh |-> tabIds + 1])
    BY <1>5 DEF CloseTab
  <2>2. [kind |-> "close", tab |-> id, fresh |-> tabIds + 1] \in Mutation BY <1>1 DEF Mutation
  <2>. QED BY <1>5, <2>1, <2>2, EnqueueTabs DEF Draws, CloseTab
<1>6. CASE CloseGroup(w)
  <2>1. PICK ids \in SUBSET Nat, id \in Nat : Enqueue(w, [kind |-> "closeAll", tabs |-> ids, tab |-> id])
    <3>1. PICK i \in DOMAIN view[w].tabs :
            LET tabs == view[w].tabs
                right == Ids(SubSeq(tabs, i + 1, Len(tabs)))
            IN  \/ Enqueue(w, [kind |-> "closeAll", tabs |-> Ids(tabs) \ {tabs[i].id}, tab |-> tabs[i].id])
                \/ Enqueue(w, [kind |-> "closeAll", tabs |-> right,
                               tab |-> IF view[w].active \in right THEN tabs[i].id ELSE view[w].active])
      BY <1>6 DEF CloseGroup
    <3>2. view[w].tabs[i].id \in Nat BY <1>1, TabsHave
    <3>3. Ids(SubSeq(view[w].tabs, i + 1, Len(view[w].tabs))) \subseteq Nat
      <4>1. SubSeq(view[w].tabs, i + 1, Len(view[w].tabs)) \in Seq(Tab)
        BY <1>1, SubSeqProperties
      <4>. QED BY <4>1, TabsHave
    <3>. QED BY <1>1, <3>1, <3>2, <3>3
  <2>2. [kind |-> "closeAll", tabs |-> ids, tab |-> id] \in Mutation BY DEF Mutation
  <2>. QED BY <1>6, <2>1, <2>2, EnqueueTabs DEF Draws, CloseGroup
<1>7. CASE Activate(w)
  <2>1. PICK id \in Ids(view[w].tabs) : Enqueue(w, [kind |-> "activate", tab |-> id])
    BY <1>7 DEF Activate
  <2>2. [kind |-> "activate", tab |-> id] \in Mutation BY <1>1 DEF Mutation
  <2>. QED BY <1>7, <2>1, <2>2, EnqueueTabs DEF Draws, Activate
<1>8. CASE Attach(w)
  <2>1. PICK id \in Ids(view[w].tabs), t \in Threads : Enqueue(w, [kind |-> "attach", tab |-> id, thread |-> t])
    BY <1>8 DEF Attach
  <2>2. [kind |-> "attach", tab |-> id, thread |-> t] \in Mutation BY <1>1 DEF Mutation
  <2>. QED BY <1>8, <2>1, <2>2, EnqueueTabs DEF Draws, Attach
<1>. QED BY <1>2, <1>3, <1>4, <1>5, <1>6, <1>7, <1>8

\* A change that is not refused makes good tabs of good tabs.
LEMMA AppliedGood ==
  ASSUME NEW s, s.tabs \in Seq(Tab), Distinct(s.tabs, s.active), NEW m \in Mutation, m.kind # "bind",
         ~Refused(s, m), Draws(m) \cap Ids(s.tabs) = {}
  PROVE  Good(Applied(s, m), Ids(s.tabs) \cup Draws(m))
<1>1. CASE m.kind = "replace"
  <2>1. Applied(s, m) = Replaced(s, m.thread) /\ m.thread \in Threads \cup {None}
    BY <1>1 DEF Applied, Mutation
  <2>. QED BY <2>1, ReplacedGood DEF Good
<1>2. CASE m.kind = "open"
  <2>1. /\ Applied(s, m) = Opened(s, m.tab, m.thread) /\ m.tab \in Nat /\ m.thread \in Threads \cup {None}
        /\ Draws(m) = {m.tab}
    BY <1>2 DEF Applied, Mutation, Draws
  <2>. QED BY <2>1, OpenedGood
<1>3. CASE m.kind = "activate"
  <2>1. Applied(s, m) = With(s.tabs, m.tab) /\ m.tab \in Ids(s.tabs) BY <1>3 DEF Applied, Refused
  <2>. QED BY <2>1 DEF Good, With, Distinct
<1>4. CASE m.kind = "close"
  <2>1. Applied(s, m) = Closed(s, m.tab, m.fresh) /\ m.fresh \in Nat /\ Draws(m) = {m.fresh}
    BY <1>4 DEF Applied, Mutation, Draws
  <2>. QED BY <2>1, ClosedGood
<1>5. CASE m.kind = "closeAll"
  <2>1. /\ Applied(s, m) = ClosedAll(s, m.tabs, m.tab)
        /\ m.tabs \cap Ids(s.tabs) # {} => m.tab \in Ids(s.tabs) \ m.tabs
    BY <1>5 DEF Applied, Refused
  <2>. QED BY <2>1, ClosedAllGood DEF Good
<1>6. CASE m.kind = "attach"
  <2>1. /\ Applied(s, m) = Attached(s, m.tab, m.thread) /\ m.tab \in Ids(s.tabs) /\ m.thread \in Threads
    BY <1>6 DEF Applied, Refused, Mutation
  <2>. QED BY <2>1, AttachedGood DEF Good
<1>. QED BY <1>1, <1>2, <1>3, <1>4, <1>5, <1>6 DEF Mutation

\* What the tabs of s become by the first mutation of the queue of w, which drew its
\* identifiers for itself alone.
LEMMA HeadDraws ==
  ASSUME TabsInv, NEW w \in Windows, queue[w] # <<>>, ~UnderWay(w)
  PROVE  /\ Head(queue[w]) \in Mutation
         /\ Draws(Head(queue[w])) \subseteq 1..tabIds
         /\ Draws(Head(queue[w])) \cap Used(w) = {}
<1>1. queue[w] \in Seq(Mutation) BY DEF TabsInv, TabsType
<1>2. 1 \in DOMAIN queue[w] /\ Head(queue[w]) = queue[w][1] /\ Head(queue[w]) \in Mutation BY <1>1
<1>. HIDE DEF Draws
<1>. QED BY <1>2 DEF TabsInv, FreshIds

\* The page of w sends the command c for the first mutation of its queue.
LEMMA SendsTabs ==
  ASSUME Inv, TabsInv, NEW w \in Windows, w \in open, queue[w] # <<>>, command[w].kind = "none",
         NEW c, command' = [command EXCEPT ![w] = c],
         c.kind \in {"bind", "update"}, c.base = known[w], c.state = NoState,
         c.kind = "update" => /\ known[w].server # None
                              /\ Good(c, Ids(known[w].tabs) \cup Draws(Head(queue[w]))),
         UNCHANGED <<rowVars, appVars, tabIds, known, events, view, queue>>
  PROVE  TabsInv'
<1>. USE DEF rowVars, appVars
<1>1. /\ DOMAIN command' = Windows /\ command'[w] = c
      /\ \A v \in Windows \ {w} : command'[v] = command[v]
      /\ ~UnderWay(w) /\ UnderWay(w)' /\ tabIds \in Nat /\ open \subseteq Windows
  BY DEF Inv, CommandsType, UnderWay, TabsInv, TabsType, Places
<1>. DEFINE d == Draws(Head(queue[w]))
<1>2. d \subseteq 1..tabIds /\ d \cap Used(w) = {} BY <1>1, HeadDraws
<1>. HIDE DEF d
<1>3. Sound(tabIds, known[w]) /\ Ids(known[w].tabs) \subseteq Used(w)
  <2>1. known[w] \in Seen(w) BY DEF Seen
  <2>. QED BY <2>1 DEF TabsInv, AllSound, Used
<1>4. Sound(tabIds, NoState) /\ Ids(NoState.tabs) = {} BY <1>1, SoundPlain
<1>5. ASSUME c.kind = "update"
      PROVE  Sound(tabIds, Proposed(w)') /\ Ids((Proposed(w)').tabs) \subseteq Used(w) \cup d
  <2>1. Proposed(w)' = [server |-> known[w].server, tabs |-> c.tabs, active |-> c.active]
    BY <1>1 DEF Proposed
  <2>2. /\ c.tabs \in Seq(Tab) /\ Ids(c.tabs) \subseteq Ids(known[w].tabs) \cup d
        /\ Distinct(c.tabs, c.active)
    BY <1>5 DEF Good, d
  <2>3. Ids(c.tabs) \subseteq 1..tabIds BY <1>2, <1>3, <2>2 DEF Sound
  <2>4. c.active \in Nat
    <3>1. c.active \in 1..tabIds BY <2>2, <2>3 DEF Distinct
    <3>. QED BY <3>1
  <2>. QED BY <1>3, <2>1, <2>2, <2>3, <2>4 DEF Sound
<1>6. ASSUME NEW x \in Seen(w)'
      PROVE  x \in Seen(w) \/ (Sound(tabIds, x) /\ Ids(x.tabs) \subseteq Used(w) \cup d)
  <2>1. Told(w)' = Told(w) BY DEF Told
  <2>2. \/ x \in {runtime[w], known[w], view[w]} \cup Told(w)
        \/ x = NoState
        \/ c.kind = "update" /\ x = Proposed(w)'
    BY <1>1, <2>1 DEF Seen
  <2>3. CASE x \in {runtime[w], known[w], view[w]} \cup Told(w) BY <2>3 DEF Seen
  <2>4. CASE x = NoState BY <1>4, <2>4
  <2>5. CASE c.kind = "update" /\ x = Proposed(w)' BY <1>5, <2>5
  <2>. QED BY <2>2, <2>3, <2>4, <2>5
<1>7. ASSUME NEW v \in Windows \ {w} PROVE Seen(v)' = Seen(v)
  <2>1. Told(v)' = Told(v) /\ Proposed(v)' = Proposed(v) BY <1>1 DEF Told, Proposed
  <2>. QED BY <1>1, <2>1 DEF Seen
<1>8. AllSound'
  <2>1. \A x \in Seen(w)' : Sound(tabIds, x) BY <1>6 DEF TabsInv, AllSound
  <2>. QED BY <1>7, <2>1 DEF TabsInv, AllSound
<1>9. Used(w)' \subseteq Used(w) \cup d
  <2>. SUFFICES ASSUME NEW id \in Used(w)' PROVE id \in Used(w) \cup d OBVIOUS
  <2>1. PICK x \in Seen(w)' : id \in Ids(x.tabs) BY DEF Used
  <2>2. CASE x \in Seen(w) BY <2>1, <2>2 DEF Used
  <2>. QED BY <1>6, <2>1, <2>2
<1>10. \A v \in Windows \ {w} : Used(v)' \subseteq Used(v) BY <1>7 DEF Used
<1>11. FreshIds' BY <1>1, <1>9, <1>10, StartsFresh DEF d
<1>12. TabsType'
  <2>1. \A v \in Windows \ {w} : UnderWay(v)' <=> UnderWay(v) BY <1>1 DEF UnderWay
  <2>. QED BY <1>1, <2>1 DEF TabsInv, TabsType
<1>. QED BY <1>8, <1>11, <1>12 DEF TabsInv

LEMMA StartTabs ==
  ASSUME Inv, TabsInv, NEW w \in Windows, StartMutation(w)
  PROVE  TabsInv'
<1>. DEFINE m == Head(queue[w])
            s == known[w]
            new == Applied(s, m)
            refused == s = NoState \/ (m.kind # "bind" /\ Refused(s, m))
<1>1. /\ w \in open /\ queue[w] # <<>> /\ command[w].kind = "none" /\ ~UnderWay(w)
      /\ UNCHANGED <<rowVars, appVars, tabIds, known, events>>
  BY DEF StartMutation, Starts, Running, UnderWay
<1>2. /\ m \in Mutation /\ Draws(m) \subseteq 1..tabIds /\ Draws(m) \cap Used(w) = {}
  BY <1>1, HeadDraws
<1>3. known[w] \in Seen(w) /\ view[w] \in Seen(w) /\ command[w].base \in Seen(w) /\ command[w].state \in Seen(w)
  BY DEF Seen
<1>. HIDE DEF m, new
<1>4. ASSUME UNCHANGED command, queue' = [queue EXCEPT ![w] = Tail(@)],
             view' = view \/ view' = [view EXCEPT ![w] = s]
      PROVE  TabsInv'
  <2>1. /\ DOMAIN view' = Windows /\ view'[w] \in Seen(w)
        /\ \A v \in Windows \ {w} : view'[v] = view[v]
    BY <1>3, <1>4 DEF TabsInv, TabsType
  <2>2. /\ Fits(w, known'[w]) /\ Fits(w, view'[w])
        /\ Fits(w, command'[w].base) /\ Fits(w, command'[w].state)
    BY <1>1, <1>3, <1>4, <2>1, SeenFits
  <2>3. \A v \in Windows : Told(v)' \subseteq Told(v) BY <1>1, ToldByEvents DEF appVars
  <2>4. AllSound' /\ \A v \in Windows : Used(v)' \subseteq Used(v) \cup {tabIds + 1}
    BY <1>1, <1>4, <2>1, <2>2, <2>3, PageSound DEF rowVars
  <2>5. FreshIds' /\ queue' \in [Windows -> Seq(Mutation)]
    BY <1>1, <1>4, <2>4, PopsFresh
  <2>6. TabsType'
    <3>1. /\ \A v \in Windows : UnderWay(v)' <=> UnderWay(v)
          /\ \A v \in Windows \ {w} : queue'[v] = queue[v]
      BY <1>4 DEF UnderWay, TabsInv, TabsType
    <3>. QED BY <1>1, <1>4, <2>1, <2>5, <3>1 DEF TabsInv, TabsType, Inv, Places, appVars
  <2>. QED BY <2>4, <2>5, <2>6 DEF TabsInv
<1>5. ASSUME m.kind = "bind", UNCHANGED <<view, queue>>,
             command' = [command EXCEPT ![w] = [NoCommand EXCEPT !.kind = "bind", !.phase = "sent",
                                                                 !.base = s, !.server = m.server]]
      PROVE  TabsInv'
  <2>0. PICK c : c = [NoCommand EXCEPT !.kind = "bind", !.phase = "sent", !.base = s, !.server = m.server] OBVIOUS
  <2>1. c = [kind |-> "bind", phase |-> "sent", base |-> s, tabs |-> NoCommand.tabs,
             active |-> NoCommand.active, server |-> m.server, answer |-> NoCommand.answer,
             state |-> NoCommand.state, holder |-> NoCommand.holder]
    BY <2>0, LoadFields DEF IsCommand
  <2>2. c.kind = "bind" /\ c.base = s /\ c.state = NoState BY <2>1, LoadFields
  <2>. QED BY <1>1, <1>5, <2>0, <2>2, SendsTabs
<1>6. ASSUME m.kind # "bind", ~Refused(s, m), UNCHANGED <<view, queue>>,
             command' = [command EXCEPT ![w] = [NoCommand EXCEPT !.kind = "update", !.phase = "sent",
                                      !.base = s, !.tabs = new.tabs, !.active = new.active]]
      PROVE  TabsInv'
  <2>0. PICK c : c = [NoCommand EXCEPT !.kind = "update", !.phase = "sent",
                                     !.base = s, !.tabs = new.tabs, !.active = new.active] OBVIOUS
  <2>1. c = [kind |-> "update", phase |-> "sent", base |-> s, tabs |-> new.tabs,
             active |-> new.active, server |-> NoCommand.server, answer |-> NoCommand.answer,
             state |-> NoCommand.state, holder |-> NoCommand.holder]
    BY <2>0, LoadFields DEF IsCommand
  <2>2. c.kind = "update" /\ c.base = s /\ c.state = NoState /\ c.tabs = new.tabs /\ c.active = new.active
    BY <2>1, LoadFields
  <2>3. s.server # None BY <1>6 DEF Refused
  <2>4. Sound(tabIds, s) /\ Ids(s.tabs) \subseteq Used(w) BY <1>3 DEF TabsInv, AllSound, Used
  <2>5. Good(new, Ids(s.tabs) \cup Draws(m))
    <3>1. s.tabs \in Seq(Tab) /\ Distinct(s.tabs, s.active) /\ Draws(m) \cap Ids(s.tabs) = {}
      BY <1>2, <2>3, <2>4 DEF Sound
    <3>. QED BY <1>2, <1>6, <3>1, AppliedGood DEF new
  <2>6. Good(c, Ids(s.tabs) \cup Draws(m)) BY <2>2, <2>5 DEF Good
  <2>. QED BY <1>1, <1>6, <2>0, <2>2, <2>3, <2>6, SendsTabs DEF m
<1>. QED BY <1>4, <1>5, <1>6 DEF StartMutation, Publish, m, new

LEMMA DestroyTabs ==
  ASSUME Inv, TabsInv, NEW w \in Windows, Destroy(w)
  PROVE  TabsInv'
<1>1. /\ open' = open \ {w} /\ view' = [view EXCEPT ![w] = NoState]
      /\ known' = [known EXCEPT ![w] = NoState] /\ queue' = [queue EXCEPT ![w] = <<>>]
      /\ events' = [events EXCEPT ![w] = {}]
      /\ UNCHANGED <<tabIds, runtime, opener, command>>
  BY DEF Destroy, Leaves, rowVars
<1>2. /\ DOMAIN view' = Windows /\ view'[w] = NoState /\ known'[w] = NoState /\ queue'[w] = <<>>
      /\ \A v \in Windows \ {w} : view'[v] = view[v] /\ known'[v] = known[v] /\ queue'[v] = queue[v]
      /\ queue' \in [Windows -> Seq(Mutation)]
  <2>1. <<>> \in Seq(Mutation) BY EmptySeq
  <2>. QED BY <1>1, <2>1 DEF TabsInv, TabsType, Inv, PagesType
<1>3. \A v \in Windows : Told(v)' \subseteq Told(v)
  <2>1. \A v \in Windows : events'[v] \subseteq events[v] BY <1>1 DEF Inv, PagesType
  <2>. QED BY <1>1, <2>1, ToldByEvents
<1>4. Fits(w, command[w].base) /\ Fits(w, command[w].state)
  <2>1. command[w].base \in Seen(w) /\ command[w].state \in Seen(w) BY DEF Seen
  <2>. QED BY <1>1, <2>1, SeenFits
<1>5. AllSound' /\ \A v \in Windows : Used(v)' \subseteq Used(v) \cup {tabIds + 1}
  BY <1>1, <1>2, <1>3, <1>4, PlainFits, PageSound
<1>6. \A v \in Windows : UnderWay(v)' <=> UnderWay(v) BY <1>1 DEF UnderWay
<1>7. FreshIds' BY <1>1, <1>2, <1>5, <1>6, KeepsFresh
<1>8. TabsType' BY <1>1, <1>2, <1>6 DEF TabsInv, TabsType, Inv, Places
<1>. QED BY <1>5, <1>7, <1>8 DEF TabsInv

LEMMA InitTabs == Init => TabsInv
<1>. SUFFICES ASSUME Init PROVE TabsInv OBVIOUS
<1>. USE WindowAssumption DEF Init
<1>1. \A w \in Windows : command[w].base = NoState /\ command[w].state = NoState /\ ~UnderWay(w)
  BY LoadFields, LoadBase DEF UnderWay
<1>2. <<>> \in Seq(Mutation) BY EmptySeq
<1>3. TabsType BY <1>1, <1>2 DEF TabsType, UnderWay, Idle
<1>4. \A w \in Windows : Seen(w) = {NoTabs, NoState} BY <1>1 DEF Seen, Told, UnderWay, Idle
<1>5. AllSound BY <1>4, SoundPlain DEF AllSound
<1>6. FreshIds BY DOMAIN <<>> = {} DEF FreshIds
<1>. QED BY <1>3, <1>5, <1>6 DEF TabsInv

LEMMA RestartTabs ==
  ASSUME Inv, TabsInv, Restart
  PROVE  TabsInv'
<1>1. open' \subseteq Windows /\ tabIds' \in Nat BY WindowAssumption DEF Restart, TabsInv, TabsType
<1>2. \A o \in Openers : opener'[o].thread \in Threads \cup {None} /\ opener'[o].pc # "opened"
  BY DEF Restart, Idle
<1>3. \A w \in Windows : command'[w].base = NoState /\ command'[w].state = NoState /\ ~UnderWay(w)'
  BY LoadFields, LoadBase DEF Restart, UnderWay
<1>4. <<>> \in Seq(Mutation) BY EmptySeq
<1>5. TabsType' BY <1>1, <1>2, <1>3, <1>4 DEF Restart, TabsType, UnderWay
<1>6. \A w \in Windows : Seen(w)' = {NoTabs, NoState}
  BY <1>2, <1>3 DEF Restart, Seen, Told, UnderWay
<1>7. AllSound' BY <1>1, <1>6, SoundPlain DEF AllSound
<1>8. FreshIds' BY DOMAIN <<>> = {} DEF FreshIds, Restart
<1>. QED BY <1>5, <1>7, <1>8 DEF TabsInv

LEMMA NextTabs == Inv /\ TabsInv /\ [Next]_vars => TabsInv'
<1>. SUFFICES ASSUME Inv, TabsInv, [Next]_vars PROVE TabsInv' OBVIOUS
<1>1. ASSUME NEW w \in Windows, Repository(w) PROVE TabsInv'
  BY <1>1, LoadTabs, BindTabs, UpdateTabs, CompleteTabs DEF Repository
<1>2. ASSUME NEW w \in Windows, Page(w) PROVE TabsInv'
  BY <1>2, StartTabs, AnsweredTabs DEF Page
<1>3. ASSUME NEW w \in Windows, User(w) PROVE TabsInv'
  BY <1>3, UserTabs, ReloadTabs, DestroyTabs DEF User
<1>4. ASSUME NEW w \in Windows, Deactivate(w) \/ Listen(w) \/ Hear(w) PROVE TabsInv'
  BY <1>4, RowTabs, QuietTabs
<1>5. ASSUME NEW o \in Openers,
             LookUp(o) \/ OpenTab(o) \/ Announce(o) \/ Reserve(o) \/ Build(o) \/ Discard(o)
      PROVE  TabsInv'
  BY <1>5, LookUpTabs, OpenTabTabs, AnnounceTabs, ReserveTabs, BuildTabs, DiscardTabs
<1>6. CASE UNCHANGED vars
  <2>. USE <1>6 DEF vars, rowVars, appVars, pageVars
  <2>1. TabsType' BY DEF TabsInv, TabsType, UnderWay
  <2>2. \A w \in Windows : Seen(w)' = Seen(w) BY DEF Seen, Told, Proposed
  <2>3. \A w \in Windows : Used(w)' = Used(w) /\ (UnderWay(w)' <=> UnderWay(w)) BY <2>2 DEF Used, UnderWay
  <2>4. AllSound' BY <2>2 DEF TabsInv, AllSound
  <2>. HIDE DEF Draws
  <2>5. FreshIds' BY <2>3 DEF TabsInv, FreshIds
  <2>. QED BY <2>1, <2>4, <2>5 DEF TabsInv
<1>. QED BY <1>1, <1>2, <1>3, <1>4, <1>5, <1>6, RowTabs, RestartTabs DEF Next

\* Whatever copies of the tabs are about, they name tabs that a window may have, and the
\* identifiers drawn for a waiting mutation are in none of them.
THEOREM TabsInvariance == Spec => []TabsInv
BY Invariance, InitTabs, NextTabs, PTL DEF Spec

\* The tabs a page sends never name a tab or a thread twice, nor an active tab that is
\* not there, whatever was queued before them: validate_tabs does not refuse them.
THEOREM UpdatesKeepApart == Spec => []UpdatesAreDistinct
<1>1. TabsInv => UpdatesAreDistinct
  <2>. SUFFICES ASSUME TabsInv, NEW w \in Windows, command[w].kind = "update"
                PROVE  Distinct(command[w].tabs, command[w].active)
    BY DEF UpdatesAreDistinct
  <2>1. Proposed(w) \in Seen(w) /\ Proposed(w).server # None BY DEF Seen, Proposed, TabsInv, TabsType
  <2>2. Sound(tabIds, Proposed(w)) BY <2>1 DEF TabsInv, AllSound
  <2>. QED BY <2>1, <2>2 DEF Sound, Proposed
<1>. QED BY <1>1, TabsInvariance, PTL

-----------------------------------------------------------------------------
(* Copies of one version are alike                                         *)

\* x is a copy of the state of w: of an earlier version of it, or with its tabs.
Copies(x, w) ==
  /\ x.version \in 0..row[w].version
  /\ x.version = row[w].version => x.tabs = runtime[w].tabs /\ runtime[w].server = row[w].server

\* The states a window that is there may act on: those it may hear of, what its page
\* knows, the answer of its command and what a command that was sent is based on
Copied(w) ==
  (IF w \in open \/ Reserved(w) THEN Told(w) ELSE {})
  \cup (IF w \in open /\ known[w] # NoState THEN {known[w]} ELSE {})
  \cup (IF w \in open /\ Done(w) THEN {command[w].state} ELSE {})
  \cup (IF w \in open /\ UnderWay(w) /\ command[w].phase = "sent" THEN {command[w].base} ELSE {})

Alike == \A w \in Windows : \A x \in Copied(w) : Copies(x, w)

\* x is a copy of the state that w has after the step.
WillCopy(x, w) ==
  /\ x.version \in 0..row'[w].version
  /\ x.version = row'[w].version => x.tabs = runtime'[w].tabs /\ runtime'[w].server = row'[w].server

\* The step gives w a new version or leaves its tabs, unless they were not the row's.
Versioned(w) ==
  /\ row'[w].version \in Nat
  /\ \/ row'[w].version > row[w].version
     \/ /\ row'[w].version = row[w].version
        /\ runtime[w].server = row[w].server =>
             runtime'[w].tabs = runtime[w].tabs /\ runtime'[w].server = row'[w].server

LEMMA CopiesStay ==
  ASSUME Inv, NEW w \in Windows, Versioned(w), NEW x, Copies(x, w)
  PROVE  WillCopy(x, w)
<1>1. row[w].version \in Nat BY DEF Inv, RowsType
<1>. QED BY <1>1 DEF Versioned, Copies, WillCopy

LEMMA KeepsAlike ==
  ASSUME Inv, Alike,
         \A w \in Windows : \A x \in Copied(w)' : (x \in Copied(w) /\ Versioned(w)) \/ WillCopy(x, w)
  PROVE  Alike'
<1>1. \A w \in Windows : \A x \in Copied(w)' : WillCopy(x, w) BY CopiesStay DEF Alike
<1>. QED BY <1>1 DEF Alike, Copies, WillCopy

LEMMA SameVersion ==
  ASSUME Inv, NEW w \in Windows, row'[w] = row[w], runtime'[w] = runtime[w]
  PROVE  Versioned(w)
BY DEF Inv, RowsType, Versioned

\* The state that a step gives w
LEMMA NewCopy ==
  ASSUME NEW w, NEW r, NEW t, row'[w] = r, runtime'[w] = t, r.version \in Nat, t.server = r.server
  PROVE  WillCopy(StateOf(r, t), w)
BY DEF WillCopy, StateOf

\* What the repository does for w
LEMMA RepositoryAlike ==
  ASSUME Inv, Alike, NEW w \in Windows, NEW phase, NEW answer, Becomes(w, phase, answer),
         phase \in {"executed", "answered"}, command[w].kind # "none",
         \A v \in Windows \ {w} : row'[v] = row[v] /\ runtime'[v] = runtime[v],
         w \in open => Versioned(w),
         w \in open /\ answer = "state" =>
           WillCopy(command'[w].state, w) \/ (Done(w) /\ command'[w].state = command[w].state),
         UNCHANGED <<appVars, pageVars, events>>
  PROVE  Alike'
<1>. USE DEF appVars, pageVars
<1>1. \A v \in Windows : Told(v)' = Told(v) /\ (Reserved(v)' <=> Reserved(v)) BY DEF Told, Reserved, Builds
<1>2. ~Reserved(w) BY CommandOfDrawn
<1>3. \A v \in Windows \ {w} : Copied(v)' = Copied(v) /\ Versioned(v)
  BY <1>1, SameVersion DEF Copied, Done, UnderWay, Becomes
<1>4. ASSUME NEW x \in Copied(w)' PROVE (x \in Copied(w) /\ Versioned(w)) \/ WillCopy(x, w)
  <2>1. w \in open BY <1>1, <1>2 DEF Copied
  <2>2. \/ x \in Told(w) \/ (known[w] # NoState /\ x = known[w])
        \/ answer = "state" /\ x = command'[w].state
    BY <1>1 DEF Copied, Done, Becomes
  <2>. QED BY <2>1, <2>2 DEF Copied
<1>. QED BY <1>3, <1>4, KeepsAlike

LEMMA LoadAlike ==
  ASSUME Inv, Alike, NEW w \in Windows, ExecuteLoad(w)
  PROVE  Alike'
<1>. DEFINE r == IF row[w].version = 0 THEN [row[w] EXCEPT !.version = 1] ELSE row[w]
            t == IF runtime[w].server = r.server THEN runtime[w]
                 ELSE FreshTabs(r.server, tabIds + 1, None)
<1>1. CommandsType /\ command[w].kind # "none" /\ UNCHANGED <<appVars, pageVars, events>>
  BY DEF Inv, ExecuteLoad, Sent
<1>2. CASE Taken(w, r.server) /\ UNCHANGED <<row, runtime>>
  BY <1>1, <1>2, TakenBecomes, SameVersion, RepositoryAlike
<1>3. CASE row' = [row EXCEPT ![w] = r] /\ Holds(w, r.server, t) /\ Executed(w, StateOf(r, t))
  <2>1. /\ r.version \in Nat /\ r.server = row[w].server /\ row[w].version \in Nat
        /\ r = row[w] \/ r.version > row[w].version
    BY DEF Inv, RowsType
  <2>2. t.server = r.server /\ (runtime[w].server = row[w].server => t = runtime[w])
    BY <2>1 DEF FreshTabs, OneTab, NoTabs
  <2>3. StateOf(r, t).version = r.version BY DEF StateOf
  <2>. HIDE DEF r, t
  <2>4. Becomes(w, "executed", "state") /\ command'[w].state = StateOf(r, t)
    BY <1>1, <1>3, <2>1, <2>3, ExecutedBecomes
  <2>5. /\ row'[w] = r /\ runtime'[w] = t
        /\ \A v \in Windows \ {w} : row'[v] = row[v] /\ runtime'[v] = runtime[v]
    BY <1>3 DEF Inv, RowsType, Holds
  <2>6. Versioned(w) BY <2>1, <2>2, <2>5 DEF Versioned
  <2>7. WillCopy(command'[w].state, w) BY <2>1, <2>2, <2>4, <2>5, NewCopy
  <2>. QED BY <1>1, <2>4, <2>5, <2>6, <2>7, RepositoryAlike
<1>. QED BY <1>2, <1>3 DEF ExecuteLoad

LEMMA BindAlike ==
  ASSUME Inv, Alike, NEW w \in Windows, ExecuteBind(w)
  PROVE  Alike'
<1>. DEFINE s == command[w].server
            r == [version |-> row[w].version + 1, server |-> s]
            t == OneTab(s, tabIds + 1, None)
<1>1. CommandsType /\ command[w].kind # "none" /\ UNCHANGED <<appVars, pageVars, events>>
  BY DEF Inv, ExecuteBind, Sent
<1>2. CASE Taken(w, s) /\ UNCHANGED <<row, runtime>>
  BY <1>1, <1>2, TakenBecomes, SameVersion, RepositoryAlike
<1>3. CASE Answers(w, "failed", NoState) /\ UNCHANGED <<row, runtime>>
  BY <1>1, <1>3, AnswersBecomes, SameVersion, RepositoryAlike DEF NoState
<1>4. CASE row' = [row EXCEPT ![w] = r] /\ Holds(w, s, t) /\ Executed(w, StateOf(r, t))
  <2>1. r.version \in Nat /\ r.server = s /\ r.version > row[w].version BY DEF Inv, RowsType
  <2>2. t.server = s BY DEF OneTab
  <2>3. StateOf(r, t).version = r.version BY DEF StateOf
  <2>. HIDE DEF r, t
  <2>4. Becomes(w, "executed", "state") /\ command'[w].state = StateOf(r, t)
    BY <1>1, <1>4, <2>1, <2>3, ExecutedBecomes
  <2>5. /\ row'[w] = r /\ runtime'[w] = t
        /\ \A v \in Windows \ {w} : row'[v] = row[v] /\ runtime'[v] = runtime[v]
    BY <1>4 DEF Inv, RowsType, Holds
  <2>6. Versioned(w) BY <2>1, <2>5 DEF Versioned
  <2>7. WillCopy(command'[w].state, w) BY <2>1, <2>2, <2>4, <2>5, NewCopy
  <2>. QED BY <1>1, <2>4, <2>5, <2>6, <2>7, RepositoryAlike
<1>. QED BY <1>2, <1>3, <1>4 DEF ExecuteBind

LEMMA UpdateAlike ==
  ASSUME Inv, Alike, NEW w \in Windows, ExecuteUpdate(w)
  PROVE  Alike'
<1>. DEFINE r == [row[w] EXCEPT !.version = @ + 1]
            t == [server |-> row[w].server, tabs |-> command[w].tabs, active |-> command[w].active]
<1>1. CommandsType /\ command[w].kind # "none" /\ UNCHANGED <<appVars, pageVars, events>>
  BY DEF Inv, ExecuteUpdate, Sent
<1>2. CASE Answers(w, "failed", NoState) /\ UNCHANGED <<row, runtime>>
  BY <1>1, <1>2, AnswersBecomes, SameVersion, RepositoryAlike DEF NoState
<1>3. CASE /\ row' = [row EXCEPT ![w] = r] /\ runtime' = [runtime EXCEPT ![w] = t]
           /\ Answers(w, "state", StateOf(r, t))
  <2>1. r.version \in Nat /\ r.server = row[w].server /\ r.version > row[w].version
    BY DEF Inv, RowsType
  <2>2. t.server = r.server BY <2>1
  <2>3. StateOf(r, t).version = r.version BY DEF StateOf
  <2>. HIDE DEF r, t
  <2>4. Becomes(w, "answered", "state") /\ command'[w].state = StateOf(r, t)
    BY <1>1, <1>3, <2>1, <2>3, AnswersBecomes
  <2>5. /\ row'[w] = r /\ runtime'[w] = t
        /\ \A v \in Windows \ {w} : row'[v] = row[v] /\ runtime'[v] = runtime[v]
    BY <1>3 DEF Inv, RowsType
  <2>6. Versioned(w) BY <2>1, <2>5 DEF Versioned
  <2>7. WillCopy(command'[w].state, w) BY <2>1, <2>2, <2>4, <2>5, NewCopy
  <2>. QED BY <1>1, <2>4, <2>5, <2>6, <2>7, RepositoryAlike
<1>. QED BY <1>2, <1>3 DEF ExecuteUpdate

LEMMA CompleteAlike ==
  ASSUME Inv, Alike, NEW w \in Windows, CompleteCommand(w)
  PROVE  Alike'
<1>1. CommandsType /\ command[w].kind # "none" /\ UNCHANGED <<row, appVars, pageVars, events>>
  BY DEF Inv, CompleteCommand, CommandsType, NoCommand
<1>2. ASSUME NEW answer, answer # "state", Answers(w, answer, NoState), UNCHANGED runtime PROVE Alike'
  BY <1>1, <1>2, AnswersBecomes, SameVersion, RepositoryAlike DEF NoState
<1>3. CASE Answers(w, "state", command[w].state) /\ UNCHANGED runtime /\ command[w].answer # "taken"
  <2>1. Done(w) BY <1>1, <1>3 DEF CompleteCommand, CommandsType, Done
  <2>. QED BY <1>1, <1>3, <2>1, AnswersBecomes, SameVersion, RepositoryAlike DEF CommandsType
<1>4. CASE Answers(w, "failed", NoState) /\ Holds(w, None, NoTabs) /\ w \notin open
  <2>1. Becomes(w, "answered", "failed") BY <1>1, <1>4, AnswersBecomes DEF NoState
  <2>2. \A v \in Windows \ {w} : runtime'[v] = runtime[v] BY <1>4 DEF Inv, RowsType, Holds
  <2>. QED BY <1>1, <1>4, <2>1, <2>2, RepositoryAlike
<1>. QED BY <1>2, <1>3, <1>4 DEF CompleteCommand, IsOpen

\* A step outside the pages and their commands, which may bring states of its own
LEMMA OutsideAlike ==
  ASSUME Inv, Alike, UNCHANGED <<open, command, known>>,
         \A w \in Windows : w \in open \/ Reserved(w)' =>
           /\ Versioned(w)
           /\ \A x \in Told(w)' : (x \in Told(w) /\ (w \in open \/ Reserved(w))) \/ WillCopy(x, w)
  PROVE  Alike'
<1>1. ASSUME NEW w \in Windows, NEW x \in Copied(w)'
      PROVE  (x \in Copied(w) /\ Versioned(w)) \/ WillCopy(x, w)
  <2>1. w \in open \/ Reserved(w)' BY DEF Copied
  <2>2. CASE x \in Told(w)'
    <3>1. (x \in Told(w) /\ (w \in open \/ Reserved(w))) \/ WillCopy(x, w) BY <2>1, <2>2
    <3>. QED BY <2>1, <3>1 DEF Copied
  <2>3. CASE x \notin Told(w)' BY <2>1, <2>3 DEF Copied, Done, UnderWay
  <2>. QED BY <2>2, <2>3
<1>. QED BY <1>1, KeepsAlike

\* A call that moves on, builds no window and tells nothing new
LEMMA MovesAlike ==
  ASSUME Inv, Alike, NEW o \in Openers, NEW pc, NEW w, Moves(o, pc, w), pc \notin {"opened", "reserved"},
         UNCHANGED <<open, command, known, events>>,
         \A v \in Windows : v \in open \/ Reserved(v)' => Versioned(v)
  PROVE  Alike'
<1>1. \A v \in Windows : Told(v)' \subseteq Told(v) BY MovesTold
<1>2. \A v \in Windows : Reserved(v)' => Reserved(v) BY DEF Moves, Reserved, Builds
<1>. QED BY <1>1, <1>2, OutsideAlike

LEMMA RowAlike ==
  ASSUME Inv, Alike, \/ \E w \in Windows : Deactivate(w)
                     \/ \E s \in Servers : DeleteServer(s)
  PROVE  Alike'
<1>1. UNCHANGED <<open, command, known, opener, events>>
  BY DEF Deactivate, DeleteServer, appVars, pageVars
<1>2. \A v \in Windows : Told(v)' = Told(v) /\ (Reserved(v)' <=> Reserved(v))
  BY <1>1 DEF Told, Reserved, Builds
<1>3. ASSUME NEW w \in Windows, Deactivate(w), NEW v \in Windows, v \in open \/ Reserved(v)
      PROVE  Versioned(v)
  <2>1. v # w BY <1>3 DEF Deactivate, Inv, Places, Reserved
  <2>2. row'[v] = row[v] /\ runtime'[v] = runtime[v] BY <1>3, <2>1 DEF Deactivate, Holds, Inv, RowsType
  <2>. QED BY <2>2, SameVersion
<1>4. ASSUME NEW s \in Servers, DeleteServer(s), NEW v \in Windows PROVE Versioned(v)
  <2>1. row[v].version \in Nat BY DEF Inv, RowsType
  <2>2. /\ runtime' = runtime
        /\ row'[v] = row[v] \/ row'[v] = [version |-> row[v].version + 1, server |-> None]
    BY <1>4 DEF DeleteServer
  <2>. QED BY <2>1, <2>2 DEF Versioned
<1>. QED BY <1>1, <1>2, <1>3, <1>4, OutsideAlike

LEMMA LookUpAlike ==
  ASSUME Inv, Alike, NEW o \in Openers, LookUp(o)
  PROVE  Alike'
<1>1. PICK s \in Servers, t \in Threads \cup {None} :
        \/ \E v \in HoldersBut(None, s) :
             opener' = [opener EXCEPT ![o] = [Idle EXCEPT !.pc = "found", !.server = s, !.thread = t, !.window = v]]
        \/ opener' = [opener EXCEPT ![o] = [Idle EXCEPT !.pc = "absent", !.server = s, !.thread = t]]
  BY DEF LookUp
<1>2. UNCHANGED <<row, runtime, open, command, known, events>>
  BY DEF LookUp, rowVars, pageVars
<1>3. opener'[o].pc \in {"found", "absent"} /\ \A p \in Openers \ {o} : opener'[p] = opener[p]
  BY <1>1 DEF Inv, OpenersType, Idle
<1>4. \A v \in Windows : Told(v)' \subseteq Told(v) /\ (Reserved(v)' => Reserved(v))
  BY <1>2, <1>3 DEF Told, Reserved, Builds
<1>. QED BY <1>2, <1>4, SameVersion, OutsideAlike

LEMMA OpenTabAlike ==
  ASSUME Inv, Alike, NEW o \in Openers, OpenTab(o)
  PROVE  Alike'
<1>0. PICK w \in Windows : w = opener[o].window BY DEF OpenTab, Inv, OpenersType, Places
<1>. DEFINE old == StateOf(row[w], runtime[w])
            new == Opened(old, tabIds + 1, opener[o].thread)
            t == [server |-> old.server, tabs |-> new.tabs, active |-> new.active]
            r == IF new = With(old.tabs, old.active) THEN row[w] ELSE [row[w] EXCEPT !.version = @ + 1]
<1>1. UNCHANGED <<open, command, known, events>> /\ opener[o].pc = "found"
  BY DEF OpenTab, pageVars
<1>2. CASE Returns(o) /\ UNCHANGED <<row, runtime>>
  <2>1. Moves(o, "done", None) BY <1>2, ReturnsMoves DEF Inv
  <2>. QED BY <1>1, <1>2, <2>1, SameVersion, MovesAlike
<1>3. CASE /\ row' = [row EXCEPT ![w] = r] /\ runtime' = [runtime EXCEPT ![w] = t]
           /\ opener' = [opener EXCEPT ![o].pc = "opened", ![o].state = StateOf(r, t)]
           /\ runtime[w].server = row[w].server
  <2>1. /\ r.version \in Nat /\ r.server = row[w].server
        /\ r.version > row[w].version \/ (r.version = row[w].version /\ t.tabs = runtime[w].tabs)
    BY DEF Inv, RowsType, With, StateOf
  <2>2. t.server = r.server BY <2>1 DEF StateOf
  <2>. HIDE DEF r, t, new
  <2>3. /\ row'[w] = r /\ runtime'[w] = t
        /\ \A v \in Windows \ {w} : row'[v] = row[v] /\ runtime'[v] = runtime[v]
    BY <1>3 DEF Inv, RowsType
  <2>4. \A v \in Windows : Versioned(v)
    <3>1. Versioned(w) BY <2>1, <2>2, <2>3 DEF Versioned
    <3>. QED BY <2>3, <3>1, SameVersion
  <2>5. WillCopy(StateOf(r, t), w) BY <2>1, <2>2, <2>3, NewCopy
  <2>6. /\ opener'[o].pc = "opened" /\ opener'[o].state = StateOf(r, t) /\ opener'[o].window = w
        /\ \A p \in Openers \ {o} : opener'[p] = opener[p]
    <3>1. opener'[o] = [opener[o] EXCEPT !.pc = "opened", !.state = StateOf(r, t)]
      BY <1>3 DEF Inv, OpenersType
    <3>2. opener'[o] = [pc |-> "opened", server |-> opener[o].server, thread |-> opener[o].thread,
                        window |-> w, state |-> StateOf(r, t)]
      BY <1>0, <3>1 DEF Inv, OpenersType, IsOpener
    <3>. QED BY <1>3, <3>2 DEF Inv, OpenersType
  <2>7. \A v \in Windows : Reserved(v)' => Reserved(v) BY <2>6 DEF Reserved, Builds
  <2>8. ASSUME NEW v \in Windows, NEW x \in Told(v)' PROVE x \in Told(v) \/ WillCopy(x, v)
    <3>1. CASE x \in events[v] BY <3>1 DEF Told
    <3>2. ASSUME NEW p \in Openers, opener'[p].pc = "opened", opener'[p].window = v, x = opener'[p].state
          PROVE  x \in Told(v) \/ WillCopy(x, v)
      <4>1. CASE p = o BY <2>5, <2>6, <3>2, <4>1
      <4>2. CASE p # o BY <2>6, <3>2, <4>2 DEF Told
      <4>. QED BY <4>1, <4>2
    <3>. QED BY <1>1, <3>1, <3>2 DEF Told
  <2>. QED BY <1>1, <2>4, <2>7, <2>8, OutsideAlike
<1>. QED BY <1>0, <1>2, <1>3 DEF OpenTab, Current

LEMMA AnnounceAlike ==
  ASSUME Inv, Alike, NEW o \in Openers, Announce(o)
  PROVE  Alike'
<1>0. PICK w \in Windows : w = opener[o].window BY DEF Announce, Inv, OpenersType, Places
<1>1. opener[o].pc = "opened" /\ Returns(o) /\ UNCHANGED <<row, runtime, open, command, known>>
  BY DEF Announce, rowVars, pageVars
<1>2. \A v \in Windows : events'[v] = events[v] \/ (v = w /\ events'[v] = events[v] \cup {opener[o].state})
  BY <1>0 DEF Announce, Inv, PagesType
<1>3. Moves(o, "done", None) BY <1>1, ReturnsMoves DEF Inv
<1>4. opener[o].state \in Told(w) BY <1>0, <1>1 DEF Told
<1>5. \A v \in Windows : Told(v)' \subseteq Told(v) BY <1>2, <1>3, <1>4 DEF Told, Moves
<1>6. \A v \in Windows : Reserved(v)' => Reserved(v) BY <1>3 DEF Moves, Reserved, Builds
<1>. QED BY <1>1, <1>5, <1>6, SameVersion, OutsideAlike

\* A window that is reserved is new, and nobody has told it anything.
LEMMA ReserveAlike ==
  ASSUME Inv, Alike, NEW o \in Openers, Reserve(o)
  PROVE  Alike'
<1>1. UNCHANGED <<open, command, known, events>> /\ opener[o].pc = "absent"
  BY DEF Reserve, pageVars
<1>2. CASE Returns(o) /\ UNCHANGED <<row, runtime>>
  <2>1. Moves(o, "done", None) BY <1>2, ReturnsMoves DEF Inv
  <2>. QED BY <1>1, <1>2, <2>1, SameVersion, MovesAlike
<1>3. ASSUME NEW w \in Windows, w \notin drawn, NEW s, NEW t, Holds(w, s, t),
             row' = [row EXCEPT ![w] = [version |-> 1, server |-> s]],
             opener' = [opener EXCEPT ![o].pc = "reserved", ![o].window = w]
      PROVE  Alike'
  <2>1. /\ opener'[o].pc = "reserved" /\ opener'[o].window = w
        /\ \A p \in Openers \ {o} : opener'[p] = opener[p]
    <3>1. opener'[o] = [opener[o] EXCEPT !.pc = "reserved", !.window = w] BY <1>3 DEF Inv, OpenersType
    <3>2. opener'[o] = [pc |-> "reserved", server |-> opener[o].server, thread |-> opener[o].thread,
                        window |-> w, state |-> opener[o].state]
      BY <3>1 DEF Inv, OpenersType, IsOpener
    <3>. QED BY <1>3, <3>2 DEF Inv, OpenersType
  <2>2. Told(w)' = {}
    <3>1. events[w] = {} /\ \A p \in Openers : opener[p].pc = "opened" => opener[p].window # w
      BY <1>3 DEF Inv, Absent, Places, OpenersType
    <3>. QED BY <1>1, <2>1, <3>1 DEF Told
  <2>3. \A v \in Windows \ {w} : Told(v)' \subseteq Told(v) /\ (Reserved(v)' => Reserved(v))
    BY <1>1, <2>1 DEF Told, Reserved, Builds
  <2>4. \A v \in Windows \ {w} : Versioned(v)
    <3>1. \A v \in Windows \ {w} : row'[v] = row[v] /\ runtime'[v] = runtime[v]
      BY <1>3 DEF Inv, RowsType, Holds
    <3>. QED BY <3>1, SameVersion
  <2>5. w \notin open BY <1>3 DEF Inv, Places
  <2>6. Copied(w)' = {} BY <1>1, <2>2, <2>5 DEF Copied
  <2>7. ASSUME NEW v \in Windows \ {w}, NEW x \in Copied(v)' PROVE x \in Copied(v)
    BY <1>1, <2>3 DEF Copied, Done, UnderWay
  <2>. QED BY <2>4, <2>6, <2>7, KeepsAlike
<1>. QED BY <1>2, <1>3 DEF Reserve, Unused

LEMMA DiscardAlike ==
  ASSUME Inv, Alike, NEW o \in Openers, Discard(o)
  PROVE  Alike'
<1>0. PICK w \in Windows : w = opener[o].window BY DEF Discard, Inv, OpenersType, Places
<1>1. /\ Builds(o, w) /\ Returns(o) /\ UNCHANGED <<open, command, known, events>>
      /\ row' = [row EXCEPT ![w] = [version |-> 0, server |-> None]] /\ Holds(w, None, NoTabs)
  BY <1>0 DEF Discard, Builds, pageVars
<1>2. Moves(o, "done", None) BY <1>1, ReturnsMoves DEF Inv
<1>3. w \notin open /\ ~Reserved(w)' BY <1>1, <1>2 DEF Inv, Places, Moves, Reserved, Builds
<1>4. \A v \in Windows \ {w} : row'[v] = row[v] /\ runtime'[v] = runtime[v]
  BY <1>1 DEF Inv, RowsType, Holds
<1>5. \A v \in Windows \ {w} : Versioned(v) BY <1>4, SameVersion
<1>. QED BY <1>1, <1>2, <1>3, <1>5, MovesAlike

\* What the page of w takes over are copies of its state already.
LEMMA PageAlike ==
  ASSUME Inv, Alike, NEW w \in Windows, UNCHANGED <<row, runtime>>, w \in open \/ Reserved(w),
         open' \subseteq open \cup {w},
         \A v \in Windows \ {w} : known'[v] = known[v] /\ command'[v] = command[v],
         \A v \in Windows : Told(v)' \subseteq Told(v) /\ (Reserved(v)' => Reserved(v)),
         known'[w] # NoState => known'[w] \in Copied(w),
         Done(w)' => Done(w) /\ command'[w] = command[w],
         UnderWay(w)' /\ command'[w].phase = "sent" => command'[w].base \in Copied(w),
         Done(w)' => w \in open
  PROVE  Alike'
<1>1. \A v \in Windows : Versioned(v) BY SameVersion
<1>2. ASSUME NEW v \in Windows \ {w}, NEW x \in Copied(v)' PROVE x \in Copied(v)
  <2>1. v \in open' => v \in open OBVIOUS
  <2>. QED BY <2>1 DEF Copied, Done, UnderWay
<1>3. ASSUME NEW x \in Copied(w)' PROVE x \in Copied(w)
  <2>1. CASE x \in Told(w)' BY <2>1 DEF Copied
  <2>2. CASE x \notin Told(w)' BY <2>2 DEF Copied
  <2>. QED BY <2>1, <2>2
<1>. QED BY <1>1, <1>2, <1>3, KeepsAlike

LEMMA BuildAlike ==
  ASSUME Inv, Alike, NEW o \in Openers, Build(o)
  PROVE  Alike'
<1>1. PICK w \in Windows : w = opener[o].window BY DEF Build, Inv, OpenersType, Places
<1>2. /\ Builds(o, w) /\ Returns(o) /\ open' = open \cup {w} /\ command' = [command EXCEPT ![w] = Load]
      /\ UNCHANGED <<row, runtime, known, events>>
  BY <1>1 DEF Build, Builds, rowVars
<1>3. /\ command'[w] = Load /\ \A v \in Windows \ {w} : command'[v] = command[v]
      /\ ~Done(w)' /\ ~UnderWay(w)'
  BY <1>2, LoadFields DEF Inv, CommandsType, Done, UnderWay
<1>4. Moves(o, "done", None) BY <1>2, ReturnsMoves DEF Inv
<1>5. \A v \in Windows : Told(v)' \subseteq Told(v) BY <1>2, <1>4, MovesTold
<1>6. \A v \in Windows : Reserved(v)' => Reserved(v) BY <1>4 DEF Moves, Reserved, Builds
<1>7. Reserved(w) /\ known[w] = NoState BY <1>2 DEF Reserved, Inv, Places, Absent
<1>. QED BY <1>2, <1>3, <1>5, <1>6, <1>7, PageAlike

LEMMA UnchangedAlike ==
  ASSUME Inv, Alike, UNCHANGED <<row, runtime, open, opener, known, command, events>>
  PROVE  Alike'
<1>1. \A v \in Windows : Told(v)' = Told(v) /\ (Reserved(v)' <=> Reserved(v)) BY DEF Told, Reserved, Builds
<1>. QED BY <1>1, SameVersion, OutsideAlike

LEMMA PageStepAlike ==
  ASSUME Inv, Alike, NEW w \in Windows, UNCHANGED <<row, runtime, open, opener, events>>, w \in open,
         \A v \in Windows \ {w} : known'[v] = known[v] /\ command'[v] = command[v],
         known'[w] # NoState => known'[w] \in Copied(w), ~Done(w)',
         UnderWay(w)' /\ command'[w].phase = "sent" => command'[w].base \in Copied(w)
  PROVE  Alike'
<1>1. \A v \in Windows : Told(v)' = Told(v) /\ (Reserved(v)' <=> Reserved(v)) BY DEF Told, Reserved, Builds
<1>. QED BY <1>1, PageAlike

LEMMA StartAlike ==
  ASSUME Inv, Alike, NEW w \in Windows, StartMutation(w)
  PROVE  Alike'
<1>1. /\ w \in open /\ command[w].kind = "none"
      /\ UNCHANGED <<row, runtime, open, opener, known, events>>
  BY DEF StartMutation, Starts, Running, rowVars, appVars
<1>2. CASE UNCHANGED command BY <1>1, <1>2, UnchangedAlike
<1>3. ASSUME NEW c, known[w] # NoState, c.base = known[w], c.phase = "sent",
             command' = [command EXCEPT ![w] = c]
      PROVE  Alike'
  <2>1. command'[w] = c /\ ~Done(w)' /\ \A v \in Windows \ {w} : command'[v] = command[v]
    BY <1>3 DEF Inv, CommandsType, Done
  <2>2. known[w] \in Copied(w) BY <1>1, <1>3 DEF Copied
  <2>. QED BY <1>1, <1>3, <2>1, <2>2, PageStepAlike
<1>4. ASSUME NEW m, known[w] # NoState,
             command' = [command EXCEPT ![w] = [NoCommand EXCEPT !.kind = "bind", !.phase = "sent",
                                                                 !.base = known[w], !.server = m.server]]
      PROVE  Alike'
  <2>0. PICK c : c = [NoCommand EXCEPT !.kind = "bind", !.phase = "sent", !.base = known[w], !.server = m.server] OBVIOUS
  <2>1. c = [kind |-> "bind", phase |-> "sent", base |-> known[w], tabs |-> NoCommand.tabs,
             active |-> NoCommand.active, server |-> m.server, answer |-> NoCommand.answer,
             state |-> NoCommand.state, holder |-> NoCommand.holder]
    BY <2>0, LoadFields DEF IsCommand
  <2>. QED BY <1>3, <1>4, <2>0, <2>1
<1>5. ASSUME NEW new, known[w] # NoState,
             command' = [command EXCEPT ![w] = [NoCommand EXCEPT !.kind = "update", !.phase = "sent",
                                      !.base = known[w], !.tabs = new.tabs, !.active = new.active]]
      PROVE  Alike'
  <2>0. PICK c : c = [NoCommand EXCEPT !.kind = "update", !.phase = "sent",
                                     !.base = known[w], !.tabs = new.tabs, !.active = new.active] OBVIOUS
  <2>1. c = [kind |-> "update", phase |-> "sent", base |-> known[w], tabs |-> new.tabs,
             active |-> new.active, server |-> NoCommand.server, answer |-> NoCommand.answer,
             state |-> NoCommand.state, holder |-> NoCommand.holder]
    BY <2>0, LoadFields DEF IsCommand
  <2>. QED BY <1>3, <1>5, <2>0, <2>1
<1>. QED BY <1>2, <1>4, <1>5 DEF StartMutation

LEMMA AnsweredAlike ==
  ASSUME Inv, Alike, NEW w \in Windows, Succeed(w) \/ ServerAlreadyOpen(w) \/ Fail(w)
  PROVE  Alike'
<1>1. /\ w \in open /\ command[w].phase = "answered" /\ command' = [command EXCEPT ![w] = NoCommand]
      /\ UNCHANGED <<row, runtime, opener, open, events>>
  BY DEF Succeed, ServerAlreadyOpen, Fail, Answered, rowVars, appVars
<1>2. /\ command'[w] = NoCommand /\ \A v \in Windows \ {w} : command'[v] = command[v]
      /\ ~Done(w)' /\ ~UnderWay(w)'
  BY <1>1, LoadFields DEF Inv, CommandsType, Done, UnderWay
<1>3. /\ \A v \in Windows \ {w} : known'[v] = known[v]
      /\ known'[w] # NoState => known'[w] \in Copied(w)
  <2>1. CASE Succeed(w)
    <3>1. Done(w) /\ known' = [known EXCEPT ![w] = command[w].state] BY <2>1 DEF Succeed, Answered, Done
    <3>. QED BY <1>1, <3>1 DEF Copied, Inv, PagesType
  <2>2. CASE ServerAlreadyOpen(w) \/ Fail(w)
    <3>1. known' = known \/ known' = [known EXCEPT ![w] = NoState] BY <2>2 DEF ServerAlreadyOpen, Fail
    <3>. QED BY <1>1, <3>1 DEF Copied, Inv, PagesType
  <2>. QED BY <2>1, <2>2
<1>. QED BY <1>1, <1>2, <1>3, PageStepAlike

LEMMA ReloadAlike ==
  ASSUME Inv, Alike, NEW w \in Windows, Reload(w)
  PROVE  Alike'
<1>1. /\ w \in open /\ command' = [command EXCEPT ![w] = Load]
      /\ UNCHANGED <<row, runtime, opener, open, events, known>>
  BY DEF Reload, Awake, rowVars, appVars
<1>2. /\ \A v \in Windows \ {w} : command'[v] = command[v]
      /\ ~Done(w)' /\ ~UnderWay(w)'
  BY <1>1, LoadFields DEF Inv, CommandsType, Done, UnderWay
<1>. QED BY <1>1, <1>2, PageStepAlike DEF Copied

LEMMA HearAlike ==
  ASSUME Inv, Alike, NEW w \in Windows, Hear(w)
  PROVE  Alike'
<1>1. w \in open /\ UNCHANGED <<row, runtime, opener, open, command>>
  BY DEF Hear, Awake, rowVars, appVars
<1>2. PICK e \in events[w] :
        /\ events' = [events EXCEPT ![w] = @ \ {e}]
        /\ known' = known \/ known' = [known EXCEPT ![w] = e]
  BY DEF Hear
<1>3. /\ \A v \in Windows : events'[v] \subseteq events[v]
      /\ \A v \in Windows \ {w} : known'[v] = known[v]
      /\ known'[w] # NoState => known'[w] \in Copied(w)
  BY <1>1, <1>2 DEF Inv, PagesType, Copied, Told
<1>4. \A v \in Windows : Told(v)' \subseteq Told(v) BY <1>1, <1>3, ToldByEvents
<1>5. \A v \in Windows : (Reserved(v)' <=> Reserved(v)) /\ (Done(v)' <=> Done(v)) /\ (UnderWay(v)' <=> UnderWay(v))
  BY <1>1 DEF Reserved, Builds, Done, UnderWay
<1>6. UnderWay(w) /\ command[w].phase = "sent" => command[w].base \in Copied(w) BY <1>1 DEF Copied
<1>. QED BY <1>1, <1>3, <1>4, <1>5, <1>6, PageAlike

LEMMA DestroyAlike ==
  ASSUME Inv, Alike, NEW w \in Windows, Destroy(w)
  PROVE  Alike'
<1>1. /\ open' = open \ {w} /\ known' = [known EXCEPT ![w] = NoState]
      /\ events' = [events EXCEPT ![w] = {}] /\ w \in open
      /\ UNCHANGED <<row, runtime, opener, command>>
  BY DEF Destroy, Leaves, rowVars
<1>2. \A v \in Windows \ {w} : known'[v] = known[v] /\ events'[v] = events[v]
  BY <1>1 DEF Inv, PagesType
<1>3. ~Reserved(w)' BY <1>1 DEF Inv, Places, Reserved, Builds
<1>4. Copied(w)' = {} BY <1>1, <1>3 DEF Copied
<1>5. \A v \in Windows \ {w} : Told(v)' = Told(v) /\ (Reserved(v)' <=> Reserved(v))
  BY <1>1, <1>2 DEF Told, Reserved, Builds
<1>6. \A v \in Windows \ {w} : Copied(v)' = Copied(v) BY <1>1, <1>2, <1>5 DEF Copied, Done, UnderWay
<1>. QED BY <1>1, <1>4, <1>6, SameVersion, KeepsAlike

LEMMA InitAlike == Init => Alike
<1>. SUFFICES ASSUME Init PROVE Alike OBVIOUS
<1>1. \A w \in Windows : ~Done(w) /\ ~UnderWay(w) BY LoadFields DEF Init, Done, UnderWay
<1>. QED BY <1>1 DEF Init, Alike, Copied, Told, Idle

LEMMA RestartAlike ==
  ASSUME Inv, Alike, Restart
  PROVE  Alike'
<1>1. \A w \in Windows : ~Done(w)' /\ ~UnderWay(w)' BY LoadFields DEF Restart, Done, UnderWay
<1>2. \A w \in Windows : Told(w)' = {} BY DEF Restart, Told, Idle
<1>. QED BY <1>1, <1>2 DEF Restart, Alike, Copied

LEMMA NextAlike == Inv /\ Alike /\ [Next]_vars => Alike'
<1>. SUFFICES ASSUME Inv, Alike, [Next]_vars PROVE Alike' OBVIOUS
<1>1. ASSUME NEW w \in Windows, Repository(w) PROVE Alike'
  BY <1>1, LoadAlike, BindAlike, UpdateAlike, CompleteAlike DEF Repository
<1>2. ASSUME NEW w \in Windows, Page(w) PROVE Alike'
  BY <1>2, StartAlike, AnsweredAlike DEF Page
<1>3. ASSUME NEW w \in Windows, User(w) PROVE Alike'
  <2>1. CASE Reload(w) \/ Destroy(w) BY <2>1, ReloadAlike, DestroyAlike
  <2>2. ASSUME NEW m, Enqueue(w, m) PROVE Alike'
    BY <2>2, UnchangedAlike DEF Enqueue, rowVars, appVars
  <2>. QED
    BY <1>3, <2>1, <2>2 DEF User, Bind, OpenTabOf, Replace, CloseTab, CloseGroup, Activate, Attach
<1>4. ASSUME NEW w \in Windows, Deactivate(w) \/ Listen(w) \/ Hear(w) PROVE Alike'
  BY <1>4, RowAlike, HearAlike, UnchangedAlike DEF Listen, rowVars, appVars
<1>5. ASSUME NEW o \in Openers,
             LookUp(o) \/ OpenTab(o) \/ Announce(o) \/ Reserve(o) \/ Build(o) \/ Discard(o)
      PROVE  Alike'
  BY <1>5, LookUpAlike, OpenTabAlike, AnnounceAlike, ReserveAlike, BuildAlike, DiscardAlike
<1>6. CASE UNCHANGED vars BY <1>6, UnchangedAlike DEF vars, rowVars, appVars, pageVars
<1>. QED BY <1>1, <1>2, <1>3, <1>4, <1>5, <1>6, RowAlike, RestartAlike DEF Next

\* open_app_window adds a tab to the tabs there are, or shows one of them.
LEMMA OpenedHas ==
  ASSUME NEW s, s.tabs \in Seq(Tab), NEW id, NEW t
  PROVE  Ids(s.tabs) \subseteq Ids(Opened(s, id, t).tabs)
<1>1. CASE Showing(s.tabs, t) # {} BY <1>1 DEF Opened, Shown, With
<1>2. CASE Showing(s.tabs, t) = {}
  <2>. DEFINE new == Append(s.tabs, [id |-> id, thread |-> t])
  <2>1. \A i \in DOMAIN s.tabs : i \in DOMAIN new /\ new[i] = s.tabs[i] OBVIOUS
  <2>2. Opened(s, id, t).tabs = new BY <1>2 DEF Opened, With
  <2>. HIDE DEF new
  <2>. QED BY <2>1, <2>2 DEF Ids
<1>. QED BY <1>1, <1>2

\* The command of an open window is based on the tabs the window has, when the
\* repository finds its version to be the one the page expects.
LEMMA BasedOnTabs ==
  ASSUME Inv, Alike, NEW w \in Windows, w \in open, command[w].kind \in {"bind", "update"},
         command[w].phase = "sent", Current(w, command[w].base.version)
  PROVE  command[w].base.tabs = runtime[w].tabs
<1>1. command[w].base \in Copied(w) BY DEF Copied, UnderWay
<1>. QED BY <1>1 DEF Alike, Copies, Current

\* w keeps its tabs but those that its command is based on.
Keeps(w) == Ids(runtime[w].tabs) \subseteq Ids(runtime'[w].tabs) \cup Ids(command[w].base.tabs)

\* The server that w had stays its server.
Remains(w) ==
  w \in open /\ w \in open' /\ runtime[w].server # None /\ runtime'[w].server = runtime[w].server

LEMMA RepositoryKeeps ==
  ASSUME Inv, Alike, NEW v \in Windows, Repository(v), NEW w \in Windows, Remains(w)
  PROVE  Keeps(w)
<1>1. CASE v # w
  <2>1. runtime'[w] = runtime[w]
    BY <1>1 DEF Repository, ExecuteLoad, ExecuteBind, ExecuteUpdate, CompleteCommand, Holds, Inv, RowsType
  <2>. QED BY <2>1 DEF Keeps
<1>2. CASE v = w /\ ExecuteLoad(w)
  <2>1. CASE runtime' = runtime BY <2>1 DEF Keeps
  <2>2. PICK r, t : runtime' # runtime =>
          /\ runtime'[w] = t
          /\ t = IF runtime[w].server = r.server THEN runtime[w] ELSE FreshTabs(r.server, tabIds + 1, None)
    BY <1>2 DEF ExecuteLoad, Holds, Inv, RowsType
  <2>3. FreshTabs(r.server, tabIds + 1, None).server = r.server BY DEF FreshTabs, NoTabs, OneTab
  <2>. QED BY <2>1, <2>2, <2>3 DEF Remains, Keeps
<1>3. CASE v = w /\ (ExecuteBind(w) \/ ExecuteUpdate(w))
  <2>1. runtime' = runtime \/ Current(w, command[w].base.version) BY <1>3 DEF ExecuteBind, ExecuteUpdate
  <2>2. command[w].kind \in {"bind", "update"} /\ command[w].phase = "sent"
    BY <1>3 DEF ExecuteBind, ExecuteUpdate, Sent
  <2>. QED BY <2>1, <2>2, BasedOnTabs DEF Remains, Keeps
<1>4. CASE v = w /\ CompleteCommand(w)
  <2>1. runtime' = runtime BY <1>4 DEF CompleteCommand, IsOpen, Remains
  <2>. QED BY <2>1 DEF Keeps
<1>. QED BY <1>1, <1>2, <1>3, <1>4 DEF Repository

LEMMA OpenersKeep ==
  ASSUME Inv, TabsInv, NEW o \in Openers, OpenTab(o) \/ Reserve(o) \/ Discard(o),
         NEW w \in Windows, Remains(w)
  PROVE  Keeps(w)
<1>1. CASE OpenTab(o)
  <2>. DEFINE s == StateOf(row[w], runtime[w])
  <2>1. runtime[w].tabs \in Seq(Tab) /\ s.tabs = runtime[w].tabs
    <3>1. runtime[w] \in Seen(w) BY DEF Seen
    <3>. QED BY <3>1 DEF TabsInv, AllSound, Sound, StateOf
  <2>2. \/ runtime'[w] = runtime[w]
        \/ \E id, t : runtime'[w].tabs = Opened(s, id, t).tabs
    BY <1>1 DEF OpenTab, Inv, RowsType
  <2>. HIDE DEF s
  <2>. QED BY <2>1, <2>2, OpenedHas DEF Keeps
<1>2. CASE Reserve(o) \/ Discard(o)
  <2>1. Discard(o) => opener[o].window # w BY DEF Discard, Inv, Places, Builds, Remains
  <2>2. runtime'[w] = runtime[w]
    BY <1>2, <2>1 DEF Reserve, Unused, Discard, Holds, Inv, RowsType, Places, Remains
  <2>. QED BY <2>2 DEF Keeps
<1>. QED BY <1>1, <1>2

LEMMA NextKeeps ==
  ASSUME Inv, TabsInv, Alike, [Next]_vars, NEW w \in Windows, Remains(w)
  PROVE  Keeps(w)
<1>1. CASE UNCHANGED runtime BY <1>1 DEF Keeps
<1>2. ASSUME NEW v \in Windows, Deactivate(v) PROVE Keeps(w)
  <2>1. runtime'[w] = runtime[w]
    BY <1>2 DEF Deactivate, Holds, Inv, RowsType, Places, Remains
  <2>. QED BY <2>1 DEF Keeps
<1>3. CASE Restart BY <1>3 DEF Restart, NoTabs, Remains
<1>4. \/ UNCHANGED runtime \/ Restart
      \/ \E v \in Windows : Repository(v) \/ Deactivate(v)
      \/ \E o \in Openers : OpenTab(o) \/ Reserve(o) \/ Discard(o)
  <2>1. ASSUME NEW v \in Windows, Page(v) PROVE UNCHANGED runtime
    BY <2>1 DEF Page, StartMutation, Succeed, ServerAlreadyOpen, Fail, Answered, rowVars
  <2>2. ASSUME NEW v \in Windows, User(v) PROVE UNCHANGED runtime
    BY <2>2 DEF User, Bind, OpenTabOf, Replace, CloseTab, CloseGroup, Activate, Attach, Enqueue, Reload,
                Destroy, rowVars
  <2>3. ASSUME NEW v \in Windows, Listen(v) \/ Hear(v) PROVE UNCHANGED runtime
    BY <2>3 DEF Listen, Hear, rowVars
  <2>4. ASSUME NEW o \in Openers, LookUp(o) \/ Announce(o) \/ Build(o) PROVE UNCHANGED runtime
    BY <2>4 DEF LookUp, Announce, Build, rowVars
  <2>5. ASSUME NEW s \in Servers, DeleteServer(s) PROVE UNCHANGED runtime
    BY <2>5 DEF DeleteServer
  <2>6. CASE UNCHANGED vars BY <2>6 DEF vars, rowVars
  <2>. QED BY <2>1, <2>2, <2>3, <2>4, <2>5, <2>6 DEF Next
<1>. QED BY <1>1, <1>2, <1>3, <1>4, RepositoryKeeps, OpenersKeep

\* Copies of the state of a window that have its version have its tabs.
THEOREM CopiesAreAlike == Spec => []Alike
BY Invariance, InitAlike, NextAlike, PTL DEF Spec

\* A change of a page removes no tab that the page did not know: a tab that
\* open_app_window opened behind its back survives it.
THEOREM TabsSurvive == Spec => NoTabLost
<1>. DEFINE Step == \A w \in Windows : Remains(w) => Keeps(w)
<1>1. Inv /\ TabsInv /\ Alike /\ [Next]_vars => [Step]_vars BY NextKeeps
<1>2. [Step]_vars <=>
        [\A w \in Windows :
           w \in open /\ w \in open' /\ runtime[w].server # None /\ runtime'[w].server = runtime[w].server =>
             Ids(runtime[w].tabs) \subseteq Ids(runtime'[w].tabs) \cup Ids(command[w].base.tabs)]_vars
  BY DEF Remains, Keeps
<1>. HIDE DEF Step
<1>. QED BY <1>1, <1>2, Invariance, TabsInvariance, CopiesAreAlike, PTL DEF Spec, NoTabLost

=============================================================================
