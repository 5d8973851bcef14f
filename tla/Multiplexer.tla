---------------------------- MODULE Multiplexer ----------------------------
(***************************************************************************)
(* How the logical connections of one physical connection share its        *)
(* protocol stream (prepare_outbound_for_physical, route_inbound and what   *)
(* they call in src-tauri/src/connection/shared_pool.rs): initialize is     *)
(* sent once, a reply goes back to the connection that asked, a thread is   *)
(* unsubscribed when its last subscriber leaves, a request of the server is *)
(* answered by the first connection that answers.                           *)
(*                                                                         *)
(* The pool decides about a message under its lock (Prepare) and the        *)
(* command hands it to the transport after the lock is released (Enqueue).  *)
(* Every send is a command of its own, so neither the order of Prepare nor  *)
(* that of Enqueue is the order in which the client issued its messages.    *)
(*                                                                         *)
(* The physical connection is up (ConnectionPool says how it gets there and  *)
(* how it ends).  Its app-server is external: it takes its messages in the   *)
(* order they arrive and replies to each.                                   *)
(***************************************************************************)
EXTENDS Naturals, Sequences, FiniteSets

CONSTANTS
  Clients,   \* logical connections
  Threads,   \* thread ids
  Asks,      \* requests of the server, each sent at most once
  AskThread, \* the thread a request of the server is about
  Program,   \* the messages a client sends, in the order it issues them
  Nobody     \* no primary

Kinds == {"initialize", "initialized", "resume", "unsubscribe"}

\* Message n of client c
Messages == {m \in Clients \X (1..10) : m[2] <= Len(Program[m[1]])}

ASSUME ProgramAssumption ==
  /\ AskThread \in [Asks -> Threads]
  /\ Nobody \notin Messages
  /\ \A c \in Clients :
       /\ Program[c] \in Seq([kind : Kinds, thread : Threads])
       /\ Len(Program[c]) \in 2..10
       /\ \A n \in 1..Len(Program[c]) :
            /\ Program[c][n].kind = "initialize" <=> n = 1
            /\ Program[c][n].kind = "initialized" <=> n = 2

ClientOf(m) == m[1]
Kind(m) == Program[m[1]][m[2]].kind
ThreadOf(m) == Program[m[1]][m[2]].thread

VARIABLES
  phase,       \* away, attached (a subscriber of the connection) or gone
  state,       \* [Messages -> MessageStates]
  replies,     \* how many replies to a message its client was given
  init,        \* initialization: its state, the primary and the waiters
  forwarded,   \* initialized_forwarded
  routes,      \* request_routes, with thread_request_routes
  subscribed,  \* thread_subscriptions
  open,        \* the requests of the server that server_requests holds
  responders,  \* who may answer them (for the requests in open)
  heard,       \* the requests of the server a client was given
  answering,   \* answers prepared and not yet handed to the transport
  toServer,    \* the stream to the server
  toPool,      \* the stream from the server
  served,      \* the server: initialize count, threads
  asks         \* the server: the state of its requests

poolVars == <<init, forwarded, routes, subscribed, responders, open>>
clientVars == <<phase, heard>>
messageVars == <<state, replies>>
wireVars == <<answering, toServer, toPool>>
serverVars == <<served, asks>>
vars == <<poolVars, clientVars, messageVars, wireVars, serverVars>>

-----------------------------------------------------------------------------

Phases == {"away", "attached", "gone"}
MessageStates == {"unissued", "issued", "waiting", "prepared", "sent",
                  "suppressed", "answered", "refused"}
AskStates == {"unsent", "asked", "answered", "answered twice"}

Init ==
  /\ phase = [c \in Clients |-> "away"]
  /\ state = [m \in Messages |-> "unissued"]
  /\ replies = [m \in Messages |-> 0]
  /\ init = [state |-> "awaiting", primary |-> Nobody, waiters |-> {}]
  /\ forwarded = FALSE
  /\ routes = {}
  /\ subscribed = [c \in Clients |-> {}]
  /\ responders = [q \in Asks |-> {}]
  /\ open = {}
  /\ heard = [c \in Clients |-> {}]
  /\ answering = {}
  /\ toServer = <<>>
  /\ toPool = <<>>
  /\ served = [inits |-> 0, threads |-> {}]
  /\ asks = [q \in Asks |-> "unsent"]

-----------------------------------------------------------------------------
(* Clients                                                                 *)

Attached == {c \in Clients : phase[c] = "attached"}

\* attach makes the connection a subscriber.
Attach(c) ==
  /\ phase[c] = "away"
  /\ phase' = [phase EXCEPT ![c] = "attached"]
  /\ UNCHANGED <<heard, poolVars, messageVars, wireVars, serverVars>>

\* Mutant of InitAfter: a new initialize is awaited when the primary leaves.
InitAfterReset(c) ==
  IF init.primary # Nobody /\ ClientOf(init.primary) = c
  THEN [init EXCEPT !.state = "awaiting", !.primary = Nobody] ELSE init

\* The routes that stay when c leaves.
RoutesAfter(c) == {m \in routes : ClientOf(m) # c}

\* The initialization goes on when the connection that started it leaves: its
\* reply is for the waiters too.
InitAfter(c) == init

\* detach_subscriber: everything that is kept for the connection goes; a
\* request of the server that only it could answer is forgotten.
Detach(c) ==
  /\ phase[c] = "attached"
  /\ phase' = [phase EXCEPT ![c] = "gone"]
  /\ routes' = RoutesAfter(c)
  /\ init' = InitAfter(c)
  /\ subscribed' = [subscribed EXCEPT ![c] = {}]
  /\ responders' = [q \in Asks |-> responders[q] \ {c}]
  /\ open' = {q \in open : responders[q] \ {c} # {}}
  /\ UNCHANGED <<forwarded, heard, messageVars, wireVars, serverVars>>

\* The client's router: initialize first, initialized when the reply is there,
\* anything else when initialized has been written.
MayIssue(m) ==
  LET c == ClientOf(m)
  IN CASE Kind(m) = "initialize" -> TRUE
       [] Kind(m) = "initialized" -> state[<<c, 1>>] = "answered"
       [] OTHER -> state[<<c, 2>>] \in {"sent", "suppressed"}

\* A message is issued after the ones before it; nothing waits for their replies.
Issue(m) ==
  /\ phase[ClientOf(m)] = "attached" /\ state[m] = "unissued" /\ MayIssue(m)
  /\ \A n \in 1..(m[2] - 1) : state[<<ClientOf(m), n>>] # "unissued"
  /\ state' = [state EXCEPT ![m] = "issued"]
  /\ UNCHANGED <<replies, poolVars, clientVars, wireVars, serverVars>>

-----------------------------------------------------------------------------
(* prepare_outbound                                                        *)

\* Forward: the message is on its way to the transport.
Forward(m) == state' = [state EXCEPT ![m] = "prepared"] /\ UNCHANGED replies

\* Synthetic: the pool itself replies.
Synthetic(m) ==
  /\ state' = [state EXCEPT ![m] = "answered"]
  /\ replies' = [replies EXCEPT ![m] = @ + 1]

Becomes(m, end) == state' = [state EXCEPT ![m] = end] /\ UNCHANGED replies

\* A message of a connection that is gone is refused.
PrepareRefused(m) ==
  /\ state[m] = "issued"
  /\ \/ phase[ClientOf(m)] # "attached"
     \/ init.state = "failed"
     \/ Kind(m) # "initialize" /\ init.state # "ready"
  /\ Becomes(m, "refused")
  /\ UNCHANGED <<poolVars, clientVars, wireVars, serverVars>>

\* m is issued, its client is attached and it is a kind of message.
Preparing(m, kind) ==
  state[m] = "issued" /\ phase[ClientOf(m)] = "attached" /\ Kind(m) = kind

\* An initialize is under way already.
MustWait == init.state = "inFlight"

PrepareInitialize(m) ==
  /\ Preparing(m, "initialize") /\ init.state # "failed"
  /\ \/ /\ init.state = "ready"
        /\ Synthetic(m)
        /\ UNCHANGED <<init, routes>>
     \/ /\ init.state # "ready" /\ MustWait
        /\ init' = [init EXCEPT !.waiters = @ \cup {m}]
        /\ Becomes(m, "waiting")
        /\ UNCHANGED routes
     \/ /\ init.state # "ready" /\ ~MustWait
        /\ init' = [state |-> "inFlight", primary |-> m, waiters |-> {}]
        /\ routes' = routes \cup {m}
        /\ Forward(m)
  /\ UNCHANGED <<forwarded, subscribed, responders, open, clientVars, wireVars,
                 serverVars>>

PrepareInitialized(m) ==
  /\ Preparing(m, "initialized") /\ init.state = "ready"
  /\ forwarded' = TRUE
  /\ IF forwarded THEN Becomes(m, "suppressed") ELSE Forward(m)
  /\ UNCHANGED <<init, routes, subscribed, responders, open, clientVars, wireVars,
                 serverVars>>

PrepareResume(m) ==
  /\ Preparing(m, "resume") /\ init.state = "ready"
  /\ routes' = routes \cup {m}
  /\ Forward(m)
  /\ UNCHANGED <<init, forwarded, subscribed, responders, open, clientVars, wireVars,
                 serverVars>>

\* Only an unsubscribe that is forwarded has a reply to wait for.
RouteOfUnsubscribe(m, last) == IF last THEN routes \cup {m} ELSE routes

\* thread/unsubscribe is forwarded for the last subscriber of the thread.
PrepareUnsubscribe(m) ==
  LET c == ClientOf(m)
      t == ThreadOf(m)
      last == t \in subscribed[c] /\ \A d \in Clients \ {c} : t \notin subscribed[d]
  IN /\ Preparing(m, "unsubscribe") /\ init.state = "ready"
     /\ subscribed' = [subscribed EXCEPT ![c] = @ \ {t}]
     /\ routes' = RouteOfUnsubscribe(m, last)
     /\ IF last THEN Forward(m) ELSE Synthetic(m)
     /\ UNCHANGED <<init, forwarded, responders, open, clientVars, wireVars, serverVars>>

\* Mutant of OpenAfterAnswer: the request stays open for the other connections.
OpenAfterAnswerKept(q) == open

\* The first answer closes the request.
OpenAfterAnswer(q) == open \ {q}

\* An answer to a request of the server: the first one is forwarded, any other
\* one is suppressed.
Answer(c, q) ==
  /\ c \in Attached /\ q \in heard[c]
  /\ heard' = [heard EXCEPT ![c] = @ \ {q}]
  /\ IF q \in open /\ c \in responders[q]
     THEN /\ open' = OpenAfterAnswer(q)
          /\ responders' = [responders EXCEPT ![q] = @ \ {c}]
          /\ answering' = answering \cup {<<c, q>>}
     ELSE UNCHANGED <<open, responders, answering>>
  /\ UNCHANGED <<init, forwarded, routes, subscribed, phase, messageVars, toServer,
                 toPool, serverVars>>

-----------------------------------------------------------------------------
(* The transport's outbound queue                                          *)

Enqueue(m) ==
  /\ state[m] = "prepared"
  /\ Becomes(m, "sent")
  /\ toServer' = Append(toServer, [type |-> "message", of |-> m])
  /\ UNCHANGED <<poolVars, clientVars, answering, toPool, serverVars>>

EnqueueAnswer(c, q) ==
  /\ <<c, q>> \in answering
  /\ answering' = answering \ {<<c, q>>}
  /\ toServer' = Append(toServer, [type |-> "answer", of |-> q])
  /\ UNCHANGED <<poolVars, clientVars, messageVars, toPool, serverVars>>

-----------------------------------------------------------------------------
(* The app-server (external)                                               *)

Reply(m, ok) == toPool' = Append(toPool, [type |-> "reply", of |-> m, ok |-> ok])

\* The next message of the stream.  A request fails or succeeds; it changes
\* what the server sends to this connection only when it succeeds.
Serve ==
  /\ toServer # <<>>
  /\ toServer' = Tail(toServer)
  /\ LET next == Head(toServer)
         m == next.of
     IN \/ /\ next.type = "message" /\ Kind(m) = "initialize"
           /\ \E ok \in BOOLEAN : Reply(m, ok)
           /\ served' = [served EXCEPT !.inits = @ + 1]
           /\ UNCHANGED asks
        \/ /\ next.type = "message" /\ Kind(m) = "initialized"
           /\ UNCHANGED <<toPool, served, asks>>
        \/ /\ next.type = "message" /\ Kind(m) = "resume"
           /\ \/ Reply(m, TRUE) /\ served' = [served EXCEPT !.threads = @ \cup {ThreadOf(m)}]
              \/ Reply(m, FALSE) /\ UNCHANGED served
           /\ UNCHANGED asks
        \/ /\ next.type = "message" /\ Kind(m) = "unsubscribe"
           /\ \/ Reply(m, TRUE) /\ served' = [served EXCEPT !.threads = @ \ {ThreadOf(m)}]
              \/ Reply(m, FALSE) /\ UNCHANGED served
           /\ UNCHANGED asks
        \/ /\ next.type = "answer"
           /\ asks' = [asks EXCEPT ![m] = IF @ = "asked" THEN "answered"
                                          ELSE "answered twice"]
           /\ UNCHANGED <<toPool, served>>
  /\ UNCHANGED <<poolVars, clientVars, messageVars, answering>>

\* The server asks about a thread this connection is subscribed to.
Ask(q) ==
  /\ asks[q] = "unsent" /\ AskThread[q] \in served.threads
  /\ asks' = [asks EXCEPT ![q] = "asked"]
  /\ toPool' = Append(toPool, [type |-> "ask", of |-> q])
  /\ UNCHANGED <<poolVars, clientVars, messageVars, answering, toServer, served>>

-----------------------------------------------------------------------------
(* route_inbound                                                           *)

Arrives(type) == toPool # <<>> /\ Head(toPool).type = type

\* deliver_protocol_to and the loop over the waiters: the messages in ms are
\* replied to if their clients are still there.
Deliver(ms, end) ==
  LET given == {m \in ms : ClientOf(m) \in Attached}
  IN /\ state' = [m \in Messages |-> IF m \in given THEN end ELSE state[m]]
     /\ replies' = [m \in Messages |-> IF m \in given THEN replies[m] + 1 ELSE replies[m]]

\* The reply to the initialize of the primary settles the initialization for
\* everybody; a rejected one cancels the physical connection.
RouteInitialize ==
  /\ Arrives("reply")
  /\ LET reply == Head(toPool)
         m == reply.of
     IN /\ init.state = "inFlight" /\ init.primary = m
        /\ init' = [state |-> IF reply.ok THEN "ready" ELSE "failed",
                    primary |-> Nobody, waiters |-> {}]
        /\ routes' = routes \ {m}
        /\ Deliver((routes \cap {m}) \cup init.waiters,
                   IF reply.ok THEN "answered" ELSE "refused")
  /\ toPool' = Tail(toPool)
  /\ UNCHANGED <<forwarded, subscribed, responders, open, clientVars, answering,
                 toServer, serverVars>>

\* Mutant of SubscribedAfter: a failed unsubscribe is taken for a success.
SubscribedAfterOptimistic(m, ok) ==
  IF Kind(m) = "resume" /\ ok THEN subscribed[ClientOf(m)] \cup {ThreadOf(m)}
  ELSE subscribed[ClientOf(m)]

\* apply_thread_request_response
SubscribedAfter(m, ok) ==
  IF (Kind(m) = "resume" /\ ok) \/ (Kind(m) = "unsubscribe" /\ ~ok)
  THEN subscribed[ClientOf(m)] \cup {ThreadOf(m)}
  ELSE subscribed[ClientOf(m)]

\* Any other reply goes to the connection that asked, and to nobody when that
\* connection is gone.
RouteReply ==
  /\ Arrives("reply")
  /\ LET reply == Head(toPool)
         m == reply.of
     IN /\ ~(init.state = "inFlight" /\ init.primary = m)
        /\ subscribed' = IF m \in routes
                         THEN [subscribed EXCEPT ![ClientOf(m)] = SubscribedAfter(m, reply.ok)]
                         ELSE subscribed
        /\ routes' = routes \ {m}
        /\ Deliver(routes \cap {m}, "answered")
  /\ toPool' = Tail(toPool)
  /\ UNCHANGED <<init, forwarded, responders, open, clientVars, answering, toServer,
                 serverVars>>

\* A request of the server is given to the subscribers of its thread.
RouteAsk ==
  /\ Arrives("ask")
  /\ LET q == Head(toPool).of
         targets == {c \in Attached : AskThread[q] \in subscribed[c]}
     IN /\ open' = open \cup {q}
        /\ responders' = [responders EXCEPT ![q] = targets]
        /\ heard' = [c \in Clients |-> IF c \in targets THEN heard[c] \cup {q} ELSE heard[c]]
  /\ toPool' = Tail(toPool)
  /\ UNCHANGED <<init, forwarded, routes, subscribed, phase, messageVars, answering,
                 toServer, serverVars>>

-----------------------------------------------------------------------------

ClientNext ==
  \/ \E c \in Clients : Attach(c) \/ Detach(c)
  \/ \E m \in Messages : Issue(m)
  \/ \E c \in Clients, q \in Asks : Answer(c, q) \/ EnqueueAnswer(c, q)

SendNext ==
  \E m \in Messages :
    \/ PrepareRefused(m) \/ PrepareInitialize(m) \/ PrepareInitialized(m)
    \/ PrepareResume(m) \/ PrepareUnsubscribe(m) \/ Enqueue(m)

ServerNext == Serve \/ \E q \in Asks : Ask(q)

RouteNext == RouteInitialize \/ RouteReply \/ RouteAsk

Next == ClientNext \/ SendNext \/ ServerNext \/ RouteNext

Spec == Init /\ [][Next]_vars

-----------------------------------------------------------------------------
(* Safety                                                                  *)

\* The entries of a stream that are messages of clients
InStream(stream, type) ==
  {stream[n].of : n \in {k \in 1..Len(stream) : stream[k].type = type}}

\* The server is initialized once, however many connections initialize and
\* whenever the first of them leaves.
InitializedOnce ==
  /\ served.inits <= 1
  /\ Cardinality({m \in Messages :
       Kind(m) = "initialize" /\ state[m] \in {"prepared", "sent"} /\ m \in routes}) <= 1

\* The server gets one answer to its request, also when several subscribers of
\* the thread answer at once.
AnsweredOnce ==
  \A q \in Asks :
    /\ asks[q] # "answered twice"
    /\ asks[q] = "answered" => q \notin open

\* Nothing about the thread is on its way between this client, the pool and the
\* server.
Settled(t) ==
  /\ \A m \in Messages : Kind(m) \in {"resume", "unsubscribe"} /\ ThreadOf(m) = t =>
       state[m] \notin {"issued", "prepared"}
  /\ \A m \in InStream(toServer, "message") \cup InStream(toPool, "reply") : ThreadOf(m) # t

\* A thread the server is subscribed to for this connection has a subscriber in
\* the pool, also after an unsubscribe was refused or overtook its resume:
\* otherwise its notifications and requests reach nobody and nobody can
\* unsubscribe it any more.  (A connection that goes takes its subscriptions
\* along.)
SubscriptionIsKnown ==
  \A t \in served.threads :
    Settled(t) /\ (\A c \in Clients : phase[c] # "gone")
      => \E c \in Attached : t \in subscribed[c]

-----------------------------------------------------------------------------
(* Liveness                                                                *)

\* Commands run, the transport moves messages and the server takes them.
Fairness ==
  /\ \A m \in Messages :
       /\ WF_vars(PrepareRefused(m)) /\ WF_vars(PrepareInitialize(m))
       /\ WF_vars(PrepareInitialized(m)) /\ WF_vars(PrepareResume(m))
       /\ WF_vars(PrepareUnsubscribe(m)) /\ WF_vars(Enqueue(m))
  /\ WF_vars(Serve) /\ WF_vars(RouteNext)

FairSpec == Spec /\ Fairness

\* A request of a client that is still there has no reply yet.
Waits(m) ==
  /\ Kind(m) # "initialized" /\ phase[ClientOf(m)] # "gone"
  /\ state[m] \notin {"unissued", "answered", "refused"}

\* A client that stays gets a reply to every request it issued, the one that
\* waits for another client's initialize included, or an error: a time comes
\* when nobody waits.
EveryRequestEnds ==
  (\E m \in Messages : Waits(m)) ~> (\A m \in Messages : ~Waits(m))
=============================================================================
