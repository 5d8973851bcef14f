-------------------------- MODULE MultiplexerProofs --------------------------
(* Proofs about Multiplexer, for any clients, threads, requests of the server *)
(* and programs of the clients.                                               *)
EXTENDS Multiplexer, FiniteSetTheorems, SequenceTheorems, TLAPS

-----------------------------------------------------------------------------
(* The inductive invariant                                                 *)

ServerItems == [type : {"message"}, of : Messages] \cup [type : {"answer"}, of : Asks]
PoolItems ==
  [type : {"reply"}, of : Messages, ok : BOOLEAN] \cup [type : {"ask"}, of : Asks]

Typed ==
  /\ state \in [Messages -> MessageStates]
  /\ init \in [state : {"awaiting", "inFlight", "ready", "failed"},
               primary : Messages \cup {Nobody}, waiters : SUBSET Messages]
  /\ routes \in SUBSET Messages
  /\ responders \in [Asks -> SUBSET Clients]
  /\ open \in SUBSET Asks
  /\ toServer \in Seq(ServerItems) /\ toPool \in Seq(PoolItems)
  /\ served \in [inits : Nat, threads : SUBSET Threads]
  /\ asks \in [Asks -> AskStates]

\* An initialize is on its way to the transport, or entry n of the stream to the
\* server is one.
InitPrepared(m) == Kind(m) = "initialize" /\ state[m] = "prepared"
InitAt(n) == toServer[n].type = "message" /\ Kind(toServer[n].of) = "initialize"

\* There is one initialize on the whole way from the pool to the server, and
\* none before the first is prepared.
OneInitialize ==
  /\ init.state = "awaiting" =>
       /\ served.inits = 0 /\ \A m \in Messages : ~InitPrepared(m)
       /\ \A n \in 1..Len(toServer) : ~InitAt(n)
  /\ \A m \in Messages : InitPrepared(m) =>
       /\ served.inits = 0 /\ \A l \in Messages : InitPrepared(l) => l = m
       /\ \A n \in 1..Len(toServer) : ~InitAt(n)
  /\ \A n \in 1..Len(toServer) : InitAt(n) =>
       /\ served.inits = 0 /\ \A k \in 1..Len(toServer) : InitAt(k) => k = n
  /\ served.inits <= 1
  /\ \A m \in routes : Kind(m) = "initialize" => m = init.primary
  /\ init.primary # Nobody => init.state = "inFlight"

\* Where a request of the server and its answer are
AskAt(n, q) == toPool[n].type = "ask" /\ toPool[n].of = q
AnswerAt(n, q) == toServer[n].type = "answer" /\ toServer[n].of = q

\* A request is on its way to the pool, open there, being answered, or answered,
\* and never in two of these places.
OneAnswerOf(q) ==
  /\ \A n \in 1..Len(toPool) : AskAt(n, q) =>
       /\ asks[q] = "asked" /\ q \notin open /\ \A k \in 1..Len(toPool) : AskAt(k, q) => k = n
  /\ q \in open => asks[q] = "asked"
  /\ \A c \in Clients : <<c, q>> \in answering =>
       /\ asks[q] = "asked" /\ q \notin open
       /\ \A n \in 1..Len(toPool) : ~AskAt(n, q)
       /\ \A d \in Clients : <<d, q>> \in answering => d = c
       /\ \A n \in 1..Len(toServer) : ~AnswerAt(n, q)
  /\ \A n \in 1..Len(toServer) : AnswerAt(n, q) =>
       /\ asks[q] = "asked" /\ q \notin open
       /\ \A k \in 1..Len(toPool) : ~AskAt(k, q)
       /\ \A k \in 1..Len(toServer) : AnswerAt(k, q) => k = n
  /\ asks[q] # "answered twice"

OneAnswer == \A q \in Asks : OneAnswerOf(q)

Inv == Typed /\ OneInitialize /\ OneAnswer

-----------------------------------------------------------------------------
(* The streams                                                             *)

LEMMA ThreadsOfMessages == \A m \in Messages : ThreadOf(m) \in Threads
<1>. SUFFICES ASSUME NEW m \in Messages PROVE ThreadOf(m) \in Threads
  OBVIOUS
<1>1. m[1] \in Clients /\ m[2] \in 1..Len(Program[m[1]])
  BY ProgramAssumption DEF Messages
<1>2. Program[m[1]] \in Seq([kind : Kinds, thread : Threads])
  BY <1>1, ProgramAssumption
<1>3. Program[m[1]][m[2]] \in [kind : Kinds, thread : Threads]
  BY <1>1, <1>2, ElementOfSeq
<1>. QED BY <1>3 DEF ThreadOf

LEMMA AppendPositions ==
  ASSUME NEW S, NEW s \in Seq(S), NEW e \in S, NEW t, t = Append(s, e)
  PROVE  /\ t \in Seq(S)
         /\ \A n \in 1..Len(t) :
              (n = Len(t) /\ n = Len(s) + 1 /\ t[n] = e) \/ (n \in 1..Len(s) /\ t[n] = s[n])
OBVIOUS

LEMMA TailPositions ==
  ASSUME NEW S, NEW s \in Seq(S), s # <<>>, NEW t, t = Tail(s)
  PROVE  /\ t \in Seq(S)
         /\ 1 \in 1..Len(s) /\ Head(s) = s[1] /\ Head(s) \in S
         /\ \A n \in 1..Len(t) : n + 1 \in 1..Len(s) /\ n + 1 # 1 /\ t[n] = s[n + 1]
OBVIOUS

-----------------------------------------------------------------------------
(* The invariant holds at first and is kept by every step                   *)

LEMMA InitInv == Init => Inv
<1>. SUFFICES ASSUME Init PROVE Inv
  OBVIOUS
<1>. USE DEF Init
<1>1. Typed
  <2>1. toServer \in Seq(ServerItems) /\ toPool \in Seq(PoolItems)
    BY EmptySeq
  <2>2. state \in [Messages -> MessageStates] /\ asks \in [Asks -> AskStates]
    BY DEF MessageStates, AskStates
  <2>. QED BY <2>1, <2>2 DEF Typed
<1>2. Len(toServer) = 0 /\ Len(toPool) = 0
  BY EmptySeq
<1>3. OneInitialize
  BY <1>2 DEF OneInitialize, InitPrepared
<1>4. OneAnswer
  BY <1>2 DEF OneAnswer, OneAnswerOf
<1>. QED BY <1>1, <1>3, <1>4 DEF Inv

\* No step but PrepareInitialize prepares an initialize; where the streams and
\* the initialization stay as they are so does the invariant.
LEMMA InitializeKept ==
  ASSUME OneInitialize, UNCHANGED <<toServer, served, init>>, routes' \subseteq routes \cup {m \in Messages : Kind(m) # "initialize"},
         \A m \in Messages : Kind(m) = "initialize" /\ state'[m] = "prepared" => state[m] = "prepared"
  PROVE  OneInitialize'
BY DEF OneInitialize, InitPrepared, InitAt

LEMMA AnswerKept ==
  ASSUME OneAnswer, UNCHANGED <<toServer, toPool, answering, asks>>, open' \subseteq open
  PROVE  OneAnswer'
<1>. SUFFICES ASSUME NEW q \in Asks PROVE OneAnswerOf(q)'
  BY DEF OneAnswer
<1>1. OneAnswerOf(q)
  BY DEF OneAnswer
<1>. QED BY <1>1 DEF OneAnswerOf, AskAt, AnswerAt

\* The steps of the clients that reach no stream
LEMMA ClientStep ==
  ASSUME Inv,
         \/ \E c \in Clients : Attach(c) \/ Detach(c)
         \/ \E m \in Messages : Issue(m) \/ PrepareRefused(m)
         \/ \E m \in Messages : PrepareInitialized(m) \/ PrepareResume(m) \/ PrepareUnsubscribe(m)
  PROVE  Inv'
<1>1. /\ UNCHANGED <<toServer, toPool, served, init, answering, asks>> /\ open' \subseteq open
  BY DEF Attach, Detach, Issue, PrepareRefused, PrepareInitialized, PrepareResume,
         PrepareUnsubscribe, InitAfter, poolVars, wireVars, serverVars
<1>2. /\ \A m \in Messages : Kind(m) = "initialize" /\ state'[m] = "prepared" => state[m] = "prepared"
      /\ routes' \subseteq routes \cup {m \in Messages : Kind(m) # "initialize"}
      /\ state' \in [Messages -> MessageStates]
  BY SMTT(60) DEF Inv, Typed, Attach, Detach, Issue, PrepareRefused, PrepareInitialized, PrepareResume,
         PrepareUnsubscribe, Preparing, RoutesAfter, RouteOfUnsubscribe, Forward, Synthetic, Becomes,
         messageVars, poolVars, MessageStates
<1>3. responders' \in [Asks -> SUBSET Clients]
  BY DEF Inv, Typed, Attach, Detach, Issue, PrepareRefused, PrepareInitialized, PrepareResume,
         PrepareUnsubscribe, poolVars
<1>4. Typed'
  BY <1>1, <1>2, <1>3 DEF Inv, Typed
<1>. QED BY <1>1, <1>2, <1>4, InitializeKept, AnswerKept DEF Inv

LEMMA PrepareStep ==
  ASSUME Inv, NEW m \in Messages, PrepareInitialize(m)
  PROVE  Inv'
<1>1. /\ UNCHANGED <<toServer, toPool, served, answering, asks, open, responders>>
      /\ Kind(m) = "initialize" /\ state[m] = "issued"
  BY DEF PrepareInitialize, Preparing, wireVars, serverVars
<1>2. OneAnswer'
  BY <1>1, AnswerKept DEF Inv
<1>3. CASE init.state # "ready" /\ ~MustWait
  <2>1. /\ init' = [state |-> "inFlight", primary |-> m, waiters |-> {}]
        /\ routes' = routes \cup {m} /\ state' = [state EXCEPT ![m] = "prepared"]
        /\ init.state = "awaiting"
    BY <1>3 DEF PrepareInitialize, MustWait, Forward, Inv, Typed
  <2>2. Typed'
    BY <1>1, <2>1 DEF Inv, Typed, MessageStates
  <2>3. \A l \in routes : Kind(l) # "initialize" \/ l = init.primary
    BY DEF Inv, OneInitialize
  <2>4. \A l \in routes : Kind(l) # "initialize"
    BY <2>1, <2>3, ProgramAssumption DEF Inv, Typed, OneInitialize
  <2>5. OneInitialize'
    BY <1>1, <2>1, <2>4 DEF Inv, Typed, OneInitialize, InitPrepared, InitAt
  <2>. QED BY <1>2, <2>2, <2>5 DEF Inv
<1>4. CASE ~(init.state # "ready" /\ ~MustWait)
  <2>1. /\ init'.state = init.state /\ init'.primary = init.primary /\ init.state # "awaiting"
        /\ init' \in [state : {"awaiting", "inFlight", "ready", "failed"},
                      primary : Messages \cup {Nobody}, waiters : SUBSET Messages]
        /\ routes' = routes
        /\ state' \in {[state EXCEPT ![m] = "answered"], [state EXCEPT ![m] = "waiting"]}
    BY <1>4 DEF PrepareInitialize, MustWait, Synthetic, Becomes, Inv, Typed
  <2>2. Typed'
    BY <1>1, <2>1 DEF Inv, Typed, MessageStates
  <2>3. OneInitialize'
    BY <1>1, <2>1 DEF Inv, Typed, OneInitialize, InitPrepared, InitAt
  <2>. QED BY <1>2, <2>2, <2>3 DEF Inv
<1>. QED BY <1>3, <1>4

LEMMA EnqueueStep ==
  ASSUME Inv, NEW m \in Messages, Enqueue(m)
  PROVE  Inv'
<1>1. /\ UNCHANGED <<toPool, served, answering, asks, open, responders, init, routes>>
      /\ state[m] = "prepared" /\ state' = [state EXCEPT ![m] = "sent"]
      /\ toServer' = Append(toServer, [type |-> "message", of |-> m])
  BY DEF Enqueue, Becomes, poolVars, serverVars
<1>2. [type |-> "message", of |-> m] \in ServerItems
  BY DEF ServerItems
<1>3. /\ toServer' \in Seq(ServerItems)
      /\ \A n \in 1..Len(toServer') :
           \/ n = Len(toServer') /\ n = Len(toServer) + 1 /\ toServer'[n] = [type |-> "message", of |-> m]
           \/ n \in 1..Len(toServer) /\ toServer'[n] = toServer[n]
  BY <1>1, <1>2, AppendPositions DEF Inv, Typed
<1>4. Typed'
  BY <1>1, <1>3 DEF Inv, Typed, MessageStates
<1>5. OneInitialize'
  <2>1. \A l \in Messages : InitPrepared(l)' => InitPrepared(l) /\ l # m
    BY <1>1 DEF InitPrepared, Inv, Typed
  <2>2. \A n \in 1..Len(toServer') :
          InitAt(n)' => (n \in 1..Len(toServer) /\ InitAt(n)) \/ (n = Len(toServer') /\ InitPrepared(m))
    BY <1>1, <1>3 DEF InitAt, InitPrepared
  <2>. QED BY <1>1, <2>1, <2>2 DEF Inv, OneInitialize
<1>6. OneAnswer'
  <2>. SUFFICES ASSUME NEW q \in Asks PROVE OneAnswerOf(q)'
    BY DEF OneAnswer
  <2>1. OneAnswerOf(q)
    BY DEF Inv, OneAnswer
  <2>2. \A n \in 1..Len(toServer') : AnswerAt(n, q)' => n \in 1..Len(toServer) /\ AnswerAt(n, q)
    BY <1>3 DEF AnswerAt
  <2>. QED BY <1>1, <2>1, <2>2 DEF OneAnswerOf, AskAt
<1>. QED BY <1>4, <1>5, <1>6 DEF Inv

\* An answer is the first one, so no other is on its way.
LEMMA AnswerStep ==
  ASSUME Inv, NEW c \in Clients, NEW q \in Asks, Answer(c, q)
  PROVE  Inv'
<1>1. /\ UNCHANGED <<toServer, toPool, served, asks, init, routes, state>>
      /\ \/ UNCHANGED <<open, responders, answering>>
         \/ /\ q \in open /\ open' = open \ {q} /\ answering' = answering \cup {<<c, q>>}
            /\ responders' = [responders EXCEPT ![q] = @ \ {c}]
  BY DEF Answer, OpenAfterAnswer, messageVars, serverVars
<1>2. Typed'
  BY <1>1 DEF Inv, Typed
<1>3. OneInitialize'
  BY <1>1, InitializeKept DEF Inv
<1>4. OneAnswer'
  <2>. SUFFICES ASSUME NEW p \in Asks PROVE OneAnswerOf(p)'
    BY DEF OneAnswer
  <2>1. OneAnswerOf(p)
    BY DEF Inv, OneAnswer
  <2>2. \A d \in Clients : <<d, p>> \in answering' => <<d, p>> \in answering \/ (p = q /\ d = c /\ q \in open /\ q \notin open')
    BY <1>1
  <2>3. open' \subseteq open
    BY <1>1
  <2>4. AskAt(1, p)' = AskAt(1, p) /\ Len(toPool') = Len(toPool) /\ Len(toServer') = Len(toServer)
        /\ asks' = asks /\ (\A n : AskAt(n, p)' = AskAt(n, p)) /\ (\A n : AnswerAt(n, p)' = AnswerAt(n, p))
    BY <1>1 DEF AskAt, AnswerAt
  <2>. QED BY <2>1, <2>2, <2>3, <2>4 DEF OneAnswerOf
<1>. QED BY <1>2, <1>3, <1>4 DEF Inv

LEMMA EnqueueAnswerStep ==
  ASSUME Inv, NEW c \in Clients, NEW q \in Asks, EnqueueAnswer(c, q)
  PROVE  Inv'
<1>1. /\ UNCHANGED <<toPool, served, asks, init, routes, state, open, responders>>
      /\ <<c, q>> \in answering /\ answering' = answering \ {<<c, q>>}
      /\ toServer' = Append(toServer, [type |-> "answer", of |-> q])
  BY DEF EnqueueAnswer, messageVars, serverVars, poolVars
<1>2. [type |-> "answer", of |-> q] \in ServerItems
  BY DEF ServerItems
<1>3. /\ toServer' \in Seq(ServerItems)
      /\ \A n \in 1..Len(toServer') :
           \/ n = Len(toServer') /\ n = Len(toServer) + 1 /\ toServer'[n] = [type |-> "answer", of |-> q]
           \/ n \in 1..Len(toServer) /\ toServer'[n] = toServer[n]
  BY <1>1, <1>2, AppendPositions DEF Inv, Typed
<1>4. Typed'
  BY <1>1, <1>3 DEF Inv, Typed
<1>5. OneInitialize'
  <2>1. \A n \in 1..Len(toServer') : InitAt(n)' => n \in 1..Len(toServer) /\ InitAt(n)
    BY <1>3 DEF InitAt
  <2>2. \A l \in Messages : InitPrepared(l)' = InitPrepared(l)
    BY <1>1 DEF InitPrepared
  <2>. QED BY <1>1, <2>1, <2>2 DEF Inv, OneInitialize
<1>6. OneAnswer'
  <2>. SUFFICES ASSUME NEW p \in Asks PROVE OneAnswerOf(p)'
    BY DEF OneAnswer
  <2>1. OneAnswerOf(p)
    BY DEF Inv, OneAnswer
  <2>2. \A n \in 1..Len(toServer') :
          AnswerAt(n, p)' => (n \in 1..Len(toServer) /\ AnswerAt(n, p))
                             \/ (n = Len(toServer') /\ p = q /\ <<c, p>> \in answering)
    BY <1>1, <1>3 DEF AnswerAt
  <2>3. \A d \in Clients : <<d, p>> \in answering' => <<d, p>> \in answering /\ ~(p = q /\ d = c)
    BY <1>1
  <2>4. Len(toPool') = Len(toPool) /\ asks' = asks /\ open' = open /\ (\A n : AskAt(n, p)' = AskAt(n, p))
    BY <1>1 DEF AskAt
  <2>. QED BY <2>1, <2>2, <2>3, <2>4 DEF OneAnswerOf
<1>. QED BY <1>4, <1>5, <1>6 DEF Inv

LEMMA ServeStep ==
  ASSUME Inv, Serve
  PROVE  Inv'
<1>. DEFINE m == Head(toServer).of
            type == Head(toServer).type
<1>1. /\ UNCHANGED <<answering, init, routes, state, open, responders>>
      /\ toServer # <<>> /\ toServer' = Tail(toServer)
  BY DEF Serve, messageVars, poolVars
<1>2. /\ toServer' \in Seq(ServerItems)
      /\ 1 \in 1..Len(toServer) /\ Head(toServer) = toServer[1] /\ Head(toServer) \in ServerItems
      /\ \A n \in 1..Len(toServer') :
           n + 1 \in 1..Len(toServer) /\ n + 1 # 1 /\ toServer'[n] = toServer[n + 1]
  BY <1>1, TailPositions DEF Inv, Typed
<1>3. /\ type = "message" => m \in Messages
      /\ type = "answer" => m \in Asks
  BY <1>2 DEF ServerItems
<1>4. \A n \in 1..Len(toServer') : /\ InitAt(n)' => InitAt(n + 1)
                                   /\ \A q \in Asks : AnswerAt(n, q)' => AnswerAt(n + 1, q)
  BY <1>2 DEF InitAt, AnswerAt
<1>5. \/ /\ type = "message" /\ UNCHANGED asks
         /\ \/ UNCHANGED toPool
            \/ \E ok \in BOOLEAN : toPool' = Append(toPool, [type |-> "reply", of |-> m, ok |-> ok])
      \/ /\ type = "answer" /\ UNCHANGED <<toPool, served>>
         /\ asks' = [asks EXCEPT ![m] = IF @ = "asked" THEN "answered" ELSE "answered twice"]
  BY DEF Serve, Reply
<1>6. \/ /\ type = "message" /\ Kind(m) = "initialize"
         /\ served' = [served EXCEPT !.inits = @ + 1]
      \/ /\ ~(type = "message" /\ Kind(m) = "initialize") /\ served'.inits = served.inits
         /\ served' \in [inits : Nat, threads : SUBSET Threads]
  <2>1. \/ /\ type = "message" /\ Kind(m) = "initialize" /\ served' = [served EXCEPT !.inits = @ + 1]
        \/ type = "message" /\ Kind(m) = "initialized" /\ UNCHANGED served
        \/ type = "message" /\ Kind(m) = "resume"
           /\ (UNCHANGED served \/ served' = [served EXCEPT !.threads = @ \cup {ThreadOf(m)}])
        \/ type = "message" /\ Kind(m) = "unsubscribe"
           /\ (UNCHANGED served \/ served' = [served EXCEPT !.threads = @ \ {ThreadOf(m)}])
        \/ type = "answer" /\ UNCHANGED served
    BY DEF Serve
  <2>2. type = "message" => ThreadOf(m) \in Threads
    BY <1>3, ThreadsOfMessages
  <2>. QED BY <2>1, <2>2 DEF Inv, Typed
<1>7. served' \in [inits : Nat, threads : SUBSET Threads]
  BY <1>6 DEF Inv, Typed
<1>8. toPool' \in Seq(PoolItems) /\ \A q \in Asks, n \in 1..Len(toPool') :
        AskAt(n, q)' => n \in 1..Len(toPool) /\ AskAt(n, q)
  <2>1. CASE toPool' = toPool
    BY <2>1 DEF Inv, Typed, AskAt
  <2>2. CASE type = "message" /\ \E ok \in BOOLEAN :
               toPool' = Append(toPool, [type |-> "reply", of |-> m, ok |-> ok])
    <3>1. PICK ok \in BOOLEAN : toPool' = Append(toPool, [type |-> "reply", of |-> m, ok |-> ok])
      BY <2>2
    <3>2. [type |-> "reply", of |-> m, ok |-> ok] \in PoolItems
      BY <2>2, <1>3 DEF PoolItems
    <3>3. /\ toPool' \in Seq(PoolItems)
          /\ \A n \in 1..Len(toPool') :
               \/ toPool'[n] = [type |-> "reply", of |-> m, ok |-> ok]
               \/ n \in 1..Len(toPool) /\ toPool'[n] = toPool[n]
      BY <3>1, <3>2, AppendPositions DEF Inv, Typed
    <3>. QED BY <3>3 DEF AskAt
  <2>. QED BY <2>1, <2>2, <1>5
<1>9. asks' \in [Asks -> AskStates]
  BY <1>5 DEF Inv, Typed, AskStates
<1>10. Typed'
  BY <1>1, <1>2, <1>7, <1>8, <1>9 DEF Inv, Typed
<1>11. OneInitialize'
  <2>1. type = "message" /\ Kind(m) = "initialize" <=> InitAt(1)
    BY <1>2 DEF InitAt
  <2>2. \A l \in Messages : InitPrepared(l)' = InitPrepared(l)
    BY <1>1 DEF InitPrepared
  <2>3. InitAt(1) => served'.inits = served.inits + 1
    BY <1>6, <2>1 DEF Inv, Typed
  <2>4. ~InitAt(1) => served'.inits = served.inits
    BY <1>6, <2>1
  <2>5. CASE InitAt(1)
    <3>1. /\ served'.inits = 1 /\ init.state # "awaiting" /\ \A l \in Messages : ~InitPrepared(l)
          /\ \A k \in 1..Len(toServer) : InitAt(k) => k = 1
      BY <2>3, <2>5, <1>2 DEF Inv, OneInitialize
    <3>2. \A n \in 1..Len(toServer') : ~InitAt(n)'
      BY <3>1, <1>2, <1>4
    <3>. QED BY <1>1, <3>1, <3>2, <2>2 DEF Inv, OneInitialize
  <2>6. CASE ~InitAt(1)
    <3>1. \A n \in 1..Len(toServer') : InitAt(n)' => n + 1 \in 1..Len(toServer) /\ InitAt(n + 1)
      BY <1>2, <1>4
    <3>2. \A n, k \in 1..Len(toServer') : InitAt(n)' /\ InitAt(k)' => n = k
      <4>. SUFFICES ASSUME NEW n \in 1..Len(toServer'), NEW k \in 1..Len(toServer'),
                           InitAt(n)', InitAt(k)'
                    PROVE  n = k
        OBVIOUS
      <4>1. n + 1 = k + 1
        BY <3>1 DEF Inv, OneInitialize
      <4>2. n \in Int /\ k \in Int
        OBVIOUS
      <4>. QED BY <4>1, <4>2
    <3>. QED BY <1>1, <2>2, <2>4, <2>6, <3>1, <3>2 DEF Inv, OneInitialize
  <2>. QED BY <2>5, <2>6
<1>12. OneAnswer'
  <2>. SUFFICES ASSUME NEW q \in Asks PROVE OneAnswerOf(q)'
    BY DEF OneAnswer
  <2>1. OneAnswerOf(q)
    BY DEF Inv, OneAnswer
  <2>2. type = "answer" /\ m = q <=> AnswerAt(1, q)
    BY <1>2 DEF AnswerAt
  <2>3. \A n \in 1..Len(toServer') : AnswerAt(n, q)' => n + 1 \in 1..Len(toServer) /\ AnswerAt(n + 1, q)
    BY <1>2, <1>4
  <2>4. \A n, k \in 1..Len(toServer') : AnswerAt(n, q)' /\ AnswerAt(k, q)' => n = k
    <3>. SUFFICES ASSUME NEW n \in 1..Len(toServer'), NEW k \in 1..Len(toServer'),
                         AnswerAt(n, q)', AnswerAt(k, q)'
                  PROVE  n = k
      OBVIOUS
    <3>1. n + 1 = k + 1
      BY <2>1, <2>3 DEF OneAnswerOf
    <3>2. n \in Int /\ k \in Int
      OBVIOUS
    <3>. QED BY <3>1, <3>2
  <2>5. CASE AnswerAt(1, q)
    <3>1. /\ asks[q] = "asked" /\ q \notin open
          /\ \A k \in 1..Len(toPool) : ~AskAt(k, q)
          /\ \A k \in 1..Len(toServer) : AnswerAt(k, q) => k = 1
          /\ \A c \in Clients : <<c, q>> \notin answering
      BY <2>1, <2>5, <1>2 DEF OneAnswerOf
    <3>2. asks'[q] = "answered"
      BY <1>5, <2>2, <2>5, <3>1 DEF Inv, Typed
    <3>3. \A n \in 1..Len(toServer') : ~AnswerAt(n, q)'
      BY <2>3, <3>1, <1>2
    <3>4. \A n \in 1..Len(toPool') : ~AskAt(n, q)'
      BY <1>8, <3>1
    <3>. QED BY <1>1, <3>1, <3>2, <3>3, <3>4 DEF OneAnswerOf
  <2>6. CASE ~AnswerAt(1, q)
    <3>1. asks'[q] = asks[q]
      BY <1>5, <2>2, <2>6 DEF Inv, Typed
    <3>. QED BY <1>1, <1>8, <2>1, <2>3, <2>4, <3>1 DEF OneAnswerOf
  <2>. QED BY <2>5, <2>6
<1>. QED BY <1>10, <1>11, <1>12 DEF Inv

LEMMA AskStep ==
  ASSUME Inv, NEW q \in Asks, Ask(q)
  PROVE  Inv'
<1>1. /\ UNCHANGED <<toServer, served, answering, init, routes, state, open, responders>>
      /\ asks[q] = "unsent" /\ asks' = [asks EXCEPT ![q] = "asked"]
      /\ toPool' = Append(toPool, [type |-> "ask", of |-> q])
  BY DEF Ask, messageVars, poolVars
<1>2. [type |-> "ask", of |-> q] \in PoolItems
  BY DEF PoolItems
<1>3. /\ toPool' \in Seq(PoolItems)
      /\ \A n \in 1..Len(toPool') :
           \/ n = Len(toPool') /\ n = Len(toPool) + 1 /\ toPool'[n] = [type |-> "ask", of |-> q]
           \/ n \in 1..Len(toPool) /\ toPool'[n] = toPool[n]
  BY <1>1, <1>2, AppendPositions DEF Inv, Typed
<1>4. Typed'
  BY <1>1, <1>3 DEF Inv, Typed, AskStates
<1>5. OneInitialize'
  BY <1>1, InitializeKept DEF Inv
<1>6. OneAnswer'
  <2>. SUFFICES ASSUME NEW p \in Asks PROVE OneAnswerOf(p)'
    BY DEF OneAnswer
  <2>1. OneAnswerOf(p)
    BY DEF Inv, OneAnswer
  <2>2. \A n \in 1..Len(toPool') :
          AskAt(n, p)' => (n \in 1..Len(toPool) /\ AskAt(n, p)) \/ (p = q /\ n = Len(toPool'))
    BY <1>3 DEF AskAt
  <2>3. \A n : AnswerAt(n, p)' = AnswerAt(n, p)
    BY <1>1 DEF AnswerAt
  <2>4. CASE p = q
    <3>1. /\ asks'[p] = "asked" /\ p \notin open /\ \A c \in Clients : <<c, p>> \notin answering
          /\ \A n \in 1..Len(toPool) : ~AskAt(n, p)
          /\ \A n \in 1..Len(toServer) : ~AnswerAt(n, p)
      BY <1>1, <2>1, <2>4 DEF OneAnswerOf, Inv, Typed
    <3>. QED BY <1>1, <2>2, <2>3, <3>1 DEF OneAnswerOf
  <2>5. CASE p # q
    <3>1. asks'[p] = asks[p]
      BY <1>1, <2>5 DEF Inv, Typed
    <3>. QED BY <1>1, <2>1, <2>2, <2>3, <2>5, <3>1 DEF OneAnswerOf
  <2>. QED BY <2>4, <2>5
<1>. QED BY <1>4, <1>5, <1>6 DEF Inv

\* What the stream from the server loses by a step of route_inbound
LEMMA PoolTail ==
  ASSUME Inv, toPool # <<>>, toPool' = Tail(toPool)
  PROVE  /\ toPool' \in Seq(PoolItems)
         /\ 1 \in 1..Len(toPool) /\ Head(toPool) = toPool[1] /\ Head(toPool) \in PoolItems
         /\ \A n \in 1..Len(toPool') : n + 1 \in 1..Len(toPool) /\ n + 1 # 1
         /\ \A q \in Asks, n \in 1..Len(toPool') : AskAt(n, q)' => AskAt(n + 1, q)
         /\ \A q \in Asks, n, k \in 1..Len(toPool') : AskAt(n, q)' /\ AskAt(k, q)' => n = k
<1>1. /\ toPool' \in Seq(PoolItems)
      /\ 1 \in 1..Len(toPool) /\ Head(toPool) = toPool[1] /\ Head(toPool) \in PoolItems
      /\ \A n \in 1..Len(toPool') : n + 1 \in 1..Len(toPool) /\ n + 1 # 1 /\ toPool'[n] = toPool[n + 1]
  BY TailPositions DEF Inv, Typed
<1>2. \A q \in Asks, n \in 1..Len(toPool') : AskAt(n, q)' => AskAt(n + 1, q)
  BY <1>1 DEF AskAt
<1>3. ASSUME NEW q \in Asks, NEW n \in 1..Len(toPool'), NEW k \in 1..Len(toPool'),
             AskAt(n, q)', AskAt(k, q)'
      PROVE  n = k
  <2>1. OneAnswerOf(q)
    BY DEF Inv, OneAnswer
  <2>2. n + 1 = k + 1
    BY <1>1, <1>2, <1>3, <2>1 DEF OneAnswerOf
  <2>3. n \in Int /\ k \in Int
    OBVIOUS
  <2>. QED BY <2>2, <2>3
<1>. QED BY <1>1, <1>2, <1>3

LEMMA RouteReplyStep ==
  ASSUME Inv, RouteInitialize \/ RouteReply
  PROVE  Inv'
<1>1. /\ UNCHANGED <<toServer, served, answering, asks, open, responders>>
      /\ toPool # <<>> /\ toPool' = Tail(toPool) /\ routes' \subseteq routes
  BY DEF RouteInitialize, RouteReply, Arrives, serverVars
<1>2. /\ state' \in [Messages -> MessageStates]
      /\ \A l \in Messages : InitPrepared(l)' => InitPrepared(l)
  BY DEF RouteInitialize, RouteReply, Deliver, InitPrepared, MessageStates, Inv, Typed
<1>3. \/ UNCHANGED init
      \/ /\ init.state = "inFlight" /\ init'.state \in {"ready", "failed"} /\ init'.primary = Nobody
         /\ init' = [state |-> init'.state, primary |-> Nobody, waiters |-> {}]
         /\ routes' = routes \ {init.primary}
  BY DEF RouteInitialize, RouteReply
<1>4. init' \in [state : {"awaiting", "inFlight", "ready", "failed"},
                 primary : Messages \cup {Nobody}, waiters : SUBSET Messages]
  BY <1>3 DEF Inv, Typed
<1>5. Typed'
  BY <1>1, <1>2, <1>4, PoolTail DEF Inv, Typed
<1>6. OneInitialize'
  <2>1. \A n : InitAt(n)' = InitAt(n)
    BY <1>1 DEF InitAt
  <2>. QED BY <1>1, <1>2, <1>3, <2>1 DEF Inv, OneInitialize
<1>7. OneAnswer'
  <2>. SUFFICES ASSUME NEW q \in Asks PROVE OneAnswerOf(q)'
    BY DEF OneAnswer
  <2>1. OneAnswerOf(q)
    BY DEF Inv, OneAnswer
  <2>2. \A n : AnswerAt(n, q)' = AnswerAt(n, q)
    BY <1>1 DEF AnswerAt
  <2>. QED BY <1>1, <2>1, <2>2, PoolTail DEF OneAnswerOf
<1>. QED BY <1>5, <1>6, <1>7 DEF Inv

LEMMA RouteAskStep ==
  ASSUME Inv, RouteAsk
  PROVE  Inv'
<1>. DEFINE q == Head(toPool).of
<1>1. /\ UNCHANGED <<toServer, served, answering, asks, init, routes, state>>
      /\ toPool # <<>> /\ toPool' = Tail(toPool) /\ Head(toPool).type = "ask"
      /\ open' = open \cup {q}
      /\ responders' = [responders EXCEPT ![q] = {c \in Attached : AskThread[q] \in subscribed[c]}]
  BY DEF RouteAsk, Arrives, serverVars, messageVars
<1>2. q \in Asks /\ AskAt(1, q)
  BY <1>1, PoolTail DEF PoolItems, AskAt
<1>3. responders' \in [Asks -> SUBSET Clients]
  BY <1>1, <1>2 DEF Inv, Typed, Attached
<1>4. Typed'
  BY <1>1, <1>2, <1>3, PoolTail DEF Inv, Typed
<1>5. OneInitialize'
  BY <1>1, InitializeKept DEF Inv
<1>6. OneAnswer'
  <2>. SUFFICES ASSUME NEW p \in Asks PROVE OneAnswerOf(p)'
    BY DEF OneAnswer
  <2>1. OneAnswerOf(p)
    BY DEF Inv, OneAnswer
  <2>2. \A n : AnswerAt(n, p)' = AnswerAt(n, p)
    BY <1>1 DEF AnswerAt
  <2>3. p = q => /\ asks[p] = "asked" /\ \A n \in 1..Len(toPool') : ~AskAt(n, p)'
                 /\ \A c \in Clients : <<c, p>> \notin answering
                 /\ \A n \in 1..Len(toServer) : ~AnswerAt(n, p)
    BY <1>1, <1>2, <2>1, PoolTail DEF OneAnswerOf
  <2>. QED BY <1>1, <2>1, <2>2, <2>3, PoolTail DEF OneAnswerOf
<1>. QED BY <1>4, <1>5, <1>6 DEF Inv

\* The invariant is inductive: whatever connections, the server and the transport
\* do next, one initialize and one answer per request stay on their way.
THEOREM Invariance == Spec => []Inv
<1>1. Inv /\ [Next]_vars => Inv'
  <2>. SUFFICES ASSUME Inv, [Next]_vars PROVE Inv'
    OBVIOUS
  <2>1. CASE UNCHANGED vars
    <3>1. UNCHANGED <<toServer, toPool, served, answering, asks, init, routes, state, open,
                      responders>>
      BY <2>1 DEF vars, poolVars, clientVars, messageVars, wireVars, serverVars
    <3>2. Typed'
      BY <3>1 DEF Inv, Typed
    <3>. QED BY <3>1, <3>2, InitializeKept, AnswerKept DEF Inv
  <2>2. CASE ClientNext
    BY <2>2, ClientStep, AnswerStep, EnqueueAnswerStep DEF ClientNext
  <2>3. CASE SendNext
    BY <2>3, ClientStep, PrepareStep, EnqueueStep DEF SendNext
  <2>4. CASE ServerNext
    BY <2>4, ServeStep, AskStep DEF ServerNext
  <2>5. CASE RouteNext
    BY <2>5, RouteReplyStep, RouteAskStep DEF RouteNext
  <2>. QED BY <2>1, <2>2, <2>3, <2>4, <2>5 DEF Next
<1>. QED BY <1>1, InitInv, PTL DEF Spec

-----------------------------------------------------------------------------
(* Where the subscriptions are                                             *)

\* Where the entry of this type and subject is in a stream
At(stream, n, type, m) == stream[n].type = type /\ stream[n].of = m
In(stream, type, m) == \E n \in 1..Len(stream) : At(stream, n, type, m)
Once(stream, type, m) ==
  \A n, k \in 1..Len(stream) : At(stream, n, type, m) /\ At(stream, k, type, m) => n = k

Threaded == {m \in Messages : Kind(m) \in {"resume", "unsubscribe"}}

ToServer(m) == In(toServer, "message", m)
ToPool(m) == In(toPool, "reply", m)
OnTheWay(m) == state[m] = "prepared" \/ ToServer(m) \/ ToPool(m)

\* A request about a thread makes one journey to the server and back, and the pool
\* remembers who waits for it until that connection goes.
Journey(m) ==
  /\ state[m] # "sent" => ~ToServer(m) /\ ~ToPool(m)
  /\ ToServer(m) => ~ToPool(m)
  /\ Once(toServer, "message", m) /\ Once(toPool, "reply", m)
  /\ OnTheWay(m) /\ phase[ClientOf(m)] # "gone" => m \in routes

OneJourney == \A m \in Threaded : Journey(m)

\* Only a connection that is there has subscriptions and requests under way.
Present ==
  /\ phase \in [Clients -> Phases] /\ subscribed \in [Clients -> SUBSET Threads]
  /\ \A m \in routes : phase[ClientOf(m)] = "attached"
  /\ \A c \in Clients : subscribed[c] # {} => phase[c] = "attached"
  /\ \A m \in init.waiters : Kind(m) = "initialize"
  /\ init.primary # Nobody => Kind(init.primary) = "initialize"

\* A reply that makes its connection a subscriber of the thread
Confirms(reply, t) ==
  /\ reply.type = "reply" /\ ThreadOf(reply.of) = t
  /\ (Kind(reply.of) = "resume" /\ reply.ok) \/ (Kind(reply.of) = "unsubscribe" /\ ~reply.ok)

Leaving(m, t) ==
  Kind(m) = "unsubscribe" /\ ThreadOf(m) = t /\ (state[m] = "prepared" \/ ToServer(m))

\* Somebody subscribes to the thread, or is about to, or the server is about to be
\* told that nobody does.
Known(t) ==
  \/ \E c \in Clients : t \in subscribed[c]
  \/ \E m \in Messages : Leaving(m, t)
  \/ \E n \in 1..Len(toPool) : Confirms(toPool[n], t)

KnownOrPending ==
  (\A c \in Clients : phase[c] # "gone") => \A t \in served.threads : Known(t)

SubscribedInv == Present /\ OneJourney /\ KnownOrPending

LEMMA EntryAppended ==
  ASSUME NEW S, NEW s \in Seq(S), NEW e \in S, NEW t, t = Append(s, e), NEW type, NEW m
  PROVE  /\ In(t, type, m) <=> In(s, type, m) \/ (e.type = type /\ e.of = m)
         /\ Once(s, type, m) /\ ~(In(s, type, m) /\ e.type = type /\ e.of = m) => Once(t, type, m)
<1>1. /\ Len(t) = Len(s) + 1 /\ Len(s) \in Nat /\ t[Len(s) + 1] = e
      /\ \A n \in 1..Len(s) : t[n] = s[n]
  OBVIOUS
<1>2. \A n \in 1..Len(t) : n \in 1..Len(s) \/ n = Len(s) + 1 BY <1>1
<1>3. \A n \in 1..Len(s) : n \in 1..Len(t) BY <1>1
<1>4. Len(s) + 1 \in 1..Len(t) BY <1>1
<1>5. In(t, type, m) <=> In(s, type, m) \/ (e.type = type /\ e.of = m)
  BY <1>1, <1>2, <1>3, <1>4 DEF In, At
<1>6. ASSUME Once(s, type, m), ~(In(s, type, m) /\ e.type = type /\ e.of = m) PROVE Once(t, type, m)
  BY <1>1, <1>2, <1>6 DEF In, Once, At
<1>. QED BY <1>5, <1>6

LEMMA EntryTaken ==
  ASSUME NEW S, NEW s \in Seq(S), s # <<>>, NEW t, t = Tail(s), NEW type, NEW m
  PROVE  /\ In(s, type, m) <=> In(t, type, m) \/ (Head(s).type = type /\ Head(s).of = m)
         /\ Once(s, type, m) => /\ Once(t, type, m)
                                /\ ~(In(t, type, m) /\ Head(s).type = type /\ Head(s).of = m)
<1>1. /\ 1 \in 1..Len(s) /\ Head(s) = s[1]
      /\ \A n \in 1..Len(t) : n \in Nat /\ n + 1 \in 1..Len(s) /\ n + 1 # 1 /\ t[n] = s[n + 1]
  OBVIOUS
<1>2. \A n \in 1..Len(s) : n = 1 \/ \E k \in 1..Len(t) : n = k + 1
  <2>. TAKE n \in 1..Len(s)
  <2>1. n # 1 => n - 1 \in 1..Len(t) /\ n = (n - 1) + 1 OBVIOUS
  <2>. QED BY <2>1
<1>3. In(s, type, m) <=> In(t, type, m) \/ (Head(s).type = type /\ Head(s).of = m)
  <2>1. ASSUME In(s, type, m) PROVE In(t, type, m) \/ (Head(s).type = type /\ Head(s).of = m)
    <3>1. PICK n \in 1..Len(s) : At(s, n, type, m) BY <2>1 DEF In
    <3>2. CASE n = 1 BY <1>1, <3>1, <3>2 DEF At
    <3>3. CASE \E k \in 1..Len(t) : n = k + 1
      <4>1. PICK k \in 1..Len(t) : n = k + 1 BY <3>3
      <4>2. At(t, k, type, m) BY <1>1, <3>1, <4>1 DEF At
      <4>. QED BY <4>1, <4>2 DEF In
    <3>. QED BY <1>2, <3>2, <3>3
  <2>2. ASSUME In(t, type, m) PROVE In(s, type, m)
    <3>1. PICK k \in 1..Len(t) : At(t, k, type, m) BY <2>2 DEF In
    <3>2. k + 1 \in 1..Len(s) /\ At(s, k + 1, type, m) BY <1>1, <3>1 DEF At
    <3>. QED BY <3>2 DEF In
  <2>3. ASSUME Head(s).type = type, Head(s).of = m PROVE In(s, type, m)
    BY <1>1, <2>3 DEF In, At
  <2>. QED BY <2>1, <2>2, <2>3
<1>4. ASSUME Once(s, type, m)
      PROVE  /\ Once(t, type, m)
             /\ ~(In(t, type, m) /\ Head(s).type = type /\ Head(s).of = m)
  <2>1. \A n, k \in 1..Len(t) : At(t, n, type, m) /\ At(t, k, type, m) => n + 1 = k + 1
    BY <1>1, <1>4 DEF Once, At
  <2>2. Once(t, type, m) BY <1>1, <2>1 DEF Once
  <2>3. ~(In(t, type, m) /\ Head(s).type = type /\ Head(s).of = m) BY <1>1, <1>4 DEF In, Once, At
  <2>. QED BY <2>2, <2>3
<1>. QED BY <1>3, <1>4

\* Steps that leave the streams alone
LEMMA JourneyKept ==
  ASSUME OneJourney, UNCHANGED <<toServer, toPool>>,
         \A m \in Threaded :
           /\ state'[m] = state[m]
              \/ (state[m] # "sent" /\ state'[m] # "sent" /\ (state'[m] = "prepared" => m \in routes'))
           /\ phase'[ClientOf(m)] # "gone" => phase[ClientOf(m)] # "gone" /\ (m \in routes => m \in routes')
  PROVE  OneJourney'
<1>. SUFFICES ASSUME NEW m \in Threaded PROVE Journey(m)' BY DEF OneJourney
<1>1. Journey(m) BY DEF OneJourney
<1>2. ToServer(m)' = ToServer(m) /\ ToPool(m)' = ToPool(m)
  BY DEF ToServer, ToPool, In, At
<1>3. Once(toServer, "message", m)' = Once(toServer, "message", m)
      /\ Once(toPool, "reply", m)' = Once(toPool, "reply", m)
  BY DEF Once, At
<1>. QED BY <1>1, <1>2, <1>3 DEF Journey, OnTheWay

LEMMA KnownKept ==
  ASSUME KnownOrPending, UNCHANGED <<toServer, toPool, served>>,
         \A c \in Clients : phase'[c] # "gone" => phase[c] # "gone" /\ subscribed[c] \subseteq subscribed'[c],
         \A m \in Messages : Kind(m) = "unsubscribe" /\ state[m] = "prepared" => state'[m] = "prepared"
  PROVE  KnownOrPending'
<1>. SUFFICES ASSUME \A c \in Clients : phase'[c] # "gone", NEW t \in served.threads PROVE Known(t)'
  BY DEF KnownOrPending
<1>1. Known(t) BY DEF KnownOrPending
<1>2. \A m : ToServer(m)' = ToServer(m) BY DEF ToServer, In, At
<1>3. \A m \in Messages : Leaving(m, t) => Leaving(m, t)' BY <1>2 DEF Leaving
<1>4. (\E n \in 1..Len(toPool) : Confirms(toPool[n], t)) => (\E n \in 1..Len(toPool) : Confirms(toPool[n], t))'
  BY DEF Confirms
<1>. QED BY <1>1, <1>3, <1>4 DEF Known

LEMMA SubscribedClientStep ==
  ASSUME Inv, SubscribedInv,
         \/ UNCHANGED vars
         \/ \E c \in Clients : Attach(c) \/ Detach(c)
         \/ \E m \in Messages : Issue(m) \/ PrepareRefused(m)
         \/ \E m \in Messages : PrepareInitialize(m) \/ PrepareInitialized(m) \/ PrepareResume(m)
         \/ \E c \in Clients, q \in Asks : Answer(c, q)
  PROVE  SubscribedInv'
<1>1. UNCHANGED <<toServer, toPool, served>>
  BY DEF vars, wireVars, serverVars, Attach, Detach, Issue, PrepareRefused, PrepareInitialize, PrepareInitialized,
         PrepareResume, Answer
<1>2. ASSUME \/ UNCHANGED vars
             \/ \E c \in Clients, q \in Asks : Answer(c, q)
             \/ \E m \in Messages : Issue(m) \/ PrepareRefused(m) \/ PrepareInitialized(m) \/ PrepareResume(m)
      PROVE  SubscribedInv'
  <2>1. UNCHANGED <<phase, subscribed, init>>
    <3>1. CASE UNCHANGED vars BY <3>1 DEF vars, poolVars, clientVars
    <3>2. CASE \E c \in Clients, q \in Asks : Answer(c, q) BY <3>2 DEF Answer
    <3>3. ASSUME NEW m \in Messages, Issue(m) \/ PrepareRefused(m) PROVE UNCHANGED <<phase, subscribed, init>>
      BY <3>3 DEF Issue, PrepareRefused, poolVars, clientVars
    <3>4. ASSUME NEW m \in Messages, PrepareInitialized(m) \/ PrepareResume(m)
          PROVE  UNCHANGED <<phase, subscribed, init>>
      BY <3>4 DEF PrepareInitialized, PrepareResume, clientVars
    <3>. QED BY <1>2, <3>1, <3>2, <3>3, <3>4
  <2>2. \/ state' = state /\ routes' = routes
        \/ \E m \in Messages :
             /\ state[m] \in {"unissued", "issued"}
             /\ \/ routes' = routes /\ state' \in {[state EXCEPT ![m] = "issued"], [state EXCEPT ![m] = "refused"]}
                \/ /\ routes' = routes /\ Kind(m) = "initialized"
                   /\ state' \in {[state EXCEPT ![m] = "suppressed"], [state EXCEPT ![m] = "prepared"]}
                \/ /\ phase[ClientOf(m)] = "attached" /\ routes' = routes \cup {m}
                   /\ state' = [state EXCEPT ![m] = "prepared"]
    <3>1. CASE UNCHANGED vars \/ \E c \in Clients, q \in Asks : Answer(c, q)
      BY <3>1 DEF vars, poolVars, messageVars, Answer
    <3>2. ASSUME NEW m \in Messages,
                 Issue(m) \/ PrepareRefused(m) \/ PrepareInitialized(m) \/ PrepareResume(m)
          PROVE  /\ state[m] \in {"unissued", "issued"}
                 /\ \/ routes' = routes /\ state' \in {[state EXCEPT ![m] = "issued"], [state EXCEPT ![m] = "refused"]}
                    \/ /\ routes' = routes /\ Kind(m) = "initialized"
                       /\ state' \in {[state EXCEPT ![m] = "suppressed"], [state EXCEPT ![m] = "prepared"]}
                    \/ /\ phase[ClientOf(m)] = "attached" /\ routes' = routes \cup {m}
                       /\ state' = [state EXCEPT ![m] = "prepared"]
      BY <3>2 DEF Issue, PrepareRefused, PrepareInitialized, PrepareResume, Preparing, Becomes, Forward, poolVars
    <3>. QED BY <1>2, <3>1, <3>2
  <2>3. routes \subseteq routes'
        /\ \A m \in routes' : m \in routes \/ phase[ClientOf(m)] = "attached"
    BY <2>2
  <2>4. Present' BY <2>1, <2>3 DEF SubscribedInv, Present
  <2>5. ASSUME NEW m \in Messages
        PROVE  \/ state'[m] = state[m]
               \/ /\ state[m] \in {"unissued", "issued"} /\ state'[m] # "sent"
                  /\ Kind(m) # "initialized" /\ state'[m] = "prepared" => m \in routes'
    BY <2>2 DEF Inv, Typed
  <2>6. OneJourney'
    BY <1>1, <2>1, <2>3, <2>5, JourneyKept DEF SubscribedInv, Threaded
  <2>7. KnownOrPending'
    BY <1>1, <2>1, <2>5, KnownKept DEF SubscribedInv
  <2>. QED BY <2>4, <2>6, <2>7 DEF SubscribedInv
<1>3. ASSUME NEW m \in Messages, PrepareInitialize(m) PROVE SubscribedInv'
  <2>1. /\ UNCHANGED <<phase, subscribed>> /\ Kind(m) = "initialize" /\ phase[ClientOf(m)] = "attached"
        /\ routes' = routes \/ routes' = routes \cup {m}
        /\ \A l \in Messages : l # m => state'[l] = state[l]
    BY <1>3 DEF PrepareInitialize, Preparing, Synthetic, Becomes, Forward, clientVars, Inv, Typed
  <2>2. /\ \A l \in init'.waiters : Kind(l) = "initialize"
        /\ init'.primary # Nobody => Kind(init'.primary) = "initialize"
    <3>1. \/ init' = init
          \/ init' = [init EXCEPT !.waiters = @ \cup {m}]
          \/ init' = [state |-> "inFlight", primary |-> m, waiters |-> {}]
      BY <1>3 DEF PrepareInitialize
    <3>2. \/ init' = init
          \/ init'.waiters = init.waiters \cup {m} /\ init'.primary = init.primary
          \/ init'.primary = m /\ init'.waiters = {}
      BY <3>1 DEF Inv, Typed
    <3>. QED BY <2>1, <3>2 DEF SubscribedInv, Present
  <2>3. Present' BY <2>1, <2>2 DEF SubscribedInv, Present
  <2>4. OneJourney'
    BY <1>1, <2>1, JourneyKept DEF SubscribedInv, Threaded
  <2>5. KnownOrPending'
    BY <1>1, <2>1, KnownKept DEF SubscribedInv
  <2>. QED BY <2>3, <2>4, <2>5 DEF SubscribedInv
<1>4. ASSUME NEW c \in Clients, Attach(c) PROVE SubscribedInv'
  <2>1. /\ UNCHANGED <<subscribed, init, routes, state>> /\ phase' = [phase EXCEPT ![c] = "attached"]
        /\ phase[c] = "away"
    BY <1>4 DEF Attach, poolVars, messageVars
  <2>2. Present'
    <3>1. phase' \in [Clients -> Phases] BY <2>1 DEF SubscribedInv, Present, Phases
    <3>2. \A d \in Clients : phase[d] = "attached" => phase'[d] = "attached"
      BY <2>1 DEF SubscribedInv, Present
    <3>3. \A m \in Messages : ClientOf(m) \in Clients BY DEF Messages, ClientOf
    <3>. QED BY <2>1, <3>1, <3>2, <3>3 DEF SubscribedInv, Present, Inv, Typed
  <2>3. \A d : phase'[d] # "gone" => phase[d] # "gone" \/ d \notin Clients
    BY <2>1 DEF SubscribedInv, Present
  <2>4. \A m \in Threaded : ClientOf(m) \in Clients BY DEF Threaded, Messages, ClientOf
  <2>5. OneJourney' BY <1>1, <2>1, <2>3, <2>4, JourneyKept DEF SubscribedInv
  <2>6. KnownOrPending' BY <1>1, <2>1, <2>3, KnownKept DEF SubscribedInv
  <2>. QED BY <2>2, <2>5, <2>6 DEF SubscribedInv
<1>5. ASSUME NEW c \in Clients, Detach(c) PROVE SubscribedInv'
  <2>1. /\ UNCHANGED <<init, state>> /\ phase' = [phase EXCEPT ![c] = "gone"] /\ phase[c] = "attached"
        /\ subscribed' = [subscribed EXCEPT ![c] = {}]
        /\ routes' = {m \in routes : ClientOf(m) # c}
    BY <1>5 DEF Detach, InitAfter, RoutesAfter, messageVars
  <2>2. \A m \in Messages : ClientOf(m) \in Clients BY DEF Messages, ClientOf
  <2>3. \A d \in Clients : (d # c => phase'[d] = phase[d]) /\ (d = c => phase'[d] = "gone")
    BY <2>1 DEF SubscribedInv, Present
  <2>4. Present'
    <3>1. phase' \in [Clients -> Phases] /\ subscribed' \in [Clients -> SUBSET Threads]
      BY <2>1 DEF SubscribedInv, Present, Phases
    <3>2. \A d \in Clients : subscribed'[d] # {} => phase'[d] = "attached"
      BY <2>1, <2>3 DEF SubscribedInv, Present
    <3>3. \A m \in routes' : phase'[ClientOf(m)] = "attached"
      BY <2>1, <2>2, <2>3 DEF SubscribedInv, Present, Inv, Typed
    <3>. QED BY <2>1, <3>1, <3>2, <3>3 DEF SubscribedInv, Present
  <2>5. OneJourney'
    BY <1>1, <2>1, <2>2, <2>3, JourneyKept DEF SubscribedInv, Threaded
  <2>6. KnownOrPending' BY <2>3 DEF KnownOrPending
  <2>. QED BY <2>4, <2>5, <2>6 DEF SubscribedInv
<1>. QED BY <1>2, <1>3, <1>4, <1>5

\* The last subscriber leaves by a message to the server, any other one while there
\* is another.
LEMMA SubscribedLeaveStep ==
  ASSUME Inv, SubscribedInv, NEW m \in Messages, PrepareUnsubscribe(m)
  PROVE  SubscribedInv'
<1>. DEFINE c == ClientOf(m)
            t == ThreadOf(m)
            last == t \in subscribed[c] /\ \A d \in Clients \ {c} : t \notin subscribed[d]
<1>1. /\ UNCHANGED <<toServer, toPool, served, phase, init>>
      /\ state[m] = "issued" /\ phase[c] = "attached" /\ Kind(m) = "unsubscribe"
      /\ subscribed' = [subscribed EXCEPT ![c] = @ \ {t}]
      /\ routes' = IF last THEN routes \cup {m} ELSE routes
      /\ state' = [state EXCEPT ![m] = IF last THEN "prepared" ELSE "answered"]
  BY DEF PrepareUnsubscribe, Preparing, RouteOfUnsubscribe, Forward, Synthetic, wireVars, serverVars, clientVars
<1>2. c \in Clients BY DEF Messages, ClientOf
<1>3. \A l \in Messages : l # m => state'[l] = state[l] BY <1>1
<1>4. state'[m] = IF last THEN "prepared" ELSE "answered" BY <1>1 DEF Inv, Typed
<1>. HIDE DEF c, t
<1>5. Present'
  <2>1. subscribed' \in [Clients -> SUBSET Threads] BY <1>1, <1>2 DEF SubscribedInv, Present
  <2>2. \A d \in Clients : subscribed'[d] \subseteq subscribed[d] BY <1>1, <1>2 DEF SubscribedInv, Present
  <2>3. \A l \in routes' : l \in routes \/ l = m BY <1>1
  <2>4. \A l \in routes' : phase[ClientOf(l)] = "attached" BY <1>1, <2>3 DEF SubscribedInv, Present, c
  <2>. QED BY <1>1, <2>1, <2>2, <2>4 DEF SubscribedInv, Present
<1>6. OneJourney'
  <2>1. \A l \in Threaded :
           /\ state'[l] = state[l]
              \/ (state[l] # "sent" /\ state'[l] # "sent" /\ (state'[l] = "prepared" => l \in routes'))
           /\ l \in routes => l \in routes'
    BY <1>1, <1>3, <1>4 DEF Threaded
  <2>. QED BY <1>1, <2>1, JourneyKept DEF SubscribedInv
<1>7. KnownOrPending'
  <2>. SUFFICES ASSUME \A d \in Clients : phase[d] # "gone", NEW u \in served.threads PROVE Known(u)'
    BY <1>1 DEF KnownOrPending
  <2>1. Known(u) BY DEF SubscribedInv, KnownOrPending
  <2>2. \A l : ToServer(l)' = ToServer(l) BY <1>1 DEF ToServer, In, At
  <2>3. ASSUME NEW l \in Messages, Leaving(l, u) PROVE Leaving(l, u)'
    <3>1. l # m
      <4>1. m \in Threaded BY <1>1 DEF Threaded
      <4>2. ~ToServer(m) BY <1>1, <4>1 DEF SubscribedInv, OneJourney, Journey
      <4>. QED BY <1>1, <2>3, <4>2 DEF Leaving
    <3>. QED BY <1>3, <2>2, <2>3, <3>1 DEF Leaving
  <2>4. (\E n \in 1..Len(toPool) : Confirms(toPool[n], u)) => (\E n \in 1..Len(toPool) : Confirms(toPool[n], u))'
    BY <1>1 DEF Confirms
  <2>5. ASSUME NEW d \in Clients, u \in subscribed[d] PROVE Known(u)'
    <3>1. CASE u \in subscribed'[d] BY <3>1 DEF Known
    <3>2. CASE u \notin subscribed'[d]
      <4>1. d = c /\ u = t BY <1>1, <1>2, <2>5, <3>2 DEF SubscribedInv, Present
      <4>2. CASE last
        <5>1. Leaving(m, u)' BY <1>1, <1>4, <4>1, <4>2 DEF Leaving, t
        <5>. QED BY <5>1 DEF Known
      <4>3. CASE ~last
        <5>1. PICK e \in Clients \ {c} : t \in subscribed[e] BY <2>5, <4>1, <4>3
        <5>2. t \in subscribed'[e] BY <1>1, <1>2, <5>1 DEF SubscribedInv, Present
        <5>. QED BY <4>1, <5>1, <5>2 DEF Known
      <4>. QED BY <4>2, <4>3
    <3>. QED BY <3>1, <3>2
  <2>. QED BY <2>1, <2>3, <2>4, <2>5 DEF Known
<1>. QED BY <1>5, <1>6, <1>7 DEF SubscribedInv

\* The confirmations in the stream to the pool when one entry comes or goes
LEMMA ConfirmAppended ==
  ASSUME NEW S, NEW s \in Seq(S), NEW e \in S, NEW r, r = Append(s, e), NEW t
  PROVE  (\E n \in 1..Len(r) : Confirms(r[n], t)) <=> (\E n \in 1..Len(s) : Confirms(s[n], t)) \/ Confirms(e, t)
<1>1. /\ \A n \in 1..Len(s) : n \in 1..Len(r) /\ r[n] = s[n]
      /\ Len(s) + 1 \in 1..Len(r) /\ r[Len(s) + 1] = e
      /\ \A n \in 1..Len(r) : n \in 1..Len(s) \/ n = Len(s) + 1
  OBVIOUS
<1>. QED BY <1>1

LEMMA ConfirmTaken ==
  ASSUME NEW S, NEW s \in Seq(S), s # <<>>, NEW r, r = Tail(s), NEW t
  PROVE  (\E n \in 1..Len(s) : Confirms(s[n], t)) => (\E n \in 1..Len(r) : Confirms(r[n], t)) \/ Confirms(Head(s), t)
<1>1. Head(s) = s[1] /\ \A n \in 1..Len(s) : n = 1 \/ (n - 1 \in 1..Len(r) /\ r[n - 1] = s[n])
  OBVIOUS
<1>. SUFFICES ASSUME NEW n \in 1..Len(s), Confirms(s[n], t)
     PROVE  (\E k \in 1..Len(r) : Confirms(r[k], t)) \/ Confirms(Head(s), t)
  OBVIOUS
<1>2. CASE n = 1 BY <1>1, <1>2
<1>3. CASE n # 1
  <2>1. PICK k : k = n - 1 OBVIOUS
  <2>. QED BY <1>1, <1>3, <2>1
<1>. QED BY <1>2, <1>3

\* What goes to the server comes behind everything that is on its way there.
LEMMA SubscribedEnqueueStep ==
  ASSUME Inv, SubscribedInv,
         \/ \E m \in Messages : Enqueue(m)
         \/ \E c \in Clients, q \in Asks : EnqueueAnswer(c, q)
  PROVE  SubscribedInv'
<1>1. /\ UNCHANGED <<phase, subscribed, init, routes, toPool, served>>
      /\ \E e \in ServerItems :
           /\ toServer' = Append(toServer, e)
           /\ \/ e.type = "answer" /\ state' = state
              \/ /\ e.type = "message" /\ state[e.of] = "prepared"
                 /\ state' = [state EXCEPT ![e.of] = "sent"]
  <2>1. ASSUME NEW m \in Messages, Enqueue(m)
        PROVE  /\ UNCHANGED <<phase, subscribed, init, routes, toPool, served>>
               /\ [type |-> "message", of |-> m] \in ServerItems
               /\ toServer' = Append(toServer, [type |-> "message", of |-> m])
               /\ state[m] = "prepared" /\ state' = [state EXCEPT ![m] = "sent"]
    BY <2>1 DEF Enqueue, Becomes, poolVars, clientVars, serverVars, ServerItems
  <2>2. ASSUME NEW c \in Clients, NEW q \in Asks, EnqueueAnswer(c, q)
        PROVE  /\ UNCHANGED <<phase, subscribed, init, routes, toPool, served>>
               /\ [type |-> "answer", of |-> q] \in ServerItems
               /\ toServer' = Append(toServer, [type |-> "answer", of |-> q]) /\ state' = state
    BY <2>2 DEF EnqueueAnswer, poolVars, clientVars, messageVars, serverVars, ServerItems
  <2>. QED BY <2>1, <2>2
<1>2. PICK e \in ServerItems :
        /\ toServer' = Append(toServer, e)
        /\ \/ e.type = "answer" /\ state' = state
           \/ /\ e.type = "message" /\ state[e.of] = "prepared"
              /\ state' = [state EXCEPT ![e.of] = "sent"]
  BY <1>1
<1>3. toServer \in Seq(ServerItems) BY DEF Inv, Typed
<1>4. ASSUME NEW l
      PROVE  /\ ToServer(l)' <=> ToServer(l) \/ (e.type = "message" /\ e.of = l)
             /\ ToPool(l)' = ToPool(l)
  <2>1. ToPool(l)' = ToPool(l) BY <1>1 DEF ToPool, In, At
  <2>2. In(toServer', "message", l) <=> In(toServer, "message", l) \/ (e.type = "message" /\ e.of = l)
    BY <1>2, <1>3, EntryAppended
  <2>. QED BY <2>1, <2>2 DEF ToServer
<1>5. ASSUME NEW l \in Messages
      PROVE  /\ e.type = "message" /\ e.of = l => state[l] = "prepared" /\ state'[l] = "sent"
             /\ ~(e.type = "message" /\ e.of = l) => state'[l] = state[l]
  BY <1>2 DEF Inv, Typed
<1>6. Present' BY <1>1 DEF SubscribedInv, Present
<1>7. OneJourney'
  <2>. SUFFICES ASSUME NEW l \in Threaded PROVE Journey(l)' BY DEF OneJourney
  <2>1. Journey(l) /\ l \in Messages BY DEF SubscribedInv, OneJourney, Threaded
  <2>2. Once(toPool, "reply", l)' = Once(toPool, "reply", l) BY <1>1 DEF Once, At
  <2>3. e.type = "message" /\ e.of = l => ~ToServer(l) BY <1>5, <2>1 DEF Journey
  <2>4. Once(toServer, "message", l)'
    BY <1>2, <1>3, <2>1, <2>3, EntryAppended DEF Journey, ToServer
  <2>. QED BY <1>1, <1>4, <1>5, <2>1, <2>2, <2>4 DEF Journey, OnTheWay
<1>8. KnownOrPending'
  <2>. SUFFICES ASSUME \A d \in Clients : phase[d] # "gone", NEW u \in served.threads PROVE Known(u)'
    BY <1>1 DEF KnownOrPending
  <2>1. Known(u) BY DEF SubscribedInv, KnownOrPending
  <2>2. \A l \in Messages : Leaving(l, u) => Leaving(l, u)' BY <1>4, <1>5 DEF Leaving
  <2>3. (\E n \in 1..Len(toPool) : Confirms(toPool[n], u)) => (\E n \in 1..Len(toPool) : Confirms(toPool[n], u))'
    BY <1>1 DEF Confirms
  <2>4. (\E c \in Clients : u \in subscribed[c]) => (\E c \in Clients : u \in subscribed[c])' BY <1>1
  <2>. QED BY <2>1, <2>2, <2>3, <2>4 DEF Known
<1>. QED BY <1>6, <1>7, <1>8 DEF SubscribedInv

\* The server takes a message and says in its reply what came of it.
LEMMA SubscribedServeStep ==
  ASSUME Inv, SubscribedInv, Serve
  PROVE  SubscribedInv'
<1>. DEFINE h == Head(toServer)
            reply(ok) == [type |-> "reply", of |-> h.of, ok |-> ok]
<1>1. /\ UNCHANGED <<phase, subscribed, init, routes, state>>
      /\ toServer # <<>> /\ toServer' = Tail(toServer)
  BY DEF Serve, poolVars, clientVars, messageVars
<1>2. toServer \in Seq(ServerItems) /\ toPool \in Seq(PoolItems) BY DEF Inv, Typed
<1>3. h \in ServerItems BY <1>1, <1>2
<1>4. h.type = "message" => h.of \in Messages /\ \A ok \in BOOLEAN : reply(ok) \in PoolItems
  BY <1>3, ProgramAssumption DEF ServerItems, PoolItems
<1>5. \/ /\ UNCHANGED <<toPool, served>>
         /\ h.type = "message" => Kind(h.of) \notin {"resume", "unsubscribe"}
      \/ /\ h.type = "message" /\ Kind(h.of) = "initialize" /\ served'.threads = served.threads
         /\ \E ok \in BOOLEAN : toPool' = Append(toPool, reply(ok))
      \/ /\ h.type = "message" /\ Kind(h.of) = "resume"
         /\ \/ toPool' = Append(toPool, reply(TRUE)) /\ served'.threads = served.threads \cup {ThreadOf(h.of)}
            \/ toPool' = Append(toPool, reply(FALSE)) /\ served'.threads = served.threads
      \/ /\ h.type = "message" /\ Kind(h.of) = "unsubscribe"
         /\ \/ toPool' = Append(toPool, reply(TRUE)) /\ served'.threads = served.threads \ {ThreadOf(h.of)}
            \/ toPool' = Append(toPool, reply(FALSE)) /\ served'.threads = served.threads
  BY <1>3 DEF Serve, Reply, Inv, Typed, ServerItems
<1>6. toPool' = toPool \/ (h.type = "message" /\ \E ok \in BOOLEAN : toPool' = Append(toPool, reply(ok)))
  BY <1>5
<1>7. h.type = "message" => ToServer(h.of)
  BY <1>1, <1>2, EntryTaken DEF ToServer
<1>8. ASSUME NEW l PROVE ToServer(l) <=> ToServer(l)' \/ (h.type = "message" /\ h.of = l)
  <2>1. In(toServer, "message", l) <=> In(toServer', "message", l) \/ (h.type = "message" /\ h.of = l)
    BY <1>1, <1>2, EntryTaken
  <2>. QED BY <2>1 DEF ToServer
<1>9. Present' BY <1>1 DEF SubscribedInv, Present
<1>. HIDE DEF h
<1>10. OneJourney'
  <2>. SUFFICES ASSUME NEW l \in Threaded PROVE Journey(l)' BY DEF OneJourney
  <2>1. Journey(l) BY DEF SubscribedInv, OneJourney
  <2>2. /\ ToPool(l)' => ToPool(l) \/ (h.type = "message" /\ h.of = l)
        /\ Once(toPool, "reply", l)'
    <3>1. CASE toPool' = toPool BY <2>1, <3>1 DEF Journey, ToPool, In, Once, At
    <3>2. ASSUME NEW ok \in BOOLEAN, h.type = "message", toPool' = Append(toPool, reply(ok))
          PROVE  /\ ToPool(l)' => ToPool(l) \/ (h.type = "message" /\ h.of = l)
                 /\ Once(toPool, "reply", l)'
      <4>1. PICK e \in PoolItems : e.type = "reply" /\ e.of = h.of /\ toPool' = Append(toPool, e)
        BY <1>4, <3>2
      <4>2. h.of = l => ~ToPool(l) BY <1>7, <2>1, <3>2 DEF Journey
      <4>3. In(toPool', "reply", l) <=> In(toPool, "reply", l) \/ (e.type = "reply" /\ e.of = l)
        BY <1>2, <4>1, EntryAppended
      <4>4. Once(toPool', "reply", l)
        BY <1>2, <2>1, <4>1, <4>2, EntryAppended DEF Journey, ToPool
      <4>. QED BY <3>2, <4>1, <4>3, <4>4 DEF ToPool
    <3>. QED BY <1>6, <3>1, <3>2
  <2>3. /\ Once(toServer, "message", l)'
        /\ h.type = "message" /\ h.of = l => ~ToServer(l)'
    BY <1>1, <1>2, <2>1, EntryTaken DEF Journey, ToServer, h
  <2>. QED BY <1>1, <1>8, <2>1, <2>2, <2>3 DEF Journey, OnTheWay
<1>11. KnownOrPending'
  <2>. SUFFICES ASSUME \A d \in Clients : phase[d] # "gone", NEW u \in served'.threads PROVE Known(u)'
    BY <1>1 DEF KnownOrPending
  <2>1. ASSUME NEW ok \in BOOLEAN, h.type = "message", toPool' = Append(toPool, reply(ok)),
               Confirms(reply(ok), u)
        PROVE  Known(u)'
    <3>1. \E n \in 1..Len(toPool') : Confirms(toPool'[n], u)
      BY <1>2, <1>4, <2>1, ConfirmAppended
    <3>2. (\E n \in 1..Len(toPool) : Confirms(toPool[n], u))' BY <3>1 DEF Confirms
    <3>. QED BY <3>2 DEF Known
  <2>2. CASE u \notin served.threads
    <3>1. /\ h.type = "message" /\ Kind(h.of) = "resume" /\ ThreadOf(h.of) = u
          /\ toPool' = Append(toPool, reply(TRUE))
      BY <1>5, <2>2
    <3>2. PICK e : e = reply(TRUE) OBVIOUS
    <3>3. e.type = "reply" /\ e.of = h.of /\ e.ok = TRUE BY <3>2
    <3>4. Confirms(e, u) BY <3>1, <3>3 DEF Confirms
    <3>. QED BY <2>1, <3>1, <3>2, <3>4
  <2>3. CASE u \in served.threads
    <3>1. Known(u) BY <2>3 DEF SubscribedInv, KnownOrPending
    <3>2. ASSUME NEW c \in Clients, u \in subscribed[c] PROVE Known(u)' BY <1>1, <3>2 DEF Known
    <3>3. ASSUME NEW l \in Messages, Leaving(l, u) PROVE Known(u)'
      <4>1. CASE h.type = "message" /\ h.of = l
        <5>1. toPool' = Append(toPool, reply(FALSE)) BY <1>5, <3>3, <4>1 DEF Leaving
        <5>2. Confirms(reply(FALSE), u) BY <3>3, <4>1 DEF Confirms, Leaving
        <5>. QED BY <2>1, <4>1, <5>1, <5>2
      <4>2. CASE ~(h.type = "message" /\ h.of = l)
        <5>1. Leaving(l, u)' BY <1>1, <1>8, <3>3, <4>2 DEF Leaving
        <5>. QED BY <5>1 DEF Known
      <4>. QED BY <4>1, <4>2
    <3>4. ASSUME \E n \in 1..Len(toPool) : Confirms(toPool[n], u) PROVE Known(u)'
      <4>1. \E n \in 1..Len(toPool') : Confirms(toPool'[n], u)
        <5>1. CASE toPool' = toPool BY <3>4, <5>1
        <5>2. ASSUME NEW e \in PoolItems, toPool' = Append(toPool, e)
              PROVE  \E n \in 1..Len(toPool') : Confirms(toPool'[n], u)
          BY <1>2, <3>4, <5>2, ConfirmAppended
        <5>3. toPool' = toPool \/ \E e \in PoolItems : toPool' = Append(toPool, e) BY <1>4, <1>6
        <5>. QED BY <5>1, <5>2, <5>3
      <4>2. (\E n \in 1..Len(toPool) : Confirms(toPool[n], u))' BY <4>1 DEF Confirms
      <4>. QED BY <4>2 DEF Known
    <3>. QED BY <3>1, <3>2, <3>3, <3>4 DEF Known
  <2>. QED BY <2>2, <2>3
<1>. QED BY <1>9, <1>10, <1>11 DEF SubscribedInv

\* A reply reaches the connection that asked, which is a subscriber of the thread
\* from then on when the reply confirms it.
LEMMA SubscribedReplyStep ==
  ASSUME Inv, SubscribedInv, RouteInitialize \/ RouteReply
  PROVE  SubscribedInv'
<1>. DEFINE h == Head(toPool)
            m == h.of
            given == {l \in (routes \cap {m}) \cup init.waiters : ClientOf(l) \in Attached}
<1>1. /\ UNCHANGED <<phase, toServer, served>>
      /\ toPool # <<>> /\ toPool' = Tail(toPool) /\ h.type = "reply" /\ routes' = routes \ {m}
  BY DEF RouteInitialize, RouteReply, Arrives, clientVars, serverVars
<1>2. toPool \in Seq(PoolItems) BY DEF Inv, Typed
<1>3. h \in PoolItems BY <1>1, <1>2
<1>4. m \in Messages /\ ClientOf(m) \in Clients
  <2>1. m \in Messages BY <1>1, <1>3 DEF PoolItems
  <2>. QED BY <2>1 DEF Messages, ClientOf
<1>5. ToPool(m) BY <1>1, <1>2, EntryTaken DEF ToPool
<1>6. ASSUME NEW l PROVE ToPool(l) <=> ToPool(l)' \/ m = l
  <2>1. In(toPool, "reply", l) <=> In(toPool', "reply", l) \/ (h.type = "reply" /\ h.of = l)
    BY <1>1, <1>2, EntryTaken
  <2>. QED BY <1>1, <2>1 DEF ToPool
<1>7. ASSUME NEW l PROVE ToServer(l)' = ToServer(l)
  BY <1>1 DEF ToServer, In, At
<1>8. /\ \/ Kind(m) = "initialize" /\ subscribed' = subscribed
            /\ init'.primary = Nobody /\ init'.waiters = {}
         \/ init' = init /\ subscribed' = IF m \in routes
              THEN [subscribed EXCEPT ![ClientOf(m)] = SubscribedAfter(m, h.ok)] ELSE subscribed
      /\ \A l \in Threaded : state'[l] = state[l] \/ (l = m /\ state'[l] = "answered")
  <2>1. CASE RouteInitialize
    <3>1. m = init.primary /\ m # Nobody BY <1>4, <2>1, ProgramAssumption DEF RouteInitialize
    <3>2. Kind(m) = "initialize" BY <3>1 DEF SubscribedInv, Present
    <3>3. \A l \in Messages : state'[l] = state[l] \/ l = m \/ l \in init.waiters
      BY <2>1 DEF RouteInitialize, Deliver
    <3>4. \A l \in Threaded : state'[l] = state[l]
      BY <3>2, <3>3 DEF Threaded, SubscribedInv, Present
    <3>5. init'.primary = Nobody /\ init'.waiters = {} /\ subscribed' = subscribed
      BY <2>1 DEF RouteInitialize
    <3>. QED BY <3>2, <3>4, <3>5
  <2>2. CASE RouteReply
    BY <2>2 DEF RouteReply, Deliver, Threaded
  <2>. QED BY <2>1, <2>2
<1>. HIDE DEF h, m, given
<1>9. \A c \in Clients : subscribed[c] \subseteq subscribed'[c]
  BY <1>4, <1>8 DEF SubscribedAfter, SubscribedInv, Present
<1>10. Present'
  <2>1. subscribed' \in [Clients -> SUBSET Threads]
    BY <1>4, <1>8, ThreadsOfMessages DEF SubscribedAfter, SubscribedInv, Present
  <2>2. \A c \in Clients : subscribed'[c] # {} => phase[c] = "attached"
    BY <1>4, <1>8 DEF SubscribedInv, Present
  <2>3. /\ \A l \in init'.waiters : Kind(l) = "initialize"
        /\ init'.primary # Nobody => Kind(init'.primary) = "initialize"
    BY <1>8 DEF SubscribedInv, Present
  <2>. QED BY <1>1, <2>1, <2>2, <2>3 DEF SubscribedInv, Present
<1>11. OneJourney'
  <2>. SUFFICES ASSUME NEW l \in Threaded PROVE Journey(l)' BY DEF OneJourney
  <2>1. Journey(l) BY DEF SubscribedInv, OneJourney
  <2>2. Once(toServer, "message", l)' BY <1>1, <2>1 DEF Journey, Once, At
  <2>3. Once(toPool, "reply", l)' /\ (l = m => ~ToPool(l)')
    BY <1>1, <1>2, <2>1, EntryTaken DEF Journey, ToPool, m, h
  <2>4. l = m => state[l] = "sent" /\ ~ToServer(l) BY <1>5, <2>1 DEF Journey
  <2>5. state'[l] = state[l] \/ (l = m /\ state'[l] = "answered") BY <1>8
  <2>. QED BY <1>1, <1>6, <1>7, <2>1, <2>2, <2>3, <2>4, <2>5 DEF Journey, OnTheWay
<1>12. KnownOrPending'
  <2>. SUFFICES ASSUME \A d \in Clients : phase[d] # "gone", NEW u \in served.threads PROVE Known(u)'
    BY <1>1 DEF KnownOrPending
  <2>1. Known(u) BY DEF SubscribedInv, KnownOrPending
  <2>2. ASSUME NEW c \in Clients, u \in subscribed[c] PROVE Known(u)' BY <1>9, <2>2 DEF Known
  <2>3. ASSUME NEW l \in Messages, Leaving(l, u) PROVE Known(u)'
    <3>1. l \in Threaded BY <2>3 DEF Leaving, Threaded
    <3>2. Journey(l) BY <3>1 DEF SubscribedInv, OneJourney
    <3>3. l # m BY <1>5, <2>3, <3>2 DEF Leaving, Journey
    <3>4. Leaving(l, u)' BY <1>7, <1>8, <2>3, <3>1, <3>3 DEF Leaving
    <3>. QED BY <3>4 DEF Known
  <2>4. ASSUME \E n \in 1..Len(toPool) : Confirms(toPool[n], u) PROVE Known(u)'
    <3>1. (\E n \in 1..Len(toPool') : Confirms(toPool'[n], u)) \/ Confirms(h, u)
      BY <1>1, <1>2, <2>4, ConfirmTaken DEF h
    <3>2. CASE \E n \in 1..Len(toPool') : Confirms(toPool'[n], u)
      <4>1. (\E n \in 1..Len(toPool) : Confirms(toPool[n], u))' BY <3>2 DEF Confirms
      <4>. QED BY <4>1 DEF Known
    <3>3. CASE Confirms(h, u)
      <4>1. m \in Threaded BY <1>4, <3>3 DEF Threaded, Confirms, m
      <4>2. m \in routes
        BY <1>4, <1>5, <4>1 DEF SubscribedInv, OneJourney, Journey, OnTheWay
      <4>3. Kind(m) # "initialize" BY <4>1 DEF Threaded
      <4>4. SubscribedAfter(m, h.ok) = subscribed[ClientOf(m)] \cup {u}
        BY <3>3 DEF Confirms, SubscribedAfter, m
      <4>5. u \in subscribed'[ClientOf(m)]
        BY <1>4, <1>8, <4>2, <4>3, <4>4 DEF SubscribedInv, Present
      <4>. QED BY <1>4, <4>5 DEF Known
    <3>. QED BY <3>1, <3>2, <3>3
  <2>. QED BY <2>1, <2>2, <2>3, <2>4 DEF Known
<1>. QED BY <1>10, <1>11, <1>12 DEF SubscribedInv

\* Requests of the server pass between the replies.
LEMMA SubscribedAskStep ==
  ASSUME Inv, SubscribedInv, RouteAsk \/ \E q \in Asks : Ask(q)
  PROVE  SubscribedInv'
<1>1. /\ UNCHANGED <<phase, subscribed, init, routes, state, toServer, served>>
      /\ \/ toPool # <<>> /\ Head(toPool).type = "ask" /\ toPool' = Tail(toPool)
         \/ \E q \in Asks : toPool' = Append(toPool, [type |-> "ask", of |-> q])
  BY DEF RouteAsk, Ask, Arrives, poolVars, clientVars, messageVars, serverVars
<1>2. toPool \in Seq(PoolItems) BY DEF Inv, Typed
<1>3. \A q \in Asks : [type |-> "ask", of |-> q] \in PoolItems BY DEF PoolItems
<1>4. ASSUME NEW l
      PROVE  /\ ToServer(l)' = ToServer(l) /\ Once(toServer, "message", l)' = Once(toServer, "message", l)
             /\ ToPool(l)' <=> ToPool(l)
             /\ Once(toPool, "reply", l) => Once(toPool, "reply", l)'
  <2>1. ToServer(l)' = ToServer(l) /\ Once(toServer, "message", l)' = Once(toServer, "message", l)
    BY <1>1 DEF ToServer, In, Once, At
  <2>2. CASE toPool # <<>> /\ Head(toPool).type = "ask" /\ toPool' = Tail(toPool)
    <3>1. /\ In(toPool, "reply", l) <=> In(toPool', "reply", l)
          /\ Once(toPool, "reply", l) => Once(toPool', "reply", l)
      BY <1>2, <2>2, EntryTaken
    <3>. QED BY <2>1, <3>1 DEF ToPool
  <2>3. ASSUME NEW e \in PoolItems, e.type = "ask", toPool' = Append(toPool, e)
        PROVE  /\ ToPool(l)' <=> ToPool(l)
               /\ Once(toPool, "reply", l) => Once(toPool, "reply", l)'
    <3>1. toPool' = Append(toPool, e) BY <2>3
    <3>2. /\ In(toPool', "reply", l) <=> In(toPool, "reply", l) \/ (e.type = "reply" /\ e.of = l)
          /\ Once(toPool, "reply", l) /\ ~(In(toPool, "reply", l) /\ e.type = "reply" /\ e.of = l)
               => Once(toPool', "reply", l)
      BY <1>2, <3>1, EntryAppended
    <3>3. e.type # "reply" BY <2>3
    <3>. QED BY <3>2, <3>3 DEF ToPool
  <2>4. \/ toPool # <<>> /\ Head(toPool).type = "ask" /\ toPool' = Tail(toPool)
        \/ \E e \in PoolItems : e.type = "ask" /\ toPool' = Append(toPool, e)
    BY <1>1, <1>3
  <2>. QED BY <2>1, <2>2, <2>3, <2>4
<1>5. ASSUME NEW u, \E n \in 1..Len(toPool) : Confirms(toPool[n], u)
      PROVE  (\E n \in 1..Len(toPool) : Confirms(toPool[n], u))'
  <2>1. CASE toPool # <<>> /\ Head(toPool).type = "ask" /\ toPool' = Tail(toPool)
    <3>1. ~Confirms(Head(toPool), u) BY <2>1 DEF Confirms
    <3>2. \E n \in 1..Len(toPool') : Confirms(toPool'[n], u)
      BY <1>2, <1>5, <2>1, <3>1, ConfirmTaken
    <3>. QED BY <3>2 DEF Confirms
  <2>2. ASSUME NEW e \in PoolItems, toPool' = Append(toPool, e)
        PROVE  (\E n \in 1..Len(toPool) : Confirms(toPool[n], u))'
    <3>1. \E n \in 1..Len(toPool') : Confirms(toPool'[n], u)
      BY <1>2, <1>5, <2>2, ConfirmAppended
    <3>. QED BY <3>1 DEF Confirms
  <2>. QED BY <1>1, <1>3, <2>1, <2>2
<1>6. Present' BY <1>1 DEF SubscribedInv, Present
<1>7. OneJourney'
  <2>. SUFFICES ASSUME NEW l \in Threaded PROVE Journey(l)' BY DEF OneJourney
  <2>1. Journey(l) BY DEF SubscribedInv, OneJourney
  <2>. QED BY <1>1, <1>4, <2>1 DEF Journey, OnTheWay
<1>8. KnownOrPending'
  <2>. SUFFICES ASSUME \A d \in Clients : phase[d] # "gone", NEW u \in served.threads PROVE Known(u)'
    BY <1>1 DEF KnownOrPending
  <2>1. Known(u) BY DEF SubscribedInv, KnownOrPending
  <2>2. \A l \in Messages : Leaving(l, u) => Leaving(l, u)' BY <1>1, <1>4 DEF Leaving
  <2>3. (\E c \in Clients : u \in subscribed[c]) => (\E c \in Clients : u \in subscribed[c])' BY <1>1
  <2>. QED BY <1>5, <2>1, <2>2, <2>3 DEF Known
<1>. QED BY <1>6, <1>7, <1>8 DEF SubscribedInv

\* Every thread the server has subscribed this connection to keeps a subscriber in
\* the pool, or one that is about to be, or an unsubscribe that is on its way.
THEOREM SubscriptionsInvariance == Spec => [](Inv /\ SubscribedInv)
<1>1. Init => SubscribedInv
  <2>. SUFFICES ASSUME Init PROVE SubscribedInv OBVIOUS
  <2>. USE DEF Init
  <2>1. Len(toServer) = 0 /\ Len(toPool) = 0 BY EmptySeq
  <2>2. Present BY DEF Present, Phases
  <2>3. OneJourney
    <3>. SUFFICES ASSUME NEW m \in Threaded PROVE Journey(m) BY DEF OneJourney
    <3>1. ~ToServer(m) /\ ~ToPool(m) BY <2>1 DEF ToServer, ToPool, In
    <3>2. Once(toServer, "message", m) /\ Once(toPool, "reply", m) BY <2>1 DEF Once
    <3>3. state[m] = "unissued" BY DEF Threaded
    <3>. QED BY <3>1, <3>2, <3>3 DEF Journey, OnTheWay
  <2>4. KnownOrPending BY DEF KnownOrPending
  <2>. QED BY <2>2, <2>3, <2>4 DEF SubscribedInv
<1>2. Inv /\ SubscribedInv /\ [Next]_vars => SubscribedInv'
  <2>. SUFFICES ASSUME Inv, SubscribedInv, [Next]_vars PROVE SubscribedInv'
    OBVIOUS
  <2>1. CASE UNCHANGED vars BY <2>1, SubscribedClientStep
  <2>2. CASE ClientNext
    BY <2>2, SubscribedClientStep, SubscribedEnqueueStep DEF ClientNext
  <2>3. CASE SendNext
    BY <2>3, SubscribedClientStep, SubscribedLeaveStep, SubscribedEnqueueStep DEF SendNext
  <2>4. CASE ServerNext
    BY <2>4, SubscribedServeStep, SubscribedAskStep DEF ServerNext
  <2>5. CASE RouteNext
    BY <2>5, SubscribedReplyStep, SubscribedAskStep DEF RouteNext
  <2>. QED BY <2>1, <2>2, <2>3, <2>4, <2>5 DEF Next
<1>3. Spec => []SubscribedInv
  BY <1>1, <1>2, Invariance, PTL DEF Spec
<1>. QED BY <1>3, Invariance, PTL

-----------------------------------------------------------------------------
(* Nobody waits for nothing                                                *)

Requests == {m \in Messages : Kind(m) # "initialized"}
Here(m) == phase[ClientOf(m)] # "gone"

\* A request is replied to when it is settled and not before.
RepliesCounted ==
  /\ replies \in [Messages -> {0, 1}]
  /\ \A m \in Messages : replies[m] = 1 => state[m] \in {"answered", "refused"}

\* A message is where its state says: it waits for the initialize of another
\* client, or it has a route and is on its way, as long as its client is there.
AccountFor(m) ==
  /\ phase[ClientOf(m)] = "away" => state[m] = "unissued"
  /\ m \in init.waiters => state[m] = "waiting"
  /\ state[m] = "waiting" /\ Here(m) => m \in init.waiters
  /\ m \in routes => m \in Requests /\ state[m] \in {"prepared", "sent"}
  /\ m \in Requests /\ Here(m) /\ state[m] \in {"prepared", "sent"} =>
       m \in routes /\ OnTheWay(m)
  /\ m \in Requests => state[m] # "suppressed"

AllAccounted == \A m \in Messages : AccountFor(m)

\* While somebody waits for it an initialize is on its way, also when the client
\* that sent it has gone.
InitOnTheWay ==
  /\ init.state # "inFlight" => init.waiters = {}
  /\ init.state = "inFlight" => init.primary # Nobody /\ OnTheWay(init.primary)

AccountInv == RepliesCounted /\ AllAccounted /\ InitOnTheWay

\* The conditions of AccountFor where a step leaves the message alone
LEMMA AccountForKept ==
  ASSUME NEW m \in Messages, AccountFor(m),
         state'[m] = state[m], phase'[ClientOf(m)] = phase[ClientOf(m)],
         m \in routes' <=> m \in routes, m \in init'.waiters <=> m \in init.waiters,
         OnTheWay(m) => OnTheWay(m)'
  PROVE  AccountFor(m)'
BY DEF AccountFor, Here

LEMMA SameStreams ==
  ASSUME UNCHANGED <<toServer, toPool>>
  PROVE  \A m : ToServer(m)' = ToServer(m) /\ ToPool(m)' = ToPool(m)
BY DEF ToServer, ToPool, In, At

\* The connections come and go.
LEMMA AccountClientStep ==
  ASSUME Inv, SubscribedInv, AccountInv,
         \/ UNCHANGED vars
         \/ \E c \in Clients : Attach(c) \/ Detach(c)
         \/ \E c \in Clients, q \in Asks : Answer(c, q)
  PROVE  AccountInv'
<1>1. UNCHANGED <<toServer, toPool, state, replies, init>>
  BY DEF vars, wireVars, messageVars, poolVars, Attach, Detach, InitAfter, Answer
<1>2. \A m : OnTheWay(m)' = OnTheWay(m) BY <1>1, SameStreams DEF OnTheWay
<1>3. RepliesCounted' /\ InitOnTheWay' BY <1>1, <1>2 DEF AccountInv, RepliesCounted, InitOnTheWay
<1>4. ASSUME NEW m \in Messages PROVE AccountFor(m)'
  <2>1. AccountFor(m) BY DEF AccountInv, AllAccounted
  <2>2. ClientOf(m) \in Clients BY DEF Messages, ClientOf
  <2>3. CASE UNCHANGED vars \/ \E c \in Clients, q \in Asks : Answer(c, q)
    <3>1. UNCHANGED <<phase, routes>> BY <2>3 DEF vars, poolVars, clientVars, Answer
    <3>. QED BY <1>1, <1>2, <2>1, <3>1, AccountForKept
  <2>4. ASSUME NEW c \in Clients, Attach(c) PROVE AccountFor(m)'
    <3>1. routes' = routes /\ phase[c] = "away" /\ phase' = [phase EXCEPT ![c] = "attached"]
      BY <2>4 DEF Attach, poolVars
    <3>2. ClientOf(m) = c => phase'[c] = "attached" /\ state[m] = "unissued"
      BY <2>1, <3>1 DEF AccountFor, SubscribedInv, Present
    <3>3. ClientOf(m) # c => phase'[ClientOf(m)] = phase[ClientOf(m)] BY <3>1
    <3>4. CASE ClientOf(m) = c
      BY <1>1, <1>2, <2>1, <3>1, <3>2, <3>4 DEF AccountFor, Here
    <3>5. CASE ClientOf(m) # c
      BY <1>1, <1>2, <2>1, <3>1, <3>3, <3>5, AccountForKept
    <3>. QED BY <3>4, <3>5
  <2>5. ASSUME NEW c \in Clients, Detach(c) PROVE AccountFor(m)'
    <3>1. phase' = [phase EXCEPT ![c] = "gone"] /\ routes' = {l \in routes : ClientOf(l) # c}
      BY <2>5 DEF Detach, RoutesAfter
    <3>2. CASE ClientOf(m) = c
      <4>1. phase'[ClientOf(m)] = "gone" BY <2>2, <3>1, <3>2 DEF SubscribedInv, Present
      <4>. QED BY <1>1, <2>1, <3>1, <3>2, <4>1 DEF AccountFor, Here
    <3>3. CASE ClientOf(m) # c
      <4>1. phase'[ClientOf(m)] = phase[ClientOf(m)] BY <3>1, <3>3
      <4>2. m \in routes' <=> m \in routes BY <3>1, <3>3
      <4>. QED BY <1>1, <1>2, <2>1, <4>1, <4>2, AccountForKept
    <3>. QED BY <3>2, <3>3
  <2>. QED BY <2>3, <2>4, <2>5
<1>. QED BY <1>3, <1>4 DEF AccountInv, AllAccounted

\* One message is issued, or the pool decides about it.
LEMMA AccountSendStep ==
  ASSUME Inv, SubscribedInv, AccountInv, NEW m \in Messages,
         \/ Issue(m) \/ PrepareRefused(m) \/ PrepareInitialize(m) \/ PrepareInitialized(m)
         \/ PrepareResume(m) \/ PrepareUnsubscribe(m)
  PROVE  AccountInv'
<1>. DEFINE Settles(end) == state' = [state EXCEPT ![m] = end] /\ UNCHANGED <<replies, routes, init>>
            Forwards == state' = [state EXCEPT ![m] = "prepared"] /\ routes' = routes \cup {m}
                        /\ UNCHANGED replies /\ m \in Requests
<1>1. UNCHANGED <<toServer, toPool, phase>>
  BY DEF wireVars, clientVars, Issue, PrepareRefused, PrepareInitialize, PrepareInitialized,
         PrepareResume, PrepareUnsubscribe
<1>2. /\ state[m] \in {"unissued", "issued"}
      /\ state[m] = "unissued" => phase[ClientOf(m)] = "attached"
      /\ \/ Settles("issued") /\ phase[ClientOf(m)] = "attached"
         \/ Settles("refused") /\ state[m] = "issued"
         \/ m \notin Requests /\ (Settles("suppressed") \/ Settles("prepared")) /\ state[m] = "issued"
         \/ /\ state' = [state EXCEPT ![m] = "answered"] /\ replies' = [replies EXCEPT ![m] = @ + 1]
            /\ UNCHANGED <<routes, init>> /\ state[m] = "issued"
         \/ Forwards /\ UNCHANGED init /\ state[m] = "issued"
         \/ /\ Forwards /\ init' = [state |-> "inFlight", primary |-> m, waiters |-> {}]
            /\ init.state \notin {"ready", "inFlight"} /\ state[m] = "issued"
         \/ /\ state' = [state EXCEPT ![m] = "waiting"] /\ UNCHANGED <<replies, routes>>
            /\ init' = [init EXCEPT !.waiters = @ \cup {m}] /\ init.state = "inFlight"
            /\ state[m] = "issued"
  <2>1. CASE Issue(m) BY <2>1 DEF Issue, poolVars
  <2>2. CASE PrepareRefused(m) BY <2>2 DEF PrepareRefused, Becomes, poolVars
  <2>3. CASE PrepareInitialize(m)
    BY <2>3 DEF PrepareInitialize, Preparing, MustWait, Becomes, Synthetic, Forward, Requests
  <2>4. CASE PrepareInitialized(m)
    BY <2>4 DEF PrepareInitialized, Preparing, Becomes, Forward, Requests
  <2>5. CASE PrepareResume(m) BY <2>5 DEF PrepareResume, Preparing, Forward, Requests
  <2>6. CASE PrepareUnsubscribe(m)
    BY <2>6 DEF PrepareUnsubscribe, Preparing, RouteOfUnsubscribe, Synthetic, Forward, Requests
  <2>. QED BY <2>1, <2>2, <2>3, <2>4, <2>5, <2>6
<1>3. ASSUME NEW l \in Messages, l # m
      PROVE  /\ state'[l] = state[l] /\ replies'[l] = replies[l] /\ (l \in routes' <=> l \in routes)
             /\ OnTheWay(l)' = OnTheWay(l)
  <2>1. state'[l] = state[l] /\ replies'[l] = replies[l] /\ (l \in routes' <=> l \in routes)
    BY <1>2, <1>3 DEF AccountInv, RepliesCounted, Inv, Typed
  <2>. QED BY <1>1, <2>1, SameStreams DEF OnTheWay
<1>4. AccountFor(m) /\ m \notin routes /\ m \notin init.waiters /\ replies[m] = 0
  <2>1. state[m] \in {"unissued", "issued"} BY <1>2
  <2>2. AccountFor(m) BY DEF AccountInv, AllAccounted
  <2>3. replies[m] = 0 BY <2>1 DEF AccountInv, RepliesCounted
  <2>. QED BY <2>1, <2>2, <2>3 DEF AccountFor
<1>5. init'.waiters = init.waiters \/ init'.waiters = init.waiters \cup {m}
  <2>1. \/ UNCHANGED init
        \/ init' = [state |-> "inFlight", primary |-> m, waiters |-> {}] /\ init.state # "inFlight"
        \/ init' = [init EXCEPT !.waiters = @ \cup {m}]
    BY <1>2
  <2>2. init.state # "inFlight" => init.waiters = {} BY DEF AccountInv, InitOnTheWay
  <2>3. init' = [init EXCEPT !.waiters = @ \cup {m}] => init'.waiters = init.waiters \cup {m}
    BY DEF Inv, Typed
  <2>. QED BY <2>1, <2>2, <2>3
<1>6. phase[ClientOf(m)] # "away"
  BY <1>2, <1>4 DEF AccountFor
<1>7. RepliesCounted'
  <2>1. /\ replies' = replies \/ (replies' = [replies EXCEPT ![m] = 1] /\ state'[m] = "answered")
    BY <1>2, <1>4 DEF AccountInv, RepliesCounted, Inv, Typed
  <2>2. replies' \in [Messages -> {0, 1}] BY <2>1 DEF AccountInv, RepliesCounted
  <2>3. replies'[m] = 1 => state'[m] = "answered" BY <1>4, <2>1
  <2>. QED BY <1>3, <2>2, <2>3 DEF AccountInv, RepliesCounted
<1>8. AccountFor(m)'
  <2>1. CASE Settles("issued") \/ Settles("refused")
    <3>1. state'[m] \in {"issued", "refused"} BY <2>1 DEF Inv, Typed
    <3>. QED BY <1>1, <1>4, <1>6, <2>1, <3>1 DEF AccountFor, Here
  <2>2. CASE m \notin Requests /\ (Settles("suppressed") \/ Settles("prepared"))
    <3>1. state'[m] \in {"suppressed", "prepared"} BY <2>2 DEF Inv, Typed
    <3>2. m \notin Requests' BY <2>2 DEF Requests
    <3>. QED BY <1>1, <1>4, <1>6, <2>2, <3>1, <3>2 DEF AccountFor, Here
  <2>3. CASE state' = [state EXCEPT ![m] = "answered"] /\ UNCHANGED <<routes, init>>
    <3>1. state'[m] = "answered" BY <2>3 DEF Inv, Typed
    <3>. QED BY <1>1, <1>4, <1>6, <2>3, <3>1 DEF AccountFor, Here
  <2>4. CASE Forwards /\ (UNCHANGED init \/ init'.waiters = {})
    <3>1. state'[m] = "prepared" /\ m \in routes' BY <2>4 DEF Inv, Typed
    <3>2. m \notin init'.waiters BY <1>4, <2>4
    <3>3. OnTheWay(m)' BY <3>1 DEF OnTheWay
    <3>4. m \in Requests' BY <2>4 DEF Requests
    <3>. QED BY <1>1, <1>6, <3>1, <3>2, <3>3, <3>4 DEF AccountFor, Here
  <2>5. CASE state' = [state EXCEPT ![m] = "waiting"] /\ UNCHANGED routes /\ init' = [init EXCEPT !.waiters = @ \cup {m}]
    <3>1. state'[m] = "waiting" /\ m \in init'.waiters BY <2>5 DEF Inv, Typed
    <3>. QED BY <1>1, <1>4, <1>6, <2>5, <3>1 DEF AccountFor, Here
  <2>6. init' = [state |-> "inFlight", primary |-> m, waiters |-> {}] => init'.waiters = {} OBVIOUS
  <2>. HIDE DEF Settles, Forwards
  <2>. QED BY <1>2, <2>1, <2>2, <2>3, <2>4, <2>5, <2>6
<1>9. AllAccounted'
  <2>1. ASSUME NEW l \in Messages, l # m PROVE AccountFor(l)'
    BY <1>1, <1>3, <1>5, <2>1, AccountForKept DEF AccountInv, AllAccounted
  <2>. QED BY <1>8, <2>1 DEF AllAccounted
<1>10. InitOnTheWay'
  <2>1. CASE init' = [state |-> "inFlight", primary |-> m, waiters |-> {}] /\ Forwards
    <3>1. OnTheWay(m)' BY <2>1 DEF OnTheWay, Inv, Typed
    <3>2. m # Nobody BY ProgramAssumption
    <3>. QED BY <2>1, <3>1, <3>2 DEF InitOnTheWay
  <2>2. CASE init'.state = init.state /\ init'.primary = init.primary
             /\ (init'.waiters = init.waiters \/ init.state = "inFlight")
    <3>1. ASSUME NEW l \in Messages, OnTheWay(l) PROVE OnTheWay(l)'
      <4>1. l = m => OnTheWay(m)'
        <5>1. state[m] \in {"unissued", "issued"} BY <1>2
        <5>2. state[m] # "prepared" BY <5>1
        <5>. QED BY <1>1, <3>1, <5>2, SameStreams DEF OnTheWay
      <4>. QED BY <1>3, <3>1, <4>1
    <3>2. init.primary \in Messages \cup {Nobody} BY DEF Inv, Typed
    <3>. QED BY <2>2, <3>1, <3>2 DEF AccountInv, InitOnTheWay
  <2>3. \/ init' = [state |-> "inFlight", primary |-> m, waiters |-> {}] /\ Forwards
        \/ UNCHANGED init
        \/ init' = [init EXCEPT !.waiters = @ \cup {m}] /\ init.state = "inFlight"
    BY <1>2
  <2>4. init' = [init EXCEPT !.waiters = @ \cup {m}] => init'.state = init.state /\ init'.primary = init.primary
    BY DEF Inv, Typed
  <2>. HIDE DEF Forwards
  <2>. QED BY <2>1, <2>2, <2>3, <2>4
<1>. QED BY <1>7, <1>9, <1>10 DEF AccountInv

\* The transport and the server move what is on its way; it stays on its way.
LEMMA AccountMoved ==
  ASSUME Inv, SubscribedInv, AccountInv, UNCHANGED <<phase, state, replies, routes, init>>,
         \A l \in Requests : OnTheWay(l) => OnTheWay(l)'
  PROVE  AccountInv'
<1>1. RepliesCounted' BY DEF AccountInv, RepliesCounted
<1>2. AllAccounted'
  <2>. SUFFICES ASSUME NEW l \in Messages PROVE AccountFor(l)' BY DEF AllAccounted
  <2>1. AccountFor(l) BY DEF AccountInv, AllAccounted
  <2>. QED BY <2>1 DEF AccountFor, Here
<1>3. InitOnTheWay'
  <2>1. init.primary # Nobody => init.primary \in Requests
    BY DEF SubscribedInv, Present, Requests, Inv, Typed
  <2>. QED BY <2>1 DEF AccountInv, InitOnTheWay
<1>. QED BY <1>1, <1>2, <1>3 DEF AccountInv

LEMMA AccountEnqueueStep ==
  ASSUME Inv, SubscribedInv, AccountInv, NEW m \in Messages, Enqueue(m)
  PROVE  AccountInv'
<1>1. /\ UNCHANGED <<phase, replies, routes, init, toPool>>
      /\ state[m] = "prepared" /\ state' = [state EXCEPT ![m] = "sent"]
      /\ toServer' = Append(toServer, [type |-> "message", of |-> m])
  BY DEF Enqueue, Becomes, poolVars, clientVars
<1>2. state'[m] = "sent" /\ \A l \in Messages : l # m => state'[l] = state[l]
  BY <1>1 DEF Inv, Typed
<1>3. ASSUME NEW l \in Messages, OnTheWay(l) PROVE OnTheWay(l)'
  <2>1. PICK e \in ServerItems :
          e.type = "message" /\ e.of = m /\ toServer' = Append(toServer, e)
    BY <1>1 DEF ServerItems
  <2>2. toServer \in Seq(ServerItems) BY DEF Inv, Typed
  <2>3. In(toServer', "message", l) <=> In(toServer, "message", l) \/ (e.type = "message" /\ e.of = l)
    BY <2>1, <2>2, EntryAppended
  <2>4. ToServer(l)' <=> ToServer(l) \/ l = m BY <2>1, <2>3 DEF ToServer
  <2>5. ToPool(l)' = ToPool(l) BY <1>1 DEF ToPool, In, At
  <2>. QED BY <1>2, <1>3, <2>4, <2>5 DEF OnTheWay
<1>4. RepliesCounted' BY <1>1, <1>2 DEF AccountInv, RepliesCounted
<1>5. AllAccounted'
  <2>. SUFFICES ASSUME NEW l \in Messages PROVE AccountFor(l)' BY DEF AllAccounted
  <2>1. AccountFor(l) BY DEF AccountInv, AllAccounted
  <2>2. CASE l # m BY <1>1, <1>2, <1>3, <2>1, <2>2, AccountForKept
  <2>3. CASE l = m
    <3>1. OnTheWay(m)' BY <1>1, <1>3 DEF OnTheWay
    <3>. QED BY <1>1, <1>2, <2>1, <2>3, <3>1 DEF AccountFor, Here
  <2>. QED BY <2>2, <2>3
<1>6. InitOnTheWay'
  <2>1. init.primary \in Messages \cup {Nobody} BY DEF Inv, Typed
  <2>. QED BY <1>1, <1>3, <2>1 DEF AccountInv, InitOnTheWay
<1>. QED BY <1>4, <1>5, <1>6 DEF AccountInv

\* An answer to the server joins the stream behind the messages.
LEMMA AccountEnqueueAnswerStep ==
  ASSUME Inv, SubscribedInv, AccountInv, NEW c \in Clients, NEW q \in Asks, EnqueueAnswer(c, q)
  PROVE  AccountInv'
<1>1. /\ UNCHANGED <<phase, state, replies, routes, init, toPool>>
      /\ toServer' = Append(toServer, [type |-> "answer", of |-> q])
  BY DEF EnqueueAnswer, poolVars, clientVars, messageVars
<1>2. ASSUME NEW l \in Requests, OnTheWay(l) PROVE OnTheWay(l)'
  <2>1. PICK e \in ServerItems :
          e.type = "answer" /\ e.of = q /\ toServer' = Append(toServer, e)
    BY <1>1 DEF ServerItems
  <2>2. toServer \in Seq(ServerItems) BY DEF Inv, Typed
  <2>3. In(toServer, "message", l) => In(toServer', "message", l)
    BY <1>1, <2>1, <2>2, EntryAppended
  <2>4. ToServer(l) => ToServer(l)' BY <2>3 DEF ToServer
  <2>5. ToPool(l)' = ToPool(l) BY <1>1 DEF ToPool, In, At
  <2>. QED BY <1>1, <1>2, <2>4, <2>5 DEF OnTheWay
<1>. QED BY <1>1, <1>2, AccountMoved

\* The server replies to every request it takes.
LEMMA AccountServeStep ==
  ASSUME Inv, SubscribedInv, AccountInv, Serve
  PROVE  AccountInv'
<1>. DEFINE h == Head(toServer)
<1>1. /\ UNCHANGED <<phase, state, replies, routes, init>>
      /\ toServer # <<>> /\ toServer' = Tail(toServer)
  BY DEF Serve, poolVars, clientVars, messageVars
<1>2. toServer \in Seq(ServerItems) /\ toPool \in Seq(PoolItems) BY DEF Inv, Typed
<1>3. h \in ServerItems BY <1>1, <1>2
<1>4. \/ toPool' = toPool /\ (h.type = "message" => Kind(h.of) = "initialized")
      \/ h.type = "message"
         /\ \E ok \in BOOLEAN : toPool' = Append(toPool, [type |-> "reply", of |-> h.of, ok |-> ok])
  BY <1>3 DEF Serve, Reply, ServerItems
<1>5. \/ toPool' = toPool /\ (h.type = "message" => Kind(h.of) = "initialized")
      \/ \E e \in PoolItems : e.type = "reply" /\ e.of = h.of /\ toPool' = Append(toPool, e)
  <2>1. h.type = "message" => h.of \in Messages BY <1>3 DEF ServerItems
  <2>2. ASSUME h.type = "message", NEW ok \in BOOLEAN
        PROVE  [type |-> "reply", of |-> h.of, ok |-> ok] \in PoolItems
    BY <2>1, <2>2 DEF PoolItems
  <2>. HIDE DEF h
  <2>. QED BY <1>4, <2>2
<1>. HIDE DEF h
<1>6. ASSUME NEW l \in Requests, OnTheWay(l) PROVE OnTheWay(l)'
  <2>1. ToServer(l) => ToServer(l)' \/ (h.type = "message" /\ h.of = l)
    <3>1. In(toServer, "message", l) <=> In(toServer', "message", l) \/ (h.type = "message" /\ h.of = l)
      BY <1>1, <1>2, EntryTaken DEF h
    <3>. QED BY <3>1 DEF ToServer
  <2>2. CASE toPool' = toPool /\ (h.type = "message" => Kind(h.of) = "initialized")
    <3>1. ToPool(l)' = ToPool(l) BY <2>2 DEF ToPool, In, At
    <3>2. ~(h.type = "message" /\ h.of = l) BY <2>2 DEF Requests
    <3>. QED BY <1>1, <1>6, <2>1, <3>1, <3>2 DEF OnTheWay
  <2>3. CASE \E e \in PoolItems : e.type = "reply" /\ e.of = h.of /\ toPool' = Append(toPool, e)
    <3>1. PICK e \in PoolItems : e.type = "reply" /\ e.of = h.of /\ toPool' = Append(toPool, e)
      BY <2>3
    <3>2. In(toPool', "reply", l) <=> In(toPool, "reply", l) \/ (e.type = "reply" /\ e.of = l)
      BY <1>2, <3>1, EntryAppended
    <3>3. ToPool(l)' <=> ToPool(l) \/ h.of = l BY <3>1, <3>2 DEF ToPool
    <3>. QED BY <1>1, <1>6, <2>1, <3>3 DEF OnTheWay
  <2>. QED BY <1>5, <2>2, <2>3
<1>. QED BY <1>1, <1>6, AccountMoved

\* Requests of the server come and go between the replies.
LEMMA AccountAskStep ==
  ASSUME Inv, SubscribedInv, AccountInv, RouteAsk \/ \E q \in Asks : Ask(q)
  PROVE  AccountInv'
<1>1. /\ UNCHANGED <<phase, state, replies, routes, init, toServer>>
      /\ \/ toPool # <<>> /\ Head(toPool).type = "ask" /\ toPool' = Tail(toPool)
         \/ \E q \in Asks : toPool' = Append(toPool, [type |-> "ask", of |-> q])
  BY DEF RouteAsk, Ask, Arrives, poolVars, clientVars, messageVars
<1>2. toPool \in Seq(PoolItems) BY DEF Inv, Typed
<1>3. \A q \in Asks : [type |-> "ask", of |-> q] \in PoolItems BY DEF PoolItems
<1>4. ASSUME NEW l, ToPool(l) PROVE ToPool(l)'
  <2>1. CASE toPool # <<>> /\ Head(toPool).type = "ask" /\ toPool' = Tail(toPool)
    <3>1. In(toPool, "reply", l) <=> In(toPool', "reply", l)
      BY <1>2, <2>1, EntryTaken
    <3>. QED BY <1>4, <3>1 DEF ToPool
  <2>2. ASSUME NEW e \in PoolItems, toPool' = Append(toPool, e) PROVE ToPool(l)'
    <3>1. In(toPool, "reply", l) => In(toPool', "reply", l) BY <1>2, <2>2, EntryAppended
    <3>. QED BY <1>4, <3>1 DEF ToPool
  <2>. QED BY <1>1, <1>3, <2>1, <2>2
<1>5. ASSUME NEW l PROVE ToServer(l)' = ToServer(l) BY <1>1 DEF ToServer, In, At
<1>. QED BY <1>1, <1>4, <1>5, AccountMoved DEF OnTheWay

\* A reply is given to the client that asked; the one to the initialize is given to
\* all that wait for it.
LEMMA AccountReplyStep ==
  ASSUME Inv, SubscribedInv, AccountInv, RouteInitialize \/ RouteReply
  PROVE  AccountInv'
<1>. DEFINE h == Head(toPool)
            m == h.of
            ms == (routes \cap {m}) \cup (IF RouteInitialize THEN init.waiters ELSE {})
            given == {l \in ms : ClientOf(l) \in Attached}
<1>1. /\ UNCHANGED <<phase, toServer>>
      /\ toPool # <<>> /\ toPool' = Tail(toPool) /\ h.type = "reply" /\ routes' = routes \ {m}
  BY DEF RouteInitialize, RouteReply, Arrives, clientVars
<1>2. toPool \in Seq(PoolItems) BY DEF Inv, Typed
<1>3. m \in Messages
  <2>1. h \in PoolItems BY <1>1, <1>2
  <2>. QED BY <1>1, <2>1 DEF PoolItems
<1>4. ASSUME NEW l, l # m PROVE ToServer(l)' = ToServer(l) /\ (ToPool(l) => ToPool(l)')
  <2>1. In(toPool, "reply", l) <=> In(toPool', "reply", l) \/ (h.type = "reply" /\ h.of = l)
    BY <1>1, <1>2, EntryTaken
  <2>. QED BY <1>1, <1>4, <2>1 DEF ToPool, ToServer, In, At
<1>5. \E end \in {"answered", "refused"} : Deliver(ms, end)
  <2>1. CASE RouteInitialize
    <3>1. ms = (routes \cap {m}) \cup init.waiters BY <2>1
    <3>2. Deliver((routes \cap {m}) \cup init.waiters, IF h.ok THEN "answered" ELSE "refused")
      BY <2>1 DEF RouteInitialize
    <3>. QED BY <3>1, <3>2
  <2>2. CASE RouteReply /\ ~RouteInitialize
    <3>1. ms = routes \cap {m} BY <2>2
    <3>2. Deliver(routes \cap {m}, "answered") BY <2>2 DEF RouteReply
    <3>. QED BY <3>1, <3>2
  <2>. QED BY <2>1, <2>2
<1>6. \/ RouteInitialize /\ init'.waiters = {} /\ init'.state # "inFlight"
      \/ ~RouteInitialize /\ init' = init /\ ~(init.state = "inFlight" /\ init.primary = m)
  BY DEF RouteInitialize, RouteReply
<1>. HIDE DEF h, m
<1>7. PICK end \in {"answered", "refused"} :
        \A l \in Messages : IF l \in given THEN state'[l] = end /\ replies'[l] = replies[l] + 1
                                           ELSE state'[l] = state[l] /\ replies'[l] = replies[l]
  BY <1>5 DEF Deliver
<1>8. replies' = [l \in Messages |-> IF l \in given THEN replies[l] + 1 ELSE replies[l]]
  BY <1>5 DEF Deliver
<1>. HIDE DEF ms
<1>9. ASSUME NEW l \in Messages, l \in given
      PROVE  /\ replies[l] = 0 /\ l \notin routes' /\ l \notin init'.waiters
             /\ phase[ClientOf(l)] = "attached"
  <2>1. AccountFor(l) BY DEF AccountInv, AllAccounted
  <2>2. (l \in routes /\ l = m) \/ (RouteInitialize /\ l \in init.waiters) BY <1>9 DEF ms
  <2>3. state[l] \in {"prepared", "sent", "waiting"} BY <2>1, <2>2 DEF AccountFor
  <2>4. replies[l] = 0 BY <2>3 DEF AccountInv, RepliesCounted
  <2>5. l \notin routes' BY <1>1, <2>1, <2>2 DEF AccountFor
  <2>6. l \notin init'.waiters BY <1>6, <2>1, <2>2 DEF AccountFor
  <2>. QED BY <1>9, <2>4, <2>5, <2>6 DEF Attached
<1>10. RepliesCounted'
  <2>1. replies' \in [Messages -> {0, 1}] BY <1>8, <1>9 DEF AccountInv, RepliesCounted
  <2>2. ASSUME NEW l \in Messages, replies'[l] = 1 PROVE state'[l] \in {"answered", "refused"}
    BY <1>7, <2>2 DEF AccountInv, RepliesCounted
  <2>. QED BY <2>1, <2>2 DEF RepliesCounted
<1>11. ASSUME NEW l \in Messages PROVE AccountFor(l)'
  <2>1. AccountFor(l) BY DEF AccountInv, AllAccounted
  <2>2. ClientOf(l) \in Clients BY DEF Messages, ClientOf
  <2>3. CASE l \in given
    <3>1. state'[l] \in {"answered", "refused"} BY <1>7, <2>3
    <3>. QED BY <1>1, <1>9, <2>3, <3>1 DEF AccountFor, Here
  <2>4. CASE l \notin given
    <3>1. state'[l] = state[l] BY <1>7, <2>4
    <3>2. l \in routes => l # m
      <4>1. l \in routes => ClientOf(l) \in Attached BY <2>2 DEF SubscribedInv, Present, Attached
      <4>. QED BY <2>4, <4>1 DEF ms
    <3>3. l \in routes' <=> l \in routes BY <1>1, <3>2
    <3>4. l \in routes /\ OnTheWay(l) => OnTheWay(l)' BY <1>4, <3>1, <3>2 DEF OnTheWay
    <3>5. l \in init'.waiters => l \in init.waiters BY <1>6
    <3>6. l \in init.waiters /\ Here(l) => l \in init'.waiters
      <4>. SUFFICES ASSUME l \in init.waiters, Here(l) PROVE l \in init'.waiters
        OBVIOUS
      <4>1. phase[ClientOf(l)] = "attached"
        BY <2>1, <2>2 DEF AccountFor, Here, SubscribedInv, Present, Phases
      <4>2. ~RouteInitialize BY <2>2, <2>4, <4>1 DEF ms, Attached
      <4>. QED BY <1>6, <4>2
    <3>. QED BY <1>1, <2>1, <3>1, <3>3, <3>4, <3>5, <3>6 DEF AccountFor, Here
  <2>. QED BY <2>3, <2>4
<1>12. InitOnTheWay'
  <2>1. CASE RouteInitialize BY <1>6, <2>1 DEF InitOnTheWay
  <2>2. CASE ~RouteInitialize
    <3>1. init' = init /\ ~(init.state = "inFlight" /\ init.primary = m) BY <1>6, <2>2
    <3>2. ASSUME init.state = "inFlight" PROVE OnTheWay(init.primary)'
      <4>1. init.primary # m /\ OnTheWay(init.primary) /\ init.primary \in Messages
        BY <3>1, <3>2 DEF AccountInv, InitOnTheWay, Inv, Typed
      <4>2. init.primary \notin given BY <2>2, <4>1 DEF ms
      <4>3. state'[init.primary] = state[init.primary] BY <1>7, <4>1, <4>2
      <4>. QED BY <1>4, <3>1, <4>1, <4>3 DEF OnTheWay
    <3>. QED BY <3>1, <3>2 DEF AccountInv, InitOnTheWay
  <2>. QED BY <2>1, <2>2
<1>. QED BY <1>10, <1>11, <1>12 DEF AccountInv, AllAccounted

\* Every message is accounted for.
THEOREM AccountInvariance == Spec => []AccountInv
<1>1. Init => AccountInv
  <2>. SUFFICES ASSUME Init PROVE AccountInv OBVIOUS
  <2>. USE DEF Init
  <2>1. RepliesCounted BY DEF RepliesCounted
  <2>2. AllAccounted BY DEF AllAccounted, AccountFor
  <2>3. InitOnTheWay BY DEF InitOnTheWay
  <2>. QED BY <2>1, <2>2, <2>3 DEF AccountInv
<1>2. Inv /\ SubscribedInv /\ AccountInv /\ [Next]_vars => AccountInv'
  <2>. SUFFICES ASSUME Inv, SubscribedInv, AccountInv, [Next]_vars PROVE AccountInv'
    OBVIOUS
  <2>1. CASE UNCHANGED vars BY <2>1, AccountClientStep
  <2>2. CASE ClientNext
    BY <2>2, AccountClientStep, AccountSendStep, AccountEnqueueAnswerStep DEF ClientNext
  <2>3. CASE SendNext
    BY <2>3, AccountSendStep, AccountEnqueueStep DEF SendNext
  <2>4. CASE ServerNext
    BY <2>4, AccountServeStep, AccountAskStep DEF ServerNext
  <2>5. CASE RouteNext
    BY <2>5, AccountReplyStep, AccountAskStep DEF RouteNext
  <2>. QED BY <2>1, <2>2, <2>3, <2>4, <2>5 DEF Next
<1>. QED BY <1>1, <1>2, SubscriptionsInvariance, PTL DEF Spec

-----------------------------------------------------------------------------
(* What follows from it                                                    *)

\* The server is initialized at most once for any number of connections, however
\* they come, initialize and leave.
THEOREM InitializeOnce == Spec => []InitializedOnce
<1>1. Inv => InitializedOnce
  <2>. SUFFICES ASSUME Inv PROVE InitializedOnce
    OBVIOUS
  <2>. DEFINE S == {m \in Messages :
         Kind(m) = "initialize" /\ state[m] \in {"prepared", "sent"} /\ m \in routes}
  <2>1. S \subseteq {init.primary}
    BY DEF Inv, OneInitialize
  <2>2. IsFiniteSet({init.primary}) /\ Cardinality({init.primary}) = 1
    BY FS_Singleton
  <2>3. IsFiniteSet(S) /\ Cardinality(S) <= 1
    BY <2>1, <2>2, FS_Subset
  <2>4. served.inits <= 1
    BY DEF Inv, OneInitialize
  <2>. QED BY <2>3, <2>4 DEF InitializedOnce
<1>. QED BY <1>1, Invariance, PTL

\* A request of the server is answered at most once, however many connections
\* are asked and in whatever order they answer and leave, and what was answered is
\* not open any more.
THEOREM AnswersOnce == Spec => []AnsweredOnce
<1>1. Inv => AnsweredOnce
  BY DEF Inv, OneAnswer, OneAnswerOf, AnsweredOnce
<1>. QED BY <1>1, Invariance, PTL

\* While no connection has gone, a thread the server is subscribed to has a
\* subscriber in the pool whenever nothing about it is on its way: a refused
\* unsubscribe gives the subscription back, and one that overtook its resume leaves
\* it to the connection that resumed.
THEOREM SubscriptionsAreKnown == Spec => []SubscriptionIsKnown
<1>1. Inv /\ SubscribedInv => SubscriptionIsKnown
  <2>. SUFFICES ASSUME Inv, SubscribedInv, NEW t \in served.threads, Settled(t),
                       \A c \in Clients : phase[c] # "gone"
       PROVE  \E c \in Attached : t \in subscribed[c]
    BY DEF SubscriptionIsKnown
  <2>1. Known(t) BY DEF SubscribedInv, KnownOrPending
  <2>2. ASSUME NEW m \in Messages, Leaving(m, t) PROVE FALSE
    <3>1. state[m] # "prepared" BY <2>2 DEF Leaving, Settled
    <3>2. PICK n \in 1..Len(toServer) : toServer[n].type = "message" /\ toServer[n].of = m
      BY <2>2, <3>1 DEF Leaving, ToServer, In, At
    <3>3. m \in InStream(toServer, "message") BY <3>2 DEF InStream
    <3>. QED BY <2>2, <3>3 DEF Leaving, Settled
  <2>3. ASSUME NEW n \in 1..Len(toPool), Confirms(toPool[n], t) PROVE FALSE
    <3>1. toPool[n].of \in InStream(toPool, "reply") BY <2>3 DEF InStream, Confirms
    <3>. QED BY <2>3, <3>1 DEF Confirms, Settled
  <2>4. PICK c \in Clients : t \in subscribed[c] BY <2>1, <2>2, <2>3 DEF Known
  <2>5. c \in Attached BY <2>4 DEF SubscribedInv, Present, Attached
  <2>. QED BY <2>4, <2>5
<1>. QED BY <1>1, SubscriptionsInvariance, PTL

\* A request that waits has a reason to: the pool has still to decide about it, or it
\* has a route and is on its way, or it waits for an initialize that is on its way,
\* whoever sent that one and whether that client is still there.
NobodyForgotten ==
  \A m \in Messages : Waits(m) =>
    \/ state[m] = "issued"
    \/ m \in routes /\ OnTheWay(m)
    \/ m \in init.waiters /\ init.state = "inFlight" /\ OnTheWay(init.primary)

\* The safety behind EveryRequestEnds: no request is left without a reply that can
\* still come, in particular none that waited for the initialize of a connection that
\* left.
THEOREM NobodyIsForgotten == Spec => []NobodyForgotten
<1>1. Inv /\ AccountInv => NobodyForgotten
  <2>. SUFFICES ASSUME Inv, AccountInv, NEW m \in Messages, Waits(m), state[m] # "issued"
       PROVE  \/ m \in routes /\ OnTheWay(m)
              \/ m \in init.waiters /\ init.state = "inFlight" /\ OnTheWay(init.primary)
    BY DEF NobodyForgotten
  <2>1. AccountFor(m) /\ m \in Requests /\ Here(m)
    BY DEF AccountInv, AllAccounted, Waits, Requests, Here
  <2>2. state[m] \in {"waiting", "prepared", "sent"}
    BY <2>1 DEF AccountFor, Waits, Inv, Typed, MessageStates
  <2>3. CASE state[m] = "waiting" BY <2>1, <2>3 DEF AccountFor, AccountInv, InitOnTheWay
  <2>4. CASE state[m] # "waiting" BY <2>1, <2>2, <2>4 DEF AccountFor
  <2>. QED BY <2>3, <2>4
<1>. QED BY <1>1, Invariance, AccountInvariance, PTL

\* No request gets two replies, whether the pool itself, the server or the initialize
\* of another client replies to it, and one that has a reply is settled.
RepliedOnce ==
  \A m \in Messages :
    replies[m] \in {0, 1} /\ (replies[m] = 1 => state[m] \in {"answered", "refused"})

THEOREM RepliesOnce == Spec => []RepliedOnce
<1>1. AccountInv => RepliedOnce
  BY DEF AccountInv, RepliesCounted, RepliedOnce
<1>. QED BY <1>1, AccountInvariance, PTL
=============================================================================
