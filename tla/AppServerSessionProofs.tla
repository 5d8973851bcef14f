------------------------ MODULE AppServerSessionProofs ------------------------
(* Proof that AppServerSession implements RequestContract, for any requests,  *)
(* capacities and numbers of messages.                                        *)
EXTENDS AppServerSession, SubsequencesProofs, TLAPS

Stages == Live \cup {"none", "resolved", "rejected"}

-----------------------------------------------------------------------------
(* The inductive invariant                                                 *)

RouterType ==
  /\ router \in {"none", "open", "closed"}
  /\ stage \in [Ids -> Stages]
  /\ queue \in Seq(Requests)

\* The router is opened by the end of the start, and there is one start.
OpenedOnce ==
  /\ phase = "idle" => start = "none"
  /\ start \in {"none", "begun", "connecting"} => router = "none"

\* The queue holds each request that waits for ready once, and nothing else: a
\* request taken from it has not been settled.
QueuedOnce ==
  /\ \A i \in 1..Len(queue) : stage[queue[i]] = "queued"
  /\ \A i, j \in 1..Len(queue) : queue[i] = queue[j] => i = j

Inv == RouterType /\ OpenedOnce /\ QueuedOnce

-----------------------------------------------------------------------------
(* The steps of the contract, seen from the session                        *)

SameOutcome(r) == Outcome(r)' = Outcome(r)

Stays == router' = router /\ \A r \in Requests : SameOutcome(r)

Opens == router = "none" /\ router' = "open" /\ \A r \in Requests : SameOutcome(r)

Accepts(r) ==
  /\ router = "open" /\ router' = "open"
  /\ stage[r] = "none" /\ stage'[r] \in Live
  /\ \A s \in Requests \ {r} : SameOutcome(s)

Settles(r) ==
  /\ router = "open" /\ router' = "open"
  /\ stage[r] \in Live /\ stage'[r] \in {"resolved", "rejected"}
  /\ \A s \in Requests \ {r} : SameOutcome(s)

RejectsAll ==
  /\ router = "open" /\ router' \in {"open", "closed"}
  /\ stage' = Rejected(stage)

\* What a step of the session is for the contract
Mapped ==
  \/ Stays \/ Opens \/ RejectsAll
  \/ \E r \in Requests : Accepts(r) \/ Settles(r)

LEMMA MappedStep ==
  ASSUME RouterType, RouterType', Mapped
  PROVE  [Contract!Next]_(Contract!vars)
<1>. USE DEF RouterType, Outcome, SameOutcome, Stages, Live, Ids
<1>1. CASE Stays
  BY <1>1 DEF Stays, Contract!vars
<1>2. CASE Opens
  BY <1>2 DEF Opens, Contract!Next, Contract!Open
<1>3. CASE RejectsAll
  BY <1>3 DEF RejectsAll, Rejected, Contract!Next, Contract!RejectAll, Contract!Waiting
<1>4. ASSUME NEW r \in Requests, Accepts(r) PROVE Contract!Next
  BY <1>4 DEF Accepts, Contract!Next, Contract!Accept
<1>5. ASSUME NEW r \in Requests, Settles(r) PROVE Contract!Next
  <2>1. /\ router = "open" /\ router' = "open" /\ Outcome(r) = "waiting"
        /\ \A s \in Requests \ {r} : Outcome(s)' = Outcome(s)
    BY <1>5 DEF Settles
  <2>2. PICK result \in {"resolved", "rejected"} : Outcome(r)' = result
    BY <1>5 DEF Settles
  <2>. HIDE DEF RouterType, Outcome, SameOutcome, Stages, Live, Ids
  <2>3. [s \in Requests |-> Outcome(s)]' = [[s \in Requests |-> Outcome(s)] EXCEPT ![r] = result]
    BY <2>1, <2>2
  <2>. QED BY <2>1, <2>2, <2>3 DEF Contract!Next, Contract!Settle
<1>. QED BY <1>1, <1>2, <1>3, <1>4, <1>5 DEF Mapped

-----------------------------------------------------------------------------
(* What the parts of the handlers do to the requests                       *)

\* A step that keeps the requests' part of the invariant and is a step of the
\* contract that does not open the router.
Kept ==
  /\ RouterType' /\ QueuedOnce' /\ Mapped
  /\ router = "none" => router' = "none"

LEMMA KeptUnchanged ==
  ASSUME Inv, UNCHANGED <<router, stage, queue>>
  PROVE  Kept
BY DEF Inv, RouterType, QueuedOnce, Kept, Mapped, Stays, SameOutcome, Outcome

\* Rejecting everybody who waits empties the queue.
LEMMA KeptRejected ==
  ASSUME Inv, router = "open", router' \in {"open", "closed"},
         stage' = Rejected(stage), queue' = <<>>
  PROVE  Kept
<1>1. RouterType'
  BY DEF Inv, RouterType, Rejected, Stages, Live, Ids
<1>2. QueuedOnce'
  BY DEF QueuedOnce
<1>3. Mapped
  BY DEF Mapped, RejectsAll
<1>. QED BY <1>1, <1>2, <1>3 DEF Kept

LEMMA KeptCloseRouter ==
  ASSUME Inv, CloseRouter
  PROVE  Kept
<1>1. CASE router = "open"
  BY <1>1, KeptRejected DEF CloseRouter
<1>2. CASE router # "open"
  BY <1>2, KeptUnchanged DEF CloseRouter, requestVars
<1>. QED BY <1>1, <1>2

LEMMA KeptFail ==
  ASSUME Inv, Fail
  PROVE  Kept
BY KeptUnchanged, KeptCloseRouter DEF Fail, requestVars

LEMMA KeptFailInitialization ==
  ASSUME Inv, router = "open", FailInitialization
  PROVE  Kept
BY KeptRejected DEF FailInitialization

\* A request that is not queued changes its stage and settles at most.
LEMMA KeptOne ==
  ASSUME Inv, router = "open", router' = "open", queue' = queue,
         NEW r \in Ids, stage[r] \in {"writing", "pending"},
         NEW t \in {"writing", "pending", "resolved", "rejected"},
         stage' = [stage EXCEPT ![r] = t]
  PROVE  Kept
<1>. USE DEF Inv, RouterType, Stages, Live, Ids
<1>1. RouterType'
  OBVIOUS
<1>2. QueuedOnce'
  BY DEF QueuedOnce
<1>3. \A s \in Requests \ {r} : SameOutcome(s)
  BY DEF SameOutcome, Outcome
<1>4. Mapped
  <2>1. CASE r \in Requests /\ t \in {"resolved", "rejected"}
    BY <1>3, <2>1 DEF Mapped, Settles
  <2>2. CASE r \in Requests /\ t \notin {"resolved", "rejected"}
    BY <1>3, <2>2 DEF Mapped, Stays, SameOutcome, Outcome
  <2>3. CASE r \notin Requests
    BY <1>3, <2>3 DEF Mapped, Stays
  <2>. QED BY <2>1, <2>2, <2>3
<1>. QED BY <1>1, <1>2, <1>4 DEF Kept

\* The first of the queue waits before and after it is written; who was written
\* before it is settled at most.
LEMMA KeptWriteNext ==
  ASSUME Inv, router = "open", router' = "open",
         NEW r \in Ids, NEW after \in [Ids -> Stages],
         \A s \in Ids \ {r} : after[s] = stage[s],
         \/ r = Initialize
         \/ after[r] = stage[r]
         \/ stage[r] = "writing" /\ after[r] \in {"pending", "rejected"},
         WriteNext(after)
  PROVE  Kept
<1>. USE NameAssumption DEF Inv, RouterType, Stages, Live, Ids
<1>1. CASE queue = <<>>
  <2>1. stage' = after /\ queue' = <<>>
    BY <1>1 DEF WriteNext
  <2>2. RouterType' /\ QueuedOnce'
    BY <2>1 DEF QueuedOnce
  <2>3. \A s \in Requests \ {r} : SameOutcome(s)
    BY <2>1 DEF SameOutcome, Outcome
  <2>4. CASE r \in Requests /\ after[r] = "rejected" /\ stage[r] = "writing"
    BY <2>1, <2>2, <2>3, <2>4 DEF Kept, Mapped, Settles
  <2>5. CASE ~(r \in Requests /\ after[r] = "rejected" /\ stage[r] = "writing")
    BY <2>1, <2>2, <2>3, <2>5 DEF Kept, Mapped, Stays, SameOutcome, Outcome
  <2>. QED BY <2>4, <2>5
<1>2. CASE queue # <<>>
  <2>. DEFINE h == Head(queue)
  <2>1. /\ stage' = [after EXCEPT ![h] = "writing"]
        /\ queue' = Tail(queue)
    BY <1>2 DEF WriteNext
  <2>2. /\ Len(queue) \in Nat \ {0} /\ h = queue[1] /\ h \in Requests
        /\ Tail(queue) \in Seq(Requests) /\ Len(Tail(queue)) = Len(queue) - 1
        /\ \A i \in 1..Len(Tail(queue)) : Tail(queue)[i] = queue[i + 1]
    BY <1>2
  <2>3. stage[h] = "queued" /\ \A i \in 2..Len(queue) : queue[i] # h
    BY <2>2 DEF QueuedOnce
  <2>4. stage'[h] = "writing" /\ \A s \in Ids \ {h} : stage'[s] = after[s]
    BY <2>1, <2>2
  <2>. HIDE DEF h
  <2>5. RouterType'
    BY <2>1, <2>2
  <2>6. QueuedOnce'
    <3>1. \A i \in 2..Len(queue) : queue[i] \in Ids /\ stage'[queue[i]] = "queued"
      <4>. TAKE i \in 2..Len(queue)
      <4>1. stage[queue[i]] = "queued" /\ queue[i] \in Requests /\ queue[i] # h
        BY <2>2, <2>3 DEF QueuedOnce
      <4>2. after[queue[i]] = "queued"
        BY <4>1
      <4>. QED BY <4>1, <4>2, <2>4
    <3>2. \A i \in 1..Len(queue') : i + 1 \in 2..Len(queue) /\ queue'[i] = queue[i + 1]
      BY <2>1, <2>2
    <3>3. \A i, j \in 2..Len(queue) : queue[i] = queue[j] => i = j
      BY <2>2 DEF QueuedOnce
    <3>4. \A i \in 1..Len(queue') : stage'[queue'[i]] = "queued"
      BY <3>1, <3>2
    <3>5. \A i, j \in 1..Len(queue') : queue'[i] = queue'[j] => i = j
      <4>. TAKE i, j \in 1..Len(queue')
      <4>. HAVE queue'[i] = queue'[j]
      <4>1. i + 1 = j + 1
        BY <3>2, <3>3
      <4>. QED BY <4>1, <2>1, <2>2
    <3>. QED BY <3>4, <3>5 DEF QueuedOnce
  <2>7. \A s \in Requests \ {r} : SameOutcome(s)
    BY <2>2, <2>3, <2>4 DEF SameOutcome, Outcome
  <2>8. CASE r \in Requests /\ after[r] = "rejected" /\ stage[r] = "writing"
    <3>1. stage'[r] = "rejected"
      BY <2>3, <2>4, <2>8
    <3>. QED BY <3>1, <2>5, <2>6, <2>7, <2>8 DEF Kept, Mapped, Settles
  <2>9. CASE ~(r \in Requests /\ after[r] = "rejected" /\ stage[r] = "writing")
    <3>1. r \in Requests => SameOutcome(r)
      BY <2>2, <2>3, <2>4, <2>9 DEF SameOutcome, Outcome
    <3>. QED BY <3>1, <2>5, <2>6, <2>7 DEF Kept, Mapped, Stays
  <2>. QED BY <2>8, <2>9
<1>. QED BY <1>1, <1>2

-----------------------------------------------------------------------------
(* Every step of the session is a step of the contract or changes nothing   *)
(* that the contract shows.                                                 *)

LEMMA InitInv == Init => Inv /\ Contract!Init
BY DEF Init, Inv, RouterType, OpenedOnce, QueuedOnce, Stages, Live, Ids,
       Contract!Init, Outcome

\* Steps that leave the requests alone.
LEMMA SilentStep ==
  ASSUME Inv, UNCHANGED requestVars,
         \/ UNCHANGED vars
         \/ Start \/ StartRuns \/ CommandEnds \/ ConnectRejected \/ ResponseUnusable
         \/ Reclaimed \/ Disconnected \/ CancelAnswered \/ StartAwaited \/ CloseReturns
         \/ SkipMessage \/ HandleNotification
         \/ \E m \in Messages : EventBeforeResponse(m)
         \/ \E a \in AskIds : HandlerEnds(a)
  PROVE  Inv' /\ Mapped
<1>1. Kept
  BY KeptUnchanged DEF requestVars
<1>2. OpenedOnce'
  BY <1>1 DEF Inv, OpenedOnce, Kept, Start, StartRuns, CommandEnds, ConnectRejected,
       ResponseUnusable, Reclaimed, Disconnected, CancelAnswered, StartAwaited, CloseReturns,
       SkipMessage, HandleNotification, EventBeforeResponse, HandlerEnds, Finished,
       requestVars, sessionVars, vars
<1>. QED BY <1>1, <1>2 DEF Kept, Inv

\* Steps that may close the router.
LEMMA ClosingStep ==
  ASSUME Inv,
         \/ Close \/ TransportEnds \/ BrokenEvent \/ InitializeSettled
         \/ HandleGarbage \/ HandleAsk
         \/ \E m \in Messages : Receive(m)
         \/ \E a \in AskIds : ReplyWritten(a)
  PROVE  Inv' /\ Mapped
<1>1. UNCHANGED requestVars \/ CloseRouter \/ Fail
  BY DEF Close, TransportEnds, BrokenEvent, InitializeSettled, HandleGarbage, HandleAsk,
         Receive, ReplyWritten, requestVars
<1>2. Kept
  BY <1>1, KeptUnchanged, KeptCloseRouter, KeptFail DEF requestVars
<1>3. OpenedOnce'
  BY <1>2 DEF Inv, OpenedOnce, Kept, Close, TransportEnds, BrokenEvent, InitializeSettled,
       HandleGarbage, HandleAsk, Receive, ReplyWritten, Fail, Finished
<1>. QED BY <1>2, <1>3 DEF Kept, Inv

\* The end of the connect command opens the router at most, and no request of
\* the application has a stage before that.
LEMMA ConnectedStep ==
  ASSUME Inv, Connected
  PROVE  Inv' /\ Mapped
<1>1. CASE UNCHANGED requestVars
  <2>1. Kept
    BY <1>1, KeptUnchanged DEF requestVars
  <2>2. OpenedOnce'
    BY <1>1, <2>1 DEF Connected, Inv, OpenedOnce, Kept, Finished, requestVars
  <2>. QED BY <2>1, <2>2 DEF Kept, Inv
<1>2. CASE ~UNCHANGED requestVars
  <2>1. /\ phase' = "initializing" /\ start' = "initializing"
        /\ start = "connecting" /\ router' = "open" /\ queue' = queue
        /\ stage' = [stage EXCEPT ![Initialize] = "writing"]
    BY <1>2 DEF Connected
  <2>2. router = "none"
    BY <2>1 DEF Inv, OpenedOnce
  <2>. QED
    BY <2>1, <2>2, NameAssumption
       DEF Inv, RouterType, OpenedOnce, QueuedOnce, Mapped, Opens, SameOutcome, Outcome,
           Stages, Live, Ids
<1>. QED BY <1>1, <1>2

LEMMA IssueStep ==
  ASSUME Inv, NEW r \in Requests, Issue(r)
  PROVE  Inv' /\ Mapped
<1>. USE DEF Inv, RouterType, Stages, Live, Ids
<1>1. /\ router = "open" /\ router' = "open" /\ stage[r] = "none"
      /\ stage' = [stage EXCEPT ![r] = IF ShouldQueue THEN "queued" ELSE "writing"]
      /\ phase' = phase /\ start' = start
  BY DEF Issue, sessionVars
<1>2. OpenedOnce' /\ Accepts(r)
  BY <1>1 DEF OpenedOnce, Accepts, SameOutcome, Outcome
<1>3. CASE ShouldQueue
  <2>1. queue' = Append(queue, r) /\ stage' = [stage EXCEPT ![r] = "queued"]
    BY <1>1, <1>3 DEF Issue
  <2>2. /\ queue' \in Seq(Requests) /\ Len(queue') = Len(queue) + 1
        /\ queue'[Len(queue) + 1] = r
        /\ \A i \in 1..Len(queue) : queue'[i] = queue[i] /\ queue[i] \in Requests
    BY <2>1
  <2>3. \A i \in 1..Len(queue) : queue[i] # r
    BY <1>1 DEF QueuedOnce
  <2>4. QueuedOnce'
    BY <2>1, <2>2, <2>3 DEF QueuedOnce
  <2>. QED BY <1>1, <1>2, <2>1, <2>2, <2>4 DEF Mapped
<1>4. CASE ~ShouldQueue
  <2>1. queue' = queue /\ stage' = [stage EXCEPT ![r] = "writing"]
    BY <1>1, <1>4 DEF Issue
  <2>2. QueuedOnce'
    BY <1>1, <2>1 DEF QueuedOnce
  <2>. QED BY <1>1, <1>2, <2>1, <2>2 DEF Mapped
<1>. QED BY <1>3, <1>4

\* The end of a write settles at most the request that was written, or all when
\* it was initialize.
LEMMA WriteEndsStep ==
  ASSUME Inv, NEW r \in Ids, WriteEnds(r)
  PROVE  Inv' /\ Mapped
<1>1. /\ router = "open" /\ stage[r] = "writing"
      /\ phase' = phase /\ start' = start
  BY DEF WriteEnds, sessionVars
<1>2. CASE FailInitialization
  <2>1. Kept
    BY <1>1, <1>2, KeptFailInitialization
  <2>. QED BY <1>1, <2>1 DEF Kept, Inv, OpenedOnce
<1>3. CASE ~FailInitialization
  <2>1. PICK t \in {"pending", "rejected"} :
          /\ stage' = [stage EXCEPT ![r] = t] /\ queue' = queue /\ router' = "open"
    <3>1. CASE stage' = [stage EXCEPT ![r] = "pending"]
      BY <1>1, <1>3, <3>1 DEF WriteEnds, FailedWrite
    <3>2. CASE stage' # [stage EXCEPT ![r] = "pending"]
      <4>1. /\ stage' = [stage EXCEPT ![r] = IF @ = "writing" THEN "rejected" ELSE @]
            /\ queue' = queue /\ router' = "open"
        BY <1>1, <1>3, <3>2 DEF WriteEnds, FailedWrite
      <4>. QED BY <1>1, <4>1
    <3>. QED BY <3>1, <3>2
  <2>2. Kept
    BY <1>1, <2>1, KeptOne
  <2>. QED BY <1>1, <2>2 DEF Kept, Inv, OpenedOnce
<1>. QED BY <1>2, <1>3

\* The task that completes the initialization stops when the router is closed,
\* and goes on with the queue otherwise.
LEMMA DrainStep ==
  ASSUME Inv, InitializedWritten \/ DrainedWrite
  PROVE  Inv' /\ Mapped
<1>. USE DEF RouterType, Stages, Live, Ids
<1>1. phase' = phase /\ start' = start
  BY DEF InitializedWritten, DrainedWrite, sessionVars
<1>2. CASE UNCHANGED requestVars
  <2>1. Kept
    BY <1>2, KeptUnchanged DEF requestVars
  <2>. QED BY <1>1, <2>1 DEF Kept, Inv, OpenedOnce
<1>3. CASE router = "open" /\ FailInitialization
  <2>1. Kept
    BY <1>3, KeptFailInitialization
  <2>. QED BY <1>1, <2>1 DEF Kept, Inv, OpenedOnce
<1>4. CASE /\ router = "open" /\ router' = "open"
           /\ WriteNext([stage EXCEPT ![Initialize] = "resolved"])
  <2>. DEFINE after == [stage EXCEPT ![Initialize] = "resolved"]
  <2>1. after \in [Ids -> Stages] /\ \A s \in Ids \ {Initialize} : after[s] = stage[s]
    BY DEF Inv
  <2>2. WriteNext(after) /\ Initialize \in Ids
    BY <1>4
  <2>. HIDE DEF after
  <2>3. Kept
    BY <1>4, <2>1, <2>2, KeptWriteNext
  <2>. QED BY <1>1, <2>3 DEF Kept, Inv, OpenedOnce
<1>5. ASSUME router = "open", router' = "open", drain \in Requests,
             NEW t \in {"pending", "rejected"},
             WriteNext([stage EXCEPT ![drain] = IF @ = "writing" THEN t ELSE @])
      PROVE  Inv' /\ Mapped
  <2>. DEFINE after == [stage EXCEPT ![drain] = IF @ = "writing" THEN t ELSE @]
  <2>1. /\ drain \in Ids
        /\ after \in [Ids -> Stages] /\ \A s \in Ids \ {drain} : after[s] = stage[s]
        /\ after[drain] = stage[drain] \/ (stage[drain] = "writing" /\ after[drain] = t)
    BY <1>5 DEF Inv
  <2>2. WriteNext(after)
    BY <1>5
  <2>. HIDE DEF after
  <2>3. Kept
    BY <1>5, <2>1, <2>2, KeptWriteNext
  <2>. QED BY <1>1, <2>3 DEF Kept, Inv, OpenedOnce
<1>. QED BY <1>2, <1>3, <1>4, <1>5 DEF InitializedWritten, DrainedWrite, FailedWrite

\* A reply settles the request it is for, unless nobody waits for it any more.
LEMMA ReplyStep ==
  ASSUME Inv, HandleResult \/ HandleError
  PROVE  Inv' /\ Mapped
<1>. DEFINE r == Head(inbound).of
<1>1. phase' = phase /\ start' = start /\ router = "open"
  BY DEF HandleResult, HandleError, Ready, sessionVars
<1>2. Kept
  <2>1. CASE FailInitialization
    BY <1>1, <2>1, KeptFailInitialization
  <2>2. CASE UNCHANGED <<router, stage, queue>>
    BY <2>2, KeptUnchanged
  <2>3. ASSUME router' = "open", queue' = queue, stage[r] \in {"writing", "pending"},
               NEW t \in {"resolved", "rejected"}, stage' = [stage EXCEPT ![r] = t]
        PROVE  Kept
    <3>1. CASE r \in Ids
      BY <1>1, <2>3, <3>1, KeptOne
    <3>2. CASE r \notin Ids
      <4>1. stage' = stage
        BY <2>3, <3>2 DEF Inv, RouterType
      <4>. QED BY <1>1, <2>3, <4>1, KeptUnchanged
    <3>. QED BY <3>1, <3>2
  <2>. QED
    BY <1>1, <2>1, <2>2, <2>3
       DEF HandleResult, HandleError, Expected, BeginCompletion, requestVars
<1>. QED BY <1>1, <1>2 DEF Kept, Inv, OpenedOnce

LEMMA Step ==
  ASSUME Inv, [Next]_vars
  PROVE  Inv' /\ Mapped
<1>1. CASE UNCHANGED vars
  BY <1>1, SilentStep DEF vars, requestVars
<1>2. CASE Application
  BY <1>2, IssueStep, SilentStep, ClosingStep DEF Application, Start
<1>3. CASE Server
  BY <1>3, SilentStep, ClosingStep DEF Server, EventBeforeResponse
<1>4. CASE Runtime
  <2>1. CASE StartRuns \/ CommandEnds \/ ConnectRejected \/ ResponseUnusable
             \/ Reclaimed \/ Disconnected \/ CancelAnswered \/ StartAwaited \/ CloseReturns
             \/ SkipMessage \/ HandleNotification
    BY <2>1, SilentStep
       DEF StartRuns, CommandEnds, ConnectRejected, ResponseUnusable, Reclaimed, Disconnected,
           CancelAnswered, StartAwaited, CloseReturns, SkipMessage, HandleNotification
  <2>. QED
    BY <1>4, <2>1, ClosingStep, ConnectedStep, WriteEndsStep, DrainStep, ReplyStep DEF Runtime
<1>5. ASSUME NEW a \in AskIds, HandlerEnds(a) PROVE Inv' /\ Mapped
  BY <1>5, SilentStep DEF HandlerEnds
<1>. QED BY <1>1, <1>2, <1>3, <1>4, <1>5 DEF Next

-----------------------------------------------------------------------------
(* Requests of the server                                                  *)

\* Before the router is open nothing was asked.
AskInv ==
  /\ asked \in [AskIds -> {"no", "handling", "replying"}]
  /\ owed \in [AskIds -> Nat]
  /\ EveryAskAnswered
  /\ router = "none" => \A a \in AskIds : asked[a] = "no" /\ owed[a] = 0

LEMMA InitAsks == Init => AskInv
BY DEF Init, AskInv, EveryAskAnswered

LEMMA AskStep ==
  ASSUME Inv, Inv', AskInv, [Next]_vars
  PROVE  AskInv'
<1>. USE DEF AskInv, EveryAskAnswered
<1>1. ASSUME UNCHANGED askVars, router' = router \/ router' # "open" \/ router = "none",
             router' = "none" => router = "none"
      PROVE  AskInv'
  BY <1>1 DEF askVars
<1>2. CASE HandleAsk
  BY <1>2 DEF HandleAsk, Ready, Outstanding, Fail, CloseRouter, requestVars, askVars
<1>3. ASSUME NEW a \in AskIds, HandlerEnds(a) PROVE AskInv'
  BY <1>3 DEF HandlerEnds, requestVars
<1>4. ASSUME NEW a \in AskIds, ReplyWritten(a) PROVE AskInv'
  BY <1>4 DEF ReplyWritten, Fail, CloseRouter, requestVars
<1>5. CASE UNCHANGED vars
  BY <1>1, <1>5 DEF vars, requestVars
<1>6. CASE Application
  BY <1>1, <1>6 DEF Application, Start, Close, Issue, CloseRouter, requestVars
<1>7. CASE Server
  BY <1>1, <1>7
     DEF Server, TransportEnds, BrokenEvent, EventBeforeResponse, Receive, Fail, CloseRouter,
         requestVars
<1>8. CASE Connected
  BY <1>1, <1>8 DEF Connected, Inv, OpenedOnce, requestVars
<1>9. CASE StartRuns \/ CommandEnds \/ ConnectRejected \/ ResponseUnusable
           \/ Reclaimed \/ InitializeSettled \/ Disconnected
           \/ CancelAnswered \/ StartAwaited \/ CloseReturns
  BY <1>1, <1>9
     DEF StartRuns, CommandEnds, ConnectRejected, ResponseUnusable, Reclaimed,
         InitializeSettled, Disconnected, CancelAnswered, StartAwaited, CloseReturns,
         Fail, CloseRouter, requestVars
<1>10. CASE \/ InitializedWritten \/ DrainedWrite \/ \E r \in Ids : WriteEnds(r)
            \/ SkipMessage \/ HandleGarbage \/ HandleNotification \/ HandleResult \/ HandleError
  BY <1>1, <1>10
     DEF InitializedWritten, DrainedWrite, WriteEnds, SkipMessage, HandleGarbage,
         HandleNotification, HandleResult, HandleError, FailInitialization, Fail, CloseRouter,
         requestVars
<1>. QED
  BY <1>2, <1>3, <1>4, <1>5, <1>6, <1>7, <1>8, <1>9, <1>10 DEF Next, Runtime

-----------------------------------------------------------------------------
(* The pool's entry for the connection                                     *)

\* A session that was closed or failed does not come back.
EndIsFinal ==
  /\ closing # "none" => phase \in {"closing", "closed"}
  /\ start = "begun" => phase \in {"connecting", "closing", "closed"}
  /\ start = "connecting" /\ ~bridgeFailed => phase \in {"connecting", "closing", "closed"}

\* What the connect command and its continuation left behind
CommandFollowed ==
  /\ start \in {"none", "begun"} => command = "none"
  /\ start \in {"none", "begun", "connecting"} => ~held /\ disconnect = "none"
  /\ start = "connecting" =>
       bridge = "connecting" /\ command \in {"running", "committed", "refused"}
  /\ start \notin {"none", "begun", "connecting"} => command \in {"none", "over"}
  /\ command \in {"none", "running", "refused"} => logical # "registered" /\ ~ended
  /\ ended => logical = "gone"

\* The entry is registered while the command's response is on its way, the
\* connection is active, or it is being disconnected.
EntryIsKnown ==
  logical = "registered" =>
    \/ command = "committed"
    \/ command = "over" /\ (bridge = "active" \/ disconnect \in {"sent", "failed"})

\* Only a session that lives, or whose close has yet to wait for its start, has
\* an active connection.
ActiveIsHeld ==
  bridge = "active" =>
    /\ held /\ disconnect = "none"
    /\ phase \in {"initializing", "ready", "closing"}
    /\ closing \notin {"awaitClose", "awaitInbound", "over"}

BackInv == EndIsFinal /\ CommandFollowed /\ EntryIsKnown /\ ActiveIsHeld

LEMMA InitBack == Init => BackInv
BY DEF Init, BackInv, EndIsFinal, CommandFollowed, EntryIsKnown, ActiveIsHeld

LEMMA BackStep ==
  ASSUME Inv, BackInv, [Next]_vars
  PROVE  BackInv'
<1>. USE DEF BackInv, EndIsFinal, CommandFollowed, EntryIsKnown, ActiveIsHeld, Finished,
         sessionVars, bridgeVars
<1>1. CASE UNCHANGED vars
  BY <1>1 DEF vars
<1>2. CASE Start
  BY <1>2 DEF Start, Inv, OpenedOnce
<1>3. CASE Close
  BY <1>3 DEF Close
<1>4. CASE CancelAnswered
  BY <1>4 DEF CancelAnswered, AfterCloseTransport, CloseTransport, MustDisconnect, Disconnect
<1>5. CASE StartAwaited
  BY <1>5 DEF StartAwaited, AfterCloseTransport, CloseTransport, MustDisconnect, Disconnect
<1>6. CASE CloseReturns
  BY <1>6 DEF CloseReturns
<1>7. CASE StartRuns \/ CommandEnds \/ ConnectRejected
  BY <1>7 DEF StartRuns, CommandEnds, ConnectRejected
<1>8. CASE ResponseUnusable \/ Connected
  BY <1>8 DEF ResponseUnusable, Connected, Disconnect
<1>9. CASE Reclaimed \/ Disconnected
  BY <1>9 DEF Reclaimed, Disconnected
<1>10. CASE InitializeSettled
  BY <1>10 DEF InitializeSettled, Fail, CloseTransport, MustDisconnect, Disconnect
<1>11. CASE TransportEnds \/ BrokenEvent
  BY <1>11 DEF TransportEnds, BrokenEvent, Disconnect
<1>12. ASSUME NEW m \in Messages, EventBeforeResponse(m) \/ Receive(m) PROVE BackInv'
  BY <1>12 DEF EventBeforeResponse, Receive, Fail, CloseTransport, MustDisconnect, Disconnect
<1>13. CASE HandleGarbage \/ HandleAsk \/ \E a \in AskIds : ReplyWritten(a)
  BY <1>13 DEF HandleGarbage, HandleAsk, ReplyWritten, Ready, Fail, CloseTransport,
     MustDisconnect, Disconnect, Inv, OpenedOnce
<1>14. CASE \/ \E r \in Requests : Issue(r)
            \/ InitializedWritten \/ DrainedWrite \/ \E r \in Ids : WriteEnds(r)
            \/ SkipMessage \/ HandleNotification \/ HandleResult \/ HandleError
            \/ \E a \in AskIds : HandlerEnds(a)
  BY <1>14 DEF Issue, InitializedWritten, DrainedWrite, WriteEnds, SkipMessage,
     HandleNotification, HandleResult, HandleError, HandlerEnds
<1>. QED
  BY <1>1, <1>2, <1>3, <1>4, <1>5, <1>6, <1>7, <1>8, <1>9, <1>10, <1>11, <1>12, <1>13, <1>14
     DEF Next, Application, Server, Runtime

-----------------------------------------------------------------------------
(* The order of the writes                                                 *)

\* The task that completes the initialization runs once: initialize is being
\* written or answered before it, and it drains the queue of a ready session.
CompletedOnce ==
  router = "open" =>
    /\ init = "initializing" => drain = Nobody
    /\ stage[Initialize] = "writing" => init = "initializing"
    /\ drain = Initialize => init = "sending_initialized"
    /\ drain \in Requests => init = "ready"

\* Written comes before queued, and both follow the order of issued.  A request
\* is written directly only when none is queued.
Sent == Len(written) - 1

Ordered ==
  /\ written # <<>> =>
       /\ written[1] = Initialize /\ Sent <= Len(issued)
       /\ \A i \in 1..Sent : written[i + 1] = issued[i]
  /\ router = "open" /\ init # "failed" =>
       /\ Len(issued) = Sent + Len(queue)
       /\ \A i \in 1..Len(queue) : queue[i] = issued[Sent + i]
       /\ ~ShouldQueue => queue = <<>>
  /\ router = "open" /\ init = "failed" => queue = <<>>

OrderInv ==
  /\ written \in Seq(Ids) /\ issued \in Seq(Requests) /\ drain \in Ids \cup {Nobody}
  /\ router = "none" => written = <<>> /\ issued = <<>> /\ queue = <<>> /\ drain = Nobody
  /\ router = "open" => written # <<>>
  /\ CompletedOnce /\ Ordered

LEMMA InitOrder == Init => OrderInv
BY NameAssumption DEF Init, OrderInv, CompletedOnce, Ordered, Ids

LEMMA OrderWriteNext ==
  ASSUME Inv, OrderInv, NEW after, router = "open", router' = "open", init' = "ready",
         init # "failed", issued' = issued, stage'[Initialize] # "writing", WriteNext(after)
  PROVE  OrderInv'
<1>. USE NameAssumption DEF Inv, RouterType, OrderInv, CompletedOnce, Ordered, Sent
<1>1. CASE queue = <<>>
  BY <1>1 DEF WriteNext, TaskEnds, ShouldQueue
<1>2. CASE queue # <<>>
  <2>1. /\ written' = Append(written, Head(queue)) /\ queue' = Tail(queue)
        /\ drain' = Head(queue)
    BY <1>2 DEF WriteNext
  <2>2. /\ Len(queue) \in Nat \ {0} /\ Head(queue) = queue[1] /\ Head(queue) \in Requests
        /\ Tail(queue) \in Seq(Requests) /\ Len(Tail(queue)) = Len(queue) - 1
        /\ \A i \in 1..Len(Tail(queue)) : Tail(queue)[i] = queue[i + 1]
    BY <1>2
  <2>3. /\ written' \in Seq(Ids) /\ Len(written') = Len(written) + 1
        /\ written'[Len(written) + 1] = queue[1]
        /\ \A i \in 1..Len(written) : written'[i] = written[i]
    BY <2>1, <2>2 DEF Ids
  <2>4. Len(written) \in Nat \ {0} /\ Len(issued) = Sent + Len(queue)
    OBVIOUS
  <2>5. Sent' = Sent + 1 /\ Sent' <= Len(issued) /\ written'[1] = Initialize
    BY <2>2, <2>3, <2>4
  <2>6. \A i \in 1..Sent' : written'[i + 1] = issued[i]
    <3>. TAKE i \in 1..Sent'
    <3>1. CASE i = Sent'
      BY <2>2, <2>3, <2>4, <3>1
    <3>2. CASE i # Sent'
      <4>1. i \in 1..Sent /\ i + 1 \in 1..Len(written)
        BY <2>4, <2>5, <3>2
      <4>. QED BY <2>3, <4>1
    <3>. QED BY <3>1, <3>2
  <2>7. \A i \in 1..Len(queue') : queue'[i] = issued[Sent' + i]
    BY <2>1, <2>2, <2>4, <2>5
  <2>8. Len(issued) = Sent' + Len(queue')
    BY <2>1, <2>2, <2>4, <2>5
  <2>9. CompletedOnce' /\ ShouldQueue'
    BY <2>1, <2>2 DEF ShouldQueue
  <2>10. Ordered'
    BY <2>3, <2>4, <2>5, <2>6, <2>7, <2>8, <2>9
  <2>11. written' \in Seq(Ids) /\ drain' \in Ids \cup {Nobody} /\ written' # <<>>
    <3>1. Head(queue) \in Ids /\ Len(written') # 0
      BY <2>2, <2>3, <2>4 DEF Ids
    <3>. HIDE DEF Inv, RouterType, OrderInv, CompletedOnce, Ordered, Sent
    <3>. QED BY <2>1, <2>3, <3>1
  <2>12. issued' \in Seq(Requests)
    OBVIOUS
  <2>. HIDE DEF Inv, RouterType, CompletedOnce, Ordered, Sent
  <2>. QED BY <2>9, <2>10, <2>11, <2>12
<1>. QED BY <1>1, <1>2

LEMMA OrderIssue ==
  ASSUME Inv, OrderInv, NEW r \in Requests, Issue(r)
  PROVE  OrderInv'
<1>. USE NameAssumption DEF Inv, RouterType, OrderInv, CompletedOnce, Ordered, Sent
<1>1. /\ router = "open" /\ router' = "open" /\ init # "failed" /\ init' = init
      /\ drain' = drain /\ stage'[Initialize] = stage[Initialize]
      /\ issued' = Append(issued, r)
  BY DEF Issue, taskVars, Ids
<1>2. /\ issued' \in Seq(Requests) /\ Len(issued') = Len(issued) + 1
      /\ issued'[Len(issued) + 1] = r
      /\ \A i \in 1..Len(issued) : issued'[i] = issued[i]
  BY <1>1
<1>3. CASE ShouldQueue
  <2>1. queue' = Append(queue, r) /\ written' = written /\ ShouldQueue'
    BY <1>1, <1>3 DEF Issue, ShouldQueue
  <2>2. /\ Len(queue') = Len(queue) + 1 /\ queue'[Len(queue) + 1] = r
        /\ \A i \in 1..Len(queue) : queue'[i] = queue[i]
    BY <2>1
  <2>3. Sent' = Sent /\ Sent \in Nat /\ Len(issued) = Sent + Len(queue) /\ Len(queue) \in Nat
    BY <1>1, <2>1
  <2>. HIDE DEF Inv, RouterType, OrderInv, CompletedOnce, Ordered, Sent
  <2>4. \A i \in 1..Len(queue') : queue'[i] = issued'[Sent' + i]
    <3>. TAKE i \in 1..Len(queue')
    <3>1. CASE i = Len(queue) + 1
      <4>1. Sent' + i = Len(issued) + 1
        BY <2>3, <3>1
      <4>. QED BY <1>2, <2>2, <3>1, <4>1
    <3>2. CASE i # Len(queue) + 1
      <4>1. i \in 1..Len(queue) /\ Sent + i \in 1..Len(issued)
        BY <2>2, <2>3, <3>2
      <4>2. queue[i] = issued[Sent + i]
        BY <1>1, <4>1 DEF OrderInv, Ordered
      <4>. QED BY <1>2, <2>2, <2>3, <4>1, <4>2
    <3>. QED BY <3>1, <3>2
  <2>5. /\ written' # <<>> /\ written'[1] = Initialize /\ Sent' <= Len(issued')
        /\ \A i \in 1..Sent' : written'[i + 1] = issued'[i]
    BY <1>1, <1>2, <2>1, <2>3 DEF OrderInv, Ordered
  <2>6. Len(issued') = Sent' + Len(queue')
    BY <1>2, <2>2, <2>3
  <2>7. Ordered'
    BY <1>1, <2>1, <2>4, <2>5, <2>6 DEF Ordered
  <2>. QED BY <1>1, <1>2, <2>1, <2>7 DEF OrderInv, CompletedOnce
<1>4. CASE ~ShouldQueue
  <2>1. queue' = <<>> /\ queue = <<>> /\ written' = Append(written, r)
    BY <1>1, <1>4 DEF Issue
  <2>2. /\ written' \in Seq(Ids) /\ Len(written') = Len(written) + 1
        /\ written'[Len(written) + 1] = r
        /\ \A i \in 1..Len(written) : written'[i] = written[i]
    BY <2>1 DEF Ids
  <2>3. \A i \in 1..Sent' : written'[i + 1] = issued'[i]
    <3>. TAKE i \in 1..Sent'
    <3>1. CASE i = Sent'
      BY <1>1, <1>2, <2>1, <2>2, <3>1
    <3>2. CASE i # Sent'
      BY <1>1, <1>2, <2>1, <2>2, <3>2
    <3>. QED BY <3>1, <3>2
  <2>. QED BY <1>1, <1>2, <2>1, <2>2, <2>3
<1>. QED BY <1>3, <1>4

LEMMA OrderStep ==
  ASSUME Inv, Inv', OrderInv, [Next]_vars
  PROVE  OrderInv'
<1>. USE NameAssumption DEF Inv, RouterType, OrderInv, CompletedOnce, Ordered, Sent, ShouldQueue
<1>1. ASSUME UNCHANGED <<written, issued, drain, init, stage, queue, router>>
      PROVE  OrderInv'
  BY <1>1
<1>2. ASSUME UNCHANGED <<written, issued>>, router' # "open", router' = "none" => router = "none",
             drain' \in {drain, Nobody}, drain' # drain => router # "none", queue' = <<>> \/ queue' = queue
      PROVE  OrderInv'
  BY <1>2
<1>3. ASSUME UNCHANGED <<written, issued, taskVars, requestVars>> \/
             (UNCHANGED <<written, issued, taskVars>> /\ (CloseRouter \/ Fail))
      PROVE  OrderInv'
  BY <1>1, <1>2, <1>3 DEF Fail, CloseRouter, taskVars, requestVars
<1>4. ASSUME router = "open", router' = "open", FailInitialization, UNCHANGED <<written, issued>>,
             drain' = Nobody \/ (drain' = drain /\ drain = Nobody)
      PROVE  OrderInv'
  BY <1>4 DEF FailInitialization, Rejected, Live, Ids
<1>5. CASE UNCHANGED vars
  BY <1>1, <1>5 DEF vars, requestVars, taskVars, historyVars
<1>6. CASE Start \/ Close
  BY <1>3, <1>6 DEF Start, Close, historyVars
<1>7. ASSUME NEW r \in Requests, Issue(r) PROVE OrderInv'
  BY <1>7, OrderIssue
<1>8. CASE Server
  BY <1>3, <1>8
     DEF Server, TransportEnds, BrokenEvent, EventBeforeResponse, Receive, historyVars
<1>9. CASE StartRuns \/ CommandEnds \/ ConnectRejected \/ ResponseUnusable
           \/ Reclaimed \/ InitializeSettled \/ Disconnected
           \/ CancelAnswered \/ StartAwaited \/ CloseReturns
  BY <1>3, <1>9
     DEF StartRuns, CommandEnds, ConnectRejected, ResponseUnusable, Reclaimed,
         InitializeSettled, Disconnected, CancelAnswered, StartAwaited, CloseReturns, historyVars
<1>10. CASE SkipMessage \/ HandleGarbage \/ HandleNotification \/ HandleAsk
            \/ (\E a \in AskIds : ReplyWritten(a) \/ HandlerEnds(a))
  BY <1>3, <1>10
     DEF SkipMessage, HandleGarbage, HandleNotification, HandleAsk, ReplyWritten, HandlerEnds,
         historyVars
<1>11. CASE Connected
  <2>1. CASE UNCHANGED <<requestVars, written>>
    BY <1>3, <1>11, <2>1 DEF Connected
  <2>2. CASE ~UNCHANGED <<requestVars, written>>
    <3>1. /\ start = "connecting" /\ router' = "open" /\ init' = "initializing"
          /\ queue' = queue /\ written' = Append(written, Initialize)
          /\ drain' = drain /\ issued' = issued
      BY <1>11, <2>2 DEF Connected, taskVars
    <3>2. router = "none"
      BY <3>1 DEF OpenedOnce
    <3>3. written' = <<Initialize>>
      BY <3>1, <3>2
    <3>. QED BY <3>1, <3>2, <3>3 DEF Ids
  <2>. QED BY <2>1, <2>2
<1>12. ASSUME NEW r \in Ids, WriteEnds(r) PROVE OrderInv'
  <2>1. /\ router = "open" /\ stage[r] = "writing" /\ UNCHANGED <<written, issued>>
    BY <1>12 DEF WriteEnds, historyVars
  <2>2. CASE FailInitialization
    <3>1. /\ init' = "failed" /\ drain' = drain /\ router' = "open"
          /\ r = Initialize \/ init' = init
      BY <1>12, <2>1, <2>2 DEF WriteEnds, BeginCompletion, FailInitialization, taskVars
    <3>2. drain = Nobody
      BY <2>1, <3>1 DEF Ids
    <3>. QED BY <1>4, <2>1, <2>2, <3>1, <3>2
  <2>3. CASE ~FailInitialization
    <3>1. /\ queue' = queue /\ router' = "open"
          /\ stage' \in {[stage EXCEPT ![r] = "pending"], FailedWrite(r)}
          /\ \/ init' = init /\ drain' = drain
             \/ r = Initialize /\ init' = "sending_initialized" /\ drain' = Initialize
      BY <1>12, <2>1, <2>3 DEF WriteEnds, BeginCompletion, taskVars
    <3>2. /\ stage'[Initialize] = "writing" => stage[Initialize] = "writing"
          /\ stage'[r] # "writing"
      BY <2>1, <3>1 DEF FailedWrite, Ids
    <3>. QED BY <2>1, <3>1, <3>2
  <2>. QED BY <2>2, <2>3
<1>13. CASE HandleResult \/ HandleError
  <2>. DEFINE r == Head(inbound).of
  <2>1. /\ router = "open" /\ UNCHANGED <<written, issued>>
    BY <1>13 DEF HandleResult, HandleError, Ready, historyVars
  <2>2. CASE FailInitialization
    <3>1. /\ init' = "failed" /\ drain' = drain /\ router' = "open"
          /\ init = "initializing" \/ init' = init
      BY <1>13, <2>1, <2>2
         DEF HandleResult, HandleError, Expected, FailInitialization, BeginCompletion, taskVars,
             requestVars
    <3>2. drain = Nobody
      BY <2>1, <3>1 DEF Ids
    <3>. QED BY <1>4, <2>1, <2>2, <3>1, <3>2
  <2>3. CASE ~FailInitialization
    <3>1. /\ queue' = queue /\ router' = "open"
          /\ \/ stage' = stage
             \/ r # Initialize /\ stage' \in {[stage EXCEPT ![r] = "resolved"], [stage EXCEPT ![r] = "rejected"]}
          /\ \/ init' = init /\ drain' = drain
             \/ /\ stage[Initialize] # "writing" /\ stage' = stage
                /\ init = "initializing" /\ init' = "sending_initialized" /\ drain' = Initialize
      BY <1>13, <2>1, <2>3
         DEF HandleResult, HandleError, Expected, BeginCompletion, taskVars, requestVars
    <3>2. stage'[Initialize] = stage[Initialize]
      BY <3>1 DEF Ids
    <3>. QED BY <2>1, <3>1, <3>2
  <2>. QED BY <2>2, <2>3
<1>14. CASE InitializedWritten
  <2>1. drain = Initialize /\ issued' = issued
    BY <1>14 DEF InitializedWritten
  <2>2. CASE router # "open"
    BY <1>2, <1>14, <2>2 DEF InitializedWritten, TaskEnds, requestVars
  <2>3. CASE router = "open" /\ FailInitialization
    BY <1>4, <1>14, <2>1, <2>3 DEF InitializedWritten, FailInitialization, TaskEnds
  <2>4. CASE router = "open" /\ ~FailInitialization
    <3>1. /\ router' = "open" /\ init' = "ready"
          /\ WriteNext([stage EXCEPT ![Initialize] = "resolved"])
      BY <1>14, <2>4 DEF InitializedWritten
    <3>2. stage'[Initialize] # "writing" /\ init # "failed"
      <4>1. queue # <<>> => Head(queue) \in Requests
        OBVIOUS
      <4>. QED BY <2>1, <2>4, <3>1, <4>1 DEF WriteNext, Ids
    <3>. QED BY <2>1, <2>4, <3>1, <3>2, OrderWriteNext
  <2>. QED BY <2>2, <2>3, <2>4
<1>15. CASE DrainedWrite
  <2>1. drain \in Requests /\ issued' = issued
    BY <1>15 DEF DrainedWrite
  <2>2. CASE router # "open"
    BY <1>2, <1>15, <2>2 DEF DrainedWrite, TaskEnds, requestVars
  <2>3. CASE router = "open"
    <3>1. /\ router' = "open" /\ init = "ready" /\ init' = "ready"
          /\ \/ WriteNext([stage EXCEPT ![drain] = IF @ = "writing" THEN "pending" ELSE @])
             \/ WriteNext(FailedWrite(drain))
      BY <1>15, <2>1, <2>3 DEF DrainedWrite
    <3>2. stage'[Initialize] # "writing"
      <4>1. queue # <<>> => Head(queue) \in Requests
        OBVIOUS
      <4>2. stage[Initialize] # "writing"
        BY <2>3, <3>1
      <4>. QED BY <2>1, <3>1, <4>1, <4>2 DEF WriteNext, FailedWrite, Ids
    <3>. QED BY <2>1, <2>3, <3>1, <3>2, OrderWriteNext
  <2>. QED BY <2>2, <2>3
<1>. QED
  BY <1>5, <1>6, <1>7, <1>8, <1>9, <1>10, <1>11, <1>12, <1>13, <1>14, <1>15
     DEF Next, Application, Runtime

-----------------------------------------------------------------------------
(* The order of the messages                                               *)

\* The positions of p that are protocol messages: the server numbered n of them.
Protocol(p) == {i \in DOMAIN p : p[i].kind # "progress"}

Counted(p, n) ==
  n = Cardinality(Protocol(p)) /\ \A i \in Protocol(p) : p[i].n = Rank(Protocol(p), i)

\* The message that is being handled is still the first of inbound.
Ahead == IF completer = "inbound" THEN 1 ELSE 0

\* A router is open while its session lives.
Alive ==
  /\ router = "open" => phase \notin Finished
  /\ bridge = "active" => router # "none"

Beginning ==
  /\ start \in {"none", "begun"} => arrived = 0 /\ pended = <<>>
  /\ router = "none" => handled = 0 /\ completer = "none"

\* The message that completes the initialization waits in inbound for its task.
TaskOwner ==
  /\ drain = Nobody <=> completer = "none"
  /\ completer = "inbound" => inbound # <<>>
  /\ router = "open" /\ stored => init = "initializing"

\* What came before the connect response is all there, unless the bridge failed.
NumberedEarly == start = "connecting" /\ ~bridgeFailed => Counted(pended, arrived)

\* What the server sent and the router has not taken is in inbound, in order.
Numbered ==
  router = "open" =>
    /\ handled + Len(inbound) = arrived + Ahead
    /\ \A i \in DOMAIN inbound : inbound[i].n + Ahead = handled + i

MessagesType ==
  /\ pended \in Seq(Messages) /\ Len(pended) <= MaxPending
  /\ inbound \in Seq(Messages) /\ Len(inbound) <= InboundCapacity
  /\ arrived \in 0..MaxInbound /\ handled \in 0..arrived
  /\ completer \in {"none", "writer", "inbound"}

MessagesInv == Alive /\ Beginning /\ TaskOwner /\ NumberedEarly /\ Numbered /\ MessagesType

LEMMA CountedAppend ==
  ASSUME NEW p \in Seq(Messages), NEW n, Counted(p, n), NEW m \in Messages,
         m.kind # "progress" => m.n = n + 1
  PROVE  Counted(Append(p, m), IF m.kind = "progress" THEN n ELSE n + 1)
<1>. DEFINE q == Append(p, m)
            k == Len(p)
            old == Protocol(p)
            new == Protocol(q)
<1>1. /\ k \in Nat /\ DOMAIN p = 1..k /\ DOMAIN q = 1..(k + 1) /\ q[k + 1] = m
      /\ \A i \in 1..k : q[i] = p[i]
  OBVIOUS
<1>2. old \in SUBSET (1..k) BY <1>1 DEF Protocol
<1>3. \A i \in old : i \in Nat /\ i <= k BY <1>2
<1>4. IsFiniteSet(old) /\ Cardinality(old) \in Nat BY <1>1, <1>2, RankType
<1>5. CASE m.kind = "progress"
  <2>1. new = old BY <1>1, <1>5 DEF Protocol
  <2>. HIDE DEF new, old, q
  <2>. QED BY <1>1, <1>2, <1>5, <2>1 DEF Counted, new, old, q
<1>6. CASE m.kind # "progress"
  <2>1. new = old \cup {k + 1} BY <1>1, <1>6 DEF Protocol
  <2>. HIDE DEF new, old, q, k
  <2>2. k + 1 \notin old BY <1>1, <1>3
  <2>3. Cardinality(new) = Cardinality(old) + 1 BY <1>4, <2>1, <2>2, FS_AddElement
  <2>4. Rank(new, k + 1) = Cardinality(new)
    <3>1. {j \in new : j <= k + 1} = new BY <1>1, <1>3, <2>1
    <3>. QED BY <3>1 DEF Rank
  <2>5. ASSUME NEW i \in old PROVE Rank(new, i) = Rank(old, i) /\ q[i] = p[i]
    <3>1. {j \in new : j <= i} = {j \in old : j <= i} BY <1>1, <1>3, <2>1
    <3>2. q[i] = p[i] BY <1>1, <1>2
    <3>. QED BY <3>1, <3>2 DEF Rank
  <2>6. n = Cardinality(old) /\ \A i \in old : p[i].n = Rank(old, i) BY DEF Counted, old
  <2>7. \A i \in new : q[i].n = Rank(new, i) BY <1>1, <1>6, <2>1, <2>3, <2>4, <2>5, <2>6
  <2>. QED BY <1>6, <2>3, <2>6, <2>7 DEF Counted, new, q
<1>. QED BY <1>5, <1>6

\* The messages that came before the connect response are handled in their order, all
\* of them.
LEMMA FlushedNumbers ==
  ASSUME pended \in Seq(Messages), Counted(pended, arrived)
  PROVE  /\ Flushed \in Seq(Messages) /\ Len(Flushed) = arrived /\ Len(Flushed) <= Len(pended)
         /\ \A i \in DOMAIN Flushed : Flushed[i].n = i
<1>. DEFINE keep == Protocol(pended)
            k == Len(pended)
<1>1. k \in Nat /\ DOMAIN pended = 1..k OBVIOUS
<1>2. keep \in SUBSET (1..k) /\ keep \in SUBSET DOMAIN pended BY <1>1 DEF Protocol
<1>3. Flushed = Subsequence(pended, keep) BY DEF Flushed, Protocol
<1>4. arrived = Cardinality(keep) /\ \A i \in keep : pended[i].n = Rank(keep, i) BY DEF Counted
<1>. HIDE DEF keep, k
<1>5. /\ Flushed \in Seq(Messages) /\ DOMAIN Flushed = 1..Cardinality(keep)
      /\ \A i \in DOMAIN Flushed : Nth(keep, i) \in keep /\ Flushed[i] = pended[Nth(keep, i)]
  BY <1>2, <1>3, SubsequenceKeeps
<1>6. Cardinality(keep) \in Nat /\ \A i \in 1..Cardinality(keep) : Rank(keep, Nth(keep, i)) = i
  BY <1>1, <1>2, NthKept
<1>7. Cardinality(keep) <= k
  <2>1. IsFiniteSet(1..k) /\ Cardinality(1..k) = k BY <1>1, FS_Interval
  <2>. QED BY <1>2, <2>1, FS_Subset
<1>8. Len(Flushed) = Cardinality(keep) BY <1>5, <1>6
<1>. QED BY <1>4, <1>5, <1>6, <1>7, <1>8 DEF k

LEMMA AliveStep ==
  ASSUME Inv, BackInv, OrderInv, MessagesInv, [Next]_vars
  PROVE  Alive'
<1>. USE DEF MessagesInv, Alive, Finished, Fail, CloseRouter, sessionVars, bridgeVars, requestVars
<1>1. CASE UNCHANGED vars BY <1>1 DEF vars
<1>2. CASE Start \/ Close \/ \E r \in Requests : Issue(r)
  BY <1>2 DEF Start, Close, Issue, Inv, OpenedOnce
<1>3. CASE CancelAnswered \/ StartAwaited \/ CloseReturns
  BY <1>3 DEF CancelAnswered, StartAwaited, CloseReturns, CloseTransport, MustDisconnect, Disconnect,
              BackInv, EndIsFinal
<1>4. CASE StartRuns \/ CommandEnds \/ ConnectRejected \/ ResponseUnusable
  BY <1>4 DEF StartRuns, CommandEnds, ConnectRejected, ResponseUnusable, Disconnect, Inv, OpenedOnce
<1>5. CASE Connected \/ Reclaimed \/ Disconnected
  BY <1>5 DEF Connected, Reclaimed, Disconnected, Disconnect, Inv, OpenedOnce
<1>6. CASE InitializeSettled
  BY <1>6 DEF InitializeSettled, CloseTransport, MustDisconnect, Disconnect
<1>7. CASE TransportEnds \/ BrokenEvent
  BY <1>7 DEF TransportEnds, BrokenEvent, Disconnect
<1>8. ASSUME NEW m \in Messages, EventBeforeResponse(m) PROVE Alive'
  BY <1>8 DEF EventBeforeResponse, BackInv, CommandFollowed, Inv, OpenedOnce
<1>9. ASSUME NEW m \in Messages, Receive(m) PROVE Alive'
  BY <1>9 DEF Receive, CloseTransport, MustDisconnect, Disconnect
<1>10. CASE HandleGarbage \/ HandleAsk \/ \E a \in AskIds : ReplyWritten(a)
  BY <1>10 DEF HandleGarbage, HandleAsk, ReplyWritten, Ready, CloseTransport, MustDisconnect, Disconnect
<1>11. CASE \/ InitializedWritten \/ DrainedWrite \/ \E r \in Ids : WriteEnds(r)
            \/ SkipMessage \/ HandleNotification \/ HandleResult \/ HandleError
            \/ \E a \in AskIds : HandlerEnds(a)
  BY <1>11 DEF InitializedWritten, DrainedWrite, WriteEnds, SkipMessage, HandleNotification,
               HandleResult, HandleError, HandlerEnds, FailInitialization
<1>. QED
  BY <1>1, <1>2, <1>3, <1>4, <1>5, <1>6, <1>7, <1>8, <1>9, <1>10, <1>11
     DEF Next, Application, Server, Runtime

\* A step that leaves the messages alone
LEMMA MessagesKept ==
  ASSUME MessagesInv, UNCHANGED <<inbound, pended, taskVars, arrived, handled>>,
         router' = "open" => router = "open", router' = "none" => router = "none",
         router' = "open" /\ stored' => stored /\ init' = init,
         start' \in {"none", "begun"} => start \in {"none", "begun"},
         start' = "connecting" /\ ~bridgeFailed' => start = "connecting" /\ ~bridgeFailed
  PROVE  Beginning' /\ TaskOwner' /\ NumberedEarly' /\ Numbered' /\ MessagesType'
<1>. USE DEF MessagesInv, taskVars
<1>1. Beginning' BY DEF Beginning
<1>2. TaskOwner' BY DEF TaskOwner
<1>3. NumberedEarly' BY DEF NumberedEarly
<1>4. Numbered' BY DEF Numbered, Ahead
<1>5. MessagesType' BY DEF MessagesType
<1>. QED BY <1>1, <1>2, <1>3, <1>4, <1>5

\* The numbers of the messages that follow the first.
LEMMA NumberedTail ==
  ASSUME NEW s \in Seq(Messages), s # <<>>, NEW h \in Int,
         \A i \in DOMAIN s : s[i].n = h + i
  PROVE  /\ Len(Tail(s)) = Len(s) - 1
         /\ \A i \in DOMAIN Tail(s) : i \in Nat /\ Tail(s)[i].n = (h + 1) + i
<1>1. /\ Tail(s) \in Seq(Messages) /\ Len(Tail(s)) = Len(s) - 1
      /\ \A i \in DOMAIN Tail(s) : i \in Nat /\ i + 1 \in DOMAIN s /\ Tail(s)[i] = s[i + 1]
  OBVIOUS
<1>. SUFFICES ASSUME NEW i \in DOMAIN Tail(s)
              PROVE  i \in Nat /\ Tail(s)[i].n = (h + 1) + i
  BY <1>1
<1>3. i \in Nat /\ i + 1 \in DOMAIN s /\ Tail(s)[i] = s[i + 1] BY <1>1
<1>4. s[i + 1].n = h + (i + 1) BY <1>3
<1>. QED BY <1>3, <1>4

\* A step that handles the first message, or drops it.
LEMMA FirstHandled ==
  ASSUME MessagesInv, inbound # <<>>, completer # "inbound", inbound' = Tail(inbound),
         router = "open" => handled' = Head(inbound).n,
         router # "open" => handled' = handled,
         UNCHANGED <<pended, taskVars, arrived, start, bridgeFailed>>,
         router' = router \/ (router = "open" /\ router' = "closed"),
         router' = "open" /\ stored' => init' = "initializing"
  PROVE  /\ Beginning' /\ TaskOwner' /\ NumberedEarly' /\ Numbered' /\ MessagesType'
         /\ handled' # handled => handled' = handled + 1
<1>1. /\ inbound \in Seq(Messages) /\ inbound' \in Seq(Messages) /\ Len(inbound) \in Nat \ {0}
      /\ Len(inbound') = Len(inbound) - 1 /\ Head(inbound) = inbound[1] /\ 1 \in DOMAIN inbound
  BY DEF MessagesInv, MessagesType
<1>2. handled \in Nat /\ arrived \in Nat /\ handled <= arrived /\ arrived' = arrived
  BY DEF MessagesInv, MessagesType
<1>3. router = "open" => /\ handled + Len(inbound) = arrived
                         /\ \A i \in DOMAIN inbound : inbound[i].n = handled + i
  <2>. SUFFICES ASSUME router = "open"
                PROVE  /\ handled + Len(inbound) = arrived
                       /\ \A i \in DOMAIN inbound : inbound[i].n = handled + i
    OBVIOUS
  <2>1. /\ handled + Len(inbound) = arrived + 0
        /\ \A i \in DOMAIN inbound : inbound[i].n + 0 = handled + i
    BY DEF MessagesInv, Numbered, Ahead
  <2>2. \A i \in DOMAIN inbound : inbound[i] \in Messages BY <1>1
  <2>3. \A i \in DOMAIN inbound : inbound[i].n \in Nat BY <2>2 DEF Messages
  <2>. QED BY <1>1, <1>2, <2>1, <2>3
<1>4. router = "open" => handled' = handled + 1 /\ handled' <= arrived BY <1>1, <1>2, <1>3
<1>5. handled' \in Nat /\ handled' <= arrived /\ (router # "open" => handled' = handled) BY <1>2, <1>4
<1>6. Beginning' BY DEF MessagesInv, Beginning, taskVars
<1>7. TaskOwner' BY DEF MessagesInv, TaskOwner, taskVars
<1>8. NumberedEarly' BY DEF MessagesInv, NumberedEarly
<1>9. Numbered'
  <2>. SUFFICES ASSUME router' = "open"
                PROVE  /\ handled' + Len(inbound') = arrived' + 0
                       /\ \A i \in DOMAIN inbound' : inbound'[i].n + 0 = handled' + i
    BY DEF Numbered, Ahead, taskVars
  <2>1. router = "open" /\ handled' = handled + 1 BY <1>4
  <2>2. handled' + Len(inbound') = arrived' + 0 BY <1>1, <1>2, <1>3, <2>1
  <2>3. \A i \in DOMAIN inbound' : i \in Nat /\ inbound'[i].n = (handled + 1) + i
    BY <1>1, <1>2, <1>3, <2>1, NumberedTail
  <2>4. \A i \in DOMAIN inbound' : inbound'[i].n + 0 = handled' + i BY <1>2, <2>1, <2>3
  <2>. QED BY <2>2, <2>4
<1>10. MessagesType'
  <2>1. InboundCapacity \in Nat BY CapacityAssumption
  <2>2. Len(inbound') <= InboundCapacity BY <1>1, <2>1 DEF MessagesInv, MessagesType
  <2>3. handled' \in 0..arrived' BY <1>2, <1>5
  <2>. QED BY <1>1, <1>2, <2>2, <2>3 DEF MessagesInv, MessagesType, taskVars
<1>. QED BY <1>4, <1>5, <1>6, <1>7, <1>8, <1>9, <1>10

\* The task that completes the initialization goes on, or is over.
LEMMA TaskGoesOn ==
  ASSUME MessagesInv, drain # Nobody,
         \/ drain' # Nobody /\ UNCHANGED <<completer, inbound>>
         \/ TaskEnds,
         UNCHANGED <<pended, arrived, handled, start, bridgeFailed, router>>,
         router = "open" => stored' = FALSE \/ (stored' = stored /\ init # "initializing")
  PROVE  Beginning' /\ TaskOwner' /\ NumberedEarly' /\ Numbered' /\ MessagesType'
<1>1. /\ inbound \in Seq(Messages) /\ completer # "none"
      /\ completer = "inbound" => inbound # <<>>
  BY DEF MessagesInv, MessagesType, TaskOwner
<1>2. Beginning' BY <1>1 DEF MessagesInv, Beginning
<1>3. TaskOwner' BY <1>1 DEF MessagesInv, TaskOwner, TaskEnds
<1>4. NumberedEarly' BY DEF MessagesInv, NumberedEarly
<1>5. CASE UNCHANGED <<completer, inbound>> BY <1>2, <1>3, <1>4, <1>5 DEF MessagesInv, Numbered, Ahead, MessagesType
<1>6. CASE TaskEnds /\ completer # "inbound"
  BY <1>2, <1>3, <1>4, <1>6 DEF MessagesInv, TaskEnds, Numbered, Ahead, MessagesType
<1>7. CASE TaskEnds /\ completer = "inbound"
  <2>1. /\ inbound' = Tail(inbound) /\ completer' = "none" /\ inbound # <<>> BY <1>1, <1>7 DEF TaskEnds
  <2>2. /\ inbound' \in Seq(Messages) /\ Len(inbound) \in Nat \ {0}
        /\ Len(inbound') = Len(inbound) - 1
    BY <1>1, <2>1
  <2>5. handled \in Nat /\ arrived \in Nat BY DEF MessagesInv, MessagesType
  <2>6. router = "open" => /\ handled + Len(inbound) = arrived + 1
                           /\ \A i \in DOMAIN inbound : inbound[i].n + 1 = handled + i
    BY <1>7 DEF MessagesInv, Numbered, Ahead
  <2>7. Numbered'
    <3>. SUFFICES ASSUME router = "open"
                  PROVE  /\ handled + Len(inbound') = arrived + 0
                         /\ \A i \in DOMAIN inbound' : inbound'[i].n + 0 = handled + i
      BY <2>1 DEF Numbered, Ahead
    <3>1. handled + Len(inbound') = arrived + 0 BY <2>2, <2>5, <2>6
    <3>2. \A i \in DOMAIN inbound : inbound[i] \in Messages BY <1>1
    <3>3. \A i \in DOMAIN inbound : inbound[i].n \in Nat BY <3>2 DEF Messages
    <3>4. PICK h : h = handled - 1 OBVIOUS
    <3>5. h \in Int /\ h + 1 = handled BY <2>5, <3>4
    <3>6. \A i \in DOMAIN inbound : i \in Nat /\ inbound[i].n + 1 = handled + i BY <1>1, <2>6
    <3>7. \A i \in DOMAIN inbound : inbound[i].n = h + i BY <3>3, <3>5, <3>6
    <3>8. \A i \in DOMAIN inbound' : i \in Nat /\ inbound'[i].n = (h + 1) + i
      BY <1>1, <2>1, <3>5, <3>7, NumberedTail
    <3>9. \A i \in DOMAIN inbound' : inbound'[i].n + 0 = handled + i BY <2>5, <3>5, <3>8
    <3>. QED BY <3>1, <3>9
  <2>8. MessagesType'
    <3>1. InboundCapacity \in Nat BY CapacityAssumption
    <3>2. Len(inbound') <= InboundCapacity BY <2>2, <3>1 DEF MessagesInv, MessagesType
    <3>. QED BY <2>1, <2>2, <3>2 DEF MessagesInv, MessagesType
  <2>. QED BY <1>2, <1>3, <1>4, <2>7, <2>8
<1>. QED BY <1>5, <1>6, <1>7

LEMMA SentMessages ==
  ASSUME NEW m \in Messages, Sendable(m), arrived \in Nat
  PROVE  /\ m.kind # "progress" => m.n = arrived + 1 /\ arrived' = arrived + 1
         /\ m.kind = "progress" => arrived' = arrived
         /\ arrived \in 0..MaxInbound => arrived' \in 0..MaxInbound
<1>1. m.n \in 0..MaxInbound BY DEF Messages
<1>. QED BY <1>1, CapacityAssumption DEF Sendable

LEMMA EarlyMessages ==
  ASSUME Inv, BackInv, OrderInv, MessagesInv, NEW m \in Messages, EventBeforeResponse(m)
  PROVE  /\ Beginning' /\ TaskOwner' /\ NumberedEarly' /\ Numbered' /\ MessagesType'
         /\ handled' = handled
<1>. USE DEF MessagesInv
<1>1. /\ router = "none" /\ router' = "none" /\ start = "connecting" /\ UNCHANGED <<handled, inbound, taskVars, start>>
  BY DEF EventBeforeResponse, BackInv, CommandFollowed, Inv, OpenedOnce, requestVars
<1>2. Sendable(m) /\ arrived \in Nat BY DEF EventBeforeResponse, MessagesType
<1>3. \/ pended' = pended /\ bridgeFailed' = bridgeFailed /\ bridgeFailed
      \/ pended' = <<>> /\ bridgeFailed' = TRUE
      \/ pended' = Append(pended, m) /\ bridgeFailed' = bridgeFailed /\ Len(pended) < MaxPending
  <2>1. CASE bridgeFailed BY <2>1 DEF EventBeforeResponse
  <2>2. CASE ~bridgeFailed /\ Len(pended) < MaxPending BY <2>2 DEF EventBeforeResponse
  <2>3. CASE ~bridgeFailed /\ ~(Len(pended) < MaxPending) BY <2>3 DEF EventBeforeResponse
  <2>. QED BY <2>1, <2>2, <2>3
<1>4. Beginning' BY <1>1 DEF Beginning, taskVars
<1>5. TaskOwner' BY <1>1 DEF TaskOwner, taskVars
<1>6. Numbered' BY <1>1 DEF Numbered
<1>7. NumberedEarly'
  <2>1. CASE bridgeFailed' BY <2>1 DEF NumberedEarly
  <2>2. CASE ~bridgeFailed'
    <3>1. pended' = Append(pended, m) /\ Counted(pended, arrived) BY <1>1, <1>3, <2>2 DEF NumberedEarly
    <3>2. arrived' = IF m.kind = "progress" THEN arrived ELSE arrived + 1 BY <1>2, SentMessages
    <3>3. pended \in Seq(Messages) BY DEF MessagesType
    <3>4. m.kind # "progress" => m.n = arrived + 1 BY <1>2, SentMessages
    <3>5. PICK p, n : p = pended' /\ n = arrived' OBVIOUS
    <3>6. Counted(p, n) BY <3>1, <3>2, <3>3, <3>4, <3>5, CountedAppend
    <3>. QED BY <3>5, <3>6 DEF NumberedEarly, Counted, Protocol
  <2>. QED BY <2>1, <2>2
<1>8. MessagesType'
  <2>1. arrived' \in 0..MaxInbound /\ arrived <= arrived' BY <1>2, SentMessages DEF MessagesType
  <2>2. pended' \in Seq(Messages) /\ Len(pended') <= MaxPending
    <3>1. pended \in Seq(Messages) /\ Len(pended) \in Nat /\ Len(pended) <= MaxPending /\ MaxPending \in Nat
      BY CapacityAssumption DEF MessagesType
    <3>2. /\ Append(pended, m) \in Seq(Messages) /\ Len(Append(pended, m)) = Len(pended) + 1
          /\ <<>> \in Seq(Messages) /\ Len(<<>>) = 0
      BY <3>1, AppendProperties, EmptySeq
    <3>3. CASE pended' = pended BY <3>1, <3>3
    <3>4. CASE pended' = <<>> BY <3>1, <3>2, <3>4
    <3>5. CASE pended' = Append(pended, m) /\ Len(pended) < MaxPending BY <3>1, <3>2, <3>5
    <3>. QED BY <1>3, <3>3, <3>4, <3>5
  <2>. QED BY <1>1, <2>1, <2>2 DEF MessagesType, taskVars
<1>. QED BY <1>1, <1>4, <1>5, <1>6, <1>7, <1>8

LEMMA ReceivedMessages ==
  ASSUME Inv, BackInv, OrderInv, MessagesInv, NEW m \in Messages, Receive(m)
  PROVE  /\ Beginning' /\ TaskOwner' /\ NumberedEarly' /\ Numbered' /\ MessagesType'
         /\ handled' = handled
<1>. USE DEF MessagesInv
<1>1. /\ router # "none" /\ start \notin {"none", "begun", "connecting"} /\ bridge = "active"
      /\ UNCHANGED <<handled, pended, taskVars, start>>
  BY DEF Receive, Alive, BackInv, CommandFollowed, ActiveIsHeld
<1>2. /\ Sendable(m) /\ arrived \in Nat /\ handled \in Nat /\ inbound \in Seq(Messages) /\ m.kind # "progress"
      /\ completer \in {"none", "writer", "inbound"}
  BY DEF Receive, MessagesType
<1>3. m.n = arrived + 1 /\ arrived' = arrived + 1 BY <1>2, SentMessages
<1>4. \/ inbound' = Append(inbound, m) /\ UNCHANGED <<router, init, stored>> /\ Len(inbound) < InboundCapacity
      \/ /\ inbound' = inbound /\ router' # "none"
         /\ router' = "open" => router = "open" /\ phase \in Finished
  BY <1>1 DEF Receive, MayTake, Fail, CloseRouter, requestVars
<1>5. router' # "none" BY <1>1, <1>4
<1>6. Beginning' BY <1>1, <1>5 DEF Beginning
<1>7. NumberedEarly' BY <1>1 DEF NumberedEarly
<1>8. CASE inbound' = Append(inbound, m) /\ UNCHANGED <<router, init, stored>> /\ Len(inbound) < InboundCapacity
  <2>1. /\ inbound' \in Seq(Messages) /\ Len(inbound') = Len(inbound) + 1 /\ Len(inbound) \in Nat
        /\ inbound' # <<>> /\ inbound'[Len(inbound) + 1] = m
        /\ DOMAIN inbound' = 1..(Len(inbound) + 1) /\ DOMAIN inbound = 1..Len(inbound)
        /\ \A i \in DOMAIN inbound : inbound'[i] = inbound[i]
    BY <1>2, <1>8
  <2>2. TaskOwner' BY <1>1, <1>8, <2>1 DEF TaskOwner, taskVars
  <2>3. Numbered'
    <3>. SUFFICES ASSUME router = "open"
                  PROVE  /\ handled + Len(inbound') = arrived' + Ahead
                         /\ \A i \in DOMAIN inbound' : inbound'[i].n + Ahead = handled + i
      BY <1>1, <1>8 DEF Numbered, Ahead, taskVars
    <3>1. /\ handled + Len(inbound) = arrived + Ahead /\ Ahead \in Nat
          /\ \A i \in DOMAIN inbound : inbound[i].n + Ahead = handled + i
      BY DEF Numbered, Ahead
    <3>. HIDE DEF Ahead
    <3>2. \A i \in DOMAIN inbound' : i \in DOMAIN inbound \/ i = Len(inbound) + 1 BY <2>1
    <3>3. m.n + Ahead = handled + (Len(inbound) + 1)
      <4>1. arrived + Ahead = handled + Len(inbound) BY <3>1
      <4>2. arrived \in Nat /\ handled \in Nat /\ Len(inbound) \in Nat /\ Ahead \in Nat BY <1>2, <2>1, <3>1
      <4>. QED BY <1>3, <4>1, <4>2
    <3>. QED BY <1>2, <1>3, <2>1, <3>1, <3>2, <3>3
  <2>4. MessagesType'
    <3>1. Len(inbound') <= InboundCapacity BY <1>8, <2>1, CapacityAssumption
    <3>2. arrived' \in 0..MaxInbound /\ handled' \in 0..arrived' BY <1>1, <1>2, <1>3, SentMessages DEF MessagesType
    <3>. QED BY <1>1, <2>1, <3>1, <3>2 DEF MessagesType, taskVars
  <2>. QED BY <1>1, <1>6, <1>7, <2>2, <2>3, <2>4
<1>9. CASE inbound' = inbound /\ router' # "none" /\ (router' = "open" => router = "open" /\ phase \in Finished)
  <2>1. router' # "open" BY <1>9 DEF Alive
  <2>2. TaskOwner' BY <1>1, <1>9, <2>1 DEF TaskOwner, taskVars
  <2>3. Numbered' BY <2>1 DEF Numbered
  <2>4. arrived' \in 0..MaxInbound /\ handled' \in 0..arrived' BY <1>1, <1>2, <1>3, SentMessages DEF MessagesType
  <2>5. MessagesType' BY <1>1, <1>9, <2>4 DEF MessagesType, taskVars
  <2>. QED BY <1>1, <1>6, <1>7, <2>2, <2>3, <2>5
<1>. QED BY <1>4, <1>8, <1>9

LEMMA ConnectedMessages ==
  ASSUME Inv, BackInv, OrderInv, MessagesInv, Connected
  PROVE  /\ Beginning' /\ TaskOwner' /\ NumberedEarly' /\ Numbered' /\ MessagesType'
         /\ handled' = handled
<1>. USE DEF MessagesInv
<1>1. /\ router = "none" /\ start = "connecting" /\ ~bridgeFailed /\ pended' = <<>>
      /\ start' \notin {"none", "begun", "connecting"} /\ UNCHANGED <<taskVars, arrived, handled>>
      /\ drain = Nobody /\ completer = "none" /\ handled = 0
  BY DEF Connected, Inv, OpenedOnce, OrderInv, Beginning
<1>2. Beginning' BY <1>1 DEF Beginning, taskVars
<1>3. NumberedEarly' BY <1>1 DEF NumberedEarly
<1>4. <<>> \in Seq(Messages) /\ Len(<<>>) = 0 BY EmptySeq
<1>5. CASE UNCHANGED <<inbound, requestVars>>
  <2>1. TaskOwner' /\ Numbered' BY <1>1, <1>5 DEF TaskOwner, Numbered, taskVars, requestVars
  <2>2. MessagesType' BY <1>1, <1>4, <1>5, CapacityAssumption DEF MessagesType, taskVars
  <2>. QED BY <1>1, <1>2, <1>3, <2>1, <2>2
<1>6. CASE inbound' = Flushed /\ init' = "initializing"
  <2>1. pended \in Seq(Messages) /\ Counted(pended, arrived) BY <1>1 DEF MessagesType, NumberedEarly
  <2>2. /\ Flushed \in Seq(Messages) /\ Len(Flushed) = arrived /\ Len(Flushed) <= Len(pended)
        /\ \A i \in DOMAIN Flushed : Flushed[i].n = i
    BY <2>1, FlushedNumbers
  <2>. HIDE DEF Flushed
  <2>3. TaskOwner' BY <1>1, <1>6 DEF TaskOwner, taskVars
  <2>4. arrived \in Nat /\ Len(pended) \in Nat /\ Len(Flushed) <= InboundCapacity
    BY <2>1, <2>2, CapacityAssumption DEF MessagesType
  <2>5. Numbered' BY <1>1, <1>6, <2>2, <2>4 DEF Numbered, Ahead, taskVars
  <2>6. MessagesType' BY <1>1, <1>4, <1>6, <2>2, <2>4, CapacityAssumption DEF MessagesType, taskVars
  <2>. QED BY <1>1, <1>2, <1>3, <2>3, <2>5, <2>6
<1>. QED BY <1>5, <1>6 DEF Connected, requestVars

\* A step keeps what is known of the messages, and takes at most the next one.
LEMMA MessagesStep ==
  ASSUME Inv, BackInv, OrderInv, MessagesInv, [Next]_vars
  PROVE  MessagesInv' /\ (handled' # handled => handled' = handled + 1)
<1>. DEFINE Kept1 == Beginning' /\ TaskOwner' /\ NumberedEarly' /\ Numbered' /\ MessagesType'
            Goal == Kept1 /\ (handled' # handled => handled' = handled + 1)
<1>0. SUFFICES Goal BY AliveStep DEF MessagesInv
<1>. USE DEF historyVars
<1>1. CASE UNCHANGED vars
  BY <1>1, MessagesKept DEF vars, MessagesInv, TaskOwner, sessionVars, bridgeVars, requestVars
<1>2. CASE Start \/ Close \/ CancelAnswered \/ StartAwaited \/ CloseReturns
  <2>1. CASE Start
    <3>1. start' = "begun" /\ start = "none" /\ UNCHANGED <<inbound, pended, taskVars, arrived, handled, router, init, stored>>
      BY <2>1 DEF Start, bridgeVars, requestVars, Inv, OpenedOnce
    <3>2. router' = "open" /\ stored' => stored /\ init' = init BY <3>1
    <3>. QED BY <3>1, <3>2, MessagesKept
  <2>2. CASE Close
    BY <2>2, MessagesKept DEF Close, CloseRouter, bridgeVars, requestVars, MessagesInv, TaskOwner
  <2>3. CASE CancelAnswered \/ StartAwaited \/ CloseReturns
    BY <2>3, MessagesKept
       DEF CancelAnswered, StartAwaited, CloseReturns, bridgeVars, requestVars, MessagesInv, TaskOwner
  <2>. QED BY <1>2, <2>1, <2>2, <2>3
<1>3. ASSUME NEW r \in Requests, Issue(r) PROVE Goal
  BY <1>3, MessagesKept DEF Issue, sessionVars, bridgeVars
<1>4. CASE StartRuns
  <2>1. CASE start' = "rejected"
    BY <1>4, <2>1, MessagesKept DEF StartRuns, requestVars
  <2>2. CASE start' = "connecting"
    <3>1. arrived = 0 /\ pended = <<>> /\ UNCHANGED <<arrived, pended>>
      BY <1>4 DEF StartRuns, MessagesInv, Beginning
    <3>2. Counted(<<>>, 0)
      <4>1. Protocol(<<>>) = {} BY DEF Protocol
      <4>. QED BY <4>1, FS_EmptySet DEF Counted
    <3>3. NumberedEarly' BY <3>1, <3>2 DEF NumberedEarly, Counted, Protocol
    <3>4. Beginning' /\ TaskOwner' BY <1>4, <2>2 DEF StartRuns, MessagesInv, Beginning, TaskOwner, taskVars, requestVars
    <3>5. Numbered' /\ MessagesType'
      BY <1>4 DEF StartRuns, MessagesInv, Numbered, Ahead, MessagesType, taskVars, requestVars
    <3>. QED BY <1>4, <3>3, <3>4, <3>5 DEF StartRuns
  <2>. QED BY <1>4, <2>1, <2>2 DEF StartRuns
<1>5. CASE CommandEnds \/ Reclaimed \/ InitializeSettled \/ Disconnected
  BY <1>5, MessagesKept
     DEF CommandEnds, Reclaimed, InitializeSettled, Disconnected, Fail, CloseRouter, sessionVars, bridgeVars,
         requestVars
<1>6. CASE ConnectRejected \/ ResponseUnusable
  <2>1. /\ pended' = <<>> /\ start' \in {"rejected", "failing"}
        /\ UNCHANGED <<inbound, requestVars, taskVars, arrived, handled>>
    BY <1>6 DEF ConnectRejected, ResponseUnusable
  <2>2. <<>> \in Seq(Messages) /\ Len(<<>>) = 0 BY EmptySeq
  <2>3. Beginning' /\ TaskOwner' /\ NumberedEarly'
    BY <2>1 DEF MessagesInv, Beginning, TaskOwner, NumberedEarly, taskVars, requestVars
  <2>4. Numbered' BY <2>1 DEF MessagesInv, Numbered, Ahead, taskVars, requestVars
  <2>5. MessagesType' BY <2>1, <2>2, CapacityAssumption DEF MessagesInv, MessagesType, taskVars
  <2>. QED BY <2>1, <2>3, <2>4, <2>5
<1>7. CASE Connected BY <1>7, ConnectedMessages
<1>8. CASE TransportEnds \/ BrokenEvent
  BY <1>8, MessagesKept DEF TransportEnds, BrokenEvent, CloseRouter, requestVars
<1>9. ASSUME NEW m \in Messages, EventBeforeResponse(m) \/ Receive(m) PROVE Goal
  BY <1>9, EarlyMessages, ReceivedMessages
<1>10. ASSUME NEW r \in Ids, WriteEnds(r) PROVE Goal
  <2>1. CASE UNCHANGED taskVars
    BY <1>10, <2>1, MessagesKept
       DEF WriteEnds, FailInitialization, BeginCompletion, sessionVars, bridgeVars
  <2>2. CASE ~UNCHANGED taskVars
    <3>1. /\ router = "open" /\ router' = "open" /\ r = Initialize /\ stage[r] = "writing" /\ BeginCompletion("writer")
          /\ UNCHANGED <<sessionVars, inbound, bridgeVars, historyVars>>
      BY <1>10, <2>2 DEF WriteEnds
    <3>2. drain = Nobody /\ completer = "none"
      BY <3>1 DEF OrderInv, CompletedOnce, MessagesInv, TaskOwner
    <3>3. Beginning' /\ TaskOwner' /\ NumberedEarly'
      BY <3>1, NameAssumption
         DEF BeginCompletion, MessagesInv, Beginning, TaskOwner, NumberedEarly, sessionVars, bridgeVars
    <3>4. Numbered' /\ MessagesType'
      BY <3>1, <3>2 DEF BeginCompletion, MessagesInv, Numbered, Ahead, MessagesType, bridgeVars
    <3>. QED BY <3>1, <3>3, <3>4
  <2>. QED BY <2>1, <2>2
<1>11. CASE InitializedWritten \/ DrainedWrite
  <2>1. /\ drain # Nobody /\ UNCHANGED <<pended, arrived, handled, start, bridgeFailed, router>>
        /\ router = "open" => init # "initializing"
    BY <1>11, NameAssumption
       DEF InitializedWritten, DrainedWrite, FailInitialization, OrderInv, CompletedOnce, sessionVars, bridgeVars,
           requestVars
  <2>2. \/ TaskEnds
        \/ drain' = Head(queue) /\ queue # <<>> /\ UNCHANGED <<completer, inbound>>
    BY <1>11 DEF InitializedWritten, DrainedWrite, WriteNext
  <2>3. queue # <<>> => Head(queue) # Nobody
    <3>1. queue \in Seq(Requests) BY DEF Inv, RouterType
    <3>2. queue # <<>> => Head(queue) \in Requests BY <3>1
    <3>. QED BY <3>2, NameAssumption
  <2>4. router = "open" => stored' = FALSE \/ stored' = stored
    BY <1>11 DEF InitializedWritten, DrainedWrite, FailInitialization
  <2>. QED BY <2>1, <2>2, <2>3, <2>4, TaskGoesOn
<1>12. CASE SkipMessage
  BY <1>12, FirstHandled DEF SkipMessage, sessionVars, bridgeVars, requestVars, MessagesInv, TaskOwner
<1>13. CASE HandleGarbage \/ HandleNotification \/ HandleAsk
  BY <1>13, FirstHandled
     DEF HandleGarbage, HandleNotification, HandleAsk, Ready, Fail, CloseRouter, sessionVars, bridgeVars,
         requestVars, MessagesInv, TaskOwner
<1>14. CASE HandleError
  BY <1>14, FirstHandled
     DEF HandleError, Ready, FailInitialization, sessionVars, bridgeVars, requestVars, MessagesInv, TaskOwner
<1>15. CASE HandleResult
  <2>1. CASE UNCHANGED taskVars /\ inbound' = Tail(inbound)
    BY <1>15, <2>1, FirstHandled
       DEF HandleResult, Ready, Expected, BeginCompletion, sessionVars, bridgeVars, requestVars, MessagesInv,
           TaskOwner
  <2>2. CASE ~(UNCHANGED taskVars /\ inbound' = Tail(inbound))
    <3>1. /\ BeginCompletion("inbound") /\ Expected(Initialize)
          /\ UNCHANGED <<inbound, router, sessionVars, bridgeVars, arrived>>
          /\ inbound # <<>> /\ completer # "inbound" /\ router = "open" /\ handled' = Head(inbound).n
      BY <1>15, <2>2 DEF HandleResult, Ready
    <3>2. drain = Nobody /\ completer = "none"
      BY <3>1 DEF Expected, OrderInv, CompletedOnce, MessagesInv, TaskOwner
    <3>3. handled \in Nat /\ arrived \in Nat /\ inbound \in Seq(Messages) BY DEF MessagesInv, MessagesType
    <3>4. /\ Head(inbound) = inbound[1] /\ 1 \in DOMAIN inbound /\ Len(inbound) \in Nat \ {0}
          /\ DOMAIN inbound = 1..Len(inbound) /\ \A i \in DOMAIN inbound : inbound[i] \in Messages
      BY <3>1, <3>3
    <3>5. \A i \in DOMAIN inbound : inbound[i].n \in Nat BY <3>4 DEF Messages
    <3>6. handled + Len(inbound) = arrived + 0 /\ \A i \in DOMAIN inbound : inbound[i].n + 0 = handled + i
      BY <3>1, <3>2 DEF MessagesInv, Numbered, Ahead
    <3>7. handled' = handled + 1 /\ handled' <= arrived BY <3>1, <3>3, <3>4, <3>5, <3>6
    <3>8. Beginning' /\ TaskOwner' /\ NumberedEarly'
      BY <3>1, NameAssumption
         DEF BeginCompletion, MessagesInv, Beginning, TaskOwner, NumberedEarly, sessionVars, bridgeVars
    <3>9. Numbered'
      <4>1. completer' = "inbound" /\ inbound' = inbound /\ arrived' = arrived BY <3>1 DEF BeginCompletion
      <4>. SUFFICES /\ handled' + Len(inbound) = arrived + 1
                    /\ \A i \in DOMAIN inbound : inbound[i].n + 1 = handled' + i
        BY <4>1 DEF Numbered, Ahead
      <4>2. handled' + Len(inbound) = arrived + 1 BY <3>3, <3>4, <3>6, <3>7
      <4>3. ASSUME NEW i \in DOMAIN inbound PROVE inbound[i].n + 1 = handled' + i
        <5>1. i \in Nat /\ inbound[i].n \in Nat /\ inbound[i].n + 0 = handled + i BY <3>4, <3>5, <3>6
        <5>. QED BY <3>3, <3>7, <5>1
      <4>. QED BY <4>2, <4>3
    <3>10. MessagesType' BY <3>1, <3>3, <3>7 DEF BeginCompletion, MessagesInv, MessagesType, bridgeVars
    <3>. QED BY <3>7, <3>8, <3>9, <3>10
  <2>. QED BY <2>1, <2>2
<1>16. ASSUME NEW a \in AskIds, ReplyWritten(a) \/ HandlerEnds(a) PROVE Goal
  BY <1>16, MessagesKept
     DEF ReplyWritten, HandlerEnds, Fail, CloseRouter, sessionVars, bridgeVars, requestVars
<1>. HIDE DEF Goal
<1>. QED
  BY <1>1, <1>2, <1>3, <1>4, <1>5, <1>6, <1>7, <1>8, <1>9, <1>10, <1>11, <1>12, <1>13, <1>14, <1>15, <1>16
     DEF Next, Application, Server, Runtime

-----------------------------------------------------------------------------
(* The values of the variables                                             *)

StatesType ==
  /\ phase \in {"idle", "connecting", "initializing", "ready", "closing", "closed", "error"}
  /\ start \in {"none", "begun", "connecting", "failing", "reclaiming",
                 "initializing", "resolved", "rejected"}
  /\ closing \in {"none", "cancelling", "awaitStart", "awaitClose", "awaitInbound", "over"}
  /\ command \in {"none", "running", "committed", "refused", "over"}
  /\ bridge \in {"none", "connecting", "active", "disconnecting", "closed"}
  /\ held \in BOOLEAN /\ ended \in BOOLEAN /\ bridgeFailed \in BOOLEAN /\ stored \in BOOLEAN
  /\ disconnect \in {"none", "sent", "done", "failed"}
  /\ logical \in {"none", "registered", "gone"}
  /\ init \in {"awaiting_initialize", "initializing", "sending_initialized", "ready", "failed"}

\* A request of the server has an identifier of the server.
Named == {m \in Messages : m.kind = "ask" => m.of \in AskIds}

AsksAreNamed == pended \in Seq(Named) /\ inbound \in Seq(Named)

\* What waits fits, whatever the set of the server's identifiers.
Fits ==
  /\ Len(queue) <= QueueCapacity
  /\ IsFiniteSet(PendingAsks) /\ Cardinality(PendingAsks) <= AskCapacity
  /\ busy \in SUBSET AskIds

TypeInv == StatesType /\ AsksAreNamed /\ Fits

LEMMA StatesTypeStep ==
  ASSUME StatesType, [Next]_vars
  PROVE  StatesType'
<1>. USE DEF StatesType, Fail, CloseRouter, CloseTransport, Disconnect, FailInitialization, BeginCompletion,
             AfterCloseTransport, sessionVars, bridgeVars, requestVars
<1>1. CASE UNCHANGED vars BY <1>1 DEF vars
<1>2. CASE Start \/ Close \/ \E r \in Requests : Issue(r)
  BY <1>2 DEF Start, Close, Issue
<1>3. CASE CancelAnswered \/ StartAwaited \/ CloseReturns
  BY <1>3 DEF CancelAnswered, StartAwaited, CloseReturns
<1>4. CASE StartRuns \/ CommandEnds \/ ConnectRejected \/ ResponseUnusable
  BY <1>4 DEF StartRuns, CommandEnds, ConnectRejected, ResponseUnusable
<1>5. CASE Connected \/ Reclaimed \/ InitializeSettled \/ Disconnected
  BY <1>5 DEF Connected, Reclaimed, InitializeSettled, Disconnected
<1>6. CASE TransportEnds \/ BrokenEvent
  BY <1>6 DEF TransportEnds, BrokenEvent
<1>7. ASSUME NEW m \in Messages, EventBeforeResponse(m) \/ Receive(m) PROVE StatesType'
  BY <1>7 DEF EventBeforeResponse, Receive
<1>8. CASE HandleGarbage \/ HandleAsk \/ \E a \in AskIds : ReplyWritten(a)
  BY <1>8 DEF HandleGarbage, HandleAsk, ReplyWritten
<1>9. CASE \/ InitializedWritten \/ DrainedWrite \/ \E r \in Ids : WriteEnds(r)
           \/ SkipMessage \/ HandleNotification \/ HandleResult \/ HandleError
           \/ \E a \in AskIds : HandlerEnds(a)
  BY <1>9 DEF InitializedWritten, DrainedWrite, WriteEnds, SkipMessage, HandleNotification,
              HandleResult, HandleError, HandlerEnds
<1>. QED
  BY <1>1, <1>2, <1>3, <1>4, <1>5, <1>6, <1>7, <1>8, <1>9 DEF Next, Application, Server, Runtime

LEMMA SentIsNamed ==
  ASSUME NEW m \in Messages, Sendable(m)
  PROVE  m \in Named
BY DEF Sendable, Named

LEMMA AsksAreNamedStep ==
  ASSUME AsksAreNamed, MessagesInv, OrderInv, [Next]_vars
  PROVE  AsksAreNamed'
<1>1. pended \in Seq(Named) /\ inbound \in Seq(Named) /\ <<>> \in Seq(Named)
  BY EmptySeq DEF AsksAreNamed
<1>2. inbound # <<>> => Tail(inbound) \in Seq(Named)
  BY <1>1
<1>3. ASSUME UNCHANGED pended, inbound' = inbound \/ (inbound # <<>> /\ inbound' = Tail(inbound))
      PROVE  AsksAreNamed'
  BY <1>1, <1>2, <1>3 DEF AsksAreNamed
<1>4. drain # Nobody /\ TaskEnds => inbound' = inbound \/ (inbound # <<>> /\ inbound' = Tail(inbound))
  BY DEF TaskEnds, MessagesInv, TaskOwner
<1>5. CASE Connected
  <2>1. inbound' = inbound \/ inbound' = Flushed
    BY <1>5 DEF Connected
  <2>2. Flushed \in Seq(Named)
    <3>. DEFINE keep == {i \in DOMAIN pended : pended[i].kind # "progress"}
    <3>1. keep \in SUBSET DOMAIN pended OBVIOUS
    <3>2. Flushed = Subsequence(pended, keep) BY DEF Flushed
    <3>. HIDE DEF keep
    <3>. QED BY <1>1, <3>1, <3>2, SubsequenceKeeps
  <2>3. pended' = <<>> BY <1>5 DEF Connected
  <2>. QED BY <1>1, <2>1, <2>2, <2>3 DEF AsksAreNamed
<1>6. ASSUME NEW m \in Messages, EventBeforeResponse(m) PROVE AsksAreNamed'
  <2>1. m \in Named BY <1>6, SentIsNamed DEF EventBeforeResponse
  <2>2. pended' = pended \/ pended' = <<>> \/ pended' = Append(pended, m)
    <3>1. CASE bridgeFailed BY <1>6, <3>1 DEF EventBeforeResponse
    <3>2. CASE ~bridgeFailed /\ Len(pended) < MaxPending BY <1>6, <3>2 DEF EventBeforeResponse
    <3>3. CASE ~bridgeFailed /\ ~(Len(pended) < MaxPending) BY <1>6, <3>3 DEF EventBeforeResponse
    <3>. QED BY <3>1, <3>2, <3>3
  <2>3. Append(pended, m) \in Seq(Named) BY <1>1, <2>1, AppendProperties
  <2>4. inbound' = inbound BY <1>6 DEF EventBeforeResponse
  <2>. QED BY <1>1, <2>2, <2>3, <2>4 DEF AsksAreNamed
<1>7. ASSUME NEW m \in Messages, Receive(m) PROVE AsksAreNamed'
  <2>1. m \in Named BY <1>7, SentIsNamed DEF Receive
  <2>2. inbound' = inbound \/ inbound' = Append(inbound, m) BY <1>7 DEF Receive
  <2>3. Append(inbound, m) \in Seq(Named) BY <1>1, <2>1, AppendProperties
  <2>4. pended' = pended BY <1>7 DEF Receive
  <2>. QED BY <1>1, <2>2, <2>3, <2>4 DEF AsksAreNamed
<1>8. CASE ConnectRejected \/ ResponseUnusable
  BY <1>1, <1>8 DEF AsksAreNamed, ConnectRejected, ResponseUnusable
<1>9. CASE UNCHANGED <<inbound, pended>>
  BY <1>3, <1>9
<1>10. CASE \/ Start \/ Close \/ \E r \in Requests : Issue(r)
            \/ CancelAnswered \/ StartAwaited \/ CloseReturns \/ UNCHANGED vars
            \/ StartRuns \/ CommandEnds \/ Reclaimed \/ InitializeSettled \/ Disconnected
            \/ TransportEnds \/ BrokenEvent \/ \E r \in Ids : WriteEnds(r)
            \/ \E a \in AskIds : ReplyWritten(a) \/ HandlerEnds(a)
  <2>. SUFFICES UNCHANGED <<inbound, pended>> BY <1>9
  <2>. QED
    BY <1>10
       DEF Start, Close, Issue, CancelAnswered, StartAwaited, CloseReturns, vars, StartRuns, CommandEnds,
           Reclaimed, InitializeSettled, Disconnected, TransportEnds, BrokenEvent, WriteEnds, ReplyWritten,
           HandlerEnds, bridgeVars
<1>11. CASE SkipMessage \/ HandleGarbage \/ HandleNotification \/ HandleResult \/ HandleError \/ HandleAsk
  BY <1>3, <1>11
     DEF SkipMessage, HandleGarbage, HandleNotification, HandleResult, HandleError, HandleAsk, Ready, bridgeVars
<1>12. CASE InitializedWritten \/ DrainedWrite
  <2>1. drain # Nobody /\ pended' = pended
    BY <1>12, NameAssumption DEF InitializedWritten, DrainedWrite, bridgeVars
  <2>2. TaskEnds \/ inbound' = inbound
    BY <1>12 DEF InitializedWritten, DrainedWrite, WriteNext
  <2>. QED BY <1>3, <1>4, <2>1, <2>2
<1>. QED
  BY <1>5, <1>6, <1>7, <1>8, <1>10, <1>11, <1>12 DEF Next, Application, Server, Runtime

\* What the handlers do to the queue: it grows by a request that found room.
LEMMA QueueFitsStep ==
  ASSUME Inv, Len(queue) <= QueueCapacity, [Next]_vars
  PROVE  Len(queue') <= QueueCapacity
<1>1. queue \in Seq(Requests) /\ Len(queue) \in Nat /\ QueueCapacity \in Nat /\ Len(<<>>) = 0
  BY CapacityAssumption, EmptySeq DEF Inv, RouterType
<1>2. ASSUME queue' = queue \/ queue' = <<>> PROVE Len(queue') <= QueueCapacity
  BY <1>1, <1>2
<1>3. ASSUME queue # <<>>, queue' = Tail(queue) PROVE Len(queue') <= QueueCapacity
  BY <1>1, <1>3
<1>4. ASSUME NEW r \in Requests, Issue(r) PROVE Len(queue') <= QueueCapacity
  <2>1. CASE ShouldQueue
    <3>1. Len(queue) < QueueCapacity /\ queue' = Append(queue, r) BY <1>4, <2>1 DEF Issue
    <3>2. Len(Append(queue, r)) = Len(queue) + 1 BY <1>1, AppendProperties
    <3>. QED BY <1>1, <3>1, <3>2
  <2>2. CASE ~ShouldQueue BY <1>2, <1>4, <2>2 DEF Issue
  <2>. QED BY <2>1, <2>2
<1>5. CASE InitializedWritten \/ DrainedWrite
  <2>1. queue' = queue \/ queue' = <<>> \/ (queue # <<>> /\ queue' = Tail(queue))
    BY <1>5 DEF InitializedWritten, DrainedWrite, WriteNext, FailInitialization, requestVars
  <2>. QED BY <1>2, <1>3, <2>1
<1>6. CASE UNCHANGED vars \/ Start \/ Close \/ Server
  BY <1>2, <1>6
     DEF vars, Start, Close, Server, TransportEnds, BrokenEvent, EventBeforeResponse, Receive, Fail, CloseRouter,
         requestVars
<1>7. CASE \/ StartRuns \/ CommandEnds \/ ConnectRejected \/ ResponseUnusable \/ Connected
           \/ Reclaimed \/ InitializeSettled \/ Disconnected
           \/ CancelAnswered \/ StartAwaited \/ CloseReturns
  BY <1>2, <1>7
     DEF StartRuns, CommandEnds, ConnectRejected, ResponseUnusable, Connected, Reclaimed, InitializeSettled,
         Disconnected, CancelAnswered, StartAwaited, CloseReturns, Fail, CloseRouter, requestVars
<1>8. CASE \/ \E r \in Ids : WriteEnds(r)
           \/ SkipMessage \/ HandleGarbage \/ HandleNotification \/ HandleResult \/ HandleError
           \/ HandleAsk \/ \E a \in AskIds : ReplyWritten(a) \/ HandlerEnds(a)
  BY <1>2, <1>8
     DEF WriteEnds, SkipMessage, HandleGarbage, HandleNotification, HandleResult, HandleError, HandleAsk,
         ReplyWritten, HandlerEnds, FailInitialization, Fail, CloseRouter, requestVars
<1>. QED
  BY <1>4, <1>5, <1>6, <1>7, <1>8 DEF Next, Application, Runtime

LEMMA FitsStep ==
  ASSUME Inv, AskInv, AsksAreNamed, Fits, [Next]_vars
  PROVE  Fits'
<1>. USE DEF Fits
<1>1. Len(queue') <= QueueCapacity BY QueueFitsStep
<1>2. ASSUME UNCHANGED <<asked, busy>> PROVE Fits' BY <1>1, <1>2 DEF PendingAsks
<1>3. ASSUME NEW a \in AskIds, HandlerEnds(a) \/ ReplyWritten(a) PROVE Fits'
  <2>1. PendingAsks' \in SUBSET PendingAsks
    BY <1>3 DEF HandlerEnds, ReplyWritten, PendingAsks, AskInv
  <2>2. IsFiniteSet(PendingAsks') /\ Cardinality(PendingAsks') <= Cardinality(PendingAsks)
    BY <2>1, FS_Subset
  <2>3. Cardinality(PendingAsks) \in Nat /\ Cardinality(PendingAsks') \in Nat /\ AskCapacity \in Nat
    BY <2>2, FS_CardinalityType, CapacityAssumption
  <2>4. busy' \in SUBSET AskIds
    BY <1>3 DEF HandlerEnds, ReplyWritten
  <2>. HIDE DEF PendingAsks
  <2>. QED BY <1>1, <2>2, <2>3, <2>4
<1>4. CASE HandleAsk
  <2>. DEFINE a == Head(inbound).of
  <2>1. a \in AskIds
    <3>1. inbound \in Seq(Named) /\ inbound # <<>> /\ Head(inbound).kind = "ask"
      BY <1>4 DEF AsksAreNamed, HandleAsk, Ready
    <3>2. Head(inbound) \in Named BY <3>1
    <3>. QED BY <3>1, <3>2 DEF Named
  <2>2. \/ UNCHANGED <<asked, busy>>
        \/ busy' = busy \cup {a} /\ UNCHANGED asked
        \/ /\ ~(Cardinality(PendingAsks) >= AskCapacity) /\ busy' = busy
           /\ \E t \in {"handling", "replying"} : asked' = [asked EXCEPT ![a] = t]
    BY <1>4 DEF HandleAsk, askVars
  <2>. HIDE DEF a
  <2>3. CASE busy' = busy \cup {a} /\ UNCHANGED asked
    BY <1>1, <2>1, <2>3 DEF PendingAsks
  <2>4. CASE /\ ~(Cardinality(PendingAsks) >= AskCapacity) /\ busy' = busy
             /\ \E t \in {"handling", "replying"} : asked' = [asked EXCEPT ![a] = t]
    <3>1. PendingAsks' = PendingAsks \cup {a}
      BY <2>1, <2>4 DEF PendingAsks, AskInv
    <3>. HIDE DEF PendingAsks
    <3>2. /\ IsFiniteSet(PendingAsks \cup {a})
          /\ Cardinality(PendingAsks \cup {a}) <= Cardinality(PendingAsks) + 1
      BY FS_AddElement, FS_CardinalityType
    <3>3. /\ Cardinality(PendingAsks) \in Nat /\ Cardinality(PendingAsks \cup {a}) \in Nat
          /\ AskCapacity \in Nat
      BY <3>2, FS_CardinalityType, CapacityAssumption
    <3>4. Cardinality(PendingAsks \cup {a}) <= AskCapacity BY <2>4, <3>2, <3>3
    <3>. QED BY <1>1, <2>4, <3>1, <3>2, <3>4
  <2>. QED BY <1>2, <2>2, <2>3, <2>4
<1>5. CASE UNCHANGED vars \/ Application \/ Server
  BY <1>2, <1>5
     DEF vars, askVars, Application, Start, Close, Issue, Server, TransportEnds, BrokenEvent,
         EventBeforeResponse, Receive
<1>6. CASE \/ StartRuns \/ CommandEnds \/ ConnectRejected \/ ResponseUnusable \/ Connected
           \/ Reclaimed \/ InitializeSettled \/ Disconnected
           \/ CancelAnswered \/ StartAwaited \/ CloseReturns
  BY <1>2, <1>6
     DEF StartRuns, CommandEnds, ConnectRejected, ResponseUnusable, Connected, Reclaimed, InitializeSettled,
         Disconnected, CancelAnswered, StartAwaited, CloseReturns, askVars
<1>7. CASE \/ InitializedWritten \/ DrainedWrite \/ \E r \in Ids : WriteEnds(r)
           \/ SkipMessage \/ HandleGarbage \/ HandleNotification \/ HandleResult \/ HandleError
  BY <1>2, <1>7
     DEF InitializedWritten, DrainedWrite, WriteEnds, SkipMessage, HandleGarbage, HandleNotification,
         HandleResult, HandleError, askVars
<1>. QED
  BY <1>3, <1>4, <1>5, <1>6, <1>7 DEF Next, Runtime

LEMMA InitMessages == Init => MessagesInv /\ TypeInv
<1>. SUFFICES ASSUME Init PROVE MessagesInv /\ TypeInv OBVIOUS
<1>. USE DEF Init
<1>1. <<>> \in Seq(Messages) /\ <<>> \in Seq(Named) /\ Len(<<>>) = 0 BY EmptySeq
<1>2. Alive /\ Beginning /\ TaskOwner /\ NumberedEarly /\ Numbered
  BY DEF Alive, Beginning, TaskOwner, NumberedEarly, Numbered
<1>3. MessagesType BY <1>1, CapacityAssumption DEF MessagesType
<1>4. StatesType /\ AsksAreNamed BY <1>1 DEF StatesType, AsksAreNamed
<1>5. Fits
  <2>1. PendingAsks = {} BY DEF PendingAsks
  <2>. QED BY <1>1, <2>1, CapacityAssumption, FS_EmptySet DEF Fits
<1>. QED BY <1>2, <1>3, <1>4, <1>5 DEF MessagesInv, TypeInv

-----------------------------------------------------------------------------
(* Theorems                                                                *)

\* The router is opened once, and a request taken from the queue was not settled
\* before it is written (enqueueRequest, drainQueue).
THEOREM Invariance == Spec => []Inv
BY InitInv, Step, PTL DEF Spec

\* The session implements the contract of its requests: every accepted request
\* is settled once, and none is left waiting when the connection is over.
THEOREM ImplementsContract == Spec => SettledOnce
<1>1. Inv /\ Inv' /\ [Next]_vars => [Contract!Next]_(Contract!vars)
  BY Step, MappedStep DEF Inv
<1>2. Init => Contract!Init
  BY InitInv
<1>. QED BY <1>1, <1>2, Invariance, PTL DEF Spec, SettledOnce, Contract!Spec

\* On a live connection every request of the server has one reply or one handler
\* that will reply, whatever identifiers the server uses again.
THEOREM AsksAreAnswered == Spec => []EveryAskAnswered
<1>1. Spec => []AskInv
  BY InitAsks, AskStep, Invariance, PTL DEF Spec
<1>. QED BY <1>1, PTL DEF AskInv

\* A session that ended, whatever it interrupted, has given its connection back
\* unless the pool refused to take it (closeTransport, cancelPending).
THEOREM GivesBack == Spec => []ConnectionGivenBack
<1>1. BackInv => ConnectionGivenBack
  BY DEF BackInv, EndIsFinal, CommandFollowed, EntryIsKnown, ActiveIsHeld, ConnectionGivenBack,
         AtRest
<1>. QED BY InitBack, <1>1, BackStep, Invariance, PTL DEF Spec

\* initialize is written first and the requests of the application follow in the
\* order they were sent (enqueueRequest, drainQueue).
THEOREM WritesAreOrdered == Spec => []WrittenInOrder
<1>1. OrderInv => WrittenInOrder
  <2>. SUFFICES ASSUME OrderInv, written # <<>> PROVE WrittenInOrder
    BY DEF WrittenInOrder
  <2>1. /\ Head(written) = Initialize /\ Len(written) \in Nat \ {0}
        /\ Sent <= Len(issued) /\ \A i \in 1..Sent : written[i + 1] = issued[i]
    BY DEF OrderInv, Ordered, Sent
  <2>2. /\ Tail(written) \in Seq(Ids) /\ Len(Tail(written)) = Sent
        /\ \A i \in 1..Sent : Tail(written)[i] = written[i + 1]
    BY <2>1 DEF OrderInv, Sent
  <2>3. \A i \in 1..Sent : issued[i] \in Ids
    BY <2>1 DEF OrderInv, Sent, Ids
  <2>. HIDE DEF Sent
  <2>4. /\ SubSeq(issued, 1, Sent) \in Seq(Ids) /\ Len(SubSeq(issued, 1, Sent)) = Sent
        /\ \A i \in 1..Sent : SubSeq(issued, 1, Sent)[i] = issued[i]
    <3>1. Sent \in Nat
      BY <2>1 DEF Sent
    <3>. QED BY <2>3, <3>1, SubSeqProperties
  <2>5. Tail(written) = SubSeq(issued, 1, Sent)
    BY <2>1, <2>2, <2>4, SeqEqual
  <2>. QED BY <2>1, <2>5 DEF WrittenInOrder, Sent
<1>. QED BY InitOrder, <1>1, OrderStep, Invariance, PTL DEF Spec

\* While the session lives, no message of the server is skipped and none overtakes
\* another: not those that came before the connect response, nor those that wait
\* for the queue to be drained (flushEarlyInboundMessages, receiveProtocolMessage).
THEOREM MessagesAreOrdered == Spec => HandledInOrder
<1>1. Init => Inv /\ BackInv /\ OrderInv /\ MessagesInv
  BY InitInv, InitBack, InitOrder, InitMessages
<1>2. /\ Inv /\ BackInv /\ OrderInv /\ MessagesInv /\ [Next]_vars
      => /\ Inv' /\ BackInv' /\ OrderInv' /\ MessagesInv'
         /\ [handled' # handled => handled' = handled + 1]_vars
  BY Step, BackStep, OrderStep, MessagesStep
<1>. QED BY <1>1, <1>2, PTL DEF Spec, HandledInOrder

\* No queue of the session is ever longer than its capacity, a message waits before
\* the connect response or after it, and every variable keeps to its values.
THEOREM TypeCorrect == Spec => []TypeOK
<1>. DEFINE All == Inv /\ BackInv /\ OrderInv /\ AskInv /\ MessagesInv /\ TypeInv
<1>1. Init => All
  BY InitInv, InitBack, InitOrder, InitAsks, InitMessages
<1>2. All /\ [Next]_vars => All'
  BY Step, BackStep, OrderStep, AskStep, MessagesStep, StatesTypeStep, AsksAreNamedStep, FitsStep DEF TypeInv
<1>3. All => TypeOK
  BY DEF TypeOK, TypeInv, StatesType, Fits, Inv, RouterType, Stages, OrderInv, AskInv, MessagesInv, MessagesType
<1>. HIDE DEF All
<1>. QED BY <1>1, <1>2, <1>3, PTL DEF Spec
=============================================================================
