\* Two connections initialize, subscribe to and leave one thread, either may go.
CONSTANTS
  c1 = c1  c2 = c2  t1 = t1  q1 = q1
  Clients = {c1, c2}
  Threads = {t1}
  Asks = {q1}
  AskThread <- AboutThread
  Program <- BothClose
  Nobody = Nobody
SPECIFICATION FairSpec
INVARIANTS InitializedOnce AnsweredOnce SubscriptionIsKnown
PROPERTY EveryRequestEnds
\* Every message is issued once: the behaviour ends when all are settled.
CHECK_DEADLOCK FALSE
