\* A session that is closed at any moment, with two requests around its start, and
\* three messages of the server, one more than the session holds.  The server has two
\* identifiers for its requests, one of which may wait for the user at a time.
CONSTANTS
  r1 = r1  r2 = r2  a1 = a1  a2 = a2
  Requests = {r1, r2}
  AskIds = {a1, a2}
  Initialize = Initialize
  Nobody = Nobody
  QueueCapacity = 2
  InboundCapacity = 2
  AskCapacity = 1
  MaxPending = 1
  MaxInbound = 3
SPECIFICATION FairSpec
INVARIANTS TypeOK WrittenInOrder ConnectionGivenBack EveryAskAnswered
PROPERTIES SettledOnce HandledInOrder CloseEnds
\* Requests and messages are bounded: the behaviour ends.
CHECK_DEADLOCK FALSE
