\* Three calls and retries switch between two servers; two short exits of a local
\* process end its restarts.
CONSTANTS
  s1 = s1  s2 = s2
  Servers = {s1, s2}
  NoServer = NoServer
  MaxGenerations = 3
  MaxShortExits = 2
SPECIFICATION FairSpec
INVARIANTS TypeOK OneWire NoSessionLost ViewOfActive RetryAsAnnounced
PROPERTIES SwitchEnds WireReclaimed RetryHappens
\* Generations are bounded: the behaviour ends.
CHECK_DEADLOCK FALSE
