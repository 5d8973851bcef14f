\* A failure that needs the user, after the server had been reached.
CONSTANTS
  s1 = s1  s2 = s2
  Servers = {s1}
  NoServer = NoServer
  MaxGenerations = 2
  MaxShortExits = 3
SPECIFICATION Spec
INVARIANT AttentionIsNotRetried
\* Generations are bounded: the behaviour ends.
CHECK_DEADLOCK FALSE
