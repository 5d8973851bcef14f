\* Two windows, two servers and one thread: one call opens a tab or a window behind
\* the pages' backs while their users make two changes and windows may close.
CONSTANTS
  Main = Main  w2 = w2  s1 = s1  s2 = s2  t1 = t1  o1 = o1
  Windows = {Main, w2}
  Servers = {s1, s2}
  Threads = {t1}
  Openers = {o1}
  None = None
  Capacity = 3
  MaxMutations = 2
  MaxRestarts = 1
SPECIFICATION FairSpec
INVARIANTS ShownServerIsHeld ReferenceIsLive UpdatesAreDistinct
PROPERTIES NoTabLost RequestsEnd
\* Changes and calls are bounded: the behaviour ends.
CHECK_DEADLOCK FALSE
