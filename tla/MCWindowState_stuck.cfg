\* One window that may have no server yet and a user who makes one change.
CONSTANTS
  Main = Main  w2 = w2  s1 = s1  s2 = s2  t1 = t1  o1 = o1
  Windows = {Main}
  Servers = {s1, s2}
  Threads = {t1}
  Openers = {}
  None = None
  Capacity = 3
  MaxMutations = 1
  MaxRestarts = 0
SPECIFICATION Spec
INVARIANT UpdatingIsPending
\* Changes are bounded: the behaviour ends.
CHECK_DEADLOCK FALSE
