\* Three commands of three windows share one local process.  The first window
\* may be closed and its label used again by the second one.
CONSTANTS
  c1 = c1  c2 = c2  c3 = c3  i1 = i1  i2 = i2  i3 = i3
  w1 = w1  w2 = w2  w3 = w3  main = main  other = other  k1 = k1
  Commands = {c1, c2, c3}
  ConnIds = {i1, i2, i3}
  Labels = {main, other}
  Windows = {w1, w2, w3}
  FirstWindows = {w1, w3}
  Closing = {w1}
  Impatient = {}
  Keys = {k1}
  LocalKeys = {k1}
  ConnOf <- FreshIds
  WindowOf <- OwnWindows
  LabelOf <- ReusedLabel
  KeyOf <- OneKey
  NoCommand = NoCommand
  MaxPreCancelledPerWindow = 2
  MaxPreCancelled = 3
SPECIFICATION Spec
INVARIANTS TablesAgree IdleIffUnused EntryHasTransport LossIsAnnounced NoOrphanOfClosedWindow
PROPERTY UsedConnectionStays
\* Every command is issued once: the behaviour ends when all have been answered.
CHECK_DEADLOCK FALSE
