\* Three commands share one remote connection that nobody gives up.
CONSTANTS
  c1 = c1  c2 = c2  c3 = c3  i1 = i1  i2 = i2  i3 = i3
  w1 = w1  w2 = w2  w3 = w3  main = main  other = other  k1 = k1
  Commands = {c1, c2, c3}
  ConnIds = {i1, i2, i3}
  Labels = {main, other}
  Windows = {w1, w2}
  FirstWindows = {w1, w2}
  Closing = {}
  Impatient = {}
  Keys = {k1}
  LocalKeys = {}
  ConnOf <- FreshIds
  WindowOf <- TwoWindows
  LabelOf <- OwnLabels
  KeyOf <- OneKey
  NoCommand = NoCommand
  MaxPreCancelledPerWindow = 2
  MaxPreCancelled = 3
SPECIFICATION Spec
INVARIANT LossIsAnnounced
\* Every command is issued once: the behaviour ends when all have been answered.
CHECK_DEADLOCK FALSE
