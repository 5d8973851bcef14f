\* Two commands over one remote connection: the client of c2 may cancel or
\* disconnect, the window of c1 may be closed, every start may fail.
CONSTANTS
  c1 = c1  c2 = c2  c3 = c3  i1 = i1  i2 = i2  i3 = i3
  w1 = w1  w2 = w2  w3 = w3  main = main  other = other  k1 = k1
  Commands = {c1, c2}
  ConnIds = {i1, i2}
  Labels = {main, other}
  Windows = {w1, w2}
  FirstWindows = {w1, w2}
  Closing = {w1}
  Impatient = {c2}
  Keys = {k1}
  LocalKeys = {}
  ConnOf <- FreshIds
  WindowOf <- TwoWindows
  LabelOf <- OwnLabels
  KeyOf <- OneKey
  NoCommand = NoCommand
  MaxPreCancelledPerWindow = 2
  MaxPreCancelled = 3
SPECIFICATION FairSpec
INVARIANTS NoUnownedTransport CancelledInAdvanceFails
PROPERTIES ConnectEnds LeftoversGo
\* Every command is issued once: the behaviour ends when all have been answered.
CHECK_DEADLOCK FALSE
