\* A label is used by two windows one after the other; the first of them subscribes twice.
CONSTANTS
  p1 = p1  server = server  main = main
  w1 = w1  w2 = w2  s1 = s1  s2 = s2  s3 = s3
  Physicals = {p1}
  Servers = {server}
  ServerOf <- OneServer
  Labels = {main}
  Windows = {w1, w2}
  LabelOf <- MainTwice
  FirstWindows = {w1}
  Closing = {w1}
  Subscriptions = {s1, s2, s3}
  WindowOf <- Owners
  Nobody = Nobody
  MaxChanges = 2
SPECIFICATION Spec
INVARIANTS SubscriptionKept ChangeIsHeard
\* Changes, windows and subscriptions are bounded: the behaviour ends.
CHECK_DEADLOCK FALSE
