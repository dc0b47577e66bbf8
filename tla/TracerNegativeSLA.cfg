SPECIFICATION Spec
CONSTANTS
  q1 = q1
  q2 = q2
  j1 = j1
  r1 = r1
  s1 = s1
  c1 = c1
  h1 = h1
  bg = bg
  Requests = {q1}
  Jobs = {}
  Readers = {r1}
  Subscribers = {}
  Hosts = {h1}
  BackgroundHost = bg
  ClientIds = {}
  Outliving = {}
  Cap = 1
  StorageMayFail = FALSE
  MaxResets = 1
  NoTrace = NoTrace
INVARIANT SLAIsShare
