SPECIFICATION Spec
CONSTANTS
  q1 = q1
  q2 = q2
  j1 = j1
  r1 = r1
  s1 = s1
  c1 = c1
  h1 = h1
  bg = bg
  Requests = {q1}
  Jobs = {j1}
  Readers = {r1}
  Subscribers = {}
  Hosts = {h1}
  BackgroundHost = bg
  ClientIds = {}
  Outliving = {j1}
  Cap = 1
  StorageMayFail = TRUE
  MaxResets = 1
  NoTrace = NoTrace
INVARIANTS SnapshotBalances LookupFindsInFlight
