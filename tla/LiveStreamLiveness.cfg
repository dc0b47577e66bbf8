SPECIFICATION LiveFairSpec
CONSTANTS
  q1 = q1
  q2 = q2
  j1 = j1
  s1 = s1
  h1 = h1
  bg = bg
  Requests = {q1}
  Jobs = {}
  Readers = {s1}
  Subscribers = {s1}
  Streams = {s1}
  Hosts = {h1}
  BackgroundHost = bg
  ClientIds = {}
  Outliving = {}
  Cap = 1
  StorageMayFail = FALSE
  MaxResets = 1
  NoTrace = NoTrace
PROPERTIES FinishedIsShown BegunIsRetained
