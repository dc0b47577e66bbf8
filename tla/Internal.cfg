SPECIFICATION InternalSpec
CONSTANTS
  a = a
  b = b
  Ids = {a, b}
  Tags = {1, 2}
  NoId = NoId
  Blank = Blank
  RequestedSizes <- MCSizes
  e1 = e1
  e2 = e2
  n1 = n1
  n2 = n2
  r1 = r1
  r2 = r2
  Nobody = Nobody
  Channels = {e1, e2}
  Notifiers = {n1, n2}
  Releasers = {r1, r2}
INVARIANTS RingTypeOK NoPanic NotifyReaches
PROPERTIES ImplementsBoundedLog EvictionReported CallsReturn
