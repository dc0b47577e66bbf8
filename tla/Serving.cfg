SPECIFICATION Spec
CONSTANTS
  q1 = q1
  j1 = j1
  j2 = j2
  b1 = b1
  b2 = b2
  Requests = {q1}
  Jobs = {j1, j2}
  LeftBehind = {j1}
  Boxes = {b1, b2}
  Inline = 1
  MaxSpans = 2
  Finals = {500}
  Infos = {103}
  NoOne = NoOne
SYMMETRY Symmetry
CHECK_DEADLOCK FALSE
INVARIANTS BoxHeldOnce ArmedMirrors AnswerRecorded FailureRecorded
