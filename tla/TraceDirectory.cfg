CONSTANTS
  p1 = p1
  p2 = p2
  p3 = p3
  i1 = i1
  i2 = i2
  Processes = {p1, p2, p3}
  ThreadIds = {i1, i2}
  Buffers <- Sharing
SPECIFICATION Spec
INVARIANTS TypeOK OneDirectory TerminatedAlone TraceOfId
CHECK_DEADLOCK FALSE
