SPECIFICATION FairSpec
CONSTANTS
  Fds = {f1, f2, f3}
  RingCap = 1
  BufferSize = 1
  M = 1
  Noise = {}
  Failures = {}
  KnownId = TRUE
  NoFd = NoFd
  NoBuffer = NoBuffer
INVARIANT LookupHits
PROPERTY SamplingGoesOn
CHECK_DEADLOCK FALSE
