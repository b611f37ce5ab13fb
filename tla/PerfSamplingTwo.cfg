SPECIFICATION FairSpec
CONSTANTS
  Fds = {f1, f2}
  RingCap = 2
  BufferSize = 2
  M = 1
  Noise = {}
  Failures = {}
  KnownId = FALSE
  NoFd = NoFd
  NoBuffer = NoBuffer
PROPERTY Recorded
CHECK_DEADLOCK FALSE
