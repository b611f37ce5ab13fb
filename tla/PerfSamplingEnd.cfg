SPECIFICATION Spec
CONSTANTS
  Fds = {f1}
  RingCap = 2
  BufferSize = 2
  M = 5
  Noise = {}
  Failures = {}
  KnownId = FALSE
  NoFd = NoFd
  NoBuffer = NoBuffer
INVARIANT Survives
CHECK_DEADLOCK FALSE
