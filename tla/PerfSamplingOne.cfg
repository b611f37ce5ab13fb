SPECIFICATION FairSpec
CONSTANTS
  Fds = {f1}
  RingCap = 3
  BufferSize = 2
  M = 1
  Noise = {"zero", "other"}
  Failures = {"open", "mmap", "fcntl", "ioctl"}
  KnownId = FALSE
  NoFd = NoFd
  NoBuffer = NoBuffer
INVARIANTS TypeOK Announced LookupUndisturbed
PROPERTIES Recorded HandlerReturns
CHECK_DEADLOCK FALSE
