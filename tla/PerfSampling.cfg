SPECIFICATION FairSpec
CONSTANTS
  Fds = {f1, f2}
  RingCap = 2
  BufferSize = 1
  M = 2
  Noise = {}
  Failures = {"fcntl", "ioctl"}
  KnownId = FALSE
  NoFd = NoFd
  NoBuffer = NoBuffer
 
PROPERTIES StreamSpec 
CHECK_DEADLOCK FALSE
