SPECIFICATION FairSpec
CONSTANTS
  Threads = {main, t1, t2}
  Main = main
  Ids = {i1, i2}
  Loads = {load}
  Stores = {}
  BufferSize = 2
  MaxSamples = 0
  MaxAdds = 2
  Reuse = TRUE
  Failures = {"event_open", "directory", "write"}
  NoThread = NoThread
  NoId = NoId
  NoBuffer = NoBuffer
  NoMetric = NoMetric
  NoEvent = NoEvent
  NoTrace = NoTrace
INVARIANT IdsAgree
PROPERTIES AddMetricReturns TracesWritten
CHECK_DEADLOCK FALSE
