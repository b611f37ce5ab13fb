SPECIFICATION Spec
CONSTANTS
  Threads = {main, t1, t2}
  Main = main
  Ids = {i1, i2}
  Loads = {load}
  Stores = {}
  BufferSize = 2
  MaxSamples = 2
  MaxAdds = 3
  Reuse = TRUE
  Failures = {}
  NoThread = NoThread
  NoId = NoId
  NoBuffer = NoBuffer
  NoMetric = NoMetric
  NoEvent = NoEvent
  NoTrace = NoTrace
INVARIANT PerThreadSeries
CHECK_DEADLOCK FALSE
