SPECIFICATION Spec
CONSTANTS
  Threads = {main, t1}
  Main = main
  Ids = {i1, i2}
  Loads = {load}
  Stores = {store}
  BufferSize = 2
  MaxSamples = 3
  MaxAdds = 2
  Reuse = FALSE
  Failures = {"alloc"}
  NoThread = NoThread
  NoId = NoId
  NoBuffer = NoBuffer
  NoMetric = NoMetric
  NoEvent = NoEvent
  NoTrace = NoTrace
SYMMETRY Symmetry
INVARIANTS TypeOK PerThreadSeries SeriesComplete NoSilentLoss TraceCoversSeries
CHECK_DEADLOCK FALSE
