CONSTANTS
  UInt = 8
  ULong = 32
  Default = 5
  EventSize = 8
  Asserts = TRUE
  Words = {"", "Load", "Store"}
  Numbers = {4, 9, 32}
  Processors = {{"MEM_TRANS_RETIRED.LOAD_LATENCY", "MEM_UOPS_RETIRED.ALL_STORES"}, {"MEM_TRANS_RETIRED.LOAD_LATENCY"}}
  PfmInit = {"ready", "failed"}
SPECIFICATION Spec
INVARIANTS OfferedOpens PeriodAsAsked
CHECK_DEADLOCK FALSE
