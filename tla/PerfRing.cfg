SPECIFICATION FairSpec
CONSTANTS
  N = 16
  Sizes = {3, 4}
  CopySize = 8
  MaxHead = 32
INVARIANTS TypeOK CursorsOrdered RecordsIntact
PROPERTIES FifoSpec SpaceReturned
CHECK_DEADLOCK FALSE
