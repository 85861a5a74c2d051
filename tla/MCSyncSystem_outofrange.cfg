SPECIFICATION SyncSpec
CONSTANTS
  U32 = 16
  U64 = 16
  Jobs = {j1}
  Workers = {w1}
  Sessions = {1}
  Keys = {k1}
  Targets = {}
  Files = {}
  Seqs = {1, 2, 3, 4, 5, 6}
  EventIds <- WorkerIds
  Points <- OutOfRange
  JobSpec <- OneTry
  Capacity <- OneSlot
  ScanLimit = 2
  MaxBatch = 10
  MaxLines = 1
  MaxSweeps = 0
  Tails = {TRUE}
  Collects = {TRUE}
  MaxFaults = 2
  Budget <- Faultless
INVARIANT SyncNeverRefused
CHECK_DEADLOCK FALSE
