SPECIFICATION FairSyncSpec
CONSTANTS
  U32 = 16
  U64 = 16
  Jobs = {j1}
  Workers = {w1}
  Sessions = {1}
  Keys = {k1}
  Targets = {"hook"}
  Files = {f1, f2}
  Seqs = {1, 2, 3, 4, 5, 6, 7}
  EventIds <- WorkerIds
  Points <- NoLines
  JobSpec <- OneTry
  Capacity <- OneSlot
  ScanLimit = 2
  MaxBatch = 10
  MaxLines = 0
  MaxSweeps = 2
  Tails = {TRUE}
  Collects = {TRUE}
  MaxFaults = 1
  Budget <- OneTimeout
 
PROPERTY CancelCompletes
CHECK_DEADLOCK FALSE
