SPECIFICATION Spec
CONSTANTS
  U32 = 16
  U64 = 16
  Jobs = {j1}
  Workers = {w1, w2}
  Sessions = {s1, s2}
  Keys = {k1}
  Targets = {"hook"}
  Files = {}
  Seqs = {0, 1, 2}
  EventIds = {e1, e2, e3, e4}
  Points <- ReplayPoints
  JobSpec <- RetrySpec
  Capacity <- RoomyWorkers
  ScanLimit = 2
INVARIANTS TypeOK JobsCoherent AuditAgrees EventsAppliedOnce FinishedPoliciesFire
PROPERTIES EndedIsFinal HistoryGrows ImplementsLifecycle
CHECK_DEADLOCK FALSE
SYMMETRY EventSymmetry
