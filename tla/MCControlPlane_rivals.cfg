SPECIFICATION Spec
CONSTANTS
  U32 = 16
  U64 = 16
  Jobs = {"alone", "share", "plain"}
  Workers = {"double", "single"}
  Sessions = {s1}
  Keys = {k1, k2, k3}
  Targets = {}
  Files = {}
  Seqs = {1, 2}
  EventIds = {e1, e2}
  Points <- NoPoints
  JobSpec <- RivalSpec
  Capacity <- RivalWorkers
  ScanLimit = 2
INVARIANTS GPUExclusion ReservationsFit OffersInOrder 
CHECK_DEADLOCK FALSE
SYMMETRY RivalSymmetry
