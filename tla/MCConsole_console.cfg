SPECIFICATION FairConsoleSpec
CONSTANTS
  U32 = 16
  U64 = 16
  Jobs = {j1}
  Workers = {w1}
  Sessions = {1}
  Keys = {k1}
  Targets = {"hook"}
  Files = {}
  Seqs = {1, 2, 3, 4}
  EventIds = {1, 2, 3, 4}
  Points <- OnePoint
  JobSpec <- OneJob
  Capacity <- OneWorker
  ScanLimit = 2
  Clients = {"get", "wait", "browser", "visitor"}
  Watched = j1
  Life = 6
  Moments = {1, 4, 6, 8, 10}
  MaxLogins <- Logins
  MaxFailures = 1
INVARIANTS ConsoleTypeOK  ChartExact  SessionsExact
PROPERTY ClientRests
CHECK_DEADLOCK FALSE
