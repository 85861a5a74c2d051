SPECIFICATION FairSpec
CONSTANTS
  Attempts = {a1}
  Policies <- AllPolicies
  Values = {0, 1}
  MaxTries = 2
  DueLimit = 1
  Base = 4
  Cap = 8
  Moments = {2, 4, 8}
  Horizon = 8
  MaxSamples = 2
  MaxCrashes = 1
INVARIANTS TypeOK FiringsDeserved  DeliveredWasAccepted DeadGaveUp RepeatsExplained NeverEarly
PROPERTY DeliveriesSettle
CHECK_DEADLOCK FALSE
