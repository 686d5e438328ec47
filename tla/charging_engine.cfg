SPECIFICATION MCSpec
CONSTANTS
  Imsis = {i1}
  Handlers = {h1}
  Loops = {l1, l2}
  Volumes = {1}
  Balances = {3}
  Uses = {0, 1}
  Fee = 2
  MaxUsed = 1
  MaxMonth = 2
  MaxEvents = 1
  MaxPuts = 1
  MaxFaults = 1
  Workers = {w1, w2, w3}
  MaxBytes = 2
  MaxInt64 = 2
  Events = {e1, e2}
  NRows = 2
  Types = {"data", "voice"}
  UsageVolumes = {0, 1, 2, 4}
  Offers <- SomeOffers
  MaxBigint = 2
INVARIANTS UsageRecorded BalanceExplained OverdraftBound StatusTells Reconciles
PROPERTIES DebtIsNotToppedUp
