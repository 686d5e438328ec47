SPECIFICATION MCSpec
CONSTANTS
  Requests = {r1, r2}
  Subs = {s1}
  Bundles = {1}
  Types = {"data"}
  Allowance <- TwoUnits
  Cost <- UnitCost
  Nobody = nobody
  MaxAdded = 2
  MaxActivations = 2
  CPUs = {c1, c2}
  IPs = {a, b}
  Sizes = {1}
  Credits = {1}
  MaxPackets = 3
SYMMETRY Symmetry
VIEW View
INVARIANTS AirtimeAccounts UsedIsDeducted RunningIsTracked BlockCutsOff NeverOverReported
PROPERTIES DeadForEver
