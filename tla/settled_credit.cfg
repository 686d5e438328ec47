SPECIFICATION FairSpec
CONSTANTS
  Requests = {r1}
  Deliveries = {d1}
  Payments = {p1}
  Price = 1
  MaxSqn = 0
  None = None
PROPERTY SettledIsCredited
