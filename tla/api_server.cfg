SPECIFICATION MCSpec
CONSTANTS
  Requests = {r1, r2}
  Deliveries = {d1}
  Payments = {p1}
  Price = 2
  MaxSqn = 2
  None = None
  Creators = {n1, n2}
  MaxIMSI = 4
  Sockets = {w1}
  Capacity = 2
  Checks = {"database"}
  Experiments = {x1, x2}
  Unlisted = Unlisted
  MaxSecond = 1
  Callers = {c1, c2}
  Sessions = {s1, s2}
  MaxChanges = 2
  MaxTime = 1
INVARIANTS CreditedOnce LedgerAgrees SqnFresh RefusedOnlyAfterOverlap ViewAgrees RunningIsListed ChangeEndsSessions OneSessionEach
PROPERTIES FailureReachesRow LeftIsForgotten AlertFollows
