SPECIFICATION MCSpec
CONSTANTS
  Calls = {c1, c2, c3}
  FailureThreshold = 2
  SuccessThreshold = 2
  EngineCalls = {e1, e2}
  EngineThreshold = 2
  Trips = {t1, t2, t3}
  FailuresToOpen = 2
  SuccessesToClose = 2
  Callers = {h1, h2}
  Sweepers = {s1, s2}
PROPERTIES ImplementsBreaker Recovers EngineRecovers TripsUnderFailure CarrierRecovers BlockEnds
