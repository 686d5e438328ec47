SPECIFICATION MCSpec
CONSTANTS
  Iccids = {c1}
  Replicas = {r1, r2}
  Tasks = {t1, t2}
  States = {"downloaded", "activated"}
  MaxRequests = 4
  MaxFaults = 1
  Plans = {basic, roaming}
  Profiles = {p1}
  Clients = {n1, n2}
  Subscriptions = {s1, s2}
  Records = {u1, u2}
  MaxRecorded = 2
  Tenants = {a1, a2}
  Domains = {"example"}
  Users = {"ann"}
  Operators = {o1, o2}
  Settings = {"x", "y"}
  Defaults = "x"
  MaxChanges = 2
  MaxNodeID = 1
  NodeID = 1
  MaxSequence = 2
  MaxTime = 3
INVARIANTS WritesSeen OneActive UsageKept UpdatesHold IdsDiffer
PROPERTY FreshInTheEnd
