SPECIFICATION PlansSpec
CONSTANTS
  Plans = {basic, roaming}
  Profiles = {p1}
  Clients = {c1, c2}
  Subscriptions = {s1, s2}
  Records = {u1, u2}
  MaxRecorded = 2
PROPERTY DeleteProtects
