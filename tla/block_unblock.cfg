SPECIFICATION BlockSpec
CONSTANTS
  Callers = {c1}
  Sweepers = {s1}
PROPERTY UnblockLifts
