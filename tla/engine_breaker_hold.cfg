SPECIFICATION EngineSpec
CONSTANTS
  EngineCalls = {c1, c2}
  EngineThreshold = 1
PROPERTY OpenHeldForTimeout
