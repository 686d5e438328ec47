SPECIFICATION FailoverSpec
CONSTANTS
  Carriers = {c1, c2}
  Downloads = {d1}
  MaxRetries = 1
  FailureLimit = 1
  MaxDownloads = 1
PROPERTY FailoverEnds
