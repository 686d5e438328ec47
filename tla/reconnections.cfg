SPECIFICATION MCSpec
CONSTANTS
  Carriers = {c1, c2}
  Downloads = {d1, d2}
  MaxRetries = 1
  FailureLimit = 1
  MaxDownloads = 2
  Sockets = {s1, s2, s3}
  NoSocket = NoSocket
  PageSockets = {g1, g2}
  NotHeld = NotHeld
  MaxReconnectAttempts = 2
  MaxAttempts = 5
INVARIANTS OneConnection
PROPERTIES ImplementsReconnector SpentStays DownloadsEnd ComesBack
