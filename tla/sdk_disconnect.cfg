SPECIFICATION ClientSpec
CONSTANTS
  Sockets = {s1, s2}
  NoSocket = NoSocket
  MaxReconnectAttempts = 2
PROPERTY StaysDisconnected
