SPECIFICATION Spec
CONSTANTS
  Msgs <- MCMsgs
  TooLong = {}
  MaxId = 16
  Issued = 15
  CommandTime = 2
  YieldTime = 1
  KeepAlive = 3
  CleanOptions = {TRUE}
  MaxPacket = 1021
  MaxConnects = 1
  MaxSockets = 1
INVARIANT ConnectedWasAccepted
