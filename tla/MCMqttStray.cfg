SPECIFICATION Spec
CONSTANTS
  Msgs <- MCMsgs
  TooLong = {}
  MaxId = 65535
  Issued = 63
  CommandTime = 2
  YieldTime = 1
  KeepAlive = 3
  CleanOptions = {TRUE}
  MaxPacket = 1021
  MaxConnects = 1
  MaxSockets = 1
INVARIANT PublishedIsStored
