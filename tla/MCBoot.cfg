SPECIFICATION BootSpec
CONSTANTS
  Msgs <- MCMsgs
  TooLong = {}
  MaxId = 16
  Issued = 15
  CommandTime = 4
  YieldTime = 1
  KeepAlive = 3
  CleanOptions = {TRUE}
  MaxPacket = 1021
  MaxConnects = 1
  MaxSockets = 1
PROPERTY CallsReturn
PROPERTY LoopBegins
