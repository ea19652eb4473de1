SPECIFICATION Spec
CONSTANTS
  Msgs <- MCMsgs
  TooLong <- MCTooLong
  MaxId = 16
  Issued = 15
  CommandTime = 2
  YieldTime = 1
  KeepAlive = 2
  CleanOptions = {TRUE, FALSE}
  MaxPacket = 1021
  MaxConnects = 2
  MaxSockets = 2
INVARIANT TypeOK
INVARIANT ConnectedWasServed
INVARIANT NothingForgotten
PROPERTY ResendWasAccepted
PROPERTY ImplementsDelivery
