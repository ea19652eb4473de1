SPECIFICATION AsyncSpec
CONSTANTS
  Connacks <- MCConnacks
  MaxConnects = 2
INVARIANT TypeOK
INVARIANT ConnectedOnSilence
INVARIANT OnlyAFullConnectIsUnderstood
PROPERTY ProcessReturns
