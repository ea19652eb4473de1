SPECIFICATION AsyncSpec
CONSTANTS
  Connacks <- MCConnacks
  MaxConnects = 1
INVARIANT WholeAnswerIsRead
