SPECIFICATION Spec
CONSTANTS
  Pin = {}
  Scale = 1000
  NoSink = NoSink
INVARIANTS
  SettlesOnInput
CHECK_DEADLOCK FALSE
