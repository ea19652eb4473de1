SPECIFICATION Spec
CONSTANTS
  Unit <- MCUnit
  Graph <- MCGraph
  Sink = {"stairs", "ctl"}
  Wiring <- MCWiring
  Pin <- MCPin
  Scale = 10
  Coef = 1
  Readings <- MCReadings
  MaxTime = 3
  MaxStep = 2
  NoSink = NoSink
INVARIANTS
  TypeOK
  NothingAccumulates
  UsersNotFresher
  NeverReentered
PROPERTIES
  FrozenAtLastInstant
  Thermometer
  UpdateEnds
