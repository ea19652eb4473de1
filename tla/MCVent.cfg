SPECIFICATION FairSpec
CONSTANTS
  Settings = {250, 300}
  RoomRaw = {487}
  InflowRaw = {463, 535}
  Ring = 2
  Temp <- MCTemp
  Powers = {10}
  HandPins = {"H_1", "C_1"}
  MaxTime = 2
  MaxStep = 2
  NoSink = NoSink
INVARIANTS
  TypeOK
  PassFollowsReadings
  ColdStartAsksNoHeat
  AutomaticDrivesNothing
  OperatorHolds
PROPERTIES
  RegulatorReclaims
  UsesUnits
