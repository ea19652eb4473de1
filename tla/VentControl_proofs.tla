------------------------- MODULE VentControl_proofs -------------------------
(***************************************************************************)
(* Proofs about VentControl.  main() is shown to be a client of Units, so  *)
(* that what Units_proofs has for every graph holds here: in particular no *)
(* integral ever leaves 0.  From that the filters in front of the sinks    *)
(* stay at 0, and the outputs follow.                                      *)
(***************************************************************************)
EXTENDS VentControl, SequenceTheorems, TLAPS

P == INSTANCE Units_proofs WITH
       Unit <- DOMAIN Graph, Sink <- DOMAIN Wiring,
       Scale <- 10, Coef <- 10000, Readings <- Settings \cup {Temp[s] : s \in DOMAIN Temp}

-----------------------------------------------------------------------------
(* The wiring of main() is a graph of units.                                *)

Sources == {"src_temp_setting", "src_room_temp", "src_iflow_temp"}
Sums    == {"temp_error", "iflow_temp_setting", "iflow_temp_error"}
Pids    == {"room_temp_ctl", "iflow_temp_ctl"}
Limits  == {"iflow_temp_limit", "heater_power_limit", "cooler_power_limit"}
Flips   == {"cooler_power_flip"}
Filters == {"heater_power_filter", "cooler_power_filter"}

LEMMA AllUnits == DOMAIN Graph = Sources \cup Sums \cup Pids \cup Limits \cup Flips \cup Filters
  BY DEF Graph, Sources, Sums, Pids, Limits, Flips, Filters

LEMMA AllSinks == DOMAIN Wiring = {"heater_power_sink", "cooler_power_sink"}
  BY DEF Wiring

LEMMA WiredSources == \A u \in Sources : Graph[u] = Src
  BY DEF Graph, Sources

LEMMA WiredSums ==
  /\ Graph["temp_error"] = Plus("src_temp_setting", "src_room_temp", -1)
  /\ Graph["iflow_temp_setting"] = Plus("src_temp_setting", "room_temp_ctl", 1)
  /\ Graph["iflow_temp_error"] = Plus("iflow_temp_limit", "src_iflow_temp", -1)
  BY DEF Graph

LEMMA WiredPids ==
  /\ Graph["room_temp_ctl"] = Pid("temp_error", 20000, 5000, 0, 500)
  /\ Graph["iflow_temp_ctl"] = Pid("iflow_temp_error", 1000, 1, -10, 10)
  BY DEF Graph

LEMMA WiredLimits ==
  /\ Graph["iflow_temp_limit"] = Sat("iflow_temp_setting", 0, 600)
  /\ Graph["heater_power_limit"] = Sat("iflow_temp_ctl", 0, 10)
  /\ Graph["cooler_power_limit"] = Sat("cooler_power_flip", 0, 10)
  BY DEF Graph

LEMMA WiredOutputs ==
  /\ Graph["cooler_power_flip"] = Flip("iflow_temp_ctl")
  /\ Graph["heater_power_filter"] = Filter("heater_power_limit")
  /\ Graph["cooler_power_filter"] = Filter("cooler_power_limit")
  BY DEF Graph

UnitLegal(u) ==
       /\ Graph[u].kind \in P!Kinds
       /\ Graph[u].in \in Seq(DOMAIN Graph)
       /\ Graph[u].kind = "sum" =>
            /\ Len(Graph[u].in) <= 4
            /\ Graph[u].sign \in [DOMAIN Graph[u].in -> {1, -1}]
       /\ Graph[u].kind \notin {"source", "sum"} => Len(Graph[u].in) = 1
       /\ Graph[u].kind \in {"gain", "intfilter"} => Graph[u].k \in Int
       /\ Graph[u].kind = "relay" => Graph[u].off \in Int /\ Graph[u].on \in Int
       /\ Graph[u].kind \in {"saturation", "pid"} =>
            Graph[u].low \in Int /\ Graph[u].high \in Int
       /\ Graph[u].kind = "pid" =>
            Graph[u].kp \in Int /\ Graph[u].ki \in Int /\ Graph[u].kb \in Int
       /\ Graph[u].kind = "aperiodic" => Graph[u].k \in Int /\ Graph[u].tp \in Nat \ {0}

LEMMA SeqOfUnits ==
  ASSUME NEW S, NEW a \in S, NEW b \in S
  PROVE  /\ <<>> \in Seq(S)
         /\ <<a>> \in Seq(S) /\ Len(<<a>>) = 1
         /\ <<a, b>> \in Seq(S) /\ Len(<<a, b>>) = 2 /\ DOMAIN <<a, b>> = {1, 2}
  OBVIOUS

LEMMA LegalSource == ASSUME NEW u \in Sources PROVE UnitLegal(u)
<1>1. Graph[u].kind = "source" /\ Graph[u].in = <<>>
  BY WiredSources DEF Src
<1>2. <<>> \in Seq(DOMAIN Graph)
  OBVIOUS
<1> QED BY <1>1, <1>2 DEF UnitLegal, P!Kinds

LEMMA LegalSum ==
  ASSUME NEW u \in DOMAIN Graph, NEW a \in DOMAIN Graph, NEW b \in DOMAIN Graph, NEW s \in {1, -1},
         Graph[u] = Plus(a, b, s)
  PROVE  UnitLegal(u)
  BY SeqOfUnits DEF UnitLegal, Plus, P!Kinds

LEMMA LegalPid ==
  ASSUME NEW u \in DOMAIN Graph, NEW a \in DOMAIN Graph,
         NEW p \in Int, NEW c \in Int, NEW l \in Int, NEW h \in Int, Graph[u] = Pid(a, p, c, l, h)
  PROVE  UnitLegal(u)
  BY SeqOfUnits DEF UnitLegal, Pid, P!Kinds

LEMMA LegalLimit ==
  ASSUME NEW u \in DOMAIN Graph, NEW a \in DOMAIN Graph, NEW l \in Int, NEW h \in Int,
         Graph[u] = Sat(a, l, h)
  PROVE  UnitLegal(u)
  BY SeqOfUnits DEF UnitLegal, Sat, P!Kinds

LEMMA LegalOutput ==
  ASSUME NEW u \in DOMAIN Graph, NEW a \in DOMAIN Graph, Graph[u] = Flip(a) \/ Graph[u] = Filter(a)
  PROVE  UnitLegal(u)
  BY SeqOfUnits DEF UnitLegal, Flip, Filter, P!Kinds

LEMMA AllLegal == \A u \in DOMAIN Graph : UnitLegal(u)
<1> SUFFICES ASSUME NEW u \in DOMAIN Graph PROVE UnitLegal(u)
  OBVIOUS
<1>1. CASE u \in Sources
  BY <1>1, LegalSource
<1>2. CASE u \in Sums
  BY <1>2, WiredSums, LegalSum, AllUnits DEF Sums, Sources, Pids, Limits
<1>3. CASE u \in Pids
  BY <1>3, WiredPids, LegalPid, AllUnits DEF Pids, Sums
<1>4. CASE u \in Limits
  BY <1>4, WiredLimits, LegalLimit, AllUnits DEF Limits, Sums, Pids, Flips
<1>5. CASE u \in Flips \cup Filters
  BY <1>5, WiredOutputs, LegalOutput, AllUnits DEF Flips, Filters, Pids, Limits
<1> QED BY <1>1, <1>2, <1>3, <1>4, <1>5, AllUnits

LEMMA HeaterPinFacts ==
  /\ HeaterPins \in Seq(Pin) /\ Len(HeaterPins) = 6 /\ DOMAIN HeaterPins = 1 .. 6
  /\ \A k \in 1 .. 6 : HeaterPins[k] \in Pin \ {"C_1"}
<1>1. HeaterPins \in Seq(Pin) /\ Len(HeaterPins) = 6 /\ DOMAIN HeaterPins = 1 .. 6
  BY DEF HeaterPins, Pin
<1>2. \A k \in 1 .. 6 : HeaterPins[k] # "C_1"
  BY DEF HeaterPins
<1>3. \A k \in 1 .. 6 : HeaterPins[k] \in Pin
  BY <1>1, ElementOfSeq
<1> QED BY <1>1, <1>2, <1>3

LEMMA SinkFacts ==
  /\ Wiring["heater_power_sink"].src = "heater_power_filter"
  /\ Wiring["heater_power_sink"].pins = HeaterPins
  /\ Wiring["heater_power_sink"].ordered = FALSE
  /\ Wiring["cooler_power_sink"].src = "cooler_power_filter"
  /\ Wiring["cooler_power_sink"].pins = <<"C_1">>
  /\ Wiring["cooler_power_sink"].ordered = FALSE
  BY DEF Wiring

LEMMA CoolerPinFacts ==
  <<"C_1">> \in Seq(Pin) /\ Len(<<"C_1">>) = 1 /\ DOMAIN <<"C_1">> = {1} /\ <<"C_1">>[1] = "C_1"
  BY DEF Pin

\* So what is proved of every graph of units holds of the regulator.
LEMMA RigLegal == P!UnitsAssumption
<1>1. \A s \in DOMAIN Wiring :
        /\ Wiring[s].src \in DOMAIN Graph
        /\ Wiring[s].pins \in Seq(Pin) /\ Len(Wiring[s].pins) < 256
        /\ Wiring[s].ordered \in BOOLEAN
  <2>1. 6 < 256 /\ 1 < 256
    OBVIOUS
  <2>2. {"heater_power_filter", "cooler_power_filter"} \subseteq DOMAIN Graph
    BY AllUnits DEF Filters
  <2> QED BY <2>1, <2>2, AllSinks, SinkFacts, HeaterPinFacts, CoolerPinFacts, Zenon
<1>2. Settings \cup {Temp[s] : s \in DOMAIN Temp} \subseteq Int
  BY VentAssumption, RigAssumption
<1>3. NoSink \notin DOMAIN Wiring
  BY RigAssumption, AllSinks
<1> QED BY <1>1, <1>2, <1>3, AllLegal, VentAssumption DEF P!UnitsAssumption, UnitLegal

-----------------------------------------------------------------------------
(* Both instances of Units are the same actions.                            *)

LEMMA UnitsStart == P!Init => P!IInv
  BY RigLegal, P!InitInv, SMT DEF P!UnitsAssumption

LEMMA UnitsStep == P!IInv /\ [P!Next]_(P!uvars) => P!IInv'
  BY RigLegal, P!NextInv, SMT DEF P!UnitsAssumption

LEMMA SameInit == U!Init <=> P!Init
  BY DEF U!Init, P!Init, U!Sources, P!Sources

LEMMA SameAsk == \A u, t : U!Ask(u, t) <=> P!Ask(u, t)
  BY DEF U!Ask, P!Ask

LEMMA SameBegin == \A s : U!BeginUpdate(s) <=> P!BeginUpdate(s)
  BY SameAsk DEF U!BeginUpdate, P!BeginUpdate

LEMMA SameDescend == U!Descend <=> P!Descend
  BY SameAsk DEF U!Descend, P!Descend, U!Top, P!Top, U!Stale, P!Stale

LEMMA SameNewValue ==
  \A u : U!NewValue(u) = P!NewValue(u) /\ U!NewIntegral(u) = P!NewIntegral(u)
  BY DEF U!NewValue, P!NewValue, U!NewIntegral, P!NewIntegral,
         U!SumValue, P!SumValue, U!Addend, P!Addend, U!Truncated, P!Truncated, U!In, P!In,
         U!Clamp, P!Clamp, U!RelayValue, P!RelayValue, U!PidValue, P!PidValue,
         U!PidRaw, P!PidRaw, U!PidIntegral, P!PidIntegral, U!Elapsed, P!Elapsed,
         U!AperiodicValue, P!AperiodicValue, U!IntFilterValue, P!IntFilterValue,
         U!Overshoot, P!Overshoot

LEMMA SameCompute == U!Compute <=> P!Compute
  BY SameNewValue DEF U!Compute, P!Compute, U!Top, P!Top, U!Stale, P!Stale

LEMMA SameHigh == \A s, level, i : U!High(s, level, i) = P!High(s, level, i)
  BY DEF U!High, P!High, U!CommonBit, P!CommonBit

LEMMA SameEnd == U!EndUpdate <=> P!EndUpdate
  BY SameHigh DEF U!EndUpdate, P!EndUpdate, U!Levels, P!Levels, U!Driven, P!Driven,
         U!Rounded, P!Rounded, U!TopLevel, P!TopLevel

LEMMA SameNext == [U!Next]_uvars <=> [P!Next]_(P!uvars)
  BY SameBegin, SameDescend, SameCompute, SameEnd
     DEF U!Next, P!Next, U!Pulling, P!Pulling, U!Tick, P!Tick, U!Sense, P!Sense, U!Sources, P!Sources,
         U!WritePin, P!WritePin, uvars, P!uvars

-----------------------------------------------------------------------------
(* main() around the units.                                                 *)

Running == {"heater", "heater_run", "cooler", "cooler_run"}

\* A sink is being updated at two places of the loop only, and never under Manual.
Control ==
  /\ pc \in Running \cup {"boot", "sample", "term"}
  /\ manual \in BOOLEAN
  /\ pc \in Running => ~manual
  /\ pc = "heater_run" => active = "heater_power_sink"
  /\ pc = "cooler_run" => active = "cooler_power_sink"
  /\ pc \notin {"heater_run", "cooler_run"} => active = NoSink

SensorTypes ==
  /\ values = [x \in Sensor |-> values[x]]
  /\ \A x \in Sensor : values[x] \in Rings(x)
  /\ count \in 0 .. Ring - 1

OtherTypes ==
  /\ motor \in {0, 5} \cup Powers
  /\ held \subseteq [pin : HandPins, level : BOOLEAN]
  /\ clean \in BOOLEAN

LEMMA SourcesOfGraph == P!Sources = Sources /\ U!Sources = Sources
<1>1. \A u \in DOMAIN Graph : Graph[u].kind = "source" <=> u \in Sources
  <2>1. \A u \in Sources : Graph[u].kind = "source"
    BY WiredSources DEF Src
  <2>2. \A u \in Sums : Graph[u].kind = "sum"
    BY WiredSums DEF Sums, Plus
  <2>3. \A u \in Pids : Graph[u].kind = "pid"
    BY WiredPids DEF Pids, Pid
  <2>4. \A u \in Limits : Graph[u].kind = "saturation"
    BY WiredLimits DEF Limits, Sat
  <2>5. \A u \in Flips : Graph[u].kind = "gain"
    BY WiredOutputs DEF Flips, Flip
  <2>6. \A u \in Filters : Graph[u].kind = "aperiodic"
    BY WiredOutputs DEF Filters, Filter
  <2> QED BY <2>1, <2>2, <2>3, <2>4, <2>5, <2>6, AllUnits
<1>2. Sources \subseteq DOMAIN Graph
  BY AllUnits
<1> QED BY <1>1, <1>2 DEF P!Sources, U!Sources

\* A ring stays a ring, and the curve has a temperature for it.
LEMMA RingKept ==
  ASSUME SensorTypes, NEW x \in Sensor, NEW r \in Raw[x]
  PROVE  [values[x] EXCEPT ![count] = r] \in Rings(x)
  BY DEF SensorTypes, Rings

LEMMA RingTemperature ==
  ASSUME NEW x \in Sensor, NEW ring \in Rings(x)
  PROVE  ReadTemperature(ring) \in {Temp[s] : s \in DOMAIN Temp}
  BY RigAssumption DEF ReadTemperature

LEMMA RingCounter == ASSUME NEW n \in Nat \ {0}, NEW c \in Int PROVE (c + 1) % n \in 0 .. n - 1
  OBVIOUS

LEMMA TakeSamplesTypes ==
  ASSUME SensorTypes, P!TypeOK, TakeSamples
  PROVE  SensorTypes' /\ reading' \in [Sources -> Settings \cup {Temp[s] : s \in DOMAIN Temp}]
<1>1. PICK raw \in [Sensor -> RoomRaw \cup InflowRaw] :
        /\ \A x \in Sensor : raw[x] \in Raw[x]
        /\ values' = [x \in Sensor |-> [values[x] EXCEPT ![count] = raw[x]]]
        /\ count' = (count + 1) % Ring
        /\ reading' = [src \in DOMAIN reading |->
             IF src \in Sensor THEN ReadTemperature(values'[src]) ELSE reading[src]]
  BY DEF TakeSamples, UpdateSensors
<1>2. \A x \in Sensor : values'[x] \in Rings(x)
  BY <1>1, RingKept
<1>3. count' \in 0 .. Ring - 1
  BY <1>1, RingCounter, VentAssumption DEF SensorTypes
<1>4. values' = [x \in Sensor |-> values'[x]]
  BY <1>1
<1>5. DOMAIN reading = Sources /\ \A u \in Sources : reading[u] \in Settings \cup {Temp[s] : s \in DOMAIN Temp}
  BY SourcesOfGraph DEF P!TypeOK
<1>6. \A x \in Sensor : ReadTemperature(values'[x]) \in {Temp[s] : s \in DOMAIN Temp}
  BY <1>2, RingTemperature
<1>7. reading' \in [Sources -> Settings \cup {Temp[s] : s \in DOMAIN Temp}]
  BY <1>1, <1>5, <1>6
<1> QED BY <1>2, <1>3, <1>4, <1>7 DEF SensorTypes

\* Every step of main() is one the units allow, or leaves them alone.
LEMMA StepOfUnits ==
  ASSUME Control, SensorTypes, P!TypeOK, [Next]_vars
  PROVE  [U!Next]_uvars
<1>1. CASE Boot \/ NoCommand \/ SetManual \/ SetMotor
  BY <1>1 DEF Boot, NoCommand, SetManual, SetMotor
<1>2. CASE Sample
  <2>1. active = NoSink
    BY <1>2 DEF Sample, Control, Running
  <2>2. reading' \in [U!Sources -> Settings \cup {Temp[s] : s \in DOMAIN Temp}]
    BY <1>2, TakeSamplesTypes, SourcesOfGraph DEF Sample
  <2>3. U!Sense
    BY <1>2, <2>1, <2>2 DEF Sample, U!Sense
  <2> QED BY <2>3 DEF U!Next
<1>3. CASE HeaterUpdate \/ CoolerUpdate
  <2>1. \E s \in DOMAIN Wiring : U!BeginUpdate(s)
    BY <1>3, AllSinks DEF HeaterUpdate, CoolerUpdate, StartSink
  <2> QED BY <2>1 DEF U!Next
<1>4. CASE Evaluate \/ SinkReturns
  BY <1>4 DEF Evaluate, SinkReturns, U!Next, U!Pulling
<1>5. CASE SetTemp
  <2>1. active = NoSink
    BY <1>5 DEF SetTemp, Control, Running
  <2>2. reading' \in [U!Sources -> Settings \cup {Temp[s] : s \in DOMAIN Temp}]
    BY <1>5, SourcesOfGraph DEF SetTemp, P!TypeOK
  <2>3. U!Sense
    BY <1>5, <2>1, <2>2 DEF SetTemp, U!Sense
  <2> QED BY <2>3 DEF U!Next
<1>6. CASE SetPin
  <2>1. active = NoSink
    BY <1>6 DEF SetPin, Control, Running
  <2>2. \E p \in Pin, v \in BOOLEAN : pins' = [pins EXCEPT ![p] = v]
    BY <1>6, RigAssumption DEF SetPin
  <2>3. U!WritePin
    BY <1>6, <2>1, <2>2 DEF SetPin, U!WritePin
  <2> QED BY <2>3 DEF U!Next
<1>7. CASE Tick
  BY <1>7 DEF Tick, U!Next
<1>8. CASE UNCHANGED vars
  BY <1>8 DEF vars
<1> QED BY <1>1, <1>2, <1>3, <1>4, <1>5, <1>6, <1>7, <1>8 DEF Next, Loop, Terminal

-----------------------------------------------------------------------------
(* The invariant.                                                           *)

\* A filter divides an integral that stays 0.
FiltersRest == \A u \in Filters : last[u] = 0

HeldByHand == OperatorHolds /\ (held # {} => manual)

IInv == /\ P!IInv
        /\ Control /\ SensorTypes /\ OtherTypes
        /\ FiltersRest
        /\ AutomaticDrivesNothing
        /\ HeldByHand

LEMMA Initially == Init => IInv
<1> SUFFICES ASSUME Init PROVE IInv
  OBVIOUS
<1>1. P!IInv
  BY SameInit, UnitsStart DEF Init
<1>2. Control
  BY DEF Init, Control, Running, U!Init
<1>3. SensorTypes
  <2>1. \A x \in Sensor : [k \in 0 .. Ring - 1 |-> 0] \in Rings(x)
    BY DEF Rings
  <2>2. values = [x \in Sensor |-> [k \in 0 .. Ring - 1 |-> 0]] /\ count = 0
    BY DEF Init
  <2> QED BY <2>1, <2>2, VentAssumption DEF SensorTypes
<1>4. OtherTypes
  BY DEF Init, OtherTypes
<1>5. FiltersRest
  BY AllUnits DEF Init, U!Init, FiltersRest
<1>6. AutomaticDrivesNothing /\ HeldByHand
  BY DEF Init, AutomaticDrivesNothing, HeldByHand, OperatorHolds
<1> QED BY <1>1, <1>2, <1>3, <1>4, <1>5, <1>6 DEF IInv

LEMMA ControlKept ==
  ASSUME Control, P!Idle, [Next]_vars
  PROVE  Control'
<1> USE DEF Control, Running
<1>1. CASE Boot \/ Sample \/ NoCommand \/ SetTemp \/ SetManual \/ SetPin \/ SetMotor
  BY <1>1 DEF Boot, Sample, NoCommand, SetTemp, SetManual, SetPin, SetMotor, uvars
<1>2. CASE HeaterUpdate \/ CoolerUpdate
  BY <1>2 DEF HeaterUpdate, CoolerUpdate, StartSink, U!BeginUpdate
<1>3. CASE Evaluate
  BY <1>3 DEF Evaluate, U!Descend, U!Compute
<1>4. CASE SinkReturns
  <2>1. pc \in {"heater_run", "cooler_run"} /\ active' = NoSink
    BY <1>4 DEF SinkReturns, U!EndUpdate
  <2> QED BY <1>4, <2>1 DEF SinkReturns
<1>5. CASE Tick
  BY <1>5 DEF Tick, U!Tick
<1>6. CASE UNCHANGED vars
  BY <1>6 DEF vars, uvars
<1> QED BY <1>1, <1>2, <1>3, <1>4, <1>5, <1>6 DEF Next, Loop, Terminal

LEMMA OtherTypesKept ==
  ASSUME Control, OtherTypes, [Next]_vars
  PROVE  OtherTypes'
<1> USE DEF OtherTypes
<1>1. CASE Boot \/ Sample \/ NoCommand \/ SetTemp \/ SetMotor
  BY <1>1 DEF Boot, Sample, NoCommand, SetTemp, SetMotor
<1>2. CASE SetManual
  BY <1>2 DEF SetManual
<1>3. CASE SetPin
  BY <1>3 DEF SetPin
<1>4. CASE HeaterUpdate \/ CoolerUpdate
  BY <1>4 DEF HeaterUpdate, CoolerUpdate, StartSink
<1>5. CASE Evaluate \/ SinkReturns \/ Tick
  BY <1>5 DEF Evaluate, SinkReturns, Tick
<1>6. CASE UNCHANGED vars
  BY <1>6 DEF vars
<1> QED BY <1>1, <1>2, <1>3, <1>4, <1>5, <1>6 DEF Next, Loop, Terminal

LEMMA SensorTypesKept ==
  ASSUME SensorTypes, P!TypeOK, [Next]_vars
  PROVE  SensorTypes'
<1>1. CASE Sample
  BY <1>1, TakeSamplesTypes DEF Sample
<1>2. CASE UNCHANGED sensors
  BY <1>2 DEF SensorTypes, sensors
<1>3. Sample \/ UNCHANGED sensors
  BY DEF Next, Loop, Terminal, Boot, HeaterUpdate, CoolerUpdate, StartSink, Evaluate, SinkReturns,
         NoCommand, SetTemp, SetManual, SetPin, SetMotor, Tick, vars
<1> QED BY <1>1, <1>2, <1>3

LEMMA ZeroOverTen == 0 \div 10 = 0
  OBVIOUS

\* Only its own computation writes the value of a unit.
LEMMA FiltersRestKept ==
  ASSUME FiltersRest, P!TypeOK, P!NothingAccumulates, [Next]_vars
  PROVE  FiltersRest'
<1>1. CASE U!Compute
  <2> SUFFICES ASSUME NEW u \in Filters PROVE last'[u] = 0
    BY DEF FiltersRest
  <2>1. u \in DOMAIN Graph /\ DOMAIN last = DOMAIN Graph
    BY AllUnits DEF P!TypeOK
  <2>2. Graph[u].kind = "aperiodic" /\ Graph[u].tp = 10
    BY WiredOutputs DEF Filters, Filter
  <2>3. U!NewValue(u) = U!AperiodicValue(u)
    BY <2>2 DEF U!NewValue
  <2>4. U!NewValue(u) = 0
    BY <2>1, <2>2, <2>3, ZeroOverTen DEF U!AperiodicValue, P!NothingAccumulates
  <2> QED BY <1>1, <2>1, <2>4 DEF U!Compute, FiltersRest
<1>2. CASE UNCHANGED last
  BY <1>2 DEF FiltersRest
<1>3. U!Compute \/ UNCHANGED last
  BY DEF Next, Loop, Terminal, Boot, Sample, HeaterUpdate, CoolerUpdate, StartSink, Evaluate, SinkReturns,
         NoCommand, SetTemp, SetManual, SetPin, SetMotor, Tick, vars, uvars,
         U!BeginUpdate, U!Descend, U!EndUpdate, U!Tick
<1> QED BY <1>1, <1>2, <1>3

\* A sink whose filter is at 0 puts its level at 0, which leaves all its pins high and
\* the others as they are.
LEMMA RoundedZero == U!Rounded(0) = 0 /\ \A n \in Int : n * 0 = 0
  BY DEF U!Rounded

LEMMA DrivenHigh ==
  ASSUME FiltersRest, P!TypeOK, U!EndUpdate
  PROVE  /\ \A i \in DOMAIN Wiring[active].pins : pins'[Wiring[active].pins[i]]
         /\ \A p \in Pin : (\A i \in DOMAIN Wiring[active].pins : Wiring[active].pins[i] # p)
                          => pins'[p] = pins[p]
<1>1. active \in {"heater_power_sink", "cooler_power_sink"}
  BY AllSinks DEF U!EndUpdate, P!TypeOK
<1>2. last[Wiring[active].src] = 0 /\ Wiring[active].ordered = FALSE
  BY <1>1, SinkFacts DEF FiltersRest, Filters
<1>3. Len(Wiring[active].pins) \in Int
  BY <1>1, SinkFacts, HeaterPinFacts, CoolerPinFacts
<1>4. U!Levels(active) = {0}
  BY <1>2, <1>3, RoundedZero DEF U!Levels, U!TopLevel
<1>5. pins' = U!Driven(active, 0)
  BY <1>4 DEF U!EndUpdate
<1>6. \A i \in DOMAIN Wiring[active].pins : i >= 1 /\ i \in Int /\ Wiring[active].pins[i] \in Pin
  BY <1>1, SinkFacts, HeaterPinFacts, CoolerPinFacts
<1>7. \A i \in DOMAIN Wiring[active].pins : U!High(active, 0, i)
  BY <1>2, <1>6 DEF U!High
<1> QED BY <1>5, <1>6, <1>7 DEF U!Driven

LEMMA HighKept ==
  ASSUME Control, FiltersRest, P!TypeOK, AutomaticDrivesNothing, [Next]_vars
  PROVE  AutomaticDrivesNothing'
<1> USE DEF AutomaticDrivesNothing
<1>1. CASE SinkReturns
  <2>1. U!EndUpdate /\ manual' = manual
    BY <1>1 DEF SinkReturns
  <2>2. pc \in {"heater_run", "cooler_run"}
    BY <2>1 DEF U!EndUpdate, Control, Running
  <2>3. CASE pc = "heater_run"
    <3>1. pc' = "cooler" /\ active = "heater_power_sink"
      BY <1>1, <2>3 DEF SinkReturns, Control
    <3> QED BY <2>1, <3>1, SinkFacts, DrivenHigh
  <2>4. CASE pc = "cooler_run"
    <3>1. active = "cooler_power_sink" /\ ~manual
      BY <2>4 DEF Control, Running
    <3>2. \A p \in Pin \ {"C_1"} : pins'[p] = pins[p]
      BY <2>1, <3>1, SinkFacts, CoolerPinFacts, DrivenHigh
    <3>3. pins'["C_1"]
      BY <2>1, <3>1, SinkFacts, CoolerPinFacts, DrivenHigh
    <3>4. \A k \in DOMAIN HeaterPins : pins'[HeaterPins[k]]
      BY <2>4, <3>1, <3>2, HeaterPinFacts
    <3> QED BY <3>3, <3>4
  <2> QED BY <2>2, <2>3, <2>4
<1>2. CASE HeaterUpdate \/ CoolerUpdate
  BY <1>2 DEF HeaterUpdate, CoolerUpdate, StartSink, U!BeginUpdate
<1>3. CASE Evaluate
  BY <1>3 DEF Evaluate, U!Descend, U!Compute
<1>4. CASE Sample
  BY <1>4 DEF Sample
<1>5. CASE Boot \/ Terminal
  BY <1>5 DEF Boot, Terminal, NoCommand, SetTemp, SetManual, SetPin, SetMotor
<1>6. CASE Tick
  BY <1>6 DEF Tick, U!Tick
<1>7. CASE UNCHANGED vars
  BY <1>7 DEF vars, uvars
<1> QED BY <1>1, <1>2, <1>3, <1>4, <1>5, <1>6, <1>7 DEF Next, Loop

\* Under Manual no sink is updated, and only set writes an output.
LEMMA HandKept ==
  ASSUME Control, OtherTypes, P!TypeOK, HeldByHand, [Next]_vars
  PROVE  HeldByHand'
<1> USE DEF HeldByHand, OperatorHolds
<1>1. CASE SetPin
  <2>1. PICK p \in HandPins, v \in BOOLEAN :
          /\ pins' = [pins EXCEPT ![p] = v]
          /\ held' = IF manual
                       THEN {h \in held : h.pin # p} \cup {[pin |-> p, level |-> v]}
                       ELSE held
    BY <1>1 DEF SetPin
  <2>2. manual' = manual
    BY <1>1 DEF SetPin
  <2>3. p \in Pin /\ DOMAIN pins = Pin
    BY RigAssumption DEF P!TypeOK
  <2>4. CASE manual
    <3>1. \A h \in held' : (h.pin # p /\ h \in held) \/ h = [pin |-> p, level |-> v]
      BY <2>1, <2>4
    <3> QED BY <2>1, <2>2, <2>3, <2>4, <3>1
  <2>5. CASE ~manual
    BY <2>1, <2>2, <2>5
  <2> QED BY <2>4, <2>5
<1>2. CASE SinkReturns
  <2>1. ~manual /\ UNCHANGED <<manual, held>>
    BY <1>2 DEF SinkReturns, U!EndUpdate, Control, Running
  <2> QED BY <2>1
<1>3. CASE SetManual
  BY <1>3 DEF SetManual, uvars
<1>4. CASE UNCHANGED <<pins, held, manual>>
  BY <1>4
<1>5. SetPin \/ SinkReturns \/ SetManual \/ UNCHANGED <<pins, held, manual>>
  BY DEF Next, Loop, Terminal, Boot, Sample, HeaterUpdate, CoolerUpdate, StartSink, Evaluate,
         NoCommand, SetTemp, SetMotor, Tick, vars, uvars,
         U!BeginUpdate, U!Descend, U!Compute, U!Tick
<1> QED BY <1>1, <1>2, <1>3, <1>4, <1>5

LEMMA Inductive == IInv /\ [Next]_vars => IInv'
<1> SUFFICES ASSUME IInv, [Next]_vars PROVE IInv'
  OBVIOUS
<1>1. P!TypeOK /\ P!Idle /\ P!NothingAccumulates
  BY DEF IInv, P!IInv
<1>2. P!IInv'
  BY <1>1, StepOfUnits, SameNext, UnitsStep DEF IInv
<1>3. Control' /\ OtherTypes' /\ SensorTypes'
  BY <1>1, ControlKept, OtherTypesKept, SensorTypesKept DEF IInv
<1>4. FiltersRest' /\ AutomaticDrivesNothing' /\ HeldByHand'
  BY <1>1, FiltersRestKept, HighKept, HandKept DEF IInv
<1> QED BY <1>2, <1>3, <1>4 DEF IInv

LEMMA Invariance == Spec => []IInv
  BY Initially, Inductive, PTL DEF Spec

\* The regulator and the rings keep their types.
THEOREM TypeCorrect == Spec => []TypeOK
<1>1. P!TypeOK <=> U!TypeOK
  BY DEF P!TypeOK, U!TypeOK, P!Sources, U!Sources, P!Time, U!Time
<1>2. IInv => TypeOK
  BY <1>1 DEF IInv, P!IInv, TypeOK, Control, Running, SensorTypes, OtherTypes
<1> QED BY <1>2, Invariance, PTL

\* main() is a client of the units: it updates one sink at a time, and between two updates
\* only reads the clock, samples, and writes outputs.
THEOREM ClientOfUnits == Spec => UsesUnits
<1>1. Init => U!Init
  BY DEF Init
<1>2. IInv /\ [Next]_vars => [U!Next]_uvars
  BY StepOfUnits DEF IInv, P!IInv
<1> QED BY <1>1, <1>2, Invariance, PTL DEF Spec, UsesUnits

\* Whatever the sensors read, the operator sets and the clock shows, no heater and no
\* cooler is ever driven by the regulator.
THEOREM NothingDriven == Spec => []AutomaticDrivesNothing
<1>1. IInv => AutomaticDrivesNothing
  BY DEF IInv
<1> QED BY <1>1, Invariance, PTL

\* Under Manual an output stays as the operator has set it, through any number of
\* iterations.
THEOREM HandHolds == Spec => []OperatorHolds
<1>1. IInv => OperatorHolds
  BY DEF IInv, HeldByHand
<1> QED BY <1>1, Invariance, PTL
=============================================================================
