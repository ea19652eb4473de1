---------------------------- MODULE VentControl ----------------------------
(***************************************************************************)
(* main(): the unit graph that regulates the inflow temperature, the loop  *)
(* that samples the peripherals, updates the two sinks and serves the      *)
(* terminal, the thermal sensors with their rings of samples, and the      *)
(* operator's manual override.                                             *)
(*                                                                         *)
(* Temperatures and powers are in tenths, coefficients in ten-thousandths; *)
(* every product the wired units form is a whole number of tenths.         *)
(***************************************************************************)
EXTENDS Integers, Sequences, Functions

CONSTANTS
  Settings,   \* values the operator gives to S_Temp
  RoomRaw,    \* what the converter of temp_room reads
  InflowRaw,  \* what the converter of temp_iflow reads
  Ring,       \* VC_TS_F, the samples a sensor keeps
  Temp,       \* Temp[s]: temperature for a ring whose samples add up to s
  Powers,     \* bound: what the operator gives to a motor
  HandPins,   \* bound: outputs the operator sets by hand
  MaxTime,    \* largest value of ventctl::time() before the ticker wraps
  MaxStep,    \* bound: ticks between two readings of the clock
  NoSink      \* no sink is being updated

ASSUME VentAssumption ==
  /\ 250 \in Settings /\ Settings \subseteq Int
  /\ RoomRaw \subseteq Nat /\ InflowRaw \subseteq Nat
  /\ Ring \in Nat \ {0}
  /\ \A s, t \in DOMAIN Temp : s < t => Temp[s] > Temp[t]
  /\ Powers \subseteq Int
  /\ MaxTime \in Nat /\ MaxStep \in Nat

HeaterPins == <<"H_0", "H_1", "H_2", "H_3", "H_4", "H_5">>
Pin == {"H_0", "H_1", "H_2", "H_3", "H_4", "H_5", "C_1"}

Sensor == {"src_room_temp", "src_iflow_temp"}
Raw == [src_room_temp |-> RoomRaw, src_iflow_temp |-> InflowRaw]

(* What m_values of a sensor may hold: zeros until the ring is full.       *)
Rings(x) == [0 .. Ring - 1 -> {0} \cup Raw[x]]

Total(samples) == FoldFunction(+, 0, samples)

(* The curve of PT1000.hpp gives a temperature for every ring.             *)
ASSUME RigAssumption ==
  /\ HandPins \subseteq Pin
  /\ Temp \in [DOMAIN Temp -> Int]
  /\ \A x \in Sensor : \A ring \in Rings(x) : Total(ring) \in DOMAIN Temp
  /\ NoSink \notin {"heater_power_sink", "cooler_power_sink"}

(* It also gives one for a ring full of the mean of fewer samples: PT1000  *)
(* is defined for all the converter can read.                              *)
ASSUME CurveAssumption ==
  \A x \in Sensor : \A n \in 1 .. Ring : \A samples \in [1 .. n -> Raw[x]] :
    (Ring * Total(samples)) \div n \in DOMAIN Temp

-----------------------------------------------------------------------------
(* The wiring of main.cpp. *)
Src            == [kind |-> "source", in |-> <<>>]
Sat(i, l, h)   == [kind |-> "saturation", in |-> <<i>>, low |-> l, high |-> h]
(* Mutant: the invert flag is ignored. *)
PlusOnly(a, b, s) == [kind |-> "sum", in |-> <<a, b>>, sign |-> <<1, 1>>]

Plus(a, b, s)  == [kind |-> "sum", in |-> <<a, b>>, sign |-> <<1, s>>]
Flip(i)        == [kind |-> "gain", in |-> <<i>>, k |-> -1]
Filter(i)      == [kind |-> "aperiodic", in |-> <<i>>, k |-> 1, tp |-> 10]
Pid(i, p, c, l, h) ==
  [kind |-> "pid", in |-> <<i>>, kp |-> p, ki |-> c, kb |-> 10000, low |-> l, high |-> h]

Graph ==
  [src_temp_setting    |-> Src,
   src_room_temp       |-> Src,
   src_iflow_temp      |-> Src,
   temp_error          |-> Plus("src_temp_setting", "src_room_temp", -1),
   room_temp_ctl       |-> Pid("temp_error", 20000, 5000, 0, 500),
   iflow_temp_setting  |-> Plus("src_temp_setting", "room_temp_ctl", 1),
   iflow_temp_limit    |-> Sat("iflow_temp_setting", 0, 600),
   iflow_temp_error    |-> Plus("iflow_temp_limit", "src_iflow_temp", -1),
   iflow_temp_ctl      |-> Pid("iflow_temp_error", 1000, 1, -10, 10),
   heater_power_limit  |-> Sat("iflow_temp_ctl", 0, 10),
   cooler_power_flip   |-> Flip("iflow_temp_ctl"),
   cooler_power_limit  |-> Sat("cooler_power_flip", 0, 10),
   heater_power_filter |-> Filter("heater_power_limit"),
   cooler_power_filter |-> Filter("cooler_power_limit")]

Wiring ==
  [heater_power_sink |-> [src |-> "heater_power_filter", pins |-> HeaterPins, ordered |-> FALSE],
   cooler_power_sink |-> [src |-> "cooler_power_filter", pins |-> <<"C_1">>, ordered |-> FALSE]]

VARIABLES
  last, lastTime, integral, reading, now, time, active, stack, pins,  \* of Units
  pc,      \* where main() is
  manual,  \* the variable Manual
  motor,   \* the value written to motor1 and motor2
  values,  \* m_values of each sensor
  count,   \* m_value_cnt, the same in all sensors: the loop updates them all
  recent,  \* history: the samples of each sensor, at most Ring, the latest last
  held,    \* history: pins set by hand since Manual was switched on
  clean    \* history: this iteration began each update later than every older stamp

U == INSTANCE Units WITH
       Unit <- DOMAIN Graph, Sink <- DOMAIN Wiring,
       Scale <- 10, Coef <- 10000, Readings <- Settings \cup {Temp[s] : s \in DOMAIN Temp}

uvars == <<last, lastTime, integral, reading, now, time, active, stack, pins>>
sensors == <<values, count, recent>>
vars  == <<uvars, pc, manual, motor, sensors, held, clean>>

(* read_temperature(): the mean of the ring, as a temperature. *)
ReadTemperature(samples) == Temp[Total(samples)]

(* Before main(): the pins of a DigitalOut start low, the rings are zero. *)
Init ==
  /\ U!Init
  /\ reading.src_temp_setting = 250
  /\ values = [x \in Sensor |-> [k \in 0 .. Ring - 1 |-> 0]]
  /\ count = 0
  /\ recent = [x \in Sensor |-> <<>>]
  /\ \A x \in Sensor : reading[x] = ReadTemperature(values[x])
  /\ pc = "boot"
  /\ manual = FALSE
  /\ motor = 0
  /\ held = {}
  /\ clean = TRUE

-----------------------------------------------------------------------------
(* Mutant: the motors are set in percent. *)
BootPercent ==
  /\ pc = "boot"
  /\ motor' = 50
  /\ pc' = "sample"
  /\ UNCHANGED <<uvars, manual, held, clean, sensors>>

(* Bring-up: every status is printed and ignored, no pin is written. *)
Boot ==
  /\ pc = "boot"
  /\ motor' = 5
  /\ pc' = "sample"
  /\ UNCHANGED <<uvars, manual, held, clean, sensors>>

(* Mutant: the counter of the ring does not move. *)
UpdateSensorsInPlace(raw) ==
  /\ values' = [x \in Sensor |-> [values[x] EXCEPT ![count] = raw[x]]]
  /\ UNCHANGED count

(* ThermalSensor::update(). *)
UpdateSensors(raw) ==
  /\ values' = [x \in Sensor |-> [values[x] EXCEPT ![count] = raw[x]]]
  /\ count' = (count + 1) % Ring

(* The loop updates the peripherals; a source then reads the mean. *)
TakeSamples ==
  \E raw \in [Sensor -> RoomRaw \cup InflowRaw] :
    /\ \A x \in Sensor : raw[x] \in Raw[x]
    /\ UpdateSensors(raw)
    /\ recent' = [x \in Sensor |->
         LET l == Append(recent[x], raw[x])
         IN  IF Len(l) > Ring THEN Tail(l) ELSE l]
    /\ reading' = [src \in DOMAIN reading |->
         IF src \in Sensor THEN ReadTemperature(values'[src]) ELSE reading[src]]

(* Mutant: manual_override is not consulted. *)
SampleAlwaysAuto ==
  /\ pc = "sample"
  /\ TakeSamples
  /\ pc' = "heater"
  /\ clean' = TRUE
  /\ UNCHANGED <<last, lastTime, integral, now, time, active, stack, pins,
                 manual, motor, held>>

(* The sensors take a sample, then manual_override is read once. *)
Sample ==
  /\ pc = "sample"
  /\ TakeSamples
  /\ pc' = IF manual THEN "term" ELSE "heater"
  /\ clean' = TRUE
  /\ UNCHANGED <<last, lastTime, integral, now, time, active, stack, pins,
                 manual, motor, held>>

(* Stamps a clean update must exceed: all of them for the heater, those of *)
(* the units the heater has not just computed for the cooler.              *)
Older(s) ==
  IF s = "heater_power_sink" THEN DOMAIN Graph
  ELSE {"cooler_power_flip", "cooler_power_limit", "cooler_power_filter"}

StartSink(s) ==
  /\ U!BeginUpdate(s)
  /\ clean' = (clean /\ \A u \in Older(s) : lastTime[u] < now)
  /\ UNCHANGED <<manual, motor, held, sensors>>

HeaterUpdate ==
  /\ pc = "heater"
  /\ pc' = "heater_run"
  /\ StartSink("heater_power_sink")

CoolerUpdate ==
  /\ pc = "cooler"
  /\ pc' = "cooler_run"
  /\ StartSink("cooler_power_sink")

Evaluate ==
  /\ U!Descend \/ U!Compute
  /\ UNCHANGED <<pc, manual, motor, held, clean, sensors>>

(* Mutant: the pins are written only when the source was recomputed. *)
SinkReturnsIfNew ==
  /\ IF active # NoSink /\ stack = <<>> /\ lastTime[Wiring[active].src] # time
       THEN /\ active' = NoSink
            /\ UNCHANGED <<last, lastTime, integral, reading, now, time, stack, pins>>
       ELSE U!EndUpdate
  /\ pc' = IF pc = "heater_run" THEN "cooler" ELSE "term"
  /\ UNCHANGED <<manual, motor, held, clean, sensors>>

SinkReturns ==
  /\ U!EndUpdate
  /\ pc' = IF pc = "heater_run" THEN "cooler" ELSE "term"
  /\ UNCHANGED <<manual, motor, held, clean, sensors>>

(* try_command() finds no command complete, or one that sets nothing here. *)
NoCommand ==
  /\ pc = "term"
  /\ pc' = "sample"
  /\ UNCHANGED <<uvars, manual, motor, held, clean, sensors>>

(* "set": S_Temp, Manual, a motor or an output. *)
SetTemp ==
  /\ pc = "term"
  /\ \E v \in Settings : reading' = [reading EXCEPT !.src_temp_setting = v]
  /\ pc' = "sample"
  /\ UNCHANGED <<last, lastTime, integral, now, time, active, stack, pins,
                 manual, motor, held, clean, sensors>>

SetManual ==
  /\ pc = "term"
  /\ manual' \in BOOLEAN
  /\ held' = IF manual /\ manual' THEN held ELSE {}
  /\ pc' = "sample"
  /\ UNCHANGED <<uvars, motor, clean, sensors>>

SetPin ==
  /\ pc = "term"
  /\ \E p \in HandPins, v \in BOOLEAN :
       /\ pins' = [pins EXCEPT ![p] = v]
       /\ held' = IF manual
                    THEN {h \in held : h.pin # p} \cup {[pin |-> p, level |-> v]}
                    ELSE held
  /\ pc' = "sample"
  /\ UNCHANGED <<last, lastTime, integral, reading, now, time, active, stack,
                 manual, motor, clean, sensors>>

SetMotor ==
  /\ pc = "term"
  /\ motor' \in Powers
  /\ pc' = "sample"
  /\ UNCHANGED <<uvars, manual, held, clean, sensors>>

(* Mutant: the clock is read again inside an update. *)
TickInside ==
  /\ \E d \in 1 .. MaxStep : now' = (now + d) % (MaxTime + 1)
  /\ UNCHANGED <<last, lastTime, integral, reading, time, active, stack, pins,
                 pc, manual, motor, held, clean, sensors>>

(* Time passes anywhere but inside an update, which has read the clock. *)
Tick ==
  /\ U!Tick
  /\ UNCHANGED <<pc, manual, motor, held, clean, sensors>>

Terminal == NoCommand \/ SetTemp \/ SetManual \/ SetPin \/ SetMotor

Loop == Boot \/ Sample \/ HeaterUpdate \/ CoolerUpdate \/ Evaluate \/ SinkReturns \/ Terminal

Next == Loop \/ Tick

Spec     == Init /\ [][Next]_vars
FairSpec == Spec /\ WF_vars(Loop)

-----------------------------------------------------------------------------
(***************************************************************************)
(* Properties.                                                             *)
(***************************************************************************)

(* The control law the wiring amounts to, as a function of the readings:   *)
(* a proportional cascade in whole degrees, then tenths of the full power. *)
Demand(r) ==
  LET Whole(v)  == U!Truncated(v)
      roomError == Whole(Whole(r.src_temp_setting) - r.src_room_temp)
      setpoint  == Whole(r.src_temp_setting) + U!Clamp(2 * roomError, 0, 500)
      error     == Whole(U!Clamp(setpoint, 0, 600) - r.src_iflow_temp)
  IN  U!Clamp(error \div 10, -10, 10)

(* Types of the variables main() adds to the units. *)
TypeOK ==
  /\ U!TypeOK
  /\ pc \in {"boot", "sample", "heater", "heater_run", "cooler", "cooler_run", "term"}
  /\ manual \in BOOLEAN
  /\ motor \in {0, 5} \cup Powers
  /\ \A x \in Sensor : values[x] \in Rings(x)
  /\ count \in 0 .. Ring - 1
  /\ held \subseteq [pin : HandPins, level : BOOLEAN]
  /\ clean \in BOOLEAN

(* Caching is transparent as long as the clock moves: when each update of  *)
(* an iteration began later than the stamps it met, both power limits are  *)
(* the control law of the readings sampled in this iteration, although the *)
(* two updates share units and read the clock separately (main.cpp:394-403,*)
(* Unit.hpp:27-36).  It follows that heating and cooling are never         *)
(* demanded together then; without clean they can be.                      *)
PassFollowsReadings ==
  pc = "term" /\ ~manual /\ clean =>
    /\ last.heater_power_limit = U!Clamp(Demand(reading), 0, 10)
    /\ last.cooler_power_limit = U!Clamp(-Demand(reading), 0, 10)

(* What the samples taken so far amount to, without the zeros.             *)
Sensed ==
  [src \in DOMAIN reading |->
     IF src \in Sensor THEN Temp[(Ring * Total(recent[src])) \div Len(recent[src])]
                       ELSE reading[src]]

(* A ring that is not full reads hotter than its samples, because it is    *)
(* filled up with zeros: until then the regulator asks for no more heat    *)
(* and no less cooling than the samples call for, and from then on for     *)
(* exactly what the last Ring samples call for                             *)
(* (ThermalSensor.cpp:5-28, 69-74, PT1000.hpp:7-36).                       *)
ColdStartAsksNoHeat ==
  pc = "term" /\ ~manual /\ clean =>
    /\ last.heater_power_limit <= U!Clamp(Demand(Sensed), 0, 10)
    /\ last.cooler_power_limit >= U!Clamp(-Demand(Sensed), 0, 10)
    /\ Len(recent.src_room_temp) = Ring =>
         /\ last.heater_power_limit = U!Clamp(Demand(Sensed), 0, 10)
         /\ last.cooler_power_limit = U!Clamp(-Demand(Sensed), 0, 10)

(* With the outputs under automatic control no heater and no cooler is     *)
(* ever driven, whatever the temperatures: the filters in front of the     *)
(* sinks never leave 0, so every pin a sink has written is high            *)
(* (main.cpp:219-225, 399-403, Aperiodic.hpp:16-24, Unit.hpp:237-240).     *)
AutomaticDrivesNothing ==
  /\ pc \in {"cooler", "cooler_run", "term"} /\ ~manual =>
       \A k \in DOMAIN HeaterPins : pins[HeaterPins[k]]
  /\ pc = "term" /\ ~manual => pins["C_1"]

(* While Manual is on, an output the operator has set keeps that level     *)
(* through every iteration of the loop (main.cpp:399-403).                 *)
OperatorHolds == \A h \in held : pins[h.pin] = h.level

(* Switching Manual off gives the outputs back to the regulator: they all  *)
(* return to its level unless Manual is switched on again, even when the   *)
(* clock stands still or has wrapped (main.cpp:399-403).                   *)
RegulatorReclaims ==
  pc # "boot" /\ ~manual ~> manual \/ \A p \in Pin : pins[p]

(* main() uses the units as their specification allows, so what holds of   *)
(* every graph of units holds of the regulator.                            *)
UsesUnits == U!Init /\ [][U!Next]_uvars

=============================================================================
