# Formal models of ventctl

ventctl is the firmware of a ventilation unit (STM32F407, mbed OS): a loop that
samples sensors, evaluates a graph of control units, drives heaters and a
cooler, and serves an operator on a serial terminal. Settings live in a sector
of the internal flash. This directory holds TLA+ models of the parts that decide
what the program does, TLC configurations that check them, and TLAPS proofs.

All line numbers are those of the sources named in `PROJECT.json`, under `map`.

## 1. Inventory of the system

| component | source | state | operations | model |
|---|---|---|---|---|
| settings storage | `src/settings.cpp`, `include/settings.hpp` | flash sector at 0x080E0000, `application_settings`, `loaded` | `load_settings`, `save_settings` | `SettingsFlash`, `SettingsStore` |
| control units | `lib/ventctl/include/Unit.hpp`, `PID.hpp`, `Aperiodic.hpp`, `Saturation.hpp`, `IntFilter.hpp` | per unit: cached value, stamp, integral | `getValue`, `SteppedOutputSink::update` | `Units` |
| main loop and regulator | `src/main.cpp` | the static units, sinks, outputs, variables | one iteration: sample, two sinks, log, terminal | `VentControl` |
| terminal | `include/Term.hpp`, `charconv.hpp` | `m_cmdbuf`, `m_idx`, `errno` | `try_command`, `parse_cmd` | `Terminal` over `LineBuffer`, and the commands' effects in `VentControl` and `SettingsFlash` |
| peripherals, registry | `Peripheral.hpp/.cpp`, `Variable.hpp`, `DOut`, `AOut`, `AIn`, `PWMOut` | static vector of at most 64, one value each | `register_peripheral`, `set_value`, `read_value` | `Terminal`, `VentControl` |
| thermal sensors | `ThermalSensor.*`, `PT1000.hpp` | ring of 64 samples and its counter | `update`, `read_temperature` | `VentControl` |
| clock | `include/time.hpp` | 32-bit microsecond ticker, read as a float of seconds | `time()` | `now` in `Units` |
| boot and network bring-up | `src/main.cpp:273-390` | none kept | flash init, load, DHCP, NTP, DNS, TCP, MQTT | `Boot` over `MqttSession`, `PowerOn` in `SettingsFlash`, one step in `VentControl` |
| own MQTT client | `lib/mqtt` | static messages, `persistence` map, packet counter | `connect_async`, `publish`, `process` | `MqttAsync` (all but `publish`; `main` does not use it) |
| mbed MQTT client | `lib/mbed-mqtt` (vendored, and the one `main()` uses) | connected, ping outstanding, three timers, packet id, copy of the last publish | `connect`, `publish`, `yield`, `disconnect` | `MqttSession`, `MqttDelivery` |
| Modbus registers | `include/MB*.hpp` | none | templates nobody instantiates | not modelled |
| high-fidelity sensor | `HiFiThermalSensor.*` | ADC registers | commented out in `main.cpp` | not modelled |
| board support | `stm32f4_eth_*.c`, `arm_hal_random.c`, `resources.c`, `TARGET_PYBOARD_F405` | registers | | not modelled |

How they interact. `main()` runs on one thread; there are no callbacks into the
application. The loop calls `update()` of every registered peripheral, then, if
`Manual` is off, each sink with its own reading of the clock. A sink pulls its
source unit, which pulls its inputs; the two sinks share most of the graph. Last,
the terminal takes at most one byte; a line feed runs a command, which may write
a variable the graph reads through a `Source`, an output, or the flash.

What is hard here: a power cut or a failing call in the middle of a save; a
cache with a time stamp in every unit, pulled at different times of a float
clock that wraps; a manual override that shares the outputs with the regulator;
a buffer index that wraps; an error flag nobody clears; a blocking network client
whose timers run out in the middle of a packet, and the regulator waiting behind
it; a ring of samples that starts as zeros. Each is a hazard in
`PROJECT.json`, with its line and the properties that cover it.

Reading of code that does not compile as it stands. `PID.hpp` was refactored to
derive from `UnitBase` while `main.cpp` still builds the older
`PIDController` wrapped in `Unit<>`; `PID.hpp` names `currentTime` and `m_error`
without declaring them. The models take `currentTime` to be the parameter `time`
and a `Unit<PIDController>` to be the refactored class with the wrapped unit as its
input. The test `test_pid.cpp` likewise calls the older interface of `Aperiodic`;
`FilterTest` asks today's class the same questions.

## 2. Modules

### SettingsStore, SettingsFlash

`SettingsStore` is what a caller may rely on: one stored copy and one RAM copy.
`Store`, `Recall`, `Edit` and `Reset` are a save that returned true, a load that
returned true, an edit at the terminal and a loss of power; `Lose` is the start of
an erase.

`SettingsFlash` is `settings.cpp` one flash call per action. `flash` holds the bytes
of the sector, `body` the RAM copy, `pc` says which call comes next, `addr` is the
local variable of the two walks, `n` counts the bytes of the record programmed.

- `LoadGivesUp`, `LoadSkips`, `LoadReads`, `LoadFails`: the loop of `load_settings`.
- `SaveMarks`, `SaveSkips`, `SaveDecidesErase`, `SaveFails`: the loop of
  `save_settings`; `EraseEnds`, `EraseFails`: any of its three erases, and the command
  `erase`; `ProgramByte`, `ProgramEnds`, `ProgramFails`: the final program call,
  byte by byte so that it can be torn.
- `PowerCut` may come anywhere; an erase in progress leaves any of the remains
  the configuration lists. Programming can only clear bits (`Programmed`).

`committed` is a history variable: the body of the last save that returned true,
until an erase starts. `SettingsFlash` implements `SettingsStore` with
`stored <- committed, ram <- body` (`ImplementsStore`).

Abstractions: bytes have `Base` values, a record `RecSize` bytes and the sector
`SectorSize`; a field of the body is filled with one byte value by `s api`.
`FlashIAP` is outside the repository: its read, program and erase are modelled
from how they are used, and a read beyond the sector gives erased bytes.

### Units

A graph of `UnitBase` objects given as a constant function. `last`, `lastTime` and
`integral` are the members of each unit. The recursion of `getValue()` is the
variable `stack`: `Ask` is the test and the stamp (`Unit.hpp:29-31`), `Descend` the
next input that is not fresh, `Compute` the return of `getValueUncached()`.
`BeginUpdate` and `EndUpdate` are `SteppedOutputSink::update()`. Values are
fixed-point integers. Classes: `Source`, `Sum` (with its int accumulator), `Gain`,
`Unit<Saturation>`, `Relay`, `PIDController`, `Aperiodic`, `IntFilter`. The clock and
the peripherals move only between two updates: an update has read the clock, and
a source is read once per stamp.

Not modelled: the derivative term of the PID (all that `main()` builds have none),
`setLastTime()` of the composite classes (no caller but the PID, on itself), and
the float `Sink` (unused).

### VentControl

`main()` as a client of `Units` (`U == INSTANCE Units`): the wiring of
`main.cpp:156-225` as a constant graph, and the loop as a program counter:
`Sample`, `HeaterUpdate`, `Evaluate`, `SinkReturns`, `CoolerUpdate`, ..., one terminal
action. Temperatures are in tenths of a degree, powers in tenths of the full power.
`held` (outputs set by hand under `Manual`) and `clean` (every update of this
iteration began later than the stamps it met) are history variables.

The sensors are part of `Sample`: `UpdateSensors` puts a sample into the ring of each
sensor (`values`, `count`) and `ReadTemperature` is the mean of the ring on the curve of
`PT1000.hpp`. The curve is a constant, `Temp`, of which only that it decreases is assumed.
`recent` keeps the samples taken, without the zeros the ring starts with:
`ColdStartAsksNoHeat` compares the two. A ring of zeros reads hot, so until it is full
the regulator errs towards the cold side.

`clean` matters: the clock is a float of seconds, so two readings may be equal, and
it wraps. Then the cooler may be computed from an `iflow_temp_ctl` that is newer or
older than the one the heater used, and both power limits can be above 0 in the
same iteration. `PassFollowsReadings` is what holds otherwise.

### LineBuffer, Terminal

`LineBuffer` is `try_command()`: the buffer, the uint8_t index, the terminator. What the
buffer holds is anything (`Char`), so a character stands for a word of a command line.
`Terminal` extends it with the commands that change something: when the line ends,
`parse_cmd()` sees the view that `LineBuffer` has collected, and `set` and `s cal` act on
it. The registry is filled before the first line, up to its capacity; the index and the
value are read as `parse_arg` reads them, with the `errno` that nobody clears. So the
word a long line pushes out of the buffer, or the one left over from the wrap, decides
which peripheral is written. Arguments of 64 bytes and more, which `from_chars()` does
not copy safely, are outside the model.

### MqttDelivery, MqttSession

`MqttDelivery` says what a caller of `publish()` at QoS 1 may rely on: success means
that the broker has the message; an error means nothing, except for a message that does
not fit in the client's buffer (`TooLong`), which the broker never gets. `MqttSession` is
the client over a TCP connection. `call` and `pc` are the blocking call and its place in
`waitfor()`, `cycle()` and `readPacket()`; time passes between any two steps (`Tick`).

- `Connect`, `PublishCall`, `YieldCall`, `Disconnect`: the call up to where it waits.
  `PublishTooLong` is the exit of `publish()` for a message that does not fit: the packet id
  is used up, nothing is kept or sent, and the session stays open.
- `Check`, `Arm`, `Recv`, `RecvNothing`: the test of the timer, the time limit of a
  read, one byte received, a read that gives up. The three reads of `readPacket()`
  are `RecvHead`, `RecvLength` and `RecvBody`. What the broker sends is a sequence of
  bytes, because a read that gives up leaves the rest of a packet to the next one.
- `Switch`: `cycle()` after the read, with `keepalive()`.
- `ConnectAnswer`, `PublishAnswered`, `PublishUnanswered`, `YieldEnds`: the returns. With
  a kept session `connect()` goes on with the copy of the last publish, whatever the answer
  to CONNECT was; when the copy does not go out the session is closed.

External are `Broker` (serves packets in order; closes after a refusal, a second
CONNECT, a packet before CONNECT or a DISCONNECT), `Break` and the socket: a send
takes a packet whole or fails, perhaps after some bytes (`torn`); a negative time
limit is none, as in mbed OS. The caller opens a socket only while the client is not
connected, and calls `publish()` and `yield()` only while it is. Left out: subscriptions
and what they bring, QoS 0 and 2. A packet of type PUBLISH made of leftover bytes
needs an id with the digit 3 in its second hexadecimal place; the runs use other ids.

### Boot

`Boot` extends `MqttSession` with the statements of `main()` that use it: one `connect()`,
the reading, the ping, the loop. `at` is the statement; each is a blocking call of
`MqttSession`, and each failure leads on to the next statement (`EnterLoop`).
`LoopBegins` says that the regulator starts whatever the broker and the network do, but
for the read without a limit (`Hung`, below).

### MqttAsync

The client of `lib/mqtt`, built with `MQTT_VERSION` 3 as `platformio.ini` has it, which
also writes 5 into every CONNECT. A message is the set of its non-empty fields; a packet
on the wire is three such sets: the fields its flags announce, those its length counts and
those that were written. `ConnectPayload` and `ConnectNames` are the two overloads of
`connect_async()` on the one static message; `Process` and `Receive` are `process()`, byte
by byte, with the time limit of `read_raw()`. Broker and network are external (`Answer`,
`Close`); the socket may block or not. As the CONNECT announces version 5, the CONNACKs may
have properties, which this build does not expect; their bytes are read as packets. One that
reads as a PUBLISH or a PUBACK may take any part of what follows it (`Dispatch`), which is
more than the parsers of these packets can do. `answers` is a history variable: the CONNACKs
the broker has sent.

Left out: `publish()`, since no program that calls it links (`serializer.hpp:337` declares
the `write` it needs, nothing defines it), and with it the persistence map and what a PUBACK
or a PUBLISH does to the caller's handlers; properties of messages the client sends, which
exist from version 5 on; `SocketStream`, which has no user. The class
has no `subscribe`.

### FilterTest

The loop of `test_aperiodic_step_response` on today's `Aperiodic`.

## 3. Runs

| run | module | bounds | what it shows |
|---|---|---|---|
| `settings` | `MCSettings` | bytes of 4 values, records of 6 in a sector of 24, 2 payloads, a blank sector and five that other firmware left | 56 thousand states: a committed save survives any failing call or power cut until an erase starts; a load finds it; on a sector that was blank what is loaded is never half of two records; refinement of `SettingsStore`; the walks end, whatever log they find |
| `settings_mark` | `MCSettings` | as `settings`, from a blank sector | **violated**: the mark of an overwritten record is not written (finding 1) |
| `units` | `MCUnits` | 6 units, a feedback loop, 2 sinks, clock 0..3 | the properties of the unit library |
| `vent` | `MCVent` | 2 settings, 1 room, 2 inflow readings, rings of 2, clock 0..2 | 934 thousand states: the regulator, its sensors and outputs, and the operator |
| `terminal` | `MCTerminal` | buffer of 3 words, lines up to 5, 4 peripherals, capacity 3 | 4.2 million states: `set` and `s cal` from the bytes of the line to the values, including errors and the wrap of the index |
| `filter_step` | `FilterTest` | 20 ticks of 1/4 s | **violated**: the step response stays 0 (finding 2) |
| `mqtt` | `MCMqtt` | 3 messages, one of them too long, 2 sockets, 2 calls of `connect()`, sessions clean and kept, ids from 16 and after a wrap | 8 million states: connected means that the broker has answered; `publish()` implements `MqttDelivery`; no message that fits is forgotten in a kept session; a resend ends `connect()` well only at a broker that has accepted |
| `boot` | `MCBoot` | a time limit of 4, 1 socket | 160 thousand states: every call returns or is in a read without a limit, and then the loop begins |
| `mqtt_refused` | `MCMqtt` | 1 socket | **violated**: a cut refusal is an acceptance (finding 3) |
| `mqtt_stray` | `MCMqtt` | ids 64 and 65 | **violated**: success without an acknowledgement (finding 4) |
| `mqtt_async` | `MCMqttAsync` | 2 calls of `connect_async()`, 4 CONNACKs, one with properties | 340 thousand states: what `status()` can say, which CONNECT is whole, and that `process()` returns |
| `mqtt_async_read` | `MCMqttAsync` | 1 call of `connect_async()` | **violated**: a CONNACK that has arrived in full is not read (finding 5) |

Why the bounds are enough. In the settings runs `RecSize` and `Base` are chosen so that
a header torn after one or two bytes of size gives, as on the target (0xFF98,
0xFFFF against 152), a size larger than the record and smaller than the sector.
Two payloads tell an old record from a new one. A clock of three or four instants with
steps of one or two gives equal readings, a wrap and an update at the last
instant; the theorems about `Units` and `VentControl` hold for every clock. The temperatures
of `vent` give heating, cooling and neither, and a ring of two samples is empty, half full
and full. A buffer of three words and lines of five reach the wrap with a command before
and after it; a capacity of three for four peripherals drops one. The theorems hold for
every size. Two calls of `connect_async()` let the second find the fields of the first. In the MQTT runs a command waits
two units of time, a yield one, and the keep-alive is two or three (30, 1 and 60 seconds in
the code): a call can time out at each of its reads, and a ping falls due in a later
call. Two messages tell one acknowledgement from another, a third is too long and uses up
an id before, between or after them, and two sockets tell a session from the next. The
CONNACKs of `mqtt_async` are an acceptance, two refusals and one of version 5 whose properties
have a byte that reads as a CONNACK. `Issued` starts the packet id where it matters: after 15 comes 16, which gives
leftover bytes of a type nobody expects, and 1 again; after 63 comes 64, whose leftover
byte reads as PUBACK. The run `mqtt` says nothing about ids with a byte 0x4x: run
`mqtt_stray` shows that `PublishedIsStored` fails for these.

Fairness. `SettingsFlash`: `WF_vars(Working)`, a call that has been made goes on
(it is sequential code with nothing to wait for), but nothing says that an
operator types or that power comes back. `Units`: `WF_uvars(Pulling)`, an update
under way goes on. `VentControl`: `WF_vars(Loop)`, the loop runs; no fairness on
the clock or on any particular command. `Boot`: `main()` and the call it is in go on, and
time passes; the network and the broker owe nothing, which is what the time limits are
for. `MqttAsync`: `WF` of `Receive`, which loops on its own until a byte or its limit.

The invariants worth naming:

- `CommittedIntact`, `ProgramsErasedCells`, `NoBlend`, `LoadFindsCommitted` (settings).
- `NothingAccumulates`: every computation sees an elapsed time of 0.
- `UsersNotFresher`, `NeverReentered`, `FrozenAtLastInstant`, `UpdateEnds`: what the
  stamps guarantee and what they do not.
- `PassFollowsReadings`, `ColdStartAsksNoHeat`, `AutomaticDrivesNothing`, `OperatorHolds`,
  `RegulatorReclaims`, `UsesUnits` (regulator).
- `ParsesTheRemainder`, `RangeErrorIsFinal`, `OnlyGluedClears`, `ReachesTheNamed`
  (terminal).
- `ConnectedWasServed`, `ResendWasAccepted`, `NothingForgotten`, `ImplementsDelivery`,
  `CallsReturn`, `LoopBegins` (MQTT).
- `ConnectedOnSilence`, `OnlyAFullConnectIsUnderstood`, `ProcessReturns` (own client).

## 4. What the checks found

1. `settings.cpp:99` programs one byte 0 at a live record and calls it "valid &
   overwritten". On a little-endian target that byte is the low byte of 0x4000 and is
   0 already. The record stays live; the walk then meets an erased header, which it
   takes for invalid, and erases the sector. The log has never more than one record
   and every save goes through a window in which no settings exist.
2. `Unit.hpp:31` stamps a unit before it computes, so `time - getLastTime()` is 0 in
   every computation. Integrals and filters stay at 0 (`NothingAccumulates`), and as
   both sinks of `main()` pull a filter, automatic control writes the same level for
   ever (`AutomaticDrivesNothing`). `test_pid.cpp:96` expects otherwise.
3. `readPacket()` does not test whether `decodePacket()` got a length
   (`MQTTClient.h:466`): when time runs out after the first byte of a CONNACK, the
   packet counts as one of length 0. `MQTTDeserialize_connack()` then leaves through
   `goto exit` with the length of the length field, 1, in `rc`
   (`MQTTConnectClient.c:146-149`), which its doc calls success. `connect()` returns 0
   although the broker has refused.
4. The bytes that stay behind are read as a packet. After a cut PUBACK of id 64 the
   byte 64 is a PUBACK without a length, and the publish under way returns 0, since it
   does not compare ids for its result (`MQTTClient.h:954-961`).
5. The own client does not read a packet that has arrived: `serializer.cpp:15` returns
   failure for a length byte that was read. `process()` then drops the CONNACK, and
   `status()` keeps the code it had. `test_mqtt.cpp:97` and `:125` test that `read()` of a
   message whose bytes are all there succeeds (`WholeAnswerIsRead`).

A read of the MQTT client may have no time limit: `left_ms()` is read after `expired()`
was tested, and is negative when the time ran out in between (`MQTTmbed.h:55-58`,
`MQTTClient.h:457`). mbed OS takes a negative limit for none, so on a silent broker
the read does not end, and the loop, which comes after, does not begin.
`CallsReturn` is stated but for this read (`Hung`). No run claims the opposite, because
what the limit means is decided outside this repository.

The rest of what the own MQTT client does is stated by properties of the run `mqtt_async`.
As a length that was read is a failure, `process()` goes on with a CONNACK only when the
stream stops inside it, and stores a byte of its flags as the code: `status()` changes only
after a byte that did not come, and then to success, also at a broker that has refused
(`ConnectedOnSilence`). There is one exception: on a socket that does not block, a property
of the CONNACK that reads as another CONNACK (0x21, Receive Maximum, or 0x22, Topic Alias
Maximum) lets a later byte of the properties become the code. A CONNECT announces the fields
that are not empty and writes them all; only one with a will, a user name and a password is
whole (`OnlyAFullConnectIsUnderstood`). Nothing in the program uses this client.

Behaviour that no document contradicts and that is stated as properties: a number
out of range blocks `set` until a reset (`RangeErrorIsFinal`); `set 14 0` and `set 14
false` switch on (`OnlyGluedClears`); a line of 256 bytes or more runs its remainder
(`ParsesTheRemainder`); a unit computed at the last instant of the clock is frozen.

## 5. Proofs

Checked by TLAPS for every value of the constants, from the assumptions named in
the modules (`SettingsAssumption`, `UnitsAssumption`, `LineAssumption`):

- `SettingsFlash_proofs`: `TypeCorrect`, `CommittedSurvives`, `ProgramsErased`,
  `LoadsCommitted`, `Refinement`. The inductive invariant adds two facts to `TypeOK`
  and `CommittedIntact`: while a record is programmed the sector is its first `n` bytes
  and otherwise erased (`Progress`), and a load that meets a committed record is at
  offset 0 (`LoadAtStart`). Without `Progress` nothing says that the cells a save
  is about to program are erased. The refinement is shown step by step.
  `NeverBlended` is for a board whose sector was blank at first. Then the sector
  only ever holds one record at its start with bytes missing (`Torn`), and the missing bytes
  of a header read as the largest: a torn header is invalid, or its size covers the record
  (`TornHeader`). So a load fills the whole body from one record, and what the next save
  writes is of one value again.
- `Units_proofs`: `TypeCorrect`, `NoIntegration`, `CacheOrder`, `NoReentry`, `Frozen`, `NearestStairs`,
  for every graph, feedback loops included. The key is `Stamped`: every unit on the
  stack carries the time of the update. So a unit that is asked is not on the stack
  (it is older), no time has elapsed for a unit that computes, and a unit that
  leaves the stack is no fresher than its inputs, which are fresh by then. `Idle`
  says that the stack is empty between updates. `NearestStairs` is for graphs whose
  unordered sinks pull a unit between 0 and 1 by its parameters and drive no pin twice, as
  those of `main()` and of the run do; `NearestStep` is its rounding.
- `LineBuffer_proofs`: `TypeCorrect`, `Remainder`. `HoldsTheEnd` relates the buffer to
  the line: after some number of full laps, its first `idx` bytes are the rest.
- `Terminal_proofs`: `TermTypeCorrect`, `TermRemainder`, `RangeErrorBlocks`, `GluedClears`,
  `NamedOnly`. The lemmas about the buffer carry over, since a step of `Terminal` is one of
  `LineBuffer` or leaves it alone; so the theorems about values speak of the line typed,
  through the remainder that `parse_cmd()` sees.
- `VentControl_proofs`: `ClientOfUnits`, `NothingDriven`, `HandHolds`, `TypeCorrect`. It
  instantiates `Units_proofs` with the wiring of `main()`, shows that the wiring is a legal
  graph (`RigLegal`) and that every step of `main()` is one of `Units` or a stutter
  (`StepOfUnits`), and so has the invariant of `Units` for nothing. From `NothingAccumulates`
  the filters stay at 0, hence every level a sink computes is 0 and its pins are high.
- `VentPass_proofs`: `FollowsReadings` and `ColdStart`, for all settings, rings, curves and clocks. `Worth`
  gives each unit its value in terms of the readings; `ComputedIsWorth` does the arithmetic
  of each class once its inputs are settled. The rest is about the cache. The wiring has
  no loop (`Ranked`), so an input that answers from its cache is not itself being computed;
  in a clean update it then carries this update's time and is settled (`Following`). When
  the heater's update ends all it pulled is settled (`HeaterEnds`), and stays so while the
  cooler, with another reading of the clock, computes some of it again (`UpstreamStays`).
  `ColdStart` adds the rings. `SamplesInv` says where each of the samples in `recent` is
  (`Slot`): in the order they came while the ring fills up, with zeros behind them, and
  rotated by the counter once it is full. What a ring adds up to is then what its samples
  add up to (`RingTotal`), since the sum depends neither on the order (`SumWithout`,
  `SumRenumbered`) nor on the zeros (`SumOverZeros`). Spread over fewer places the same sum
  has a mean that is no smaller (`MeanIsNoLess`), which on a falling curve is no hotter
  (`ReadHotter`), and the demand falls with both temperatures (`DemandFalls`). The lemmas
  about sums are inductions over finite sets; as the induction rule itself cannot be
  instantiated, each takes a smallest set for which the claim fails (`Smallest`) and finds
  a smaller one.
- `MqttSession_proofs`: `TypeCorrect`, `Served`, `ResendAccepted`, `NothingLost`, `Delivers`,
  `AnsweredIsStored`, `FewMessages`. `ConnectedWasServed` is not inductive: a
  client becomes connected on a packet type it has returned, which it has from a byte it
  has read. `AllServed` says it of everything on that way (`Evidence`), and `AtRest` that
  nothing of it is left when a new socket is opened.
  `ResendAccepted` needs no hypothesis on the ids: until the broker accepts, the stream has
  only bytes of refusals, none of which reads as a PUBACK (`NoAck`), and a client inside
  `connect()` is not connected (`NotYetConnected`).
  `NothingForgotten`, `ImplementsDelivery` and `PublishedIsStored` do not hold for every
  packet id, so their theorems have the hypothesis `[]HarmlessIds`: no byte of an id that
  is given out reads as the start of a PUBACK, nor, in clean sessions, of a CONNACK. The
  first such id is 32 (a CONNACK) or 64 (a PUBACK), so a program that publishes fewer than
  32 messages, as `main()` does, meets it by itself (`FewMessages`). `NothingLost` is about the
  messages that fit; one that does not uses up an id, leaves the copy and the acknowledgement
  that is due alone, and never gets to the broker (`PublishTooLong`). The invariant `AckInv` follows the PUBACK from the
  broker to the caller. At most one is in hand, unread or still due for a PUBLISH on its
  way (`OnePuback`), and it is for the message awaited (`OwnAnswer`). A connected client
  between two calls has nothing outstanding (`Settled`). In a clean session that is because
  a socket on which a publish was given up never connects again (`CleanSession`); in a kept one
  because the message in flight is what is sent again, and a second CONNECT on a socket
  dooms what follows it (`KeptSession`). `Delivers` goes through the actions one by one
  (`DeliverySteps`).
- `MqttAsync_proofs`: `TypeCorrect`, `ShownOnSilence`, `FullConnectsOnly`, for every set of
  CONNACKs, with and without properties. `ShownOnSilence` has two halves. On a socket that
  blocks, `process()` gets past the length of a packet only when the stream has ended (`Deaf`),
  whatever the bytes are. On any socket, while all CONNACKs sent are plain ones (`PlainInv`),
  the invariant follows each through the stream: the byte that will be taken for its code is
  the one of its flags, which is 0 (`Stream`, `Ahead`, `Midway`).

The assumptions are those on the constants: `SettingsAssumption`, `UnitsAssumption`,
`VentAssumption`, `RigAssumption` and `CurveAssumption` (the curve decreases and covers every
ring, and every ring filled with the mean of fewer samples),
`LineAssumption`, `TerminalAssumption`, `SessionAssumption`, `AsyncAssumption` (a CONNACK
has at least its four bytes and starts as one). TLC evaluates each of them in a run.

Model-checked only: all liveness (`CallsReturn`, `LoopBegins`, `ProcessReturns`, `UpdateEnds`,
`RegulatorReclaims`), which the prover does not handle. Every invariant and every action
property of the passing runs is stated by a theorem; those of `MqttSession` named above with
their hypothesis, which `mqtt_stray` shows to be needed.

## 6. Plan

Done, in the order of importance: settings storage, control units, main loop and sensors,
terminal, the MQTT session and the boot that waits for it, the own MQTT client; theorems
about each, and about every invariant the runs check. What is left:

1. `Terminal` composed with the loop, so that the operator of `VentControl` is bound by
   what the terminal can be told; the product is beyond TLC at the present bounds.

## 7. Not modelled

- The subscriptions of the mbed client, what they bring, and QoS 0 and 2: `main()` uses
  none of them. Its packet serializers are represented by the packets they make.
- `publish()` of the own client, its persistence map and the mutex: see `MqttAsync`.
- The derivative term of the PID, ordered sinks beyond what `Units` states, the float
  `Sink`, `PWMOut`, the Modbus templates and the high-fidelity sensor: nothing in the
  program instantiates them, or their only instances are commented out.
- Commands that only print, the log line, DHCP, NTP and DNS, whose results are printed.
- Board support, the vendored device headers of `TARGET_PYBOARD_F405` (more than half of
  the lines of the repository), `nameof.hpp` and the logging headers: declarations,
  register initialisation and compile-time helpers without behaviour of their own.
