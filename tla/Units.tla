------------------------------- MODULE Units -------------------------------
(***************************************************************************)
(* The control units of lib/ventctl: a graph of UnitBase objects pulled    *)
(* from the sinks.  getValue(time) answers from its cache unless its stamp *)
(* is older than time; otherwise it stamps itself first and then computes, *)
(* which pulls its inputs.  The recursion of getValue() is the stack of    *)
(* units being computed, one step per call and per return.                 *)
(*                                                                         *)
(* Values are fixed-point, Scale to the unit; coefficients of a PID are    *)
(* fixed-point, Coef to the unit, and so is its integral on top of Scale.  *)
(* The derivative coefficient of a PID is 0, as in main().                 *)
(***************************************************************************)
EXTENDS Integers, Sequences

CONSTANTS
  Unit,      \* the UnitBase objects
  Graph,     \* Graph[u]: class, inputs and parameters of unit u
  Sink,      \* the SteppedOutputSink objects
  Wiring,    \* Wiring[s]: the unit a sink pulls, the pins it drives, is it ordered
  Pin,       \* the digital outputs
  Scale,     \* 1.0
  Coef,      \* 1.0 of a coefficient
  Readings,  \* values of the peripherals the sources read
  MaxTime,   \* largest value of ventctl::time() before the ticker wraps
  MaxStep,   \* bound: ticks between two readings of the clock
  NoSink     \* no sink is being updated

Kinds == {"source", "sum", "gain", "saturation", "relay", "pid", "aperiodic",
          "intfilter"}

Time == 0 .. MaxTime

Sources == {u \in Unit : Graph[u].kind = "source"}

IsInput(i, u) == \E k \in DOMAIN Graph[u].in : Graph[u].in[k] = i

ASSUME UnitsAssumption ==
  /\ \A u \in Unit :
       /\ Graph[u].kind \in Kinds
       /\ Graph[u].in \in Seq(Unit)
       /\ Graph[u].kind = "sum" =>
            /\ Len(Graph[u].in) <= 4
            /\ Graph[u].sign \in [DOMAIN Graph[u].in -> {1, -1}]
       /\ Graph[u].kind \notin {"source", "sum"} => Len(Graph[u].in) = 1
       /\ Graph[u].kind \in {"gain", "intfilter"} => Graph[u].k \in Int
       /\ Graph[u].kind = "relay" => Graph[u].off \in Int /\ Graph[u].on \in Int
       /\ Graph[u].kind \in {"saturation", "pid"} =>
            Graph[u].low \in Int /\ Graph[u].high \in Int
       /\ Graph[u].kind = "pid" =>
            Graph[u].kp \in Int /\ Graph[u].ki \in Int /\ Graph[u].kb \in Int
       /\ Graph[u].kind = "aperiodic" => Graph[u].k \in Int /\ Graph[u].tp \in Nat \ {0}
  /\ \A s \in Sink :
       /\ Wiring[s].src \in Unit
       /\ Wiring[s].pins \in Seq(Pin) /\ Len(Wiring[s].pins) < 256
       /\ Wiring[s].ordered \in BOOLEAN
  /\ Scale \in Nat \ {0}
  /\ Coef \in Nat \ {0}
  /\ Readings \subseteq Int
  /\ MaxTime \in Nat
  /\ MaxStep \in Nat
  /\ NoSink \notin Sink

VARIABLES
  last,      \* m_last of each unit
  lastTime,  \* m_last_time of each unit
  integral,  \* m_integral of a PIDController or an Aperiodic
  reading,   \* what the peripheral behind each source reads
  now,       \* ventctl::time(), the 32-bit microsecond ticker as a float
  time,      \* the argument of the update under way
  active,    \* the sink being updated, or NoSink
  stack,     \* units being computed, the sink's source first
  pins       \* level of each digital output

uvars == <<last, lastTime, integral, reading, now, time, active, stack, pins>>

Init ==
  /\ last = [u \in Unit |-> 0]
  /\ lastTime = [u \in Unit |-> 0]
  /\ integral = [u \in Unit |-> 0]
  /\ reading \in [Sources -> Readings]
  /\ now = 0
  /\ time = 0
  /\ active = NoSink
  /\ stack = <<>>
  /\ pins = [p \in Pin |-> FALSE]

-----------------------------------------------------------------------------
(* The classes. *)

Stale(u) == lastTime[u] < time

Clamp(v, low, high) == IF v > high THEN high ELSE IF v < low THEN low ELSE v

(* float to int: towards zero. *)
Truncated(v) == IF v >= 0 THEN (v \div Scale) * Scale ELSE -((-v \div Scale) * Scale)

In(u) == last[Graph[u].in[1]]

(* The accumulator of Sum is an int: each addition truncates. *)
Addend(u, k) ==
  IF k \in DOMAIN Graph[u].in THEN Graph[u].sign[k] * last[Graph[u].in[k]] ELSE 0

SumValue(u) ==
  Truncated(Truncated(Truncated(Truncated(Addend(u, 1)) + Addend(u, 2))
    + Addend(u, 3)) + Addend(u, 4))

RelayValue(u) ==
  LET g == Graph[u]
      up   == IF g.on >= g.off THEN In(u) > g.on ELSE In(u) < g.on
      down == IF g.on >= g.off THEN In(u) < g.off ELSE In(u) > g.off
  IN  IF up THEN Scale ELSE IF down THEN 0 ELSE last[u]

(* Mutant: the time of the last evaluation is not subtracted. *)
ElapsedAbsolute(u) == time

(* time - getLastTime(), as the computation of u sees it. *)
Elapsed(u) == time - lastTime[u]

PidIntegral(u) ==
  IF Graph[u].ki # 0 THEN integral[u] + In(u) * Graph[u].ki * Elapsed(u) ELSE integral[u]

PidRaw(u) ==
  (Graph[u].kp * In(u) + IF Graph[u].ki # 0 THEN PidIntegral(u) ELSE 0) \div Coef

(* Saturation and anti-windup are on when kb > 0. *)
PidValue(u) ==
  IF Graph[u].kb > 0 THEN Clamp(PidRaw(u), Graph[u].low, Graph[u].high) ELSE PidRaw(u)

Overshoot(u) == PidRaw(u) - PidValue(u)

AperiodicValue(u) == integral[u] \div Graph[u].tp

(* m_last of an IntFilter is what UnitBase caches of it. *)
IntFilterValue(u) == (In(u) * Graph[u].k + last[u] * (Scale - Graph[u].k)) \div Scale

NewValue(u) ==
  CASE Graph[u].kind = "source"     -> reading[u]
    [] Graph[u].kind = "sum"        -> SumValue(u)
    [] Graph[u].kind = "gain"       -> Graph[u].k * In(u)
    [] Graph[u].kind = "saturation" -> Clamp(In(u), Graph[u].low, Graph[u].high)
    [] Graph[u].kind = "relay"      -> RelayValue(u)
    [] Graph[u].kind = "pid"        -> PidValue(u)
    [] Graph[u].kind = "aperiodic"  -> AperiodicValue(u)
    [] Graph[u].kind = "intfilter"  -> IntFilterValue(u)

NewIntegral(u) ==
  CASE Graph[u].kind = "pid" ->
         PidIntegral(u) - Overshoot(u) * Graph[u].kb * Elapsed(u)
    [] Graph[u].kind = "aperiodic" ->
         integral[u] + (Graph[u].k * In(u) - AperiodicValue(u)) * Elapsed(u)
    [] OTHER -> integral[u]

-----------------------------------------------------------------------------
(* Mutant: a unit recomputes at its own stamp too. *)
AskAgain(u, t) ==
  IF lastTime[u] <= t
    THEN /\ stack' = Append(stack, u)
         /\ lastTime' = [lastTime EXCEPT ![u] = t]
    ELSE UNCHANGED <<stack, lastTime>>

(* Mutant: no stamp before the computation. *)
AskUnstamped(u, t) ==
  IF lastTime[u] < t
    THEN stack' = Append(stack, u) /\ UNCHANGED lastTime
    ELSE UNCHANGED <<stack, lastTime>>

(* SteppedOutputSink::update reads the clock and asks its source. *)
Ask(u, t) ==
  IF lastTime[u] < t
    THEN /\ stack' = Append(stack, u)
         /\ lastTime' = [lastTime EXCEPT ![u] = t]
    ELSE UNCHANGED <<stack, lastTime>>

BeginUpdate(s) ==
  /\ active = NoSink
  /\ active' = s
  /\ time' = now
  /\ Ask(Wiring[s].src, now)
  /\ UNCHANGED <<last, integral, reading, now, pins>>

Top == stack[Len(stack)]

(* The unit on top asks its inputs in order; a fresh one answers at once. *)
Descend ==
  /\ stack # <<>>
  /\ \E k \in DOMAIN Graph[Top].in :
       /\ Stale(Graph[Top].in[k])
       /\ \A j \in DOMAIN Graph[Top].in : j < k => ~Stale(Graph[Top].in[j])
       /\ Ask(Graph[Top].in[k], time)
  /\ UNCHANGED <<last, integral, reading, now, time, active, pins>>

(* Mutant: one fresh input is enough to compute. *)
ComputeEarly ==
  /\ stack # <<>>
  /\ Graph[Top].in = <<>> \/ \E k \in DOMAIN Graph[Top].in : ~Stale(Graph[Top].in[k])
  /\ last' = [last EXCEPT ![Top] = NewValue(Top)]
  /\ integral' = [integral EXCEPT ![Top] = NewIntegral(Top)]
  /\ stack' = SubSeq(stack, 1, Len(stack) - 1)
  /\ UNCHANGED <<lastTime, reading, now, time, active, pins>>

(* Mutant: the unit stays on the stack. *)
ComputeNoReturn ==
  /\ stack # <<>>
  /\ \A k \in DOMAIN Graph[Top].in : ~Stale(Graph[Top].in[k])
  /\ last' = [last EXCEPT ![Top] = NewValue(Top)]
  /\ integral' = [integral EXCEPT ![Top] = NewIntegral(Top)]
  /\ UNCHANGED <<stack, lastTime, reading, now, time, active, pins>>

(* With the inputs in hand getValueUncached() returns. *)
Compute ==
  /\ stack # <<>>
  /\ \A k \in DOMAIN Graph[Top].in : ~Stale(Graph[Top].in[k])
  /\ last' = [last EXCEPT ![Top] = NewValue(Top)]
  /\ integral' = [integral EXCEPT ![Top] = NewIntegral(Top)]
  /\ stack' = SubSeq(stack, 1, Len(stack) - 1)
  /\ UNCHANGED <<lastTime, reading, now, time, active, pins>>

Rounded(v) ==
  IF v >= 0 THEN (2 * v + Scale) \div (2 * Scale) ELSE -((-2 * v + Scale) \div (2 * Scale))

(* The largest level: a thermometer has one per pin, a binary code 2^pins. *)
TopLevel(s) ==
  IF Wiring[s].ordered THEN 2 ^ Len(Wiring[s].pins) - 1 ELSE Len(Wiring[s].pins)

(* (uint8_t)std::round(top * value): undefined beyond the range of uint8_t. *)
Levels(s) ==
  LET level == Rounded(TopLevel(s) * last[Wiring[s].src])
  IN  IF level \in 0 .. 255 THEN {level} ELSE 0 .. 255

CommonBit(a, b) ==
  \E k \in 0 .. 7 : (a \div 2 ^ k) % 2 = 1 /\ (b \div 2 ^ k) % 2 = 1

(* Mutant: < for <=. *)
HighOneLess(s, level, i) == IF Wiring[s].ordered THEN CommonBit(level, i - 1) ELSE level < i - 1

(* What a sink writes to its pin i; an ordered one tests the index, not bit i. *)
High(s, level, i) == IF Wiring[s].ordered THEN CommonBit(level, i - 1) ELSE level <= i - 1

Driven(s, level) ==
  [p \in Pin |->
    IF \E i \in DOMAIN Wiring[s].pins : Wiring[s].pins[i] = p
      THEN \E i \in DOMAIN Wiring[s].pins : Wiring[s].pins[i] = p /\ High(s, level, i)
      ELSE pins[p]]

EndUpdate ==
  /\ active # NoSink
  /\ stack = <<>>
  /\ \E level \in Levels(active) : pins' = Driven(active, level)
  /\ active' = NoSink
  /\ UNCHANGED <<last, lastTime, integral, reading, now, time, stack>>

Pulling == Descend \/ Compute \/ EndUpdate

-----------------------------------------------------------------------------
(* Around the units: the clock, and the peripherals between two updates. *)
(* Mutant: the ticker does not wrap. *)
TickOn ==
  /\ active = NoSink
  /\ \E d \in 1 .. MaxStep : now' = now + d
  /\ UNCHANGED <<last, lastTime, integral, reading, time, active, stack, pins>>

Tick ==
  /\ active = NoSink
  /\ \E d \in 1 .. MaxStep : now' = (now + d) % (MaxTime + 1)
  /\ UNCHANGED <<last, lastTime, integral, reading, time, active, stack, pins>>

Sense ==
  /\ active = NoSink
  /\ reading' \in [Sources -> Readings]
  /\ UNCHANGED <<last, lastTime, integral, now, time, active, stack, pins>>

(* Anyone may write an output too: the terminal does. *)
WritePin ==
  /\ active = NoSink
  /\ \E p \in Pin, v \in BOOLEAN : pins' = [pins EXCEPT ![p] = v]
  /\ UNCHANGED <<last, lastTime, integral, reading, now, time, active, stack>>

Next == Pulling \/ Tick \/ Sense \/ WritePin \/ \E s \in Sink : BeginUpdate(s)

Spec == Init /\ [][Next]_uvars /\ WF_uvars(Pulling)

-----------------------------------------------------------------------------
(***************************************************************************)
(* Properties.                                                             *)
(***************************************************************************)

OnStack(u) == \E k \in DOMAIN stack : stack[k] = u

(* Types of the variables. *)
TypeOK ==
  /\ last \in [Unit -> Int]
  /\ lastTime \in [Unit -> Time]
  /\ integral \in [Unit -> Int]
  /\ reading \in [Sources -> Readings]
  /\ now \in Time
  /\ time \in Time
  /\ active \in Sink \cup {NoSink}
  /\ stack \in Seq(Unit)
  /\ pins \in [Pin -> BOOLEAN]

(* getValue() stamps a unit before computing it, so every computation sees *)
(* no time elapsed and no unit of any graph ever accumulates anything: the *)
(* integral of a PIDController and the state of an Aperiodic keep their    *)
(* initial 0 (Unit.hpp:27-36, PID.hpp:35-69, Aperiodic.hpp:16-24).         *)
NothingAccumulates == \A u \in Unit : integral[u] = 0

(* Two sinks pull shared units at different times; yet no unit is ever     *)
(* stamped later than one of its inputs, except while it waits for them    *)
(* (Unit.hpp:27-36): a cached value is never newer than what it came from. *)
UsersNotFresher ==
  \A u, i \in Unit :
    IsInput(i, u) /\ ~OnStack(u) => lastTime[u] <= lastTime[i]

(* A unit is never entered while it is being computed, so that the depth   *)
(* of the recursion is bounded by the number of units (Unit.hpp:27-36).    *)
NeverReentered ==
  \A j, k \in DOMAIN stack : stack[j] = stack[k] => j = k

(* Once a unit has been computed in the last instant before the microsecond *)
(* ticker wraps, no later time exceeds its stamp: it is never computed     *)
(* again, however often the ticker wraps (Unit.hpp:29, time.hpp:15-18).    *)
FrozenAtLastInstant ==
  [][ \A u \in Unit :
        lastTime[u] = MaxTime /\ ~OnStack(u) =>
          ~OnStack(u)' /\ last'[u] = last[u] ]_uvars

(* An unordered sink of a unit within 0 and 1 is a thermometer: the pins it *)
(* leaves low are the first ones, and their share is the value it pulled   *)
(* to the nearest step (Unit.hpp:235-241).                                 *)
Thermometer ==
  [][ \A s \in Sink :
        active = s /\ active' = NoSink /\ ~Wiring[s].ordered =>
          LET w == Wiring[s].pins
              v == last[Wiring[s].src]
          IN  \E level \in 0 .. Len(w) :
                /\ \A i \in DOMAIN w : pins'[w[i]] <=> i > level
                /\ 2 * (level * Scale - Len(w) * v) \in -Scale .. Scale ]_uvars

(* Every update of a sink ends: the recursion through the graph finishes.  *)
UpdateEnds == active # NoSink ~> active = NoSink

=============================================================================
