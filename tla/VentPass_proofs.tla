-------------------------- MODULE VentPass_proofs --------------------------
(***************************************************************************)
(* A pass of the regulator follows its readings, for every setting, every  *)
(* curve and size of the rings, and every clock.  Two updates share most   *)
(* of the graph and read the clock separately, and each unit answers from  *)
(* its cache unless its stamp is older; so the first part is about which   *)
(* values were computed in this iteration of the loop.  The second part is *)
(* about the rings: it relates what they hold to the samples taken so far, *)
(* and shows what the zeros of a ring that is not full do to the demand.   *)
(***************************************************************************)
EXTENDS VentControl_proofs, FiniteSetTheorems, WellFoundedInduction

-----------------------------------------------------------------------------
(* What each unit is worth, given the readings.                             *)

Whole(v) == U!Truncated(v)

RoomError == Whole(Whole(reading.src_temp_setting) - reading.src_room_temp)
Setpoint  == Whole(reading.src_temp_setting) + U!Clamp(2 * RoomError, 0, 500)
FlowError == Whole(U!Clamp(Setpoint, 0, 600) - reading.src_iflow_temp)
Power     == U!Clamp(FlowError \div 10, -10, 10)

Worth ==
  [src_temp_setting    |-> reading.src_temp_setting,
   src_room_temp       |-> reading.src_room_temp,
   src_iflow_temp      |-> reading.src_iflow_temp,
   temp_error          |-> RoomError,
   room_temp_ctl       |-> U!Clamp(2 * RoomError, 0, 500),
   iflow_temp_setting  |-> Setpoint,
   iflow_temp_limit    |-> U!Clamp(Setpoint, 0, 600),
   iflow_temp_error    |-> FlowError,
   iflow_temp_ctl      |-> Power,
   heater_power_limit  |-> U!Clamp(Power, 0, 10),
   cooler_power_flip   |-> -Power,
   cooler_power_limit  |-> U!Clamp(-Power, 0, 10),
   heater_power_filter |-> 0,
   cooler_power_filter |-> 0]

LEMMA PowerIsDemand == Power = Demand(reading)
  BY DEF Power, FlowError, Setpoint, RoomError, Whole, Demand

\* Arithmetic of the int accumulator, and of coefficients in ten-thousandths.
LEMMA WholeFacts ==
  ASSUME NEW v \in Int
  PROVE  /\ Whole(v) \in Int /\ Whole(Whole(v) + 0) = Whole(v)
         /\ \E k \in Int : Whole(v) = 10 * k
  BY DEF Whole, U!Truncated

LEMMA WholeOfTens == ASSUME NEW k \in Int PROVE Whole(10 * k) = 10 * k
  BY DEF Whole, U!Truncated

LEMMA ClampFacts ==
  ASSUME NEW v \in Int, NEW l \in Int, NEW h \in Int
  PROVE  U!Clamp(v, l, h) \in Int /\ U!Clamp(v, l, h) \in {v, l, h}
  BY DEF U!Clamp

LEMMA Coefficients ==
  ASSUME NEW v \in Int
  PROVE  /\ (20000 * v + (0 + v * 5000 * 0)) \div 10000 = 2 * v
         /\ (1000 * v + (0 + v * 1 * 0)) \div 10000 = v \div 10
OBVIOUS

\* The values of the sums are whole degrees, so the accumulator drops nothing further on.
LEMMA WorthTypes ==
  ASSUME P!TypeOK
  PROVE  /\ reading.src_temp_setting \in Int /\ reading.src_room_temp \in Int
         /\ reading.src_iflow_temp \in Int
         /\ RoomError \in Int /\ Setpoint \in Int /\ FlowError \in Int /\ Power \in Int
         /\ U!Clamp(2 * RoomError, 0, 500) \in Int /\ U!Clamp(Setpoint, 0, 600) \in Int
         /\ Whole(Setpoint) = Setpoint
         /\ Whole(U!Clamp(Setpoint, 0, 600)) = U!Clamp(Setpoint, 0, 600)
<1>1. \A u \in Sources : reading[u] \in Int
  BY VentAssumption, RigAssumption, SourcesOfGraph DEF P!TypeOK
<1>2. reading.src_temp_setting \in Int /\ reading.src_room_temp \in Int /\ reading.src_iflow_temp \in Int
  BY <1>1 DEF Sources
<1>3. \E i \in Int : Whole(reading.src_temp_setting) = 10 * i
  BY <1>2, WholeFacts
<1>4. \E j \in Int : RoomError = 10 * j
  <2>1. Whole(reading.src_temp_setting) - reading.src_room_temp \in Int
    BY <1>2, <1>3
  <2> QED BY <2>1, WholeFacts DEF RoomError
<1>5. \E j \in Int : U!Clamp(2 * RoomError, 0, 500) = 10 * j
  <2>1. PICK j \in Int : RoomError = 10 * j
    BY <1>4
  <2>2. U!Clamp(2 * RoomError, 0, 500) \in {10 * (2 * j), 10 * 0, 10 * 50}
    BY <2>1 DEF U!Clamp
  <2>3. ASSUME NEW v, NEW k \in {2 * j, 0, 50}, v = 10 * k PROVE \E i \in Int : v = 10 * i
    BY <2>3
  <2> QED BY ONLY <2>2, <2>3
<1>6. \E k \in Int : Setpoint = 10 * k
  BY <1>3, <1>5 DEF Setpoint
<1>7. \E k \in Int : U!Clamp(Setpoint, 0, 600) = 10 * k
  BY <1>6 DEF U!Clamp
<1>8. FlowError \in Int
  <2>1. U!Clamp(Setpoint, 0, 600) - reading.src_iflow_temp \in Int
    BY <1>2, <1>7
  <2> QED BY <2>1, WholeFacts DEF FlowError
<1>9. Power \in Int
  <2>1. FlowError \div 10 \in Int
    BY <1>8
  <2> QED BY <2>1, ClampFacts DEF Power
<1>10. Whole(Setpoint) = Setpoint /\ Whole(U!Clamp(Setpoint, 0, 600)) = U!Clamp(Setpoint, 0, 600)
  BY <1>6, <1>7, WholeOfTens
<1> QED BY <1>2, <1>4, <1>5, <1>6, <1>7, <1>8, <1>9, <1>10

-----------------------------------------------------------------------------
(* What a computation returns when its inputs are worth what they should be. *)

LEMMA TwoPlaces == ASSUME NEW a, NEW b PROVE DOMAIN <<a, b>> = {1, 2} /\ <<a, b>>[1] = a /\ <<a, b>>[2] = b
  OBVIOUS

LEMMA SumComputed ==
  ASSUME NEW u, NEW a, NEW b, NEW s \in {1, -1}, Graph[u] = Plus(a, b, s),
         last[a] \in Int, last[b] \in Int
  PROVE  U!NewValue(u) = Whole(Whole(last[a]) + s * last[b])
<1>1. /\ Graph[u].kind = "sum" /\ Graph[u].in = <<a, b>> /\ Graph[u].sign = <<1, s>>
  BY DEF Plus
<1>2. U!Addend(u, 1) = last[a] /\ U!Addend(u, 2) = s * last[b]
  BY <1>1, TwoPlaces DEF U!Addend
<1>3. U!Addend(u, 3) = 0 /\ U!Addend(u, 4) = 0
  BY <1>1, TwoPlaces DEF U!Addend
<1>4. U!NewValue(u) = U!SumValue(u)
  BY <1>1 DEF U!NewValue
<1>5. Whole(last[a]) + s * last[b] \in Int
  BY WholeFacts
<1>6. U!SumValue(u) = Whole(Whole(Whole(Whole(last[a]) + s * last[b]) + 0) + 0)
  BY <1>2, <1>3 DEF U!SumValue, Whole
<1> QED BY <1>4, <1>5, <1>6, WholeFacts

LEMMA PidComputed ==
  ASSUME NEW u, NEW a, NEW p \in Int, NEW c \in Int, NEW l \in Int, NEW h \in Int,
         Graph[u] = Pid(a, p, c, l, h), c # 0, integral[u] = 0, U!Elapsed(u) = 0
  PROVE  U!NewValue(u) = U!Clamp((p * last[a] + (0 + last[a] * c * 0)) \div 10000, l, h)
<1>1. /\ Graph[u].kind = "pid" /\ Graph[u].in = <<a>> /\ Graph[u].kp = p /\ Graph[u].ki = c
      /\ Graph[u].kb = 10000 /\ Graph[u].low = l /\ Graph[u].high = h
  BY DEF Pid
<1>2. U!In(u) = last[a]
  BY <1>1 DEF U!In
<1>3. U!PidIntegral(u) = 0 + last[a] * c * 0
  BY <1>1, <1>2 DEF U!PidIntegral
<1>4. U!PidRaw(u) = (p * last[a] + (0 + last[a] * c * 0)) \div 10000
  BY <1>1, <1>2, <1>3 DEF U!PidRaw
<1>5. U!NewValue(u) = U!PidValue(u)
  BY <1>1 DEF U!NewValue
<1> QED BY <1>1, <1>4, <1>5 DEF U!PidValue

LEMMA LimitComputed ==
  ASSUME NEW u, NEW a, NEW l, NEW h, Graph[u] = Sat(a, l, h)
  PROVE  U!NewValue(u) = U!Clamp(last[a], l, h)
  BY DEF Sat, U!NewValue, U!In

LEMMA FlipComputed ==
  ASSUME NEW u, NEW a, Graph[u] = Flip(a), last[a] \in Int
  PROVE  U!NewValue(u) = -last[a]
<1>1. Graph[u].kind = "gain" /\ Graph[u].in = <<a>> /\ Graph[u].k = -1
  BY DEF Flip
<1>2. U!NewValue(u) = -1 * last[a]
  BY <1>1 DEF U!NewValue, U!In
<1> QED BY <1>2

LEMMA FilterComputed ==
  ASSUME NEW u, NEW a, Graph[u] = Filter(a), integral[u] = 0
  PROVE  U!NewValue(u) = 0
  BY ZeroOverTen DEF Filter, U!NewValue, U!AperiodicValue

Settled(u) == last[u] = Worth[u]

Into(u) == {i \in DOMAIN Graph : U!IsInput(i, u)}

LEMMA OnePlace == ASSUME NEW a PROVE DOMAIN <<a>> = {1} /\ <<a>>[1] = a
  OBVIOUS

LEMMA PairInto ==
  ASSUME NEW u, NEW a \in DOMAIN Graph, NEW b \in DOMAIN Graph, NEW s, Graph[u] = Plus(a, b, s)
  PROVE  Into(u) = {a, b}
<1>1. Graph[u].in = <<a, b>>
  BY DEF Plus
<1> QED BY <1>1, TwoPlaces DEF Into, U!IsInput

LEMMA SingleInto ==
  ASSUME NEW u, NEW a \in DOMAIN Graph, Graph[u].in = <<a>>
  PROVE  Into(u) = {a}
  BY OnePlace DEF Into, U!IsInput

LEMMA Edges ==
  /\ \A u \in Sources : Into(u) = {}
  /\ Into("temp_error") = {"src_temp_setting", "src_room_temp"}
  /\ Into("room_temp_ctl") = {"temp_error"}
  /\ Into("iflow_temp_setting") = {"src_temp_setting", "room_temp_ctl"}
  /\ Into("iflow_temp_limit") = {"iflow_temp_setting"}
  /\ Into("iflow_temp_error") = {"iflow_temp_limit", "src_iflow_temp"}
  /\ Into("iflow_temp_ctl") = {"iflow_temp_error"}
  /\ Into("heater_power_limit") = {"iflow_temp_ctl"}
  /\ Into("heater_power_filter") = {"heater_power_limit"}
  /\ Into("cooler_power_flip") = {"iflow_temp_ctl"}
  /\ Into("cooler_power_limit") = {"cooler_power_flip"}
  /\ Into("cooler_power_filter") = {"cooler_power_limit"}
<1>1. \A u \in Sources : Into(u) = {}
  BY WiredSources DEF Src, Into, U!IsInput
<1>2. Sources \cup Sums \cup Pids \cup Limits \cup Flips \cup Filters \subseteq DOMAIN Graph
  BY AllUnits
<1>3. /\ Into("temp_error") = {"src_temp_setting", "src_room_temp"}
      /\ Into("iflow_temp_setting") = {"src_temp_setting", "room_temp_ctl"}
      /\ Into("iflow_temp_error") = {"iflow_temp_limit", "src_iflow_temp"}
  BY <1>2, WiredSums, PairInto DEF Sources, Pids, Limits
<1>4. /\ Graph["room_temp_ctl"].in = <<"temp_error">>
      /\ Graph["iflow_temp_ctl"].in = <<"iflow_temp_error">>
  BY WiredPids DEF Pid
<1>5. /\ Graph["iflow_temp_limit"].in = <<"iflow_temp_setting">>
      /\ Graph["heater_power_limit"].in = <<"iflow_temp_ctl">>
      /\ Graph["cooler_power_limit"].in = <<"cooler_power_flip">>
  BY WiredLimits DEF Sat
<1>6. /\ Graph["cooler_power_flip"].in = <<"iflow_temp_ctl">>
      /\ Graph["heater_power_filter"].in = <<"heater_power_limit">>
      /\ Graph["cooler_power_filter"].in = <<"cooler_power_limit">>
  BY WiredOutputs DEF Flip, Filter
<1>7. Into("room_temp_ctl") = {"temp_error"} /\ Into("iflow_temp_ctl") = {"iflow_temp_error"}
  BY <1>2, <1>4, SingleInto DEF Sums
<1>8. /\ Into("iflow_temp_limit") = {"iflow_temp_setting"}
      /\ Into("heater_power_limit") = {"iflow_temp_ctl"}
      /\ Into("cooler_power_limit") = {"cooler_power_flip"}
  BY <1>2, <1>5, SingleInto DEF Sums, Pids, Flips
<1>9. /\ Into("cooler_power_flip") = {"iflow_temp_ctl"}
      /\ Into("heater_power_filter") = {"heater_power_limit"}
      /\ Into("cooler_power_filter") = {"cooler_power_limit"}
  BY <1>2, <1>6, SingleInto DEF Pids, Limits
<1> QED BY <1>1, <1>3, <1>7, <1>8, <1>9

LEMMA ComputedIsWorth ==
  ASSUME P!TypeOK, P!NothingAccumulates, NEW u \in DOMAIN Graph, U!Elapsed(u) = 0,
         \A i \in Into(u) : Settled(i)
  PROVE  U!NewValue(u) = Worth[u]
<1> USE DEF Settled
<1>1. CASE u \in Sources
  BY <1>1, WiredSources DEF Sources, Src, U!NewValue, Worth
<1>2. CASE u = "temp_error"
  <2>1. last["src_temp_setting"] = reading.src_temp_setting /\ last["src_room_temp"] = reading.src_room_temp
    BY <1>2, Edges DEF Worth
  <2>2. U!NewValue(u) = Whole(Whole(reading.src_temp_setting) + -1 * reading.src_room_temp)
    BY <1>2, <2>1, WiredSums, SumComputed, WorthTypes
  <2>3. Whole(reading.src_temp_setting) + -1 * reading.src_room_temp
        = Whole(reading.src_temp_setting) - reading.src_room_temp
    BY WorthTypes, WholeFacts
  <2> QED BY <1>2, <2>2, <2>3 DEF Worth, RoomError
<1>3. CASE u = "room_temp_ctl"
  <2>1. last["temp_error"] = RoomError
    BY <1>3, Edges DEF Worth
  <2>2. U!NewValue(u) = U!Clamp((20000 * RoomError + (0 + RoomError * 5000 * 0)) \div 10000, 0, 500)
    BY <1>3, <2>1, WiredPids, PidComputed DEF P!NothingAccumulates
  <2> QED BY <1>3, <2>2, Coefficients, WorthTypes DEF Worth
<1>4. CASE u = "iflow_temp_setting"
  <2>1. /\ last["src_temp_setting"] = reading.src_temp_setting
        /\ last["room_temp_ctl"] = U!Clamp(2 * RoomError, 0, 500)
    BY <1>4, Edges DEF Worth
  <2>2. U!NewValue(u) = Whole(Whole(reading.src_temp_setting) + 1 * U!Clamp(2 * RoomError, 0, 500))
    BY <1>4, <2>1, WiredSums, SumComputed, WorthTypes
  <2>3. Whole(reading.src_temp_setting) + 1 * U!Clamp(2 * RoomError, 0, 500) = Setpoint
    BY WorthTypes, WholeFacts DEF Setpoint
  <2> QED BY <1>4, <2>2, <2>3, WorthTypes DEF Worth
<1>5. CASE u = "iflow_temp_limit"
  <2>1. last["iflow_temp_setting"] = Setpoint
    BY <1>5, Edges DEF Worth
  <2> QED BY <1>5, <2>1, WiredLimits, LimitComputed DEF Worth
<1>6. CASE u = "iflow_temp_error"
  <2>1. /\ last["iflow_temp_limit"] = U!Clamp(Setpoint, 0, 600)
        /\ last["src_iflow_temp"] = reading.src_iflow_temp
    BY <1>6, Edges DEF Worth
  <2>2. U!NewValue(u) = Whole(Whole(U!Clamp(Setpoint, 0, 600)) + -1 * reading.src_iflow_temp)
    BY <1>6, <2>1, WiredSums, SumComputed, WorthTypes
  <2>3. Whole(U!Clamp(Setpoint, 0, 600)) + -1 * reading.src_iflow_temp
        = U!Clamp(Setpoint, 0, 600) - reading.src_iflow_temp
    BY WorthTypes
  <2> QED BY <1>6, <2>2, <2>3 DEF Worth, FlowError
<1>7. CASE u = "iflow_temp_ctl"
  <2>1. last["iflow_temp_error"] = FlowError
    BY <1>7, Edges DEF Worth
  <2>2. U!NewValue(u) = U!Clamp((1000 * FlowError + (0 + FlowError * 1 * 0)) \div 10000, -10, 10)
    BY <1>7, <2>1, WiredPids, PidComputed DEF P!NothingAccumulates
  <2> QED BY <1>7, <2>2, Coefficients, WorthTypes DEF Worth, Power
<1>8. CASE u = "heater_power_limit"
  <2>1. last["iflow_temp_ctl"] = Power
    BY <1>8, Edges DEF Worth
  <2> QED BY <1>8, <2>1, WiredLimits, LimitComputed DEF Worth
<1>9. CASE u = "cooler_power_flip"
  <2>1. last["iflow_temp_ctl"] = Power
    BY <1>9, Edges DEF Worth
  <2> QED BY <1>9, <2>1, WiredOutputs, FlipComputed, WorthTypes DEF Worth
<1>10. CASE u = "cooler_power_limit"
  <2>1. last["cooler_power_flip"] = -Power
    BY <1>10, Edges DEF Worth
  <2> QED BY <1>10, <2>1, WiredLimits, LimitComputed DEF Worth
<1>11. CASE u \in Filters
  BY <1>11, WiredOutputs, FilterComputed DEF Filters, P!NothingAccumulates, Worth
<1> QED BY <1>1, <1>2, <1>3, <1>4, <1>5, <1>6, <1>7, <1>8, <1>9, <1>10, <1>11, AllUnits
        DEF Sums, Pids, Limits, Flips

-----------------------------------------------------------------------------
(* The wiring has no loop: down the stack the units lie ever nearer to the  *)
(* sources, so an input of the unit on top is not itself being computed.    *)

Depth ==
  [src_temp_setting |-> 0, src_room_temp |-> 0, src_iflow_temp |-> 0,
   temp_error |-> 1, room_temp_ctl |-> 2, iflow_temp_setting |-> 3, iflow_temp_limit |-> 4,
   iflow_temp_error |-> 5, iflow_temp_ctl |-> 6, heater_power_limit |-> 7,
   heater_power_filter |-> 8, cooler_power_flip |-> 7, cooler_power_limit |-> 8,
   cooler_power_filter |-> 9]

LEMMA Deeper ==
  \A u \in DOMAIN Graph : Depth[u] \in Nat /\ \A i \in Into(u) : Depth[i] < Depth[u]
<1> SUFFICES ASSUME NEW u \in DOMAIN Graph
             PROVE  Depth[u] \in Nat /\ \A i \in Into(u) : Depth[i] < Depth[u]
  OBVIOUS
<1>1. CASE u \in Sources
  BY <1>1, Edges DEF Depth, Sources
<1>2. CASE u \in Sums
  BY <1>2, Edges DEF Depth, Sums
<1>3. CASE u \in Pids
  BY <1>3, Edges DEF Depth, Pids
<1>4. CASE u \in Limits
  BY <1>4, Edges DEF Depth, Limits
<1>5. CASE u \in Flips \cup Filters
  BY <1>5, Edges DEF Depth, Flips, Filters
<1> QED BY <1>1, <1>2, <1>3, <1>4, <1>5, AllUnits

Ranked == \A j, k \in DOMAIN stack : j < k => Depth[stack[k]] < Depth[stack[j]]

LEMMA StackOfUnits ==
  ASSUME P!TypeOK
  PROVE  /\ stack \in Seq(DOMAIN Graph) /\ Len(stack) \in Nat /\ DOMAIN stack = 1 .. Len(stack)
         /\ stack # <<>> => /\ Len(stack) \in DOMAIN stack /\ U!Top \in DOMAIN Graph
                            /\ U!Top = stack[Len(stack)] /\ P!OnStack(U!Top)
<1>1. stack \in Seq(DOMAIN Graph) /\ Len(stack) \in Nat /\ DOMAIN stack = 1 .. Len(stack)
  BY DEF P!TypeOK
<1>2. stack # <<>> => Len(stack) \in DOMAIN stack
  BY <1>1, EmptySeq
<1>3. stack # <<>> => stack[Len(stack)] \in DOMAIN Graph
  BY <1>1, <1>2, ElementOfSeq
<1> QED BY <1>1, <1>2, <1>3 DEF U!Top, P!OnStack

LEMMA TopIsLowest ==
  ASSUME P!TypeOK, Ranked, stack # <<>>
  PROVE  \A k \in DOMAIN stack : Depth[U!Top] <= Depth[stack[k]]
<1>1. \A k \in DOMAIN stack : stack[k] \in DOMAIN Graph
  BY StackOfUnits, ElementOfSeq
<1> QED BY <1>1, StackOfUnits, Deeper DEF Ranked

LEMMA InputNotOnStack ==
  ASSUME P!TypeOK, Ranked, stack # <<>>, NEW i \in Into(U!Top)
  PROVE  ~P!OnStack(i)
<1>1. Depth[i] < Depth[U!Top] /\ Depth[i] \in Nat /\ Depth[U!Top] \in Nat
  BY StackOfUnits, Deeper DEF Into
<1>2. ASSUME NEW k \in DOMAIN stack, stack[k] = i PROVE FALSE
  BY <1>1, <1>2, TopIsLowest
<1> QED BY <1>2 DEF P!OnStack

\* Facts about the stack when a unit is pushed and popped.
LEMMA PushFacts ==
  ASSUME P!TypeOK, NEW u \in DOMAIN Graph, stack' = Append(stack, u)
  PROVE  /\ \A k \in DOMAIN stack' :
              \/ k \in DOMAIN stack /\ stack'[k] = stack[k]
              \/ k = Len(stack) + 1 /\ stack'[k] = u
         /\ \A x : P!OnStack(x)' <=> P!OnStack(x) \/ x = u
  BY RigLegal, P!Pushed, SMT DEF P!UnitsAssumption

LEMMA PopFacts ==
  ASSUME P!TypeOK, stack # <<>>, stack' = SubSeq(stack, 1, Len(stack) - 1)
  PROVE  /\ \A k \in DOMAIN stack' : k \in DOMAIN stack /\ stack'[k] = stack[k]
         /\ \A x : P!OnStack(x) => P!OnStack(x)' \/ x = U!Top
  BY RigLegal, P!Popped, SMT DEF P!UnitsAssumption, P!Top, U!Top

-----------------------------------------------------------------------------
(* A step of an update.                                                     *)

\* The readings do not change while the units are computed from them.
LEMMA WorthKept == ASSUME reading' = reading PROVE Worth' = Worth
<1>1. RoomError' = RoomError
  BY DEF RoomError, Whole, U!Truncated
<1>2. Setpoint' = Setpoint
  BY <1>1 DEF Setpoint, Whole, U!Truncated, U!Clamp
<1>3. FlowError' = FlowError
  BY <1>2 DEF FlowError, Whole, U!Truncated, U!Clamp
<1>4. Power' = Power
  BY <1>3 DEF Power, U!Clamp
<1> QED BY <1>1, <1>2, <1>3, <1>4 DEF Worth, U!Clamp

LEMMA AskRanked ==
  ASSUME P!TypeOK, Ranked, NEW u \in DOMAIN Graph, NEW t, U!Ask(u, t),
         stack = <<>> \/ (stack # <<>> /\ u \in Into(U!Top))
  PROVE  Ranked'
<1>1. CASE stack' = stack
  BY <1>1 DEF Ranked
<1>2. CASE stack' = Append(stack, u)
  <2>1. \A k \in DOMAIN stack : Depth[u] < Depth[stack[k]]
    <3>1. CASE stack = <<>>
      BY <3>1, StackOfUnits
    <3>2. CASE stack # <<>>
      <4>1. /\ Depth[u] < Depth[U!Top] /\ Depth[u] \in Nat /\ Depth[U!Top] \in Nat
            /\ \A k \in DOMAIN stack : stack[k] \in DOMAIN Graph /\ Depth[stack[k]] \in Nat
        BY <3>2, StackOfUnits, ElementOfSeq, Deeper
      <4> QED BY <3>2, <4>1, TopIsLowest
    <3> QED BY <3>1, <3>2
  <2>2. SUFFICES ASSUME NEW j \in DOMAIN stack', NEW k \in DOMAIN stack', j < k
                 PROVE  Depth[stack'[k]] < Depth[stack'[j]]
    BY DEF Ranked
  <2>3. j \in DOMAIN stack
    BY <1>2, <2>2, StackOfUnits, PushFacts
  <2>4. stack'[j] = stack[j]
    BY <1>2, <2>3, StackOfUnits, PushFacts
  <2> QED BY <1>2, <2>1, <2>2, <2>3, <2>4, PushFacts DEF Ranked
<1> QED BY <1>1, <1>2 DEF U!Ask

LEMMA DescendAsks ==
  ASSUME P!TypeOK, U!Descend
  PROVE  stack # <<>> /\ \E i \in Into(U!Top) : U!Stale(i) /\ U!Ask(i, time)
<1>1. PICK k \in DOMAIN Graph[U!Top].in : U!Stale(Graph[U!Top].in[k]) /\ U!Ask(Graph[U!Top].in[k], time)
  BY DEF U!Descend
<1>2. stack # <<>> /\ U!Top \in DOMAIN Graph
  BY StackOfUnits DEF U!Descend
<1>3. Graph[U!Top].in[k] \in DOMAIN Graph
  BY <1>2, AllLegal, ElementOfSeq DEF UnitLegal
<1> QED BY <1>1, <1>2, <1>3 DEF Into, U!IsInput

LEMMA RankedKept ==
  ASSUME P!IInv, Ranked, [Next]_vars
  PROVE  Ranked'
<1>0. P!TypeOK /\ P!Idle
  BY DEF P!IInv
<1>1. CASE HeaterUpdate \/ CoolerUpdate
  <2>1. PICK s \in DOMAIN Wiring : U!BeginUpdate(s)
    BY <1>1, AllSinks DEF HeaterUpdate, CoolerUpdate, StartSink
  <2>2. stack = <<>> /\ U!Ask(Wiring[s].src, now)
    BY <1>0, <2>1 DEF U!BeginUpdate, P!Idle
  <2>3. Wiring[s].src \in DOMAIN Graph
    BY RigLegal DEF P!UnitsAssumption
  <2> QED BY <1>0, <2>2, <2>3, AskRanked
<1>2. CASE U!Descend
  BY <1>0, <1>2, DescendAsks, AskRanked DEF Into
<1>3. CASE U!Compute
  BY <1>0, <1>3, PopFacts DEF U!Compute, Ranked
<1>4. CASE UNCHANGED stack
  BY <1>4 DEF Ranked
<1>5. HeaterUpdate \/ CoolerUpdate \/ U!Descend \/ U!Compute \/ UNCHANGED stack
  BY DEF Next, Loop, Terminal, Boot, Sample, Evaluate, SinkReturns, U!EndUpdate, U!Tick,
         NoCommand, SetTemp, SetManual, SetPin, SetMotor, Tick, vars, uvars
<1> QED BY <1>1, <1>2, <1>3, <1>4, <1>5

\* The units of S that carry the time of the update, and wait for nothing, are settled.
Following(S) ==
  \A u \in S : lastTime[u] <= time /\ (lastTime[u] = time /\ ~P!OnStack(u) => Settled(u))

\* An input is in S too, or settled before.
Fed(S) == \A u \in S : \A i \in Into(u) : i \in S \/ Settled(i)

LEMMA StampTypes ==
  ASSUME P!TypeOK
  PROVE  time \in Int /\ \A u \in DOMAIN Graph : lastTime[u] \in Int
  BY VentAssumption DEF P!TypeOK, P!Time

LEMMA DescendFollows ==
  ASSUME P!TypeOK, U!Descend, NEW S \in SUBSET DOMAIN Graph, Following(S)
  PROVE  Following(S)'
<1>1. PICK i \in Into(U!Top) : U!Stale(i) /\ U!Ask(i, time)
  BY DescendAsks
<1>2. /\ stack' = Append(stack, i) /\ lastTime' = [lastTime EXCEPT ![i] = time]
      /\ last' = last /\ time' = time /\ reading' = reading
  BY <1>1 DEF U!Ask, U!Stale, U!Descend
<1>3. i \in DOMAIN Graph /\ DOMAIN lastTime = DOMAIN Graph
  BY DEF Into, P!TypeOK
<1>4. \A x : P!OnStack(x)' <=> P!OnStack(x) \/ x = i
  BY <1>2, <1>3, PushFacts
<1>5. Worth' = Worth
  BY <1>2, WorthKept
<1> SUFFICES ASSUME NEW u \in S
             PROVE  lastTime'[u] <= time' /\ (lastTime'[u] = time' /\ ~P!OnStack(u)' => last'[u] = Worth'[u])
  BY DEF Following, Settled
<1>6. CASE u = i
  BY <1>2, <1>3, <1>4, <1>6, StampTypes
<1>7. CASE u # i
  BY <1>2, <1>3, <1>4, <1>5, <1>7 DEF Following, Settled
<1> QED BY <1>6, <1>7

LEMMA TopElapsed ==
  ASSUME P!IInv, stack # <<>>
  PROVE  U!Elapsed(U!Top) = 0
<1>1. P!TypeOK /\ P!Stamped
  BY DEF P!IInv
<1>2. lastTime[U!Top] = time
  BY <1>1, StackOfUnits DEF P!Stamped
<1> QED BY <1>1, <1>2, StampTypes DEF U!Elapsed

LEMMA ComputeSettles ==
  ASSUME P!IInv, U!Compute, \A i \in Into(U!Top) : Settled(i)
  PROVE  /\ \A u \in DOMAIN Graph \ {U!Top} : last'[u] = last[u]
         /\ last'[U!Top] = Worth[U!Top]
<1>1. P!TypeOK /\ P!NothingAccumulates
  BY DEF P!IInv
<1>2. stack # <<>> /\ last' = [last EXCEPT ![U!Top] = U!NewValue(U!Top)]
  BY DEF U!Compute
<1>3. U!Top \in DOMAIN Graph /\ DOMAIN last = DOMAIN Graph
  BY <1>1, <1>2, StackOfUnits DEF P!TypeOK
<1>4. U!NewValue(U!Top) = Worth[U!Top]
  BY <1>1, <1>2, <1>3, TopElapsed, ComputedIsWorth
<1> QED BY <1>2, <1>3, <1>4

LEMMA ComputeFollows ==
  ASSUME P!IInv, Ranked, U!Compute, NEW S \in SUBSET DOMAIN Graph, Following(S), Fed(S)
  PROVE  Following(S)'
<1>1. P!TypeOK
  BY DEF P!IInv
<1>2. /\ stack # <<>> /\ stack' = SubSeq(stack, 1, Len(stack) - 1)
      /\ UNCHANGED <<lastTime, time, reading>>
  BY DEF U!Compute
<1>3. \A i \in Into(U!Top) : ~U!Stale(i)
  BY DEF U!Compute, Into, U!IsInput
<1>4. U!Top \in S => \A i \in Into(U!Top) : Settled(i)
  <2> SUFFICES ASSUME U!Top \in S, NEW i \in Into(U!Top), i \in S PROVE Settled(i)
    BY DEF Fed
  <2>1. lastTime[i] = time
    BY <1>1, <1>3, StampTypes DEF U!Stale, Following
  <2>2. ~P!OnStack(i)
    BY <1>1, <1>2, InputNotOnStack
  <2> QED BY <2>1, <2>2 DEF Following
<1>5. Worth' = Worth
  BY <1>2, WorthKept
<1>6. \A x : P!OnStack(x) => P!OnStack(x)' \/ x = U!Top
  BY <1>1, <1>2, PopFacts
<1>7. \A u \in DOMAIN Graph \ {U!Top} : last'[u] = last[u]
  BY <1>1 DEF U!Compute, P!TypeOK
<1> SUFFICES ASSUME NEW u \in S
             PROVE  lastTime'[u] <= time' /\ (lastTime'[u] = time' /\ ~P!OnStack(u)' => last'[u] = Worth'[u])
  BY DEF Following, Settled
<1>8. CASE u = U!Top
  BY <1>2, <1>4, <1>5, <1>8, ComputeSettles DEF Following
<1>9. CASE u # U!Top
  BY <1>2, <1>5, <1>6, <1>7, <1>9 DEF Following, Settled
<1> QED BY <1>8, <1>9

-----------------------------------------------------------------------------
(* The two updates of an iteration.                                         *)

Downstream == {"cooler_power_flip", "cooler_power_limit", "cooler_power_filter"}
Upstream   == DOMAIN Graph \ Downstream

\* The heater computes all it pulls; the cooler finds that done, computed again or not.
HeaterFollows ==
  pc = "heater_run" /\ clean =>
    Following(DOMAIN Graph) /\ lastTime["heater_power_filter"] = time

UpstreamSettled == pc \in {"cooler", "cooler_run"} /\ clean => \A u \in Upstream : Settled(u)

CoolerFollows ==
  pc = "cooler_run" /\ clean =>
    Following(Downstream) /\ lastTime["cooler_power_filter"] = time

LimitsSettled ==
  pc = "term" /\ ~manual /\ clean =>
    Settled("heater_power_limit") /\ Settled("cooler_power_limit")

PassInv == Ranked /\ HeaterFollows /\ UpstreamSettled /\ CoolerFollows /\ LimitsSettled

LEMMA UpstreamFed == \A u \in Upstream : Into(u) \subseteq Upstream
<1> SUFFICES ASSUME NEW u \in Upstream PROVE Into(u) \subseteq DOMAIN Graph /\ Into(u) \cap Downstream = {}
  BY DEF Upstream
<1>1. Into(u) \subseteq DOMAIN Graph
  BY DEF Into
<1>2. CASE u \in Sources
  BY <1>1, <1>2, Edges
<1>3. CASE u \in Sums \cup Pids
  BY <1>1, <1>3, Edges DEF Sums, Pids, Downstream
<1>4. CASE u \in Limits \cup Flips \cup Filters
  BY <1>1, <1>4, Edges DEF Limits, Flips, Filters, Downstream, Upstream
<1> QED BY <1>2, <1>3, <1>4, AllUnits DEF Upstream

LEMMA DownstreamFed ==
  /\ Downstream \subseteq DOMAIN Graph
  /\ (\A u \in Upstream : Settled(u)) => Fed(Downstream)
<1>1. Downstream \subseteq DOMAIN Graph
  BY AllUnits DEF Downstream, Flips, Limits, Filters
<1>2. \A u \in Downstream : \A i \in Into(u) : i \in Downstream \/ i \in Upstream
  BY DEF Into, Upstream
<1> QED BY <1>1, <1>2 DEF Fed

LEMMA AllFed == Fed(DOMAIN Graph)
  BY DEF Fed, Into

LEMMA Begins ==
  ASSUME P!IInv, NEW s \in DOMAIN Wiring, U!BeginUpdate(s), NEW S \in SUBSET DOMAIN Graph,
         \A u \in S : lastTime[u] < now, Wiring[s].src \in S
  PROVE  Following(S)' /\ lastTime'[Wiring[s].src] = time'
<1>1. P!TypeOK /\ now \in Int /\ \A u \in DOMAIN Graph : lastTime[u] \in Int
  BY StampTypes, VentAssumption DEF P!IInv, P!TypeOK, P!Time
<1>2. /\ time' = now /\ stack' = Append(stack, Wiring[s].src)
      /\ lastTime' = [lastTime EXCEPT ![Wiring[s].src] = now]
  BY DEF U!BeginUpdate, U!Ask
<1>3. Wiring[s].src \in DOMAIN Graph /\ DOMAIN lastTime = DOMAIN Graph
  BY <1>1 DEF P!TypeOK
<1>4. P!OnStack(Wiring[s].src)'
  BY <1>1, <1>2, <1>3, PushFacts
<1> QED BY <1>1, <1>2, <1>3, <1>4 DEF Following

\* When the stack is empty, what the sink pulled and all behind it is settled.
LEMMA Ends ==
  ASSUME P!IInv, stack = <<>>, NEW S \in SUBSET DOMAIN Graph, Following(S)
  PROVE  /\ \A u \in S : lastTime[u] = time => Settled(u)
         /\ \A u \in S : lastTime[u] = time => \A i \in Into(u) \cap S : lastTime[i] = time
<1>1. P!TypeOK /\ P!UsersNotFresher
  BY DEF P!IInv
<1>2. \A u : ~P!OnStack(u)
  BY DEF P!OnStack
<1>3. \A u \in DOMAIN Graph : \A i \in Into(u) : lastTime[u] <= lastTime[i]
  <2> SUFFICES ASSUME NEW u \in DOMAIN Graph, NEW i \in Into(u) PROVE lastTime[u] <= lastTime[i]
    OBVIOUS
  <2>1. i \in DOMAIN Graph /\ P!IsInput(i, u)
    BY DEF Into, U!IsInput, P!IsInput
  <2> QED BY <1>1, <1>2, <2>1 DEF P!UsersNotFresher
<1>4. \A u \in S : lastTime[u] <= time /\ lastTime[u] \in Int
  BY <1>1, StampTypes DEF Following
<1>5. time \in Int
  BY <1>1, StampTypes
<1> QED BY <1>2, <1>3, <1>4, <1>5 DEF Following

LEMMA HeaterEnds ==
  ASSUME P!IInv, stack = <<>>, Following(DOMAIN Graph), lastTime["heater_power_filter"] = time
  PROVE  \A u \in Upstream : Settled(u)
<1>1. /\ \A u \in DOMAIN Graph : lastTime[u] = time => Settled(u)
      /\ \A u \in DOMAIN Graph : lastTime[u] = time => \A i \in Into(u) : lastTime[i] = time
  BY Ends DEF Into
<1>2. Sources \cup Sums \cup Pids \cup Limits \cup Flips \cup Filters \subseteq DOMAIN Graph
  BY AllUnits
<1>3. lastTime["heater_power_limit"] = time
  BY <1>1, <1>2, Edges DEF Filters
<1>4. lastTime["iflow_temp_ctl"] = time
  BY <1>1, <1>2, <1>3, Edges DEF Limits
<1>5. lastTime["iflow_temp_error"] = time
  BY <1>1, <1>2, <1>4, Edges DEF Pids
<1>6. lastTime["iflow_temp_limit"] = time /\ lastTime["src_iflow_temp"] = time
  BY <1>1, <1>2, <1>5, Edges DEF Sums
<1>7. lastTime["iflow_temp_setting"] = time
  BY <1>1, <1>2, <1>6, Edges DEF Limits
<1>8. lastTime["room_temp_ctl"] = time /\ lastTime["src_temp_setting"] = time
  BY <1>1, <1>2, <1>7, Edges DEF Sums
<1>9. lastTime["temp_error"] = time
  BY <1>1, <1>2, <1>8, Edges DEF Pids
<1>10. lastTime["src_room_temp"] = time
  BY <1>1, <1>2, <1>9, Edges DEF Sums
<1>11. \A u \in Upstream : lastTime[u] = time
  BY <1>3, <1>4, <1>5, <1>6, <1>7, <1>8, <1>9, <1>10, AllUnits
     DEF Upstream, Downstream, Sources, Sums, Pids, Limits, Flips, Filters
<1> QED BY <1>1, <1>11 DEF Upstream

LEMMA CoolerEnds ==
  ASSUME P!IInv, stack = <<>>, Following(Downstream), lastTime["cooler_power_filter"] = time
  PROVE  Settled("cooler_power_limit")
<1>1. "cooler_power_limit" \in Into("cooler_power_filter") \cap Downstream
  BY Edges DEF Downstream
<1>2. "cooler_power_filter" \in Downstream
  BY DEF Downstream
<1> QED BY <1>1, <1>2, Ends, DownstreamFed

LEMMA UpstreamStays ==
  ASSUME P!IInv, U!Compute, \A u \in Upstream : Settled(u)
  PROVE  (\A u \in Upstream : Settled(u))'
<1>1. reading' = reading /\ Worth' = Worth
  BY WorthKept DEF U!Compute
<1>2. \A u \in DOMAIN Graph \ {U!Top} : last'[u] = last[u]
  BY DEF U!Compute, P!IInv, P!TypeOK
<1>3. U!Top \in Upstream => last'[U!Top] = Worth[U!Top]
  BY UpstreamFed, ComputeSettles
<1> QED BY <1>1, <1>2, <1>3 DEF Settled, Upstream

LEMMA SettledKept ==
  ASSUME last' = last, reading' = reading
  PROVE  \A u : Settled(u)' <=> Settled(u)
  BY WorthKept DEF Settled

LEMMA PassBegins == Init => PassInv
  BY DEF Init, U!Init, PassInv, Ranked, HeaterFollows, UpstreamSettled, CoolerFollows, LimitsSettled

LEMMA EvaluateKeeps ==
  ASSUME IInv, PassInv, Evaluate, Ranked'
  PROVE  PassInv'
<1>1. P!IInv /\ P!TypeOK /\ P!Idle
  BY DEF IInv, P!IInv
<1>2. /\ U!Descend \/ U!Compute
      /\ UNCHANGED <<pc, manual, clean, reading, time>>
  BY DEF Evaluate, U!Descend, U!Compute
<1>3. pc \in {"heater_run", "cooler_run"}
  <2>1. active # NoSink
    BY <1>1, <1>2 DEF P!Idle, U!Descend, U!Compute
  <2> QED BY <2>1 DEF IInv, Control
<1>4. \A u \in DOMAIN Graph : lastTime[u] = time => lastTime'[u] = time'
  <2>1. CASE U!Descend
    <3>1. PICK i \in Into(U!Top) : U!Stale(i) /\ U!Ask(i, time)
      BY <1>1, <2>1, DescendAsks
    <3>2. lastTime' = [lastTime EXCEPT ![i] = time]
      BY <3>1 DEF U!Ask, U!Stale
    <3> QED BY <1>1, <1>2, <3>2 DEF P!TypeOK
  <2>2. CASE U!Compute
    BY <2>2 DEF U!Compute
  <2> QED BY <1>2, <2>1, <2>2
<1>5. "heater_power_filter" \in DOMAIN Graph /\ "cooler_power_filter" \in DOMAIN Graph
  BY AllUnits DEF Filters
<1>6. HeaterFollows'
  <2> SUFFICES ASSUME pc = "heater_run", clean
               PROVE  Following(DOMAIN Graph)' /\ lastTime'["heater_power_filter"] = time'
    BY <1>2 DEF HeaterFollows
  <2>1. Following(DOMAIN Graph) /\ lastTime["heater_power_filter"] = time
    BY DEF PassInv, HeaterFollows
  <2>2. Following(DOMAIN Graph)'
    BY <1>1, <1>2, <2>1, AllFed, DescendFollows, ComputeFollows DEF PassInv
  <2> QED BY <1>4, <1>5, <2>1, <2>2
<1>7. UpstreamSettled'
  <2> SUFFICES ASSUME pc = "cooler_run", clean PROVE (\A u \in Upstream : Settled(u))'
    BY <1>2, <1>3 DEF UpstreamSettled
  <2>1. \A u \in Upstream : Settled(u)
    BY DEF PassInv, UpstreamSettled
  <2>2. CASE U!Descend
    BY <1>2, <2>1, <2>2, SettledKept DEF U!Descend
  <2>3. CASE U!Compute
    BY <1>1, <2>1, <2>3, UpstreamStays
  <2> QED BY <1>2, <2>2, <2>3
<1>8. CoolerFollows'
  <2> SUFFICES ASSUME pc = "cooler_run", clean
               PROVE  Following(Downstream)' /\ lastTime'["cooler_power_filter"] = time'
    BY <1>2 DEF CoolerFollows
  <2>1. Following(Downstream) /\ lastTime["cooler_power_filter"] = time
    BY DEF PassInv, CoolerFollows
  <2>2. Fed(Downstream) /\ Downstream \subseteq DOMAIN Graph
    BY DownstreamFed DEF PassInv, UpstreamSettled
  <2>3. Following(Downstream)'
    BY <1>1, <1>2, <2>1, <2>2, DescendFollows, ComputeFollows DEF PassInv
  <2> QED BY <1>4, <1>5, <2>1, <2>3
<1>9. LimitsSettled'
  BY <1>2, <1>3 DEF LimitsSettled
<1> QED BY <1>6, <1>7, <1>8, <1>9 DEF PassInv

LEMMA StartKeeps ==
  ASSUME IInv, PassInv, HeaterUpdate \/ CoolerUpdate, Ranked'
  PROVE  PassInv'
<1>1. P!IInv
  BY DEF IInv
<1>2. CASE HeaterUpdate
  <2>1. /\ U!BeginUpdate("heater_power_sink") /\ pc' = "heater_run"
        /\ clean' => \A u \in DOMAIN Graph : lastTime[u] < now
    BY <1>2 DEF HeaterUpdate, StartSink, Older
  <2>2. "heater_power_filter" \in DOMAIN Graph
    BY AllUnits DEF Filters
  <2>3. clean' => Following(DOMAIN Graph)' /\ lastTime'["heater_power_filter"] = time'
    BY <1>1, <2>1, <2>2, AllSinks, SinkFacts, Begins
  <2> QED BY <2>1, <2>3 DEF PassInv, HeaterFollows, UpstreamSettled, CoolerFollows, LimitsSettled
<1>3. CASE CoolerUpdate
  <2>1. /\ pc = "cooler" /\ U!BeginUpdate("cooler_power_sink") /\ pc' = "cooler_run"
        /\ clean' => clean /\ \A u \in Downstream : lastTime[u] < now
    BY <1>3 DEF CoolerUpdate, StartSink, Older, Downstream
  <2>2. clean' => Following(Downstream)' /\ lastTime'["cooler_power_filter"] = time'
    BY <1>1, <2>1, AllSinks, SinkFacts, DownstreamFed, Begins DEF Downstream
  <2>3. last' = last /\ reading' = reading
    BY <2>1 DEF U!BeginUpdate
  <2>4. clean' => (\A u \in Upstream : Settled(u))'
    BY <2>1, <2>3, SettledKept DEF PassInv, UpstreamSettled
  <2> QED BY <2>1, <2>2, <2>4 DEF PassInv, HeaterFollows, UpstreamSettled, CoolerFollows, LimitsSettled
<1> QED BY <1>2, <1>3

LEMMA ReturnKeeps ==
  ASSUME IInv, PassInv, SinkReturns, Ranked'
  PROVE  PassInv'
<1>1. /\ P!IInv /\ stack = <<>> /\ active # NoSink
      /\ UNCHANGED <<last, reading, manual, clean>>
  BY DEF IInv, SinkReturns, U!EndUpdate
<1>2. \A u : Settled(u)' <=> Settled(u)
  BY <1>1, SettledKept
<1>3. CASE pc = "heater_run"
  <2>1. pc' = "cooler"
    BY <1>3 DEF SinkReturns
  <2>2. clean => \A u \in Upstream : Settled(u)
    BY <1>1, <1>3, HeaterEnds DEF PassInv, HeaterFollows
  <2> QED BY <1>1, <1>2, <2>1, <2>2 DEF PassInv, HeaterFollows, UpstreamSettled, CoolerFollows, LimitsSettled
<1>4. CASE pc = "cooler_run"
  <2>1. pc' = "term"
    BY <1>4 DEF SinkReturns
  <2>2. "heater_power_limit" \in Upstream
    BY AllUnits DEF Upstream, Downstream, Limits
  <2>3. clean => Settled("heater_power_limit") /\ Settled("cooler_power_limit")
    BY <1>1, <1>4, <2>2, CoolerEnds DEF PassInv, UpstreamSettled, CoolerFollows
  <2> QED BY <1>1, <1>2, <2>1, <2>3 DEF PassInv, HeaterFollows, UpstreamSettled, CoolerFollows, LimitsSettled
<1>5. pc \in {"heater_run", "cooler_run"}
  BY <1>1 DEF IInv, Control
<1> QED BY <1>3, <1>4, <1>5

LEMMA PassInductive == IInv /\ PassInv /\ [Next]_vars => PassInv'
<1> SUFFICES ASSUME IInv, PassInv, [Next]_vars PROVE PassInv'
  OBVIOUS
<1>1. Ranked'
  BY RankedKept DEF IInv, PassInv
<1>2. CASE Boot \/ Terminal
  <2>1. pc' = "sample"
    BY <1>2 DEF Boot, Terminal, NoCommand, SetTemp, SetManual, SetPin, SetMotor
  <2> QED BY <1>1, <2>1 DEF PassInv, HeaterFollows, UpstreamSettled, CoolerFollows, LimitsSettled
<1>3. CASE Sample
  <2>1. pc' = "heater" \/ (pc' = "term" /\ manual')
    BY <1>3 DEF Sample
  <2> QED BY <1>1, <2>1 DEF PassInv, HeaterFollows, UpstreamSettled, CoolerFollows, LimitsSettled
<1>4. CASE Tick \/ UNCHANGED vars
  <2>1. UNCHANGED <<pc, manual, clean, last, lastTime, time, reading, stack>>
    BY <1>4 DEF Tick, U!Tick, vars, uvars
  <2>2. \A u : Settled(u)' <=> Settled(u)
    BY <2>1, SettledKept
  <2> QED BY <1>1, <2>1, <2>2
         DEF PassInv, HeaterFollows, UpstreamSettled, CoolerFollows, LimitsSettled, Following, P!OnStack
<1> QED BY <1>1, <1>2, <1>3, <1>4, EvaluateKeeps, StartKeeps, ReturnKeeps DEF Next, Loop

\* Between the updates and the terminal, both limits are worth what the readings make them.
LEMMA LimitsFollow == IInv /\ PassInv => PassFollowsReadings
<1> SUFFICES ASSUME PassInv, pc = "term", ~manual, clean
             PROVE  /\ last.heater_power_limit = U!Clamp(Demand(reading), 0, 10)
                    /\ last.cooler_power_limit = U!Clamp(-Demand(reading), 0, 10)
  BY DEF PassFollowsReadings
<1>1. last["heater_power_limit"] = Worth["heater_power_limit"]
      /\ last["cooler_power_limit"] = Worth["cooler_power_limit"]
  BY DEF PassInv, LimitsSettled, Settled
<1> QED BY <1>1, PowerIsDemand DEF Worth

\* Whenever both updates of an iteration began later than the stamps they met, both power
\* limits are the control law of what was sampled: no rounding of the accumulators, order
\* of evaluation or second reading of the clock makes a difference.
THEOREM FollowsReadings == Spec => []PassFollowsReadings
  BY LimitsFollow, Initially, Inductive, PassBegins, PassInductive, PTL DEF Spec

-----------------------------------------------------------------------------
(* Sums of samples.  Total is a fold that takes the samples in an order the *)
(* definition leaves open; what it adds up to is settled by considering,    *)
(* each time, a smallest set of places for which it would be otherwise.     *)

\* Total, over some of the places only.
SumOf(f, S) == FoldFunctionOnSet(+, 0, f, S)

Pick(s) == CHOOSE x \in s : TRUE

\* g tabulates the sums of f over the subsets of S.
Tabulates(g, f, S) ==
  g = [s \in SUBSET S |-> IF s = {} THEN 0 ELSE f[Pick(s)] + g[s \ {Pick(s)}]]

LEMMA TotalIsSum == ASSUME NEW f PROVE Total(f) = SumOf(f, DOMAIN f)
  BY DEF Total, SumOf, FoldFunction

LEMMA SumIsTabulated == ASSUME NEW f, NEW S PROVE SumOf(f, S) = (CHOOSE g : Tabulates(g, f, S))[S]
  BY DEF SumOf, FoldFunctionOnSet, MapThenFoldSet, Tabulates, Pick

LEMMA Picked == ASSUME NEW s, s # {} PROVE Pick(s) \in s
  BY DEF Pick

\* Of the sets with a property, one has no smaller set with it.
LEMMA Smallest ==
  ASSUME NEW S, IsFiniteSet(S), NEW F \in SUBSET (SUBSET S), F # {}
  PROVE  \E s \in F : \A t \in F : t \subseteq s => t = s
<1>1. IsWellFoundedOn(StrictSubsetOrdering(S), SUBSET S)
  BY FS_StrictSubsetOrderingWellFounded, FS_FiniteSubsetsOfFinite
<1>2. PICK s \in F : \A t \in F : ~ (<<t, s>> \in StrictSubsetOrdering(S))
  <2> HIDE DEF StrictSubsetOrdering
  <2> QED BY <1>1, WFMin
<1>3. ASSUME NEW t \in F, t \subseteq s PROVE t = s
  BY <1>2, <1>3 DEF StrictSubsetOrdering
<1> QED BY <1>3

LEMMA TablesAgree ==
  ASSUME NEW f, NEW S, NEW T, IsFiniteSet(S), NEW g, NEW h, Tabulates(g, f, S), Tabulates(h, f, T)
  PROVE  \A s \in SUBSET S : s \subseteq T => g[s] = h[s]
<1> DEFINE Bad == {s \in SUBSET S : s \subseteq T /\ g[s] # h[s]}
<1> SUFFICES ASSUME Bad # {} PROVE FALSE
  OBVIOUS
<1>1. PICK s \in Bad : \A t \in Bad : t \subseteq s => t = s
  <2>1. Bad \in SUBSET (SUBSET S)
    OBVIOUS
  <2> HIDE DEF Bad
  <2> QED BY <2>1, Smallest
<1>2. s # {}
  BY <1>1 DEF Tabulates
<1>3. Pick(s) \in s
  BY <1>2, Picked
<1>4. s \ {Pick(s)} \notin Bad
  BY <1>1, <1>3
<1>5. g[s \ {Pick(s)}] = h[s \ {Pick(s)}]
  BY <1>1, <1>4
<1>6. g[s] = f[Pick(s)] + g[s \ {Pick(s)}] /\ h[s] = f[Pick(s)] + h[s \ {Pick(s)}]
  BY <1>1, <1>2 DEF Tabulates
<1> QED BY <1>1, <1>5, <1>6

LEMMA TableExists ==
  ASSUME NEW f, NEW S, IsFiniteSet(S)
  PROVE  \E g : Tabulates(g, f, S)
<1> DEFINE Bad == {s \in SUBSET S : \A g : ~ Tabulates(g, f, s)}
<1> SUFFICES ASSUME Bad # {} PROVE FALSE
  <2>1. S \in SUBSET S
    OBVIOUS
  <2> QED BY <2>1
<1>1. PICK T \in Bad : \A t \in Bad : t \subseteq T => t = T
  <2>1. Bad \in SUBSET (SUBSET S)
    OBVIOUS
  <2> HIDE DEF Bad
  <2> QED BY <2>1, Smallest
<1> DEFINE Table(t) == CHOOSE g : Tabulates(g, f, t)
           G == [s \in SUBSET T |->
                   IF s = {} THEN 0 ELSE f[Pick(s)] + Table(s \ {Pick(s)})[s \ {Pick(s)}]]
<1>2. ASSUME NEW t \in SUBSET T, t # T PROVE Tabulates(Table(t), f, t)
  <2>1. t \notin Bad
    BY <1>1, <1>2
  <2> QED BY <1>1, <2>1
<1>3. ASSUME NEW t \in SUBSET T, t # T PROVE G[t] = Table(t)[t]
  <2>1. Tabulates(Table(t), f, t)
    BY <1>2, <1>3
  <2>2. CASE t = {}
    <3> HIDE DEF Table
    <3> QED BY <2>1, <2>2 DEF Tabulates
  <2>3. CASE t # {}
    <3> DEFINE u == t \ {Pick(t)}
    <3>1. Pick(t) \in t
      BY <2>3, Picked
    <3>2. Tabulates(Table(u), f, u)
      BY <1>2, <3>1
    <3>3. IsFiniteSet(u)
      BY <1>1, FS_Subset
    <3>4. Table(u)[u] = Table(t)[u]
      <4> HIDE DEF Table, u
      <4>1. u \in SUBSET u /\ u \subseteq t
        BY DEF u
      <4> QED BY <2>1, <3>2, <3>3, <4>1, TablesAgree
    <3>5. Table(t)[t] = f[Pick(t)] + Table(t)[u]
      <4> HIDE DEF Table
      <4> QED BY <2>1, <2>3 DEF Tabulates
    <3>6. G[t] = f[Pick(t)] + Table(u)[u]
      BY <2>3
    <3> QED BY <3>4, <3>5, <3>6
  <2> QED BY <2>2, <2>3
<1>4. ASSUME NEW s \in SUBSET T, s # {}
      PROVE  G[s] = f[Pick(s)] + G[s \ {Pick(s)}]
  <2>1. s \ {Pick(s)} \in SUBSET T /\ s \ {Pick(s)} # T
    BY <1>4, Picked
  <2>2. G[s] = f[Pick(s)] + Table(s \ {Pick(s)})[s \ {Pick(s)}]
    BY <1>4
  <2> QED BY <1>3, <2>1, <2>2
<1>5. G[{}] = 0
  OBVIOUS
<1>6. Tabulates(G, f, T)
  <2>1. G = [s \in SUBSET T |-> G[s]]
    OBVIOUS
  <2> HIDE DEF G
  <2> QED BY <1>4, <1>5, <2>1 DEF Tabulates
<1> QED BY <1>1, <1>6

LEMMA SumFacts ==
  ASSUME NEW f, NEW S, IsFiniteSet(S)
  PROVE  /\ S = {} => SumOf(f, S) = 0
         /\ S # {} => SumOf(f, S) = f[Pick(S)] + SumOf(f, S \ {Pick(S)})
<1> DEFINE G == CHOOSE g : Tabulates(g, f, S)
           R == S \ {Pick(S)}
           H == CHOOSE g : Tabulates(g, f, R)
<1>1. Tabulates(G, f, S) /\ SumOf(f, S) = G[S]
  BY TableExists, SumIsTabulated
<1>2. IsFiniteSet(R)
  BY FS_Subset
<1>3. Tabulates(H, f, R) /\ SumOf(f, R) = H[R]
  BY <1>2, TableExists, SumIsTabulated
<1> HIDE DEF G, H
<1>4. H[R] = G[R]
  <2>1. R \in SUBSET R /\ R \subseteq S
    OBVIOUS
  <2> HIDE DEF R
  <2>2. \A s \in SUBSET R : s \subseteq S => H[s] = G[s]
    BY <1>1, <1>2, <1>3, TablesAgree
  <2> QED BY <2>1, <2>2
<1>5. S = {} => G[S] = 0
  BY <1>1 DEF Tabulates
<1>6. S # {} => G[S] = f[Pick(S)] + G[R]
  BY <1>1 DEF Tabulates
<1> QED BY <1>1, <1>3, <1>4, <1>5, <1>6

LEMMA SumIsNat ==
  ASSUME NEW f, NEW S, IsFiniteSet(S), \A x \in S : f[x] \in Nat
  PROVE  SumOf(f, S) \in Nat
<1> DEFINE Bad == {s \in SUBSET S : SumOf(f, s) \notin Nat}
<1> SUFFICES ASSUME Bad # {} PROVE FALSE
  OBVIOUS
<1>1. PICK s \in Bad : \A t \in Bad : t \subseteq s => t = s
  <2>1. Bad \in SUBSET (SUBSET S)
    OBVIOUS
  <2> HIDE DEF Bad
  <2> QED BY <2>1, Smallest
<1>2. IsFiniteSet(s)
  BY FS_Subset
<1>3. s # {}
  <2>1. SUFFICES ASSUME s = {} PROVE FALSE
    OBVIOUS
  <2>2. SumOf(f, s) = 0
    BY <1>2, <2>1, SumFacts
  <2> QED BY <1>1, <2>2
<1>4. Pick(s) \in s
  BY <1>3, Picked
<1>5. s \ {Pick(s)} \notin Bad
  BY <1>1, <1>4
<1>6. SumOf(f, s \ {Pick(s)}) \in Nat /\ f[Pick(s)] \in Nat
  BY <1>4, <1>5
<1>7. SumOf(f, s) = f[Pick(s)] + SumOf(f, s \ {Pick(s)})
  BY <1>2, <1>3, SumFacts
<1> QED BY <1>6, <1>7

\* The order in which a fold takes the samples does not matter.
LEMMA SumWithout ==
  ASSUME NEW f, NEW S, IsFiniteSet(S), \A x \in S : f[x] \in Nat
  PROVE  \A x \in S : SumOf(f, S) = f[x] + SumOf(f, S \ {x})
<1> DEFINE Bad == {s \in SUBSET S : \E x \in s : SumOf(f, s) # f[x] + SumOf(f, s \ {x})}
<1> SUFFICES ASSUME Bad # {} PROVE FALSE
  <2>1. S \in SUBSET S
    OBVIOUS
  <2> QED BY <2>1
<1>1. PICK s \in Bad : \A t \in Bad : t \subseteq s => t = s
  <2>1. Bad \in SUBSET (SUBSET S)
    OBVIOUS
  <2> HIDE DEF Bad
  <2> QED BY <2>1, Smallest
<1>2. PICK x \in s : SumOf(f, s) # f[x] + SumOf(f, s \ {x})
  OBVIOUS
<1> DEFINE p == Pick(s)
           u == s \ {p, x}
<1>3. p \in s /\ s # {}
  BY <1>2, Picked
<1>4. IsFiniteSet(s) /\ IsFiniteSet(s \ {p}) /\ IsFiniteSet(s \ {x}) /\ IsFiniteSet(u)
  BY FS_Subset
<1>5. SumOf(f, s) = f[p] + SumOf(f, s \ {p})
  BY <1>3, <1>4, SumFacts
<1>6. p # x
  BY <1>2, <1>5
<1> HIDE DEF p
<1>7. SumOf(f, s \ {p}) = f[x] + SumOf(f, u)
  <2>1. s \ {p} \notin Bad
    BY <1>1, <1>3
  <2>2. (s \ {p}) \ {x} = u
    OBVIOUS
  <2> QED BY <1>2, <1>6, <2>1, <2>2
<1>8. SumOf(f, s \ {x}) = f[p] + SumOf(f, u)
  <2>1. s \ {x} \notin Bad
    BY <1>1, <1>2
  <2>2. (s \ {x}) \ {p} = u
    OBVIOUS
  <2> QED BY <1>3, <1>6, <2>1, <2>2
<1>9. f[p] \in Nat /\ f[x] \in Nat /\ SumOf(f, u) \in Nat
  BY <1>2, <1>3, <1>4, SumIsNat
<1> QED BY <1>2, <1>5, <1>7, <1>8, <1>9

\* Zeros add nothing.
LEMMA SumOverZeros ==
  ASSUME NEW f, NEW S, IsFiniteSet(S), \A x \in S : f[x] \in Nat,
         NEW T \in SUBSET S, \A x \in S \ T : f[x] = 0
  PROVE  SumOf(f, S) = SumOf(f, T)
<1> DEFINE Bad == {s \in SUBSET S : T \subseteq s /\ SumOf(f, s) # SumOf(f, T)}
<1> SUFFICES ASSUME Bad # {} PROVE FALSE
  <2>1. S \in SUBSET S
    OBVIOUS
  <2> QED BY <2>1
<1>1. PICK s \in Bad : \A t \in Bad : t \subseteq s => t = s
  <2>1. Bad \in SUBSET (SUBSET S)
    OBVIOUS
  <2> HIDE DEF Bad
  <2> QED BY <2>1, Smallest
<1>2. PICK x \in s : x \notin T
  <2>1. s # T
    BY <1>1
  <2> QED BY <2>1
<1>3. IsFiniteSet(s) /\ IsFiniteSet(s \ {x})
  BY FS_Subset
<1>4. SumOf(f, s) = f[x] + SumOf(f, s \ {x})
  BY <1>3, SumWithout
<1>5. s \ {x} \notin Bad
  BY <1>1, <1>2
<1>6. SumOf(f, s \ {x}) = SumOf(f, T)
  BY <1>2, <1>5
<1>7. f[x] = 0 /\ SumOf(f, s \ {x}) \in Nat
  BY <1>2, <1>3, SumIsNat
<1> QED BY <1>1, <1>4, <1>6, <1>7

\* The numbers h gives to those in S.
Image(h, S) == {h[x] : x \in S}

\* h gives each number in S that f has the number in T that g has.
Renumbers(h, f, S, g, T) ==
  /\ \A x \in S : f[x] \in Nat /\ h[x] \in T /\ g[h[x]] = f[x]
  /\ \A x, y \in S : h[x] = h[y] => x = y

\* Samples that are renumbered add up to the same.
LEMMA SumRenumbered ==
  ASSUME NEW f, NEW g, NEW h, NEW S, NEW T, IsFiniteSet(S), IsFiniteSet(T), Renumbers(h, f, S, g, T)
  PROVE  SumOf(f, S) = SumOf(g, Image(h, S))
<1> USE DEF Renumbers
<1> DEFINE Bad == {s \in SUBSET S : SumOf(f, s) # SumOf(g, Image(h, s))}
<1> SUFFICES ASSUME Bad # {} PROVE FALSE
  <2>1. S \in SUBSET S
    OBVIOUS
  <2> QED BY <2>1
<1>1. PICK s \in Bad : \A t \in Bad : t \subseteq s => t = s
  <2>1. Bad \in SUBSET (SUBSET S)
    OBVIOUS
  <2> HIDE DEF Bad
  <2> QED BY <2>1, Smallest
<1>2. IsFiniteSet(s) /\ s \in SUBSET S
  BY FS_Subset
<1>3. IsFiniteSet(Image(h, s))
  <2>1. Image(h, s) \subseteq T
    BY <1>2 DEF Image
  <2> QED BY <2>1, FS_Subset
<1>4. s # {}
  <2>1. SUFFICES ASSUME s = {} PROVE FALSE
    OBVIOUS
  <2>2. Image(h, s) = {}
    BY <2>1 DEF Image
  <2>3. SumOf(f, s) = 0 /\ SumOf(g, Image(h, s)) = 0
    BY <1>2, <1>3, <2>1, <2>2, SumFacts
  <2> QED BY <1>1, <2>3
<1>5. PICK x \in s : TRUE
  BY <1>4
<1>6. Image(h, s) \ {h[x]} = Image(h, s \ {x})
  BY <1>2, <1>5 DEF Image
<1>7. s \ {x} \notin Bad
  BY <1>1, <1>5
<1>8. SumOf(f, s \ {x}) = SumOf(g, Image(h, s \ {x}))
  BY <1>2, <1>7
<1>9. SumOf(f, s) = f[x] + SumOf(f, s \ {x})
  BY <1>2, <1>5, SumWithout
<1>10. SumOf(g, Image(h, s)) = g[h[x]] + SumOf(g, Image(h, s) \ {h[x]})
  <2>1. \A y \in Image(h, s) : g[y] \in Nat
    BY <1>2 DEF Image
  <2>2. h[x] \in Image(h, s)
    BY <1>5 DEF Image
  <2> QED BY <1>3, <2>1, <2>2, SumWithout
<1> QED BY <1>1, <1>2, <1>5, <1>6, <1>8, <1>9, <1>10

-----------------------------------------------------------------------------
(* The rings.                                                               *)

\* Where the ring keeps the k-th of the n samples in recent, when the next goes to c.
Slot(c, n, k) ==
  IF n < Ring THEN k - 1 ELSE IF c + k - 1 < Ring THEN c + k - 1 ELSE c + k - 1 - Ring

\* The ring v, whose next sample goes to c, holds the samples of r, and zeros in the places
\* no sample has reached.
Holds(v, c, r) ==
  /\ \A k \in 1 .. Len(r) : v[Slot(c, Len(r), k)] = r[k]
  /\ Len(r) < Ring => c = Len(r) /\ \A k \in c .. Ring - 1 : v[k] = 0

RingHolds(x) == Holds(values[x], count, recent[x])

SamplesInv ==
  /\ \A x \in Sensor : /\ recent[x] \in Seq(Raw[x]) /\ Len(recent[x]) <= Ring
                       /\ RingHolds(x)
                       /\ reading[x] = ReadTemperature(values[x])
                       /\ pc \notin {"boot", "sample"} => Len(recent[x]) > 0
  /\ Len(recent.src_room_temp) = Len(recent.src_iflow_temp)

\* recent, once it has been told of a sample.
Latest(r, n) == IF Len(Append(r, n)) > Ring THEN Tail(Append(r, n)) ELSE Append(r, n)

LEMMA RawNumbers == \A x \in Sensor : Raw[x] \subseteq Nat
<1>1. Raw["src_room_temp"] = RoomRaw /\ Raw["src_iflow_temp"] = InflowRaw
  BY DEF Raw
<1> QED BY <1>1, VentAssumption DEF Sensor

LEMMA NextCount ==
  ASSUME NEW c \in 0 .. Ring - 1
  PROVE  (c + 1) % Ring = IF c + 1 = Ring THEN 0 ELSE c + 1
<1>1. Ring \in Nat \ {0} /\ c \in Nat /\ c + 1 <= Ring
  BY VentAssumption
<1>2. CASE c + 1 = Ring
  BY <1>1, <1>2
<1>3. CASE c + 1 < Ring
  BY <1>1, <1>3
<1> QED BY <1>1, <1>2, <1>3

LEMMA SamplesBegin == Init => SamplesInv
<1> SUFFICES ASSUME Init PROVE SamplesInv
  OBVIOUS
<1>1. ASSUME NEW x \in Sensor
      PROVE  /\ recent[x] = <<>> /\ count = 0 /\ pc = "boot"
             /\ values[x] = [k \in 0 .. Ring - 1 |-> 0]
             /\ reading[x] = ReadTemperature(values[x])
  BY DEF Init
<1>2. \A S : <<>> \in Seq(S) /\ Len(<<>>) = 0
  OBVIOUS
<1>3. "src_room_temp" \in Sensor /\ "src_iflow_temp" \in Sensor
  BY DEF Sensor
<1>4. ASSUME NEW x \in Sensor
      PROVE  recent[x] \in Seq(Raw[x]) /\ Len(recent[x]) = 0 /\ RingHolds(x)
  <2>1. recent[x] \in Seq(Raw[x]) /\ Len(recent[x]) = 0 /\ count = 0
    BY <1>1, <1>2
  <2>2. \A k \in 0 .. Ring - 1 : values[x][k] = 0
    BY <1>1
  <2> QED BY <2>1, <2>2 DEF RingHolds, Holds
<1> QED BY <1>1, <1>3, <1>4, VentAssumption DEF SamplesInv

\* A sample joins the others, and once the ring is full takes the place of the oldest.
\* q is r with the sample n joined to it.
Joined(r, n, q) ==
  /\ Len(r) < Ring => /\ Len(q) = Len(r) + 1
                      /\ \A k \in 1 .. Len(r) : q[k] = r[k]
                      /\ q[Len(r) + 1] = n
  /\ Len(r) = Ring => /\ Len(q) = Ring
                      /\ \A k \in 1 .. Ring - 1 : q[k] = r[k + 1]
                      /\ q[Ring] = n

LEMMA SampleJoins ==
  ASSUME NEW S, NEW r \in Seq(S), NEW n \in S, Len(r) <= Ring, NEW q, q = Latest(r, n)
  PROVE  q \in Seq(S) /\ Joined(r, n, q)
<1> DEFINE l == Append(r, n)
<1> USE DEF Joined
<1>1. Ring \in Nat \ {0} /\ Len(r) \in Nat
  BY VentAssumption
<1>2. l \in Seq(S) /\ Len(l) = Len(r) + 1
  OBVIOUS
<1>3. \A k \in 1 .. Len(r) : l[k] = r[k]
  OBVIOUS
<1>4. l[Len(r) + 1] = n
  OBVIOUS
<1>5. Tail(l) \in Seq(S) /\ Len(Tail(l)) = Len(l) - 1 /\ \A k \in 1 .. Len(l) - 1 : Tail(l)[k] = l[k + 1]
  <2>1. l # <<>>
    BY <1>2
  <2> QED BY <1>2, <2>1
<1> HIDE DEF l
<1>6. CASE Len(r) < Ring
  <2>1. q = l
    BY <1>1, <1>2, <1>6 DEF l, Latest
  <2> QED BY <1>2, <1>3, <1>4, <1>6, <2>1
<1>7. CASE Len(r) = Ring
  <2>1. q = Tail(l)
    BY <1>1, <1>2, <1>7 DEF l, Latest
  <2>2. \A k \in 1 .. Ring - 1 : q[k] = r[k + 1]
    BY <1>1, <1>2, <1>3, <1>5, <1>7, <2>1
  <2>3. q[Ring] = n
    BY <1>1, <1>2, <1>4, <1>5, <1>7, <2>1
  <2> QED BY <1>1, <1>2, <1>5, <1>7, <2>1, <2>2, <2>3
<1> QED BY <1>1, <1>6, <1>7

\* The sample overwrites the place of the oldest, and the counter moves on.
LEMMA RingRenewed ==
  ASSUME NEW S, NEW r \in Seq(S), NEW n \in S, Len(r) <= Ring, NEW q, Joined(r, n, q),
         NEW c \in 0 .. Ring - 1, NEW v, DOMAIN v = 0 .. Ring - 1, Holds(v, c, r)
  PROVE  Holds([v EXCEPT ![c] = n], (c + 1) % Ring, q)
<1> DEFINE d == (c + 1) % Ring
           w == [v EXCEPT ![c] = n]
<1>1. Ring \in Nat \ {0} /\ Len(r) \in Nat
  BY VentAssumption
<1>2. \A k \in 0 .. Ring - 1 : w[k] = IF k = c THEN n ELSE v[k]
  OBVIOUS
<1>3. d = IF c + 1 = Ring THEN 0 ELSE c + 1
  BY NextCount
<1>4. /\ \A k \in 1 .. Len(r) : v[Slot(c, Len(r), k)] = r[k]
      /\ Len(r) < Ring => c = Len(r) /\ \A k \in c .. Ring - 1 : v[k] = 0
  BY DEF Holds
<1> SUFFICES /\ \A k \in 1 .. Len(q) : w[Slot(d, Len(q), k)] = q[k]
             /\ Len(q) < Ring => d = Len(q) /\ \A k \in d .. Ring - 1 : w[k] = 0
  BY DEF Holds
<1> HIDE DEF d, w
<1>5. /\ Len(r) < Ring => /\ Len(q) = Len(r) + 1
                          /\ \A k \in 1 .. Len(r) : q[k] = r[k]
                          /\ q[Len(r) + 1] = n
      /\ Len(r) = Ring => /\ Len(q) = Ring
                          /\ \A k \in 1 .. Ring - 1 : q[k] = r[k + 1]
                          /\ q[Ring] = n
  BY DEF Joined
<1>6. CASE Len(r) < Ring
  <2>1. /\ Len(q) = Len(r) + 1 /\ q[Len(r) + 1] = n
        /\ \A k \in 1 .. Len(r) : q[k] = r[k]
    BY <1>5, <1>6
  <2>2. c = Len(r) /\ (Len(q) < Ring => d = Len(q)) /\ (Len(q) = Ring => d = 0)
    BY <1>1, <1>3, <1>4, <1>6, <2>1
  <2>3. \A k \in 1 .. Len(q) : Slot(d, Len(q), k) = k - 1
    BY <1>1, <1>3, <1>6, <2>1, <2>2 DEF Slot
  <2>4. \A k \in 1 .. Len(r) : v[k - 1] = r[k]
    BY <1>1, <1>4, <1>6 DEF Slot
  <2>5. \A k \in 1 .. Len(q) : w[k - 1] = q[k]
    BY <1>1, <1>2, <1>4, <1>6, <2>1, <2>2, <2>4
  <2>6. Len(q) < Ring => \A k \in d .. Ring - 1 : w[k] = 0
    BY <1>1, <1>2, <1>4, <1>6, <2>1, <2>2
  <2> QED BY <2>2, <2>3, <2>5, <2>6
<1>7. CASE Len(r) = Ring
  <2>1. /\ Len(q) = Ring /\ q[Ring] = n
        /\ \A k \in 1 .. Ring - 1 : q[k] = r[k + 1]
    BY <1>5, <1>7
  <2>2. ASSUME NEW k \in 1 .. Ring - 1 PROVE w[Slot(d, Ring, k)] = q[k]
    <3>1. Slot(d, Ring, k) = Slot(c, Ring, k + 1) /\ Slot(d, Ring, k) # c
          /\ Slot(d, Ring, k) \in 0 .. Ring - 1
      BY <1>1, <1>3 DEF Slot
    <3>2. v[Slot(c, Ring, k + 1)] = r[k + 1]
      BY <1>1, <1>4, <1>7
    <3> QED BY <1>2, <2>1, <3>1, <3>2
  <2>3. Slot(d, Ring, Ring) = c
    BY <1>1, <1>3 DEF Slot
  <2>4. w[Slot(d, Ring, Ring)] = q[Ring]
    BY <1>2, <2>1, <2>3
  <2>5. \A k \in 1 .. Ring : w[Slot(d, Ring, k)] = q[k]
    BY <1>1, <2>2, <2>4
  <2> QED BY <1>1, <2>1, <2>5
<1> QED BY <1>1, <1>6, <1>7

LEMMA SampleKeeps ==
  ASSUME SensorTypes, P!TypeOK, SamplesInv, Sample
  PROVE  SamplesInv'
<1>1. PICK raw \in [Sensor -> RoomRaw \cup InflowRaw] :
        /\ \A x \in Sensor : raw[x] \in Raw[x]
        /\ values' = [x \in Sensor |-> [values[x] EXCEPT ![count] = raw[x]]]
        /\ count' = (count + 1) % Ring
        /\ recent' = [x \in Sensor |-> Latest(recent[x], raw[x])]
        /\ reading' = [src \in DOMAIN reading |->
             IF src \in Sensor THEN ReadTemperature(values'[src]) ELSE reading[src]]
  BY DEF Sample, TakeSamples, UpdateSensors, Latest
<1>2. Ring \in Nat \ {0} /\ count \in 0 .. Ring - 1
  BY VentAssumption DEF SensorTypes
<1>4. ASSUME NEW x \in Sensor
      PROVE  /\ recent'[x] \in Seq(Raw[x]) /\ Joined(recent[x], raw[x], recent'[x])
             /\ RingHolds(x)'
  <2>1. recent[x] \in Seq(Raw[x]) /\ Len(recent[x]) <= Ring /\ raw[x] \in Raw[x] /\ RingHolds(x)
    BY <1>1 DEF SamplesInv
  <2>2. recent'[x] = Latest(recent[x], raw[x])
    BY <1>1
  <2>3. recent'[x] \in Seq(Raw[x]) /\ Joined(recent[x], raw[x], recent'[x])
    BY <2>1, <2>2, SampleJoins
  <2>4. values'[x] = [values[x] EXCEPT ![count] = raw[x]] /\ DOMAIN values[x] = 0 .. Ring - 1
    BY <1>1 DEF SensorTypes, Rings
  <2>5. Holds([values[x] EXCEPT ![count] = raw[x]], (count + 1) % Ring, recent'[x])
    BY <1>2, <2>1, <2>3, <2>4, RingRenewed DEF RingHolds
  <2>6. RingHolds(x)'
    BY <1>1, <2>4, <2>5 DEF RingHolds
  <2> QED BY <2>3, <2>6
<1>5. ASSUME NEW x \in Sensor
      PROVE  /\ Len(recent'[x]) \in 1 .. Ring
             /\ Len(recent'[x]) = IF Len(recent[x]) < Ring THEN Len(recent[x]) + 1 ELSE Ring
  <2>1. recent[x] \in Seq(Raw[x]) /\ Len(recent[x]) <= Ring /\ Len(recent[x]) \in Nat
    BY DEF SamplesInv
  <2>2. Len(recent[x]) < Ring \/ Len(recent[x]) = Ring
    BY <1>2, <2>1
  <2> QED BY <1>2, <1>4, <2>1, <2>2 DEF Joined
<1>6. ASSUME NEW x \in Sensor PROVE reading'[x] = ReadTemperature(values[x])'
  <2>1. x \in DOMAIN reading
    BY SourcesOfGraph DEF P!TypeOK, Sources, Sensor
  <2> QED BY <1>1, <2>1 DEF ReadTemperature
<1>7. "src_room_temp" \in Sensor /\ "src_iflow_temp" \in Sensor
  BY DEF Sensor
<1>8. Len(recent'["src_room_temp"]) = Len(recent'["src_iflow_temp"])
  BY <1>5, <1>7 DEF SamplesInv
<1> QED BY <1>2, <1>4, <1>5, <1>6, <1>8 DEF SamplesInv

LEMMA SamplesInductive == IInv /\ SamplesInv /\ [Next]_vars => SamplesInv'
<1> SUFFICES ASSUME IInv, SamplesInv, [Next]_vars PROVE SamplesInv'
  OBVIOUS
<1>1. SensorTypes /\ P!TypeOK /\ Control
  BY DEF IInv, P!IInv
<1>2. CASE Sample
  BY <1>1, <1>2, SampleKeeps
<1>3. ASSUME ~ Sample
      PROVE  /\ UNCHANGED sensors
             /\ \A x \in Sensor : reading'[x] = reading[x]
             /\ pc' \notin {"boot", "sample"} => pc \notin {"boot", "sample"}
  <2>1. CASE SetTemp
    BY <2>1 DEF SetTemp, Sensor
  <2>2. CASE Boot \/ NoCommand \/ SetManual \/ SetPin \/ SetMotor
    BY <2>2 DEF Boot, NoCommand, SetManual, SetPin, SetMotor, uvars
  <2>3. CASE HeaterUpdate \/ CoolerUpdate
    BY <2>3 DEF HeaterUpdate, CoolerUpdate, StartSink, U!BeginUpdate
  <2>4. CASE Evaluate
    BY <2>4 DEF Evaluate, U!Descend, U!Compute
  <2>5. CASE SinkReturns
    <3>1. pc \in {"heater_run", "cooler_run"}
      BY <1>1, <2>5 DEF Control, SinkReturns, U!EndUpdate
    <3> QED BY <2>5, <3>1 DEF SinkReturns, U!EndUpdate
  <2>6. CASE Tick \/ UNCHANGED vars
    BY <2>6 DEF Tick, U!Tick, vars, uvars, sensors
  <2> QED BY <1>3, <2>1, <2>2, <2>3, <2>4, <2>5, <2>6 DEF Next, Loop, Terminal
<1>4. CASE ~ Sample
  BY <1>3, <1>4 DEF SamplesInv, RingHolds, Holds, ReadTemperature, sensors
<1> QED BY <1>2, <1>4

-----------------------------------------------------------------------------
(* What a ring that is not full makes of its samples.                       *)

\* The zeros add nothing, and the place of a sample in the ring does not matter.
LEMMA RingTotal ==
  ASSUME NEW S \in SUBSET Nat, NEW r \in Seq(S), Len(r) <= Ring, NEW c \in 0 .. Ring - 1,
         NEW v \in [0 .. Ring - 1 -> Nat], Holds(v, c, r)
  PROVE  Total(v) = Total(r) /\ Total(r) \in Nat
<1> DEFINE n == Len(r)
           h == [k \in 1 .. n |-> Slot(c, n, k)]
           Taken == Image(h, 1 .. n)
<1>1. Ring \in Nat \ {0} /\ n \in 0 .. Ring /\ DOMAIN r = 1 .. n /\ DOMAIN v = 0 .. Ring - 1
  BY VentAssumption
<1>2. n < Ring \/ n = Ring
  BY VentAssumption
<1>3. \A k \in 1 .. n : r[k] \in Nat
  <2>1. \A k \in 1 .. Len(r) : r[k] \in S
    OBVIOUS
  <2> QED BY <2>1
<1>4. IsFiniteSet(1 .. n) /\ IsFiniteSet(0 .. Ring - 1)
  BY <1>1, FS_Interval
<1>5. \A k \in 1 .. n : v[Slot(c, n, k)] = r[k]
  BY DEF Holds
<1>6. \A k \in 1 .. n : Slot(c, n, k) \in 0 .. Ring - 1
  BY <1>1 DEF Slot
<1>7. \A k, j \in 1 .. n : Slot(c, n, k) = Slot(c, n, j) => k = j
  BY <1>1 DEF Slot
<1>8. SumOf(r, 1 .. n) = SumOf(v, Taken)
  <2>1. \A k \in 1 .. n : r[k] \in Nat /\ h[k] \in 0 .. Ring - 1 /\ v[h[k]] = r[k]
    BY <1>3, <1>5, <1>6
  <2>2. \A k, j \in 1 .. n : h[k] = h[j] => k = j
    BY <1>7
  <2>3. Renumbers(h, r, 1 .. n, v, 0 .. Ring - 1)
    BY <2>1, <2>2 DEF Renumbers
  <2> HIDE DEF h, n
  <2> QED BY <1>4, <2>3, SumRenumbered
<1>9. \A k \in (0 .. Ring - 1) \ Taken : v[k] = 0
  <2> SUFFICES ASSUME NEW k \in 0 .. Ring - 1, k \notin Taken PROVE v[k] = 0
    OBVIOUS
  <2>1. \A j \in 1 .. n : Slot(c, n, j) # k
    BY DEF Image
  <2>2. CASE n < Ring
    <3>1. k + 1 \notin 1 .. n
      BY <1>1, <2>1, <2>2 DEF Slot
    <3>2. c = n /\ k \in c .. Ring - 1
      BY <1>1, <2>2, <3>1 DEF Holds
    <3> QED BY <2>2, <3>2 DEF Holds
  <2>3. CASE n = Ring
    <3>1. CASE k >= c
      <4>1. k - c + 1 \in 1 .. n /\ Slot(c, n, k - c + 1) = k
        BY <1>1, <2>3, <3>1 DEF Slot
      <4> QED BY <2>1, <4>1
    <3>2. CASE k < c
      <4>1. k - c + 1 + Ring \in 1 .. n /\ Slot(c, n, k - c + 1 + Ring) = k
        BY <1>1, <2>3, <3>2 DEF Slot
      <4> QED BY <2>1, <4>1
    <3> QED BY <3>1, <3>2
  <2> QED BY <1>2, <2>2, <2>3
<1>10. SumOf(v, 0 .. Ring - 1) = SumOf(v, Taken)
  <2>1. Taken \in SUBSET (0 .. Ring - 1) /\ \A k \in 0 .. Ring - 1 : v[k] \in Nat
    BY <1>6 DEF Image
  <2> HIDE DEF Taken
  <2> QED BY <1>4, <1>9, <2>1, SumOverZeros
<1>11. SumOf(r, 1 .. n) \in Nat
  BY <1>3, <1>4, SumIsNat
<1> QED BY <1>1, <1>8, <1>10, <1>11, TotalIsSum

LEMMA MeanIsNoLess ==
  ASSUME NEW t \in Nat, NEW n \in Nat \ {0}, NEW k \in Nat, n <= k
  PROVE  /\ (k * t) \div n \in Nat /\ t <= (k * t) \div n
         /\ n = k => (k * t) \div n = t
<1> DEFINE q == (k * t) \div n
<1>1. k * t \in Nat
  OBVIOUS
<1>2. q \in Nat /\ n * q <= k * t /\ k * t < n * (q + 1)
  BY <1>1
<1>3. n * t <= k * t
  OBVIOUS
<1>4. n * t < n * (q + 1)
  BY <1>1, <1>2, <1>3
<1> HIDE DEF q
<1>5. t < q + 1
  BY <1>2, <1>4
<1>6. ASSUME n = k PROVE q = t
  <2>1. n * q <= n * t
    BY <1>2, <1>6
  <2>2. q <= t
    BY <1>2, <2>1
  <2> QED BY <1>2, <1>5, <2>2
<1> QED BY <1>2, <1>5, <1>6 DEF q

LEMMA ClampGrows ==
  ASSUME NEW a \in Int, NEW b \in Int, a <= b, NEW l \in Int, NEW h \in Int, l <= h
  PROVE  U!Clamp(a, l, h) \in Int /\ U!Clamp(b, l, h) \in Int /\ U!Clamp(a, l, h) <= U!Clamp(b, l, h)
  BY DEF U!Clamp

LEMMA WholeGrows ==
  ASSUME NEW a \in Int, NEW b \in Int, a <= b
  PROVE  Whole(a) \in Int /\ Whole(b) \in Int /\ Whole(a) <= Whole(b)
  BY DEF Whole, U!Truncated

\* The hotter the room and the inflow, the less power is demanded.
LEMMA DemandFalls ==
  ASSUME NEW r, NEW s, r.src_temp_setting \in Int, s.src_temp_setting = r.src_temp_setting,
         r.src_room_temp \in Int, s.src_room_temp \in Int, s.src_room_temp <= r.src_room_temp,
         r.src_iflow_temp \in Int, s.src_iflow_temp \in Int, s.src_iflow_temp <= r.src_iflow_temp
  PROVE  Demand(r) \in Int /\ Demand(s) \in Int /\ Demand(r) <= Demand(s)
<1> DEFINE Room(q)  == Whole(Whole(q.src_temp_setting) - q.src_room_temp)
           Asked(q) == Whole(q.src_temp_setting) + U!Clamp(2 * Room(q), 0, 500)
           Miss(q)  == Whole(U!Clamp(Asked(q), 0, 600) - q.src_iflow_temp)
<1>1. Whole(r.src_temp_setting) \in Int /\ Whole(s.src_temp_setting) = Whole(r.src_temp_setting)
  BY WholeGrows
<1>2. Room(r) \in Int /\ Room(s) \in Int /\ Room(r) <= Room(s)
  BY <1>1, WholeGrows
<1> HIDE DEF Room
<1>3. U!Clamp(2 * Room(r), 0, 500) \in Int /\ U!Clamp(2 * Room(s), 0, 500) \in Int
      /\ U!Clamp(2 * Room(r), 0, 500) <= U!Clamp(2 * Room(s), 0, 500)
  BY <1>2 DEF U!Clamp
<1>4. Asked(r) \in Int /\ Asked(s) \in Int /\ Asked(r) <= Asked(s)
  BY <1>1, <1>3
<1> HIDE DEF Asked
<1>5. U!Clamp(Asked(r), 0, 600) \in Int /\ U!Clamp(Asked(s), 0, 600) \in Int
      /\ U!Clamp(Asked(r), 0, 600) <= U!Clamp(Asked(s), 0, 600)
  BY <1>4, ClampGrows
<1>6. Miss(r) \in Int /\ Miss(s) \in Int /\ Miss(r) <= Miss(s)
  BY <1>5, WholeGrows
<1> HIDE DEF Miss
<1>7. Miss(r) \div 10 \in Int /\ Miss(s) \div 10 \in Int /\ Miss(r) \div 10 <= Miss(s) \div 10
  BY <1>6
<1>8. \A q : Demand(q) = U!Clamp(Miss(q) \div 10, -10, 10)
  BY DEF Demand, Miss, Asked, Room, Whole
<1>9. ASSUME NEW a \in Int, NEW b \in Int, a <= b
      PROVE  U!Clamp(a, -10, 10) \in Int /\ U!Clamp(b, -10, 10) \in Int
             /\ U!Clamp(a, -10, 10) <= U!Clamp(b, -10, 10)
  BY <1>9 DEF U!Clamp
<1> QED BY <1>7, <1>8, <1>9

\* What a sensor reads, and what its samples amount to.
LEMMA ReadHotter ==
  ASSUME SensorTypes, SamplesInv, NEW x \in Sensor, Len(recent[x]) > 0
  PROVE  /\ reading[x] \in Int
         /\ Temp[(Ring * Total(recent[x])) \div Len(recent[x])] \in Int
         /\ Temp[(Ring * Total(recent[x])) \div Len(recent[x])] <= reading[x]
         /\ Len(recent[x]) = Ring =>
              Temp[(Ring * Total(recent[x])) \div Len(recent[x])] = reading[x]
<1> DEFINE r == recent[x]
           t == Total(r)
           m == (Ring * t) \div Len(r)
<1>1. Ring \in Nat \ {0} /\ count \in 0 .. Ring - 1 /\ Raw[x] \in SUBSET Nat
  BY VentAssumption, RawNumbers DEF SensorTypes
<1>2. r \in Seq(Raw[x]) /\ Len(r) \in Nat \ {0} /\ Len(r) <= Ring /\ Holds(values[x], count, r)
  BY DEF SamplesInv, RingHolds
<1>3. values[x] \in [0 .. Ring - 1 -> Nat]
  BY <1>1 DEF SensorTypes, Rings
<1>4. Total(values[x]) = t /\ t \in Nat
  BY <1>1, <1>2, <1>3, RingTotal
<1>5. reading[x] = Temp[t] /\ t \in DOMAIN Temp
  <2>1. reading[x] = Temp[Total(values[x])]
    BY DEF SamplesInv, ReadTemperature
  <2>2. Total(values[x]) \in DOMAIN Temp
    BY RigAssumption DEF SensorTypes
  <2> QED BY <1>4, <2>1, <2>2
<1>6. m \in DOMAIN Temp
  <2>1. Len(r) \in 1 .. Ring /\ r \in [1 .. Len(r) -> Raw[x]]
    BY <1>1, <1>2
  <2> QED BY <2>1, CurveAssumption
<1>7. m \in Nat /\ t <= m /\ (Len(r) = Ring => m = t)
  <2> HIDE DEF t, r
  <2> QED BY <1>1, <1>2, <1>4, MeanIsNoLess
<1> HIDE DEF m, t, r
<1>8. Temp[t] \in Int /\ Temp[m] \in Int
  BY <1>5, <1>6, RigAssumption
<1>9. t < m => Temp[m] < Temp[t]
  BY <1>5, <1>6, <1>8, VentAssumption
<1>10. t = m \/ t < m
  BY <1>4, <1>7
<1>11. Temp[m] <= reading[x] /\ (Len(r) = Ring => Temp[m] = reading[x])
  BY <1>5, <1>7, <1>8, <1>9, <1>10
<1> QED BY <1>5, <1>8, <1>11 DEF m, t, r

LEMMA SensedFacts ==
  ASSUME IInv, SamplesInv, pc \notin {"boot", "sample"}
  PROVE  /\ Demand(reading) \in Int /\ Demand(Sensed) \in Int /\ Demand(reading) <= Demand(Sensed)
         /\ Len(recent.src_room_temp) = Ring => Demand(Sensed) = Demand(reading)
<1>1. SensorTypes /\ P!TypeOK
  BY DEF IInv, P!IInv
<1>2. /\ DOMAIN reading = Sources
      /\ reading.src_temp_setting \in Int /\ reading.src_room_temp \in Int
      /\ reading.src_iflow_temp \in Int
  <2>1. DOMAIN reading = Sources
    BY <1>1, SourcesOfGraph DEF P!TypeOK
  <2> QED BY <1>1, <2>1, WorthTypes
<1>3. \A x \in Sensor : Sensed[x] = Temp[(Ring * Total(recent[x])) \div Len(recent[x])]
  BY <1>2 DEF Sensed, Sensor, Sources
<1>4. Sensed.src_temp_setting = reading.src_temp_setting
  BY <1>2 DEF Sensed, Sensor, Sources
<1>5. \A x \in Sensor : /\ Sensed[x] \in Int /\ Sensed[x] <= reading[x]
                        /\ Len(recent[x]) = Ring => Sensed[x] = reading[x]
  <2>1. \A x \in Sensor : Len(recent[x]) > 0
    BY DEF SamplesInv
  <2> QED BY <1>1, <1>3, <2>1, ReadHotter
<1>6. "src_room_temp" \in Sensor /\ "src_iflow_temp" \in Sensor
  BY DEF Sensor
<1>7. Demand(reading) \in Int /\ Demand(Sensed) \in Int /\ Demand(reading) <= Demand(Sensed)
  BY <1>2, <1>4, <1>5, <1>6, DemandFalls
<1>8. ASSUME Len(recent.src_room_temp) = Ring PROVE Demand(Sensed) = Demand(reading)
  <2>1. Sensed.src_room_temp = reading.src_room_temp /\ Sensed.src_iflow_temp = reading.src_iflow_temp
    BY <1>5, <1>6, <1>8 DEF SamplesInv
  <2> QED BY <1>4, <2>1 DEF Demand
<1> QED BY <1>7, <1>8

\* A regulator whose rings are not full yet asks for no more heat and no less cooling than
\* its samples call for, and from then on for exactly that: whatever the sensors measure,
\* whatever the size of the rings, and however often they have been overwritten.
THEOREM ColdStart == Spec => []ColdStartAsksNoHeat
<1>1. IInv /\ PassInv /\ SamplesInv => ColdStartAsksNoHeat
  <2> SUFFICES ASSUME IInv, PassInv, SamplesInv, pc = "term", ~manual, clean
               PROVE  /\ last.heater_power_limit <= U!Clamp(Demand(Sensed), 0, 10)
                      /\ last.cooler_power_limit >= U!Clamp(-Demand(Sensed), 0, 10)
                      /\ Len(recent.src_room_temp) = Ring =>
                           /\ last.heater_power_limit = U!Clamp(Demand(Sensed), 0, 10)
                           /\ last.cooler_power_limit = U!Clamp(-Demand(Sensed), 0, 10)
    BY DEF ColdStartAsksNoHeat
  <2>1. last.heater_power_limit = U!Clamp(Demand(reading), 0, 10)
        /\ last.cooler_power_limit = U!Clamp(-Demand(reading), 0, 10)
    BY LimitsFollow DEF PassFollowsReadings
  <2>2. /\ Demand(reading) \in Int /\ Demand(Sensed) \in Int /\ Demand(reading) <= Demand(Sensed)
        /\ Len(recent.src_room_temp) = Ring => Demand(Sensed) = Demand(reading)
    BY SensedFacts
  <2> QED BY <2>1, <2>2 DEF U!Clamp
<1> QED BY <1>1, Initially, Inductive, PassBegins, PassInductive, SamplesBegin, SamplesInductive,
           PTL DEF Spec
=============================================================================
