---------------------------- MODULE Units_proofs ----------------------------
(***************************************************************************)
(* Proofs about Units for every graph (with or without feedback), every    *)
(* number of sinks and every behaviour of the clock and the peripherals.   *)
(***************************************************************************)
EXTENDS Units, SequenceTheorems, TLAPS

(* A unit under computation carries the time of the update. *)
Stamped == \A k \in DOMAIN stack : lastTime[stack[k]] = time

Idle == active = NoSink => stack = <<>>

IInv ==
  /\ TypeOK
  /\ Stamped
  /\ Idle
  /\ NothingAccumulates
  /\ UsersNotFresher
  /\ NeverReentered

-----------------------------------------------------------------------------
(* The stack. *)

LEMMA StackFacts ==
  ASSUME TypeOK
  PROVE  /\ DOMAIN stack = 1 .. Len(stack) /\ Len(stack) \in Nat
         /\ \A k \in DOMAIN stack : stack[k] \in Unit
         /\ stack # <<>> => Len(stack) \in DOMAIN stack /\ Top \in Unit /\ OnStack(Top)
  BY DEF TypeOK, Top, OnStack

LEMMA Pushed ==
  ASSUME TypeOK, NEW u \in Unit, stack' = Append(stack, u)
  PROVE  /\ stack' \in Seq(Unit)
         /\ \A k \in DOMAIN stack' :
              \/ k \in DOMAIN stack /\ stack'[k] = stack[k]
              \/ k = Len(stack) + 1 /\ stack'[k] = u
         /\ \A x : OnStack(x)' <=> OnStack(x) \/ x = u
<1>1. stack \in Seq(Unit)
  BY DEF TypeOK
<1>2. stack' \in Seq(Unit) /\ Len(stack') = Len(stack) + 1
  BY <1>1
<1>3. \A k \in 1 .. Len(stack) : stack'[k] = stack[k]
  BY <1>1
<1>4. stack'[Len(stack) + 1] = u
  BY <1>1
<1>5. DOMAIN stack = 1 .. Len(stack) /\ DOMAIN stack' = 1 .. Len(stack) + 1
  BY <1>1, <1>2
<1>6. Len(stack) \in Nat
  BY <1>1
<1>7. QED
  BY <1>2, <1>3, <1>4, <1>5, <1>6 DEF OnStack

LEMMA ShorterByOne ==
  ASSUME NEW n \in Nat, n > 0
  PROVE  (IF 1 <= n - 1 THEN n - 1 - 1 + 1 ELSE 0) = n - 1
  OBVIOUS

LEMMA FrontFacts ==
  ASSUME NEW S, NEW s, NEW n \in Nat, n > 0, \A k \in 1 .. n - 1 : s[k] \in S
  PROVE  /\ SubSeq(s, 1, n - 1) \in Seq(S)
         /\ Len(SubSeq(s, 1, n - 1)) = n - 1
         /\ \A k \in 1 .. n - 1 : SubSeq(s, 1, n - 1)[k] = s[k]
<1>1. 1 \in Int /\ n - 1 \in Int
  OBVIOUS
<1>2. /\ SubSeq(s, 1, n - 1) \in Seq(S)
      /\ Len(SubSeq(s, 1, n - 1)) = IF 1 <= n - 1 THEN n - 1 - 1 + 1 ELSE 0
      /\ \A k \in 1 .. n - 1 - 1 + 1 : SubSeq(s, 1, n - 1)[k] = s[1 + k - 1]
  BY <1>1, SubSeqProperties
<1>3. Len(SubSeq(s, 1, n - 1)) = n - 1
  BY <1>2, ShorterByOne, Zenon
<1>4. \A k \in 1 .. n - 1 : SubSeq(s, 1, n - 1)[k] = s[k]
  BY <1>2
<1>5. QED
  BY <1>2, <1>3, <1>4

LEMMA FrontOfStack ==
  ASSUME NEW s \in Seq(Unit), NEW n \in Nat, n = Len(s), n > 0
  PROVE  /\ SubSeq(s, 1, n - 1) \in Seq(Unit)
         /\ Len(SubSeq(s, 1, n - 1)) = n - 1
         /\ \A k \in 1 .. n - 1 : SubSeq(s, 1, n - 1)[k] = s[k]
<1>1. \A k \in 1 .. n - 1 : s[k] \in Unit
  OBVIOUS
<1>2. QED
  BY <1>1, FrontFacts

LEMMA Popped ==
  ASSUME TypeOK, stack # <<>>, stack' = SubSeq(stack, 1, Len(stack) - 1)
  PROVE  /\ stack' \in Seq(Unit)
         /\ \A k \in DOMAIN stack' : k \in DOMAIN stack /\ stack'[k] = stack[k]
         /\ \A x : OnStack(x) => OnStack(x)' \/ x = Top
<1>1. stack \in Seq(Unit) /\ Len(stack) \in Nat /\ Len(stack) > 0
  BY DEF TypeOK
<1>2. /\ SubSeq(stack, 1, Len(stack) - 1) \in Seq(Unit)
      /\ Len(SubSeq(stack, 1, Len(stack) - 1)) = Len(stack) - 1
      /\ \A k \in 1 .. Len(stack) - 1 : SubSeq(stack, 1, Len(stack) - 1)[k] = stack[k]
  BY <1>1, FrontOfStack
<1>3. stack' \in Seq(Unit) /\ Len(stack') = Len(stack) - 1
  BY <1>2, Zenon
<1>4. \A k \in 1 .. Len(stack) - 1 : stack'[k] = stack[k]
  BY <1>2, Zenon
<1>5. DOMAIN stack = 1 .. Len(stack) /\ DOMAIN stack' = 1 .. Len(stack) - 1
  BY <1>1, <1>3
<1>6. \A k \in DOMAIN stack' : k \in DOMAIN stack /\ stack'[k] = stack[k]
  BY <1>1, <1>4, <1>5
<1>7. ASSUME NEW x, OnStack(x), x # Top
      PROVE  OnStack(x)'
  <2>1. PICK k \in 1 .. Len(stack) : stack[k] = x
    BY <1>5, <1>7 DEF OnStack
  <2>2. k \in 1 .. Len(stack) - 1
    BY <1>1, <1>7, <2>1 DEF Top
  <2>3. k \in DOMAIN stack' /\ stack'[k] = x
    BY <1>4, <1>5, <2>1, <2>2
  <2>4. QED
    BY <2>3 DEF OnStack
<1>8. QED
  BY <1>3, <1>6, <1>7

-----------------------------------------------------------------------------
(* What a computation returns. *)

LEMMA InputType ==
  ASSUME TypeOK, NEW u \in Unit, NEW k \in DOMAIN Graph[u].in
  PROVE  Graph[u].in[k] \in Unit /\ IsInput(Graph[u].in[k], u)
         /\ last[Graph[u].in[k]] \in Int
  BY UnitsAssumption DEF TypeOK, IsInput

LEMMA SingleInput ==
  ASSUME TypeOK, NEW u \in Unit, Graph[u].kind \notin {"source", "sum"}
  PROVE  In(u) \in Int
<1>1. 1 \in DOMAIN Graph[u].in
  BY UnitsAssumption
<1>2. QED
  BY <1>1, InputType DEF In

LEMMA TruncatedType ==
  ASSUME NEW v \in Int
  PROVE  Truncated(v) \in Int
  BY UnitsAssumption DEF Truncated

LEMMA ClampType ==
  ASSUME NEW v \in Int, NEW low \in Int, NEW high \in Int
  PROVE  Clamp(v, low, high) \in Int
  BY DEF Clamp

LEMMA SumType ==
  ASSUME TypeOK, NEW u \in Unit, Graph[u].kind = "sum"
  PROVE  SumValue(u) \in Int
<1>1. ASSUME NEW k \in Nat PROVE Addend(u, k) \in Int
  <2>1. CASE k \in DOMAIN Graph[u].in
    <3>1. Graph[u].sign[k] \in Int
      BY <2>1, UnitsAssumption
    <3>2. QED
      BY <2>1, <3>1, InputType DEF Addend
  <2>2. CASE k \notin DOMAIN Graph[u].in
    BY <2>2 DEF Addend
  <2>3. QED
    BY <2>1, <2>2
<1>2. Truncated(Addend(u, 1)) \in Int
  BY <1>1, TruncatedType
<1>3. Truncated(Truncated(Addend(u, 1)) + Addend(u, 2)) \in Int
  BY <1>1, <1>2, TruncatedType
<1>4. Truncated(Truncated(Truncated(Addend(u, 1)) + Addend(u, 2)) + Addend(u, 3)) \in Int
  BY <1>1, <1>3, TruncatedType
<1>5. QED
  BY <1>1, <1>4, TruncatedType DEF SumValue

(* With no time elapsed a PID neither integrates nor unwinds. *)
LEMMA PidStill ==
  ASSUME TypeOK, NothingAccumulates, NEW u \in Unit, Graph[u].kind = "pid",
         lastTime[u] = time
  PROVE  /\ PidValue(u) \in Int
         /\ PidIntegral(u) - Overshoot(u) * Graph[u].kb * Elapsed(u) = 0
<1>1. /\ Graph[u].kp \in Int /\ Graph[u].ki \in Int /\ Graph[u].kb \in Int
      /\ Graph[u].low \in Int /\ Graph[u].high \in Int
      /\ Coef \in Nat \ {0}
  BY UnitsAssumption
<1>2. In(u) \in Int
  BY SingleInput
<1>3. Elapsed(u) = 0
  BY DEF Elapsed, TypeOK, Time
<1>4. PidIntegral(u) = 0
  <2>1. In(u) * Graph[u].ki \in Int
    BY <1>1, <1>2
  <2>2. In(u) * Graph[u].ki * Elapsed(u) = 0
    BY <1>3, <2>1
  <2>3. QED
    BY <2>2 DEF PidIntegral, NothingAccumulates
<1>5. PidRaw(u) \in Int
  <2>1. Graph[u].kp * In(u) \in Int
    BY <1>1, <1>2
  <2>2. Graph[u].kp * In(u) + (IF Graph[u].ki # 0 THEN PidIntegral(u) ELSE 0) \in Int
    BY <1>4, <2>1
  <2>3. QED
    BY <1>1, <2>2 DEF PidRaw
<1>6. PidValue(u) \in Int
  BY <1>1, <1>5, ClampType DEF PidValue
<1>7. Overshoot(u) * Graph[u].kb * Elapsed(u) = 0
  <2>1. Overshoot(u) * Graph[u].kb \in Int
    BY <1>1, <1>5, <1>6 DEF Overshoot
  <2>2. QED
    BY <1>3, <2>1
<1>8. QED
  BY <1>4, <1>6, <1>7

LEMMA AperiodicStill ==
  ASSUME TypeOK, NothingAccumulates, NEW u \in Unit, Graph[u].kind = "aperiodic",
         lastTime[u] = time
  PROVE  /\ AperiodicValue(u) = 0
         /\ integral[u] + (Graph[u].k * In(u) - AperiodicValue(u)) * Elapsed(u) = 0
<1>1. Graph[u].k \in Int /\ Graph[u].tp \in Nat \ {0}
  BY UnitsAssumption
<1>2. In(u) \in Int
  BY SingleInput
<1>3. Elapsed(u) = 0
  BY DEF Elapsed, TypeOK, Time
<1>4. integral[u] = 0
  BY DEF NothingAccumulates
<1>5. AperiodicValue(u) = 0
  BY <1>1, <1>4 DEF AperiodicValue
<1>6. Graph[u].k * In(u) \in Int
  BY <1>1, <1>2
<1>7. QED
  BY <1>3, <1>4, <1>5, <1>6

LEMMA ComputedValue ==
  ASSUME TypeOK, NothingAccumulates, NEW u \in Unit, lastTime[u] = time
  PROVE  NewValue(u) \in Int /\ NewIntegral(u) = 0
<1>1. CASE Graph[u].kind = "source"
  <2>1. reading[u] \in Int
    BY <1>1, UnitsAssumption DEF TypeOK, Sources
  <2>2. QED
    BY <1>1, <2>1 DEF NewValue, NewIntegral, NothingAccumulates
<1>2. CASE Graph[u].kind = "sum"
  BY <1>2, SumType DEF NewValue, NewIntegral, NothingAccumulates
<1>3. CASE Graph[u].kind = "gain"
  <2>1. Graph[u].k * In(u) \in Int
    BY <1>3, SingleInput, UnitsAssumption
  <2>2. QED
    BY <1>3, <2>1 DEF NewValue, NewIntegral, NothingAccumulates
<1>4. CASE Graph[u].kind = "saturation"
  <2>1. Clamp(In(u), Graph[u].low, Graph[u].high) \in Int
    BY <1>4, SingleInput, ClampType, UnitsAssumption
  <2>2. QED
    BY <1>4, <2>1 DEF NewValue, NewIntegral, NothingAccumulates
<1>5. CASE Graph[u].kind = "relay"
  <2>1. RelayValue(u) \in Int
    BY UnitsAssumption DEF RelayValue, TypeOK
  <2>2. QED
    BY <1>5, <2>1 DEF NewValue, NewIntegral, NothingAccumulates
<1>6. CASE Graph[u].kind = "pid"
  BY <1>6, PidStill DEF NewValue, NewIntegral
<1>7. CASE Graph[u].kind = "aperiodic"
  BY <1>7, AperiodicStill DEF NewValue, NewIntegral
<1>8. CASE Graph[u].kind = "intfilter"
  <2>1. Graph[u].k \in Int /\ In(u) \in Int /\ last[u] \in Int /\ Scale \in Nat \ {0}
    BY <1>8, SingleInput, UnitsAssumption DEF TypeOK
  <2>2. In(u) * Graph[u].k \in Int /\ last[u] * (Scale - Graph[u].k) \in Int
    BY <2>1
  <2>3. IntFilterValue(u) \in Int
    BY <2>1, <2>2 DEF IntFilterValue
  <2>4. QED
    BY <1>8, <2>3 DEF NewValue, NewIntegral, NothingAccumulates
<1>9. Graph[u].kind \in Kinds
  BY UnitsAssumption
<1>10. QED
  BY <1>1, <1>2, <1>3, <1>4, <1>5, <1>6, <1>7, <1>8, <1>9 DEF Kinds

-----------------------------------------------------------------------------
(* The steps. *)

LEMMA InitInv == Init => IInv
<1> SUFFICES ASSUME Init PROVE IInv
  OBVIOUS
<1>1. TypeOK
  BY UnitsAssumption DEF Init, TypeOK, Time
<1>2. Stamped /\ Idle /\ NeverReentered
  BY DEF Init, Stamped, Idle, NeverReentered
<1>3. NothingAccumulates
  BY DEF Init, NothingAccumulates
<1>4. UsersNotFresher
  <2>1. ASSUME NEW u \in Unit, NEW i \in Unit, IsInput(i, u)
        PROVE  lastTime[u] <= lastTime[i]
    BY DEF Init
  <2>2. QED
    BY <2>1 DEF UsersNotFresher
<1>5. QED
  BY <1>1, <1>2, <1>3, <1>4 DEF IInv

(* A step that touches neither the units nor the stack. *)
LEMMA Frame ==
  ASSUME IInv, TypeOK', Idle', UNCHANGED <<lastTime, integral, time, stack>>
  PROVE  IInv'
  BY DEF IInv, Stamped, NothingAccumulates, UsersNotFresher, NeverReentered, OnStack

(* Asking a unit, when every unit of the stack carries the time asked for. *)
LEMMA AskInv ==
  ASSUME IInv, NEW u \in Unit, NEW t \in Time, time' = t,
         stack # <<>> => time = t,
         Ask(u, t), TypeOK', UNCHANGED integral
  PROVE  /\ Stamped' /\ NothingAccumulates' /\ UsersNotFresher' /\ NeverReentered'
<1>1. NothingAccumulates'
  BY DEF IInv, NothingAccumulates
<1>2. CASE ~(lastTime[u] < t)
  <2>1. UNCHANGED <<stack, lastTime>>
    BY <1>2 DEF Ask
  <2>2. Stamped'
    BY <2>1 DEF IInv, Stamped
  <2>3. UsersNotFresher' /\ NeverReentered'
    BY <2>1 DEF IInv, UsersNotFresher, NeverReentered, OnStack
  <2>4. QED
    BY <1>1, <2>2, <2>3
<1>3. CASE lastTime[u] < t
  <2>1. stack' = Append(stack, u) /\ lastTime' = [lastTime EXCEPT ![u] = t]
    BY <1>3 DEF Ask
  <2>2. TypeOK /\ lastTime[u] \in Int /\ t \in Int
    BY DEF IInv, TypeOK, Time
  <2>3. \A k \in DOMAIN stack : stack[k] \in Unit /\ lastTime[stack[k]] = t
    BY <2>2, StackFacts DEF IInv, Stamped
  <2>4. \A k \in DOMAIN stack : stack[k] # u
    BY <1>3, <2>2, <2>3
  <2>5. /\ \A k \in DOMAIN stack' :
             \/ k \in DOMAIN stack /\ stack'[k] = stack[k]
             \/ k = Len(stack) + 1 /\ stack'[k] = u
        /\ \A x : OnStack(x)' <=> OnStack(x) \/ x = u
    BY <2>1, <2>2, Pushed
  <2>6. \A v \in Unit : lastTime'[v] = IF v = u THEN t ELSE lastTime[v]
    BY <2>1, <2>2 DEF TypeOK
  <2>7. Stamped'
    BY <2>3, <2>4, <2>5, <2>6 DEF Stamped
  <2>8. NeverReentered'
    BY <2>4, <2>5 DEF IInv, NeverReentered
  <2>9. UsersNotFresher'
    <3>1. ASSUME NEW v \in Unit, NEW i \in Unit, IsInput(i, v), ~OnStack(v)'
          PROVE  lastTime'[v] <= lastTime'[i]
      <4>1. v # u /\ lastTime[v] <= lastTime[i]
        BY <2>5, <3>1 DEF IInv, UsersNotFresher
      <4>2. lastTime[v] \in Int /\ lastTime[i] \in Int
        BY <2>2 DEF TypeOK, Time
      <4>3. QED
        BY <1>3, <2>2, <2>6, <4>1, <4>2
    <3>2. QED
      BY <3>1 DEF UsersNotFresher, IsInput
  <2>10. QED
    BY <1>1, <2>7, <2>8, <2>9
<1>4. QED
  BY <1>2, <1>3

LEMMA AskType ==
  ASSUME TypeOK, NEW u \in Unit, NEW t \in Time, Ask(u, t)
  PROVE  stack' \in Seq(Unit) /\ lastTime' \in [Unit -> Time]
<1>1. CASE lastTime[u] < t
  BY <1>1, Pushed DEF Ask, TypeOK
<1>2. CASE ~(lastTime[u] < t)
  BY <1>2 DEF Ask, TypeOK
<1>3. QED
  BY <1>1, <1>2

LEMMA BeginUpdateInv ==
  ASSUME IInv, NEW s \in Sink, BeginUpdate(s)
  PROVE  IInv'
<1>1. TypeOK /\ Wiring[s].src \in Unit /\ now \in Time
  BY UnitsAssumption DEF IInv, TypeOK
<1>2. TypeOK'
  <2>1. stack' \in Seq(Unit) /\ lastTime' \in [Unit -> Time]
    BY <1>1, AskType DEF BeginUpdate
  <2>2. QED
    BY <1>1, <2>1 DEF BeginUpdate, TypeOK
<1>3. stack = <<>>
  BY DEF BeginUpdate, IInv, Idle
<1>4. Stamped' /\ NothingAccumulates' /\ UsersNotFresher' /\ NeverReentered'
  BY <1>1, <1>2, <1>3, AskInv DEF BeginUpdate
<1>5. Idle'
  BY UnitsAssumption DEF BeginUpdate, Idle
<1>6. QED
  BY <1>2, <1>4, <1>5 DEF IInv

LEMMA DescendInv ==
  ASSUME IInv, Descend
  PROVE  IInv'
<1>1. TypeOK /\ Top \in Unit /\ time \in Time
  BY StackFacts DEF IInv, TypeOK, Descend
<1>2. PICK k \in DOMAIN Graph[Top].in : Ask(Graph[Top].in[k], time)
  BY DEF Descend
<1>3. Graph[Top].in[k] \in Unit
  BY <1>1, InputType
<1>4. UNCHANGED <<last, integral, reading, now, time, active, pins>> /\ stack # <<>>
  BY DEF Descend
<1>5. TypeOK'
  <2>1. stack' \in Seq(Unit) /\ lastTime' \in [Unit -> Time]
    BY <1>1, <1>2, <1>3, AskType
  <2>2. QED
    BY <1>1, <1>4, <2>1 DEF TypeOK
<1>6. Stamped' /\ NothingAccumulates' /\ UsersNotFresher' /\ NeverReentered'
  BY <1>1, <1>2, <1>3, <1>4, <1>5, AskInv
<1>7. Idle'
  BY <1>4 DEF IInv, Idle
<1>8. QED
  BY <1>5, <1>6, <1>7 DEF IInv

LEMMA ComputeInv ==
  ASSUME IInv, Compute
  PROVE  IInv'
<1>1. TypeOK /\ Top \in Unit /\ OnStack(Top) /\ stack # <<>>
  BY StackFacts DEF IInv, Compute
<1>2. lastTime[Top] = time
  BY <1>1, StackFacts DEF IInv, Stamped, Top
<1>3. NewValue(Top) \in Int /\ NewIntegral(Top) = 0
  BY <1>1, <1>2, ComputedValue DEF IInv
<1>4. /\ stack' \in Seq(Unit)
      /\ \A k \in DOMAIN stack' : k \in DOMAIN stack /\ stack'[k] = stack[k]
      /\ \A x : OnStack(x) => OnStack(x)' \/ x = Top
  BY <1>1, Popped DEF Compute
<1>5. TypeOK'
  BY <1>1, <1>3, <1>4 DEF Compute, TypeOK
<1>6. Stamped' /\ NeverReentered'
  BY <1>4 DEF Compute, IInv, Stamped, NeverReentered
<1>7. NothingAccumulates'
  BY <1>1, <1>3 DEF Compute, IInv, NothingAccumulates, TypeOK
<1>8. UsersNotFresher'
  <2>1. ASSUME NEW u \in Unit, NEW i \in Unit, IsInput(i, u), ~OnStack(u)'
        PROVE  lastTime[u] <= lastTime[i]
    <3>1. CASE u = Top
      <4>1. ~Stale(i)
        BY <2>1, <3>1 DEF Compute, IsInput
      <4>2. lastTime[i] \in Int /\ time \in Int
        BY <1>1 DEF TypeOK, Time
      <4>3. QED
        BY <1>2, <3>1, <4>1, <4>2 DEF Stale
    <3>2. CASE u # Top
      BY <1>4, <2>1, <3>2 DEF IInv, UsersNotFresher
    <3>3. QED
      BY <3>1, <3>2
  <2>2. lastTime' = lastTime
    BY DEF Compute
  <2>3. QED
    BY <2>1, <2>2 DEF UsersNotFresher, IsInput
<1>9. Idle'
  BY <1>1 DEF Compute, IInv, Idle
<1>10. QED
  BY <1>5, <1>6, <1>7, <1>8, <1>9 DEF IInv

LEMMA AroundInv ==
  ASSUME IInv, EndUpdate \/ Tick \/ Sense \/ WritePin
  PROVE  IInv'
<1>1. TypeOK
  BY DEF IInv
<1>2. CASE EndUpdate
  <2>1. TypeOK'
    <3>1. PICK level : pins' = Driven(active, level)
      BY <1>2 DEF EndUpdate
    <3>2. pins' \in [Pin -> BOOLEAN]
      BY <1>1, <3>1 DEF Driven, TypeOK
    <3>3. QED
      BY <1>1, <1>2, <3>2 DEF EndUpdate, TypeOK
  <2>2. Idle'
    BY <1>2 DEF EndUpdate, Idle
  <2>3. QED
    BY <1>2, <2>1, <2>2, Frame DEF EndUpdate
<1>3. CASE Tick
  <2>1. PICK d \in 1 .. MaxStep : now' = (now + d) % (MaxTime + 1)
    BY <1>3 DEF Tick
  <2>2. now' \in Time
    BY <1>1, <2>1, UnitsAssumption DEF TypeOK, Time
  <2>3. TypeOK' /\ Idle'
    BY <1>1, <1>3, <2>2 DEF Tick, TypeOK, IInv, Idle
  <2>4. QED
    BY <1>3, <2>3, Frame DEF Tick
<1>4. CASE Sense
  <2>1. TypeOK' /\ Idle'
    BY <1>1, <1>4 DEF Sense, TypeOK, IInv, Idle
  <2>2. QED
    BY <1>4, <2>1, Frame DEF Sense
<1>5. CASE WritePin
  <2>1. TypeOK' /\ Idle'
    BY <1>1, <1>5 DEF WritePin, TypeOK, IInv, Idle
  <2>2. QED
    BY <1>5, <2>1, Frame DEF WritePin
<1>6. QED
  BY <1>2, <1>3, <1>4, <1>5

LEMMA NextInv == IInv /\ [Next]_uvars => IInv'
<1> SUFFICES ASSUME IInv, [Next]_uvars PROVE IInv'
  OBVIOUS
<1>1. CASE Descend
  BY <1>1, DescendInv
<1>2. CASE Compute
  BY <1>2, ComputeInv
<1>3. CASE EndUpdate \/ Tick \/ Sense \/ WritePin
  BY <1>3, AroundInv
<1>4. ASSUME NEW s \in Sink, BeginUpdate(s)
      PROVE  IInv'
  BY <1>4, BeginUpdateInv
<1>5. CASE UNCHANGED uvars
  <2>1. TypeOK' /\ Idle'
    BY <1>5 DEF uvars, IInv, TypeOK, Idle
  <2>2. QED
    BY <1>5, <2>1, Frame DEF uvars
<1>6. QED
  BY <1>1, <1>2, <1>3, <1>4, <1>5 DEF Next, Pulling

LEMMA Invariance == Spec => []IInv
  BY InitInv, NextInv, PTL DEF Spec

-----------------------------------------------------------------------------
(* The variables of the unit graph keep their types. *)
THEOREM TypeCorrect == Spec => []TypeOK
<1>1. IInv => TypeOK
  BY DEF IInv
<1>2. QED
  BY <1>1, Invariance, PTL

(* In no graph, wired in any way and pulled at any times, does a unit that  *)
(* stamps itself before computing ever accumulate.                         *)
THEOREM NoIntegration == Spec => []NothingAccumulates
<1>1. IInv => NothingAccumulates
  BY DEF IInv
<1>2. QED
  BY <1>1, Invariance, PTL

(* No cached value is newer than the inputs it was computed from, however   *)
(* many sinks share a unit.                                                *)
THEOREM CacheOrder == Spec => []UsersNotFresher
<1>1. IInv => UsersNotFresher
  BY DEF IInv
<1>2. QED
  BY <1>1, Invariance, PTL

(* getValue() never re-enters a unit, even around a feedback loop.          *)
THEOREM NoReentry == Spec => []NeverReentered
<1>1. IInv => NeverReentered
  BY DEF IInv
<1>2. QED
  BY <1>1, Invariance, PTL

(* Nothing asks a unit stamped with the last time the clock can show.       *)
LEMMA LastStampNotAsked ==
  ASSUME TypeOK, NEW v \in Unit, NEW t \in Time, Ask(v, t),
         NEW u \in Unit, lastTime[u] = MaxTime, ~OnStack(u)
  PROVE  ~OnStack(u)'
<1>1. CASE lastTime[v] < t
  <2>1. v # u
    BY <1>1, UnitsAssumption DEF Time
  <2>2. OnStack(u)' <=> OnStack(u) \/ u = v
    BY <1>1, Pushed DEF Ask
  <2>3. QED
    BY <2>1, <2>2
<1>2. CASE ~(lastTime[v] < t)
  BY <1>2 DEF Ask, OnStack
<1>3. QED
  BY <1>1, <1>2

(* A unit computed at the last instant before the ticker wraps is never     *)
(* computed again.                                                         *)
THEOREM Frozen == Spec => FrozenAtLastInstant
<1>1. ASSUME IInv, [Next]_uvars, NEW u \in Unit, lastTime[u] = MaxTime, ~OnStack(u)
      PROVE  ~OnStack(u)' /\ last'[u] = last[u]
  <2>1. TypeOK
    BY <1>1 DEF IInv
  <2>2. CASE Descend
    <3>1. PICK k \in DOMAIN Graph[Top].in : Ask(Graph[Top].in[k], time)
      BY <2>2 DEF Descend
    <3>2. Graph[Top].in[k] \in Unit /\ time \in Time
      BY <2>1, <2>2, StackFacts, InputType DEF Descend, TypeOK
    <3>3. QED
      BY <1>1, <2>1, <2>2, <3>1, <3>2, LastStampNotAsked DEF Descend
  <2>3. CASE Compute
    <3>1. Top # u /\ stack # <<>>
      BY <1>1, <2>1, <2>3, StackFacts DEF Compute
    <3>2. \A k \in DOMAIN stack' : k \in DOMAIN stack /\ stack'[k] = stack[k]
      BY <2>1, <2>3, <3>1, Popped DEF Compute
    <3>3. ~OnStack(u)'
      BY <1>1, <3>2 DEF OnStack
    <3>4. last'[u] = last[u]
      BY <2>1, <2>3, <3>1 DEF Compute, TypeOK
    <3>5. QED
      BY <3>3, <3>4
  <2>4. ASSUME NEW s \in Sink, BeginUpdate(s)
        PROVE  ~OnStack(u)' /\ last'[u] = last[u]
    <3>1. Wiring[s].src \in Unit /\ now \in Time
      BY <2>1, UnitsAssumption DEF TypeOK
    <3>2. QED
      BY <1>1, <2>1, <2>4, <3>1, LastStampNotAsked DEF BeginUpdate
  <2>5. CASE EndUpdate \/ Tick \/ Sense \/ WritePin \/ UNCHANGED uvars
    BY <1>1, <2>5 DEF EndUpdate, Tick, Sense, WritePin, uvars, OnStack
  <2>6. QED
    BY <1>1, <2>2, <2>3, <2>4, <2>5 DEF Next, Pulling
<1>2. IInv /\ [Next]_uvars =>
        [\A u \in Unit : lastTime[u] = MaxTime /\ ~OnStack(u) =>
           ~OnStack(u)' /\ last'[u] = last[u]]_uvars
  BY <1>1
<1>3. QED
  BY <1>2, Invariance, PTL DEF Spec, FrozenAtLastInstant

-----------------------------------------------------------------------------
(* The levels of a sink. *)

(* A unit whose values are between 0 and 1 by its parameters.              *)
Within01(u) ==
  \/ Graph[u].kind = "aperiodic"
  \/ /\ Graph[u].kind = "saturation"
     /\ 0 <= Graph[u].low /\ Graph[u].low <= Graph[u].high /\ Graph[u].high <= Scale

InRange == \A u \in Unit : Within01(u) => last[u] \in 0 .. Scale

LEMMA Division ==
  ASSUME NEW a \in Nat, NEW b \in Nat \ {0}
  PROVE  /\ a \div b \in Nat
         /\ b * (a \div b) <= a
         /\ a < b * (a \div b) + b
  OBVIOUS

(* The nearest of the N + 1 steps. *)
LEMMA NearestStep ==
  ASSUME NEW N \in Nat, NEW v \in 0 .. Scale
  PROVE  /\ Rounded(N * v) \in 0 .. N
         /\ 2 * (Rounded(N * v) * Scale - N * v) \in -Scale .. Scale
<1> DEFINE x == N * v
           q == (2 * x + Scale) \div (2 * Scale)
<1>1. Scale \in Nat \ {0}
  BY UnitsAssumption
<1>2. x \in Nat /\ N * Scale \in Nat /\ x <= N * Scale
  BY <1>1
<1> HIDE DEF x
<1>3. 2 * x + Scale \in Nat /\ 2 * Scale \in Nat \ {0}
  BY <1>1, <1>2
<1>4. q \in Nat /\ (2 * Scale) * q <= 2 * x + Scale /\ 2 * x + Scale < (2 * Scale) * q + 2 * Scale
  BY <1>3, Division
<1> HIDE DEF q
<1>5. q * Scale \in Nat /\ (2 * Scale) * q = 2 * (q * Scale)
  BY <1>1, <1>4
<1>6. 2 * (q * Scale - x) \in -Scale .. Scale
  BY <1>1, <1>2, <1>4, <1>5
<1>7. q <= N
  <2>1. SUFFICES ASSUME q >= N + 1 PROVE FALSE
    BY <1>4
  <2>2. q * Scale >= (N + 1) * Scale
    BY <1>1, <1>4, <2>1
  <2>3. (N + 1) * Scale = N * Scale + Scale
    BY <1>1
  <2>4. QED
    BY <1>1, <1>2, <1>4, <1>5, <2>2, <2>3
<1>8. Rounded(x) = q
  BY <1>2 DEF Rounded, q
<1>9. QED
  BY <1>4, <1>6, <1>7, <1>8 DEF x

LEMMA InRangeStep == IInv /\ InRange /\ [Next]_uvars => InRange'
<1>1. SUFFICES ASSUME IInv, InRange, [Next]_uvars, NEW u \in Unit, Within01(u)
               PROVE  last'[u] \in 0 .. Scale
  BY DEF InRange, Within01
<1>2. CASE last'[u] = last[u]
  BY <1>1, <1>2 DEF InRange
<1>3. CASE Compute /\ u = Top
  <2>1. TypeOK /\ lastTime[Top] = time
    <3>1. TypeOK /\ stack # <<>>
      BY <1>1, <1>3 DEF IInv, Compute
    <3>2. Len(stack) \in DOMAIN stack
      BY <3>1, StackFacts
    <3>3. QED
      BY <1>1, <3>1, <3>2 DEF IInv, Stamped, Top
  <2>2. last'[u] = NewValue(u)
    BY <1>1, <1>3, <2>1 DEF Compute, TypeOK
  <2>3. CASE Graph[u].kind = "aperiodic"
    <3>1. AperiodicValue(u) = 0
      BY <1>1, <1>3, <2>1, <2>3, AperiodicStill DEF IInv
    <3>2. QED
      BY <2>2, <2>3, <3>1, UnitsAssumption DEF NewValue
  <2>4. CASE Graph[u].kind = "saturation"
    <3>1. In(u) \in Int /\ Graph[u].low \in Int /\ Graph[u].high \in Int
      BY <2>1, <2>4, SingleInput, UnitsAssumption
    <3>2. NewValue(u) = Clamp(In(u), Graph[u].low, Graph[u].high)
      BY <2>4 DEF NewValue
    <3>3. /\ 0 <= Graph[u].low /\ Graph[u].low <= Graph[u].high /\ Graph[u].high <= Scale
          /\ Scale \in Int
      BY <1>1, <2>4, UnitsAssumption DEF Within01
    <3>4. QED
      BY <2>2, <3>1, <3>2, <3>3 DEF Clamp
  <2>5. QED
    BY <1>1, <2>3, <2>4 DEF Within01
<1>4. CASE Compute /\ u # Top
  BY <1>1, <1>2, <1>4 DEF Compute, IInv, TypeOK
<1>5. QED
  BY <1>1, <1>2, <1>3, <1>4
  DEF Next, Pulling, Descend, EndUpdate, Tick, Sense, WritePin, BeginUpdate, uvars

(* The action of Thermometer for the sink s.                               *)
Stairs(s) ==
  active = s /\ active' = NoSink /\ ~Wiring[s].ordered =>
    \E level \in 0 .. Len(Wiring[s].pins) :
      /\ \A i \in DOMAIN Wiring[s].pins : pins'[Wiring[s].pins[i]] <=> i > level
      /\ 2 * (level * Scale - Len(Wiring[s].pins) * last[Wiring[s].src]) \in -Scale .. Scale

LEMMA StairsStep ==
  ASSUME IInv, InRange, [Next]_uvars, NEW s \in Sink,
         Within01(Wiring[s].src),
         \A i, j \in DOMAIN Wiring[s].pins : Wiring[s].pins[i] = Wiring[s].pins[j] => i = j
  PROVE  Stairs(s)
<1> DEFINE w == Wiring[s].pins
           v == last[Wiring[s].src]
<1>1. SUFFICES ASSUME active = s, active' = NoSink, ~Wiring[s].ordered
               PROVE  \E level \in 0 .. Len(w) :
                        /\ \A i \in DOMAIN w : pins'[w[i]] <=> i > level
                        /\ 2 * (level * Scale - Len(w) * v) \in -Scale .. Scale
  BY DEF Stairs
<1>2. EndUpdate
  BY <1>1, UnitsAssumption
  DEF Next, Pulling, Descend, Compute, Tick, Sense, WritePin, BeginUpdate, uvars
<1>3. v \in 0 .. Scale /\ w \in Seq(Pin) /\ Len(w) \in Nat /\ Len(w) < 256
  BY UnitsAssumption DEF InRange
<1>4. PICK level \in Levels(s) : pins' = Driven(s, level)
  BY <1>1, <1>2 DEF EndUpdate
<1>5. level = Rounded(Len(w) * v)
  <2>1. Rounded(Len(w) * v) \in 0 .. 255
    <3>1. Rounded(Len(w) * v) \in 0 .. Len(w)
      BY <1>3, NearestStep
    <3>2. \A r \in 0 .. Len(w) : r \in 0 .. 255
      BY <1>3
    <3>3. QED
      BY <3>1, <3>2, Zenon
  <2>2. TopLevel(s) = Len(w)
    BY <1>1 DEF TopLevel
  <2>3. QED
    BY <1>4, <2>1, <2>2 DEF Levels
<1>6. level \in 0 .. Len(w) /\ 2 * (level * Scale - Len(w) * v) \in -Scale .. Scale
  BY <1>3, <1>5, NearestStep
<1>7. ASSUME NEW i \in DOMAIN w
      PROVE  pins'[w[i]] <=> i > level
  <2>1. w[i] \in Pin /\ i \in Int /\ level \in Int
    BY <1>3, <1>6
  <2>2. pins'[w[i]] <=> \E j \in DOMAIN w : w[j] = w[i] /\ High(s, level, j)
    BY <1>4, <2>1 DEF Driven
  <2>3. pins'[w[i]] <=> High(s, level, i)
    BY <2>2
  <2>4. QED
    BY <1>1, <2>1, <2>3 DEF High
<1>8. QED
  BY <1>6, <1>7

(* A sink that pulls a unit within 0 and 1 and drives each pin once leaves  *)
(* low the first pins, in number the nearest step to the value it pulled.  *)
THEOREM NearestStairs ==
  ASSUME \A s \in Sink : ~Wiring[s].ordered =>
           /\ Within01(Wiring[s].src)
           /\ \A i, j \in DOMAIN Wiring[s].pins :
                Wiring[s].pins[i] = Wiring[s].pins[j] => i = j
  PROVE  Spec => Thermometer
<1>1. Init => InRange
  BY UnitsAssumption DEF Init, InRange
<1>2. IInv /\ InRange /\ [Next]_uvars => [\A s \in Sink : Stairs(s)]_uvars
  BY StairsStep DEF Stairs
<1>3. Spec => [][\A s \in Sink : Stairs(s)]_uvars
  BY <1>1, <1>2, InRangeStep, Invariance, PTL DEF Spec
<1>4. QED
  BY <1>3 DEF Thermometer, Stairs

=============================================================================
