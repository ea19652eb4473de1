----------------------------- MODULE FilterTest -----------------------------
(***************************************************************************)
(* test_aperiodic_step_response of test/test_pid: a single Aperiodic(1, 1) *)
(* with the input held at 1.0 is asked for its value at regular instants   *)
(* up to five seconds.  The clock ticks four times a second here, against  *)
(* a hundred in the test: a first-order lag computed with either step is   *)
(* within the tolerance of 0.1 at four seconds.                            *)
(***************************************************************************)
EXTENDS Integers, Sequences

CONSTANTS NoSink, Pin, Scale

TestGraph ==
  [input |-> [kind |-> "source", in |-> <<>>],
   w     |-> [kind |-> "aperiodic", in |-> <<"input">>, k |-> 1, tp |-> 4]]

Caller == [test |-> [src |-> "w", pins |-> <<>>, ordered |-> FALSE]]

LastTick == 20

VARIABLES
  last, lastTime, integral, reading, now, time, active, stack, pins,  \* of Units
  asked   \* the test has asked for the value at this instant

U == INSTANCE Units WITH
       Unit <- DOMAIN TestGraph, Graph <- TestGraph,
       Sink <- DOMAIN Caller, Wiring <- Caller,
       Coef <- 1, Readings <- {Scale}, MaxTime <- LastTick, MaxStep <- 1

vars == <<last, lastTime, integral, reading, now, time, active, stack, pins, asked>>

(* Time 0 answers from the cache; the loop of the test starts at i = 1. *)
Init == U!Init /\ asked = TRUE

AskValue ==
  /\ ~asked
  /\ U!BeginUpdate("test")
  /\ asked' = TRUE

Answer == U!Pulling /\ UNCHANGED asked

NextInstant ==
  /\ asked
  /\ now < LastTick
  /\ U!Tick
  /\ asked' = FALSE

Next == AskValue \/ Answer \/ NextInstant

Spec == Init /\ [][Next]_vars /\ WF_vars(Next)

(* test_pid.cpp:96 expects the response to a step of 1.0 to be within 0.1  *)
(* of 1 four seconds after it.                                             *)
SettlesOnInput ==
  now = 16 /\ asked /\ active = NoSink =>
    10 * (last.w - Scale) \in -Scale .. Scale

=============================================================================
