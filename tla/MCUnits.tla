------------------------------ MODULE MCUnits ------------------------------
(***************************************************************************)
(* A small graph for the unit library: two sinks that share one            *)
(* source; in the path of the second a PID is fed back into its own error, *)
(* which the library allows.                                               *)
(*                                                                         *)
(*   src --+-- sat ------------------------------- sink "stairs" (3 pins)  *)
(*         +-- relay --+                                                   *)
(*         +-----------+-- sum -- pid --+-- mean -- sink "ctl" (2 pins)    *)
(*                          +-----------+                                  *)
(***************************************************************************)
EXTENDS Units

MCUnit == {"src", "sat", "relay", "sum", "pid", "mean"}

MCGraph ==
  [src   |-> [kind |-> "source", in |-> <<>>],
   sat   |-> [kind |-> "saturation", in |-> <<"src">>, low |-> 0, high |-> 10],
   relay |-> [kind |-> "relay", in |-> <<"src">>, off |-> 2, on |-> 6],
   sum   |-> [kind |-> "sum", in |-> <<"pid", "relay", "src">>,
              sign |-> <<-1, 1, -1>>],
   pid   |-> [kind |-> "pid", in |-> <<"sum">>, kp |-> 2, ki |-> 1, kb |-> 1,
              low |-> 0, high |-> 10],
   mean  |-> [kind |-> "intfilter", in |-> <<"pid">>, k |-> 5]]

MCWiring ==
  [stairs |-> [src |-> "sat", pins |-> <<"p0", "p1", "p2">>, ordered |-> FALSE],
   ctl    |-> [src |-> "mean", pins |-> <<"q0", "q1">>, ordered |-> TRUE]]

MCPin == {"p0", "p1", "p2", "q0", "q1"}
MCReadings == {-13, 4, 8}

=============================================================================
