------------------------------- MODULE MCVent -------------------------------
(***************************************************************************)
(* Sensors that keep two samples.  The readings of the converter are in    *)
(* thousandths: 535 is 15.0 degrees, 463 is 30.3, 487 is 25.2.             *)
(***************************************************************************)
EXTENDS VentControl

(* PT1000.hpp applied to every sum of two samples, zeros included.         *)
Sums == {0, 463, 487, 535, 926, 974, 998, 1070}

MCTemp ==
  [s \in Sums |->
     CASE s = 0    -> 1304
       [] s = 463  -> 800
       [] s = 487  -> 774
       [] s = 535  -> 722
       [] s = 926  -> 303
       [] s = 974  -> 252
       [] s = 998  -> 227
       [] s = 1070 -> 150]

=============================================================================
