-------------------------------- MODULE Boot --------------------------------
(***************************************************************************)
(* The part of main() between the bring-up of the network and its loop:    *)
(* one connect(), and two publish() when it succeeds, each a blocking call *)
(* of the client of MqttSession.  The regulator starts when they are over, *)
(* so whether it starts depends on the network.                            *)
(***************************************************************************)
EXTENDS MqttSession

VARIABLE at       \* the statement of main() that is under way

bootvars == <<at, vars>>

\* A socket that main() could not connect is one that breaks before the first step.
BootInit == Init /\ at = "start"

ConnectToBroker == at = "start" /\ Connect /\ at' = "connect"

\* The reading and the ping: the second follows whatever became of the first.
PublishReading == at = "connect" /\ PublishCall /\ at' = "publish"
PublishPing    == at = "publish" /\ PublishCall /\ at' = "ping"

\* Mutant: after a failed publish the ping waits for a connection.
EnterLoopPublished ==
  /\ call = "none" /\ ((at = "connect" /\ ~isconnected) \/ at = "ping")
  /\ at' = "loop"
  /\ UNCHANGED vars

\* A publish() that is not connected fails at once.
EnterLoop ==
  /\ call = "none" /\ ((at \in {"connect", "publish"} /\ ~isconnected) \/ at = "ping")
  /\ at' = "loop"
  /\ UNCHANGED vars

Main == ConnectToBroker \/ PublishReading \/ PublishPing \/ EnterLoop

BootNext == Main \/ ((Client \/ Broker \/ Break \/ Tick) /\ at' = at)

\* main() and the call it is in go on, and time passes.
BootSpec == /\ BootInit /\ [][BootNext]_bootvars
            /\ WF_bootvars(Main) /\ WF_bootvars(Client /\ at' = at) /\ WF_bootvars(Tick /\ at' = at)
-----------------------------------------------------------------------------
(* Properties.                                                              *)

\* The regulator starts whatever the broker and the network do, unless a read
\* without a time limit keeps the only thread for ever (main.cpp:344-392).
LoopBegins == <>(at = "loop") \/ <>[]Hung
=============================================================================
