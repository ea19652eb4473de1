---------------------------- MODULE MqttDelivery ----------------------------
(***************************************************************************)
(* What a caller of MQTTClient::publish() at QoS 1 may rely on: a publish  *)
(* that returned 0 is at the broker.  One that returned an error may be    *)
(* there too, or may get there later, but not when it does not fit in the  *)
(* client's buffer.                                                        *)
(***************************************************************************)
CONSTANTS Msgs,     \* the messages, each published at most once
          TooLong   \* those that do not fit

VARIABLES stored,   \* the messages the broker has
          result    \* what publish() has returned for each message

dvars == <<stored, result>>

Init == stored = {} /\ result = [m \in Msgs |-> "none"]

Issue(m) == /\ result[m] = "none" /\ m \notin TooLong
            /\ result' = [result EXCEPT ![m] = "pending"]
            /\ stored' = stored

Reject(m) == /\ result[m] = "none" /\ m \in TooLong
             /\ result' = [result EXCEPT ![m] = "failed"]
             /\ stored' = stored

Store(m) == /\ result[m] # "none" /\ m \notin TooLong
            /\ stored' = stored \cup {m}
            /\ result' = result

Succeed(m) == /\ result[m] = "pending" /\ m \in stored
              /\ result' = [result EXCEPT ![m] = "ok"]
              /\ stored' = stored

Fail(m) == /\ result[m] = "pending"
           /\ result' = [result EXCEPT ![m] = "failed"]
           /\ stored' = stored

Next == \E m \in Msgs : Issue(m) \/ Reject(m) \/ Store(m) \/ Succeed(m) \/ Fail(m)

Spec == Init /\ [][Next]_dvars
=============================================================================
