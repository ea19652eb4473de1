------------------------------ MODULE MCMqtt --------------------------------
EXTENDS MqttSession

\* Two messages tell one acknowledgement from another, the third does not fit.
MCMsgs == {"m1", "m2", "m3"}
MCTooLong == {"m3"}
=============================================================================
