---------------------------- MODULE MCMqttAsync -----------------------------
EXTENDS MqttAsync

\* Accepted, refused in the format of version 3, refused in that of version 5, and
\* accepted with Receive Maximum (33) 48: the property reads as a CONNACK and its value
\* as a PUBLISH.
MCConnacks == {<<32, 2, 0, 0>>, <<32, 2, 0, 5>>, <<32, 3, 0, 135, 0>>,
               <<32, 6, 0, 0, 3, 33, 0, 48>>}
=============================================================================
