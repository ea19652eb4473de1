------------------------------- MODULE MCBoot -------------------------------
EXTENDS Boot

\* The reading and the ping.
MCMsgs == {"reading", "ping"}
=============================================================================
