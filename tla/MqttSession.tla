---------------------------- MODULE MqttSession -----------------------------
(***************************************************************************)
(* The MQTT client main() uses: MQTT::Client of lib/mbed-mqtt over a TCP   *)
(* socket, with connect(), publish() at QoS 1, yield() and disconnect().   *)
(* Calls block, so there is one at a time.  A call sends a packet and then *)
(* waits for an answer: waitfor() tests the timer of the call and runs     *)
(* cycle(), which reads one packet in up to three reads.  Time passes      *)
(* between any two steps.  The broker, the network and the socket of mbed  *)
(* OS are outside the repository.                                          *)
(*                                                                         *)
(* What the broker sends is a sequence of bytes, because a read that gives *)
(* up in the middle of a packet leaves the rest of it for the next read.   *)
(* Incoming publications do not occur: nothing subscribes.                 *)
(***************************************************************************)
EXTENDS Integers, Sequences

CONSTANTS
  Msgs,           \* the messages, each published at most once
  TooLong,        \* those whose packet is longer than sendbuf
  MaxId,          \* PacketId::MAX_PACKET_ID
  Issued,         \* bound: publications made before, all answered; the last packet id
  CommandTime,    \* command_timeout_ms
  YieldTime,      \* the argument of yield()
  KeepAlive,      \* keepAliveInterval
  CleanOptions,   \* what the connect options may give for cleansession
  MaxPacket,      \* the largest remaining length that fits in readbuf
  MaxConnects,    \* bound: calls of connect()
  MaxSockets      \* bound: TCP connections opened

ASSUME SessionAssumption ==
  /\ TooLong \subseteq Msgs
  /\ {MaxId, CommandTime, YieldTime, KeepAlive} \subseteq Nat \ {0}
  /\ {MaxPacket, MaxConnects, MaxSockets} \subseteq Nat
  /\ Issued \in 0 .. MaxId
  /\ CleanOptions \subseteq BOOLEAN

VARIABLES
  call,           \* the call under way, "resend" is connect() in its second half
  pc,             \* "check": waitfor() tests the timer, "ready": a read is about
                  \* to be started, "recv": in recv(), "switch": cycle() has its
                  \* packet, "return": cycle() has returned
  part,           \* the read of readPacket(): "head", "len" or "body"
  timer,          \* what is left on the timer of the call, -1 when it is overdue
  armed,          \* the time limit of the read under way, negative: none
  wait,           \* what is left of it
  kind,           \* packet type, or Failed
  rem, mult,      \* rem_len and multiplier of decodePacket()
  body, need,     \* the first two bytes of the body, and how many are missing
  got,            \* what cycle() returned
  cleansession,   \* the caller gives the same option to each connect()
  isconnected, ping_outstanding,
  last_sent, last_received, ping_sent,    \* what is left on the three timers
  next,           \* packetid.next
  inflight,       \* pubbuf and inflightMsgid, NoPublish when the id is 0
  cur,            \* the message of the publish() under way
  up, down,       \* packets on their way to the broker, bytes on their way back
  closed,         \* the broker has closed the connection
  torn,           \* a packet went out incompletely
  served,         \* the broker's answer to CONNECT on this connection, or -1
  connects, sockets,
  stored, result  \* the variables of MqttDelivery

callvars == <<call, pc, part, timer, armed, wait>>
readvars == <<kind, rem, mult, body, need, got>>
sessvars == <<isconnected, ping_outstanding, next, inflight>>
timevars == <<last_sent, last_received, ping_sent>>
netvars  == <<up, down, closed, torn, served>>
bounds   == <<cleansession, connects, sockets>>
history  == <<cur, stored, result>>
vars == <<callvars, readvars, sessvars, timevars, netvars, bounds, history>>
-----------------------------------------------------------------------------
Failed  == -1
NoType  == 0                \* "timed out reading packet"
CONNACK == 2
PUBACK  == 4
SUBACK  == 9
UNSUBACK == 11
PINGRESP == 13
Known   == {NoType, CONNACK, PUBACK, SUBACK, UNSUBACK, PINGRESP}

Refused == 5                \* a return code of the broker other than 0

\* The packets of the broker, as bytes.
Connack(rc) == <<16 * CONNACK, 2, 0, rc>>
Puback(id)  == <<16 * PUBACK, 2, id \div 256, id % 256>>
Pingresp    == <<16 * PINGRESP, 0>>

NoPublish == [type |-> "none"]
Publish(m, id) == [type |-> "PUBLISH", msg |-> m, id |-> id]
Plain(type) == [type |-> type]

Init ==
  /\ call = "none" /\ pc = "idle" /\ part = "head"
  /\ timer = 0 /\ armed = 0 /\ wait = 0
  /\ kind = NoType /\ rem = 0 /\ mult = 1 /\ body = <<>> /\ need = 0 /\ got = NoType
  /\ isconnected = FALSE /\ ping_outstanding = FALSE /\ next = Issued /\ inflight = NoPublish
  /\ last_sent = 0 /\ last_received = 0 /\ ping_sent = 0
  /\ up = <<>> /\ down = <<>> /\ closed = FALSE /\ torn = FALSE /\ served = -1
  /\ cleansession \in CleanOptions /\ connects = 0 /\ sockets = 1
  /\ cur = "none" /\ stored = {} /\ result = [m \in Msgs |-> "none"]
-----------------------------------------------------------------------------
(* sendPacket(): the whole packet goes out and last_sent starts again, or   *)
(* it does not, and some of its bytes may be out.                           *)

Sent(p) == /\ up' = IF closed \/ torn THEN up ELSE Append(up, p)
           /\ last_sent' = KeepAlive
           /\ UNCHANGED <<down, closed, torn, served>>

Unsent == /\ torn' \in {torn, TRUE}
          /\ UNCHANGED <<last_sent, up, down, closed, served>>

\* Mutant: the copy of the last publish is dropped with every session.
CloseAndForget == isconnected' = FALSE /\ ping_outstanding' = FALSE /\ inflight' = NoPublish

(* closeSession(), and cleanSession() when the session is not kept.         *)
CloseSession == /\ isconnected' = FALSE
                /\ ping_outstanding' = FALSE
                /\ inflight' = IF cleansession THEN NoPublish ELSE inflight

\* The call is over, and its local variables with it.
Idle ==
  /\ call' = "none" /\ pc' = "idle" /\ part' = "head"
  /\ timer' = 0 /\ armed' = 0 /\ wait' = 0
  /\ kind' = NoType /\ rem' = 0 /\ mult' = 1 /\ body' = <<>> /\ need' = 0 /\ got' = NoType

Wait(c, t) == call' = c /\ timer' = t /\ pc' = "check" /\ UNCHANGED <<part, armed, wait>>

-----------------------------------------------------------------------------
(* The calls.                                                               *)

\* socket.open() and socket.connect(), on a new socket after the first.
OpenSocket ==
  /\ call = "none" /\ ~isconnected /\ sockets < MaxSockets
  /\ sockets' = sockets + 1
  /\ up' = <<>> /\ down' = <<>> /\ closed' = FALSE /\ torn' = FALSE /\ served' = -1
  /\ UNCHANGED <<callvars, readvars, sessvars, timevars, cleansession, connects, history>>

Connect ==
  /\ call = "none" /\ ~isconnected /\ connects < MaxConnects
  /\ connects' = connects + 1
  /\ \/ Sent(Plain("CONNECT")) /\ last_received' = KeepAlive /\ Wait("connect", CommandTime)
     \/ Unsent /\ UNCHANGED <<callvars, last_received>>
  /\ UNCHANGED <<readvars, sessvars, ping_sent, cleansession, sockets, history>>

\* Mutant: the packet id does not wrap.
NextIdUnbounded == next + 1

NextId == IF next = MaxId THEN 1 ELSE next + 1

\* In a kept session publish() keeps a copy before it sends.  A packet that does
\* not go out ends the call as an answer that does not come (PublishUnanswered).
PublishCall ==
  /\ call = "none" /\ isconnected
  /\ \E m \in Msgs \ TooLong :
       /\ result[m] = "none"
       /\ cur' = m /\ next' = NextId
       /\ result' = [result EXCEPT ![m] = "pending"]
       /\ inflight' = IF cleansession THEN inflight ELSE Publish(m, NextId)
       /\ \/ Sent(Publish(m, NextId)) /\ Wait("publish", CommandTime) /\ got' = got
          \/ /\ Unsent /\ got' = Failed
             /\ call' = "publish" /\ pc' = "return" /\ UNCHANGED <<part, timer, armed, wait>>
  /\ UNCHANGED <<kind, rem, mult, body, need, isconnected, ping_outstanding,
                 last_received, ping_sent, bounds, stored>>

\* A packet that does not fit: the id is used up, nothing is kept or sent, and the
\* session stays open.
PublishTooLong ==
  /\ call = "none" /\ isconnected
  /\ \E m \in TooLong :
       /\ result[m] = "none"
       /\ result' = [result EXCEPT ![m] = "failed"]
  /\ next' = NextId
  /\ UNCHANGED <<callvars, readvars, isconnected, ping_outstanding, inflight, timevars,
                 netvars, bounds, cur, stored>>

YieldCall ==
  /\ call = "none" /\ isconnected
  /\ Wait("yield", YieldTime)
  /\ UNCHANGED <<readvars, sessvars, timevars, netvars, bounds, history>>

Disconnect ==
  /\ call = "none" /\ isconnected
  /\ Sent(Plain("DISCONNECT")) \/ Unsent
  /\ CloseSession
  /\ UNCHANGED <<callvars, readvars, next, last_received, ping_sent, bounds, history>>
-----------------------------------------------------------------------------
(* waitfor(), the loop of yield() and readPacket().                         *)

Expired == timer <= 0

Check ==
  /\ pc = "check" /\ ~Expired
  /\ pc' = "ready" /\ part' = "head"
  /\ UNCHANGED <<call, timer, armed, wait, readvars, sessvars, timevars, netvars, bounds, history>>

\* left_ms() is read and handed to set_timeout(); it is negative once overdue.
Arm ==
  /\ pc = "ready"
  /\ pc' = "recv" /\ armed' = timer /\ wait' = timer
  /\ UNCHANGED <<call, part, timer, readvars, sessvars, timevars, netvars, bounds, history>>

\* readPacket() returns k.
Returns(k) == kind' = k /\ pc' = "switch" /\ UNCHANGED <<part, armed, wait>>

NextRead(p) == part' = p /\ pc' = "ready" /\ UNCHANGED <<armed, wait>>

\* The same read() goes on, and each recv() has the whole time limit again.
Again == wait' = armed /\ UNCHANGED <<pc, part, armed>>

Received == last_received' = KeepAlive /\ UNCHANGED <<last_sent, ping_sent>>

\* The remaining length is r: the packet is too long, has a body, or is complete.
HasLength(r) ==
  /\ rem' = r /\ need' = r /\ body' = <<>>
  /\ IF r > MaxPacket THEN Returns(Failed) /\ UNCHANGED timevars
     ELSE IF r > 0 THEN NextRead("body") /\ UNCHANGED <<kind, timevars>>
     ELSE Returns(kind) /\ Received

RecvHead(c) ==
  /\ part = "head"
  /\ kind' = c \div 16 /\ rem' = 0 /\ mult' = 1
  /\ NextRead("len")
  /\ UNCHANGED <<body, need, timevars>>

RecvLength(c) ==
  /\ part = "len"
  /\ LET r == rem + (c % 128) * mult IN
     IF c >= 128 /\ mult < 128 * 128 * 128
     THEN rem' = r /\ mult' = mult * 128 /\ Again /\ UNCHANGED <<kind, body, need, timevars>>
     ELSE HasLength(r) /\ mult' = mult

RecvBody(c) ==
  /\ part = "body"
  /\ need' = need - 1
  /\ body' = IF Len(body) < 2 THEN Append(body, c) ELSE body
  /\ IF need = 1 THEN Returns(kind) /\ Received
                 ELSE Again /\ UNCHANGED <<kind, timevars>>
  /\ UNCHANGED <<rem, mult>>

Recv ==
  /\ pc = "recv" /\ down # <<>>
  /\ down' = Tail(down)
  /\ RecvHead(Head(down)) \/ RecvLength(Head(down)) \/ RecvBody(Head(down))
  /\ UNCHANGED <<call, timer, got, sessvars, up, closed, torn, served, bounds, history>>

\* Mutant: the read is started without a time limit.
WaitsForClose == closed /\ down = <<>>

\* The time of recv() is over (what is in down may not have arrived), or the
\* connection is closed.
GivesUp == wait = 0 \/ (closed /\ down = <<>>)

\* recv() gives up.  No header byte is "timed out"; a length that does not
\* come is taken for what there is of it; a body that does not come is a failure.
RecvNothing ==
  /\ pc = "recv" /\ GivesUp
  /\ \/ /\ part = "head" /\ Returns(NoType)
        /\ UNCHANGED <<rem, body, need, timevars>>
     \/ part = "len" /\ HasLength(rem)
     \/ /\ part = "body" /\ Returns(Failed)
        /\ UNCHANGED <<rem, body, need, timevars>>
  /\ UNCHANGED <<call, timer, mult, got, sessvars, netvars, bounds, history>>
-----------------------------------------------------------------------------
(* cycle() after readPacket(), with keepalive().                            *)

Outstanding == ping_outstanding /\ kind # PINGRESP

PingDue == ~Outstanding /\ (last_sent = 0 \/ last_received = 0)

CycleReturns(r) == got' = r /\ pc' = "return"

CycleFails ==
  /\ CycleReturns(Failed)
  /\ IF isconnected THEN CloseSession
     ELSE ping_outstanding' = Outstanding /\ UNCHANGED <<isconnected, inflight>>

ReadFailed ==
  /\ kind = Failed /\ CycleFails
  /\ UNCHANGED <<timevars, netvars>>

\* A type the switch has no case for closes the session, but the type is returned
\* and the caller goes on waiting.
Odd ==
  /\ kind \notin Known \cup {Failed}
  /\ CycleReturns(kind)
  /\ IF isconnected THEN CloseSession ELSE UNCHANGED <<isconnected, ping_outstanding, inflight>>
  /\ UNCHANGED <<timevars, netvars>>

PingOverdue ==
  /\ kind \in Known /\ Outstanding /\ ping_sent = 0
  /\ CycleFails
  /\ UNCHANGED <<timevars, netvars>>

Ping ==
  /\ kind \in Known /\ PingDue
  /\ \/ /\ Sent(Plain("PINGREQ")) /\ ping_sent' = KeepAlive
        /\ CycleReturns(kind) /\ ping_outstanding' = TRUE
        /\ UNCHANGED <<isconnected, inflight>>
     \/ Unsent /\ CycleFails /\ UNCHANGED ping_sent
  /\ UNCHANGED last_received

Quiet ==
  /\ kind \in Known /\ ~PingDue /\ ~(Outstanding /\ ping_sent = 0)
  /\ CycleReturns(kind) /\ ping_outstanding' = Outstanding
  /\ UNCHANGED <<isconnected, inflight, timevars, netvars>>

Switch ==
  /\ pc = "switch"
  /\ ReadFailed \/ Odd \/ PingOverdue \/ Ping \/ Quiet
  /\ UNCHANGED <<call, part, timer, armed, wait, kind, rem, mult, body, need, next,
                 bounds, history>>
-----------------------------------------------------------------------------
(* How the calls end.                                                       *)

Wanted == CASE call = "connect" -> CONNACK
            [] call \in {"publish", "resend"} -> PUBACK
            [] OTHER -> Failed

Answered   == pc = "return" /\ got = Wanted
Unanswered == (pc = "check" /\ Expired) \/ (pc = "return" /\ got = Failed)

\* Another packet, or none: waitfor() and yield() go round.
KeepWaiting ==
  /\ pc = "return" /\ got \notin {Wanted, Failed}
  /\ pc' = "check"
  /\ UNCHANGED <<call, part, timer, armed, wait, readvars, sessvars, timevars, netvars, bounds, history>>

YieldEnds ==
  /\ call = "yield" /\ Unanswered
  /\ Idle
  /\ UNCHANGED <<sessvars, timevars, netvars, bounds, history>>

\* Mutant: connected without a look at the result.
ConnectEndsAnyway(rc) == Idle /\ isconnected' = TRUE /\ ping_outstanding' = FALSE

\* connect() returns rc.
ConnectEnds(rc) ==
  /\ Idle
  /\ IF rc = 0 THEN isconnected' = TRUE /\ ping_outstanding' = FALSE
               ELSE UNCHANGED <<isconnected, ping_outstanding>>

\* What MQTTDeserialize_connack() gives: it returns 1, success, for a packet that
\* is too short, and leaves the code as connect() has set it.
ConnackCode == IF rem < 2 THEN 0 ELSE body[2]

\* A publish that is kept is sent again, whatever the answer to CONNECT was.  When it
\* does not go out, the exit of the inner publish() closes the session.
ConnectAnswer ==
  /\ call = "connect" /\ (Answered \/ Unanswered)
  /\ IF inflight = NoPublish
     THEN /\ ConnectEnds(IF Answered THEN ConnackCode ELSE Failed)
          /\ UNCHANGED <<inflight, last_sent, netvars>>
     ELSE \/ /\ Sent(inflight)
             /\ call' = "resend" /\ pc' = "check"
             /\ UNCHANGED <<part, timer, armed, wait, readvars, isconnected, ping_outstanding, inflight>>
          \/ Unsent /\ CloseSession /\ Idle
  /\ UNCHANGED <<next, last_received, ping_sent, bounds, history>>

\* MQTTDeserialize_ack() likewise: the id of a short packet is whatever the
\* variable held.  The id decides about the copy, not about the result.
PublishAnswered ==
  /\ call \in {"publish", "resend"} /\ Answered
  /\ IF inflight = NoPublish THEN inflight' = inflight
     ELSE IF rem < 2 THEN inflight' \in {inflight, NoPublish}
     ELSE inflight' = IF 256 * body[1] + body[2] = inflight.id THEN NoPublish ELSE inflight
  /\ IF call = "publish"
     THEN /\ result' = [result EXCEPT ![cur] = "ok"]
          /\ Idle /\ UNCHANGED <<isconnected, ping_outstanding>>
     ELSE ConnectEnds(0) /\ result' = result
  /\ UNCHANGED <<next, timevars, netvars, bounds, cur, stored>>

\* Mutant: a publish() that gives up leaves the session open.
PublishGivesUp ==
  /\ call \in {"publish", "resend"} /\ Unanswered
  /\ Idle
  /\ result' = IF call = "publish" THEN [result EXCEPT ![cur] = "failed"] ELSE result
  /\ UNCHANGED <<sessvars, timevars, netvars, bounds, cur, stored>>

\* Mutant: connect() does not look at the result of the resend.
ResendUnlooked ==
  /\ call \in {"publish", "resend"} /\ Unanswered
  /\ IF call = "publish"
     THEN CloseSession /\ Idle /\ result' = [result EXCEPT ![cur] = "failed"]
     ELSE ConnectEnds(0) /\ UNCHANGED <<inflight, result>>
  /\ UNCHANGED <<next, timevars, netvars, bounds, cur, stored>>

PublishUnanswered ==
  /\ call \in {"publish", "resend"} /\ Unanswered
  /\ CloseSession /\ Idle
  /\ result' = IF call = "publish" THEN [result EXCEPT ![cur] = "failed"] ELSE result
  /\ UNCHANGED <<next, timevars, netvars, bounds, cur, stored>>
-----------------------------------------------------------------------------
(* Outside the repository: the broker and the clock.                        *)

Answer(bytes) == down' = down \o bytes /\ up' = Tail(up) /\ closed' = closed

\* The broker takes one packet.  A refusal, a second CONNECT, a packet before
\* CONNECT and DISCONNECT make it close the connection.
Broker ==
  /\ up # <<>>
  /\ LET p == Head(up) IN
     \/ /\ p.type = "CONNECT" /\ served = -1
        /\ \/ served' = 0 /\ Answer(Connack(0))
           \/ /\ served' = Refused /\ down' = down \o Connack(Refused)
              /\ up' = <<>> /\ closed' = TRUE
        /\ stored' = stored
     \/ /\ p.type = "PUBLISH" /\ served = 0
        /\ stored' = stored \cup {p.msg}
        /\ Answer(Puback(p.id)) /\ served' = served
     \/ /\ p.type = "PINGREQ" /\ served = 0
        /\ Answer(Pingresp) /\ UNCHANGED <<served, stored>>
     \/ /\ (p.type = "DISCONNECT" \/ (p.type = "CONNECT") # (served = -1))
        /\ up' = <<>> /\ closed' = TRUE /\ UNCHANGED <<down, served, stored>>
  /\ UNCHANGED <<callvars, readvars, sessvars, timevars, torn, bounds, cur, result>>

\* The connection is lost, possibly with what the broker had sent.
Break ==
  /\ ~closed
  /\ closed' = TRUE /\ up' = <<>>
  /\ down' \in {down, <<>>}
  /\ UNCHANGED <<callvars, readvars, sessvars, timevars, torn, served, bounds, history>>

Less(t) == IF t > 0 THEN t - 1 ELSE t

Tick ==
  /\ timer' = IF call # "none" /\ timer >= 0 THEN timer - 1 ELSE timer
  /\ wait' = IF pc = "recv" THEN Less(wait) ELSE wait
  /\ last_sent' = Less(last_sent) /\ last_received' = Less(last_received)
  /\ ping_sent' = Less(ping_sent)
  /\ UNCHANGED <<call, pc, part, armed, readvars, sessvars, netvars, bounds, history>>
-----------------------------------------------------------------------------
Caller == OpenSocket \/ Connect \/ PublishCall \/ PublishTooLong \/ YieldCall \/ Disconnect

Client == \/ Check \/ Arm \/ Recv \/ RecvNothing \/ Switch \/ KeepWaiting
          \/ YieldEnds \/ ConnectAnswer \/ PublishAnswered \/ PublishUnanswered

Next == Caller \/ Client \/ Broker \/ Break \/ Tick

Spec == Init /\ [][Next]_vars

\* A call that is under way goes on, and time passes.
FairSpec == Spec /\ WF_vars(Client) /\ WF_vars(Tick)
-----------------------------------------------------------------------------
(* Properties.                                                              *)

TypeOK ==
  /\ call \in {"none", "connect", "resend", "publish", "yield"}
  /\ pc \in {"idle", "check", "ready", "recv", "switch", "return"}
  /\ part \in {"head", "len", "body"}
  /\ {timer, armed, wait} \subseteq -1 .. (CommandTime + YieldTime)
  /\ next \in 0 .. MaxId
  /\ inflight = NoPublish \/ inflight.id \in 1 .. MaxId
  /\ {last_sent, last_received, ping_sent} \subseteq 0 .. KeepAlive
  /\ {isconnected, ping_outstanding, cleansession, closed, torn} \subseteq BOOLEAN
  /\ served \in {-1, 0, Refused}

\* A client that is connected has had the broker's answer on this very socket.
ConnectedWasServed == isconnected => served # -1

\* ... and the answer was not a refusal.
ConnectedWasAccepted == isconnected => served = 0

\* connect() overwrites the code of the CONNACK, or its absence, with the result of the
\* resend (MQTTClient.h:788).  It ends well all the same only at a broker that has
\* accepted: whatever is left of a refusal in the stream is no answer to the resend.
ResendWasAccepted == [][ call = "resend" /\ isconnected' => served = 0 ]_vars

\* In a kept session a message that fits and was handed to publish() is at the broker
\* or in the copy that the next connect() sends, whatever failed in between: packets,
\* acknowledgements, connections, and publications too long to be sent.
NothingForgotten == ~cleansession =>
  \A m \in Msgs \ TooLong : result[m] # "none" => m \in stored \/ (inflight # NoPublish /\ inflight.msg = m)

\* publish() returns 0 for a message of which the broker has sent a PUBACK.
PublishedIsStored == \A m \in Msgs : result[m] = "ok" => m \in stored

\* What a caller of publish() may rely on, with failures and repetitions.
Delivery == INSTANCE MqttDelivery
ImplementsDelivery == Delivery!Spec

\* A read with no time limit and nothing to come: the timer was overdue when
\* left_ms() was asked, and a negative limit is none.
Hung == pc = "recv" /\ wait < 0 /\ down = <<>> /\ ~closed

\* Every call returns, unless it hangs in such a read.
CallsReturn == call # "none" ~> (call = "none" \/ Hung)
=============================================================================
