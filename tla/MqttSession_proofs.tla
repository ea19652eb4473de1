------------------------- MODULE MqttSession_proofs -------------------------
(***************************************************************************)
(* What holds of the MQTT session for every set of messages, every range   *)
(* of packet ids and all time limits: the types, that a client which       *)
(* believes to be connected has had an answer of the broker on the socket  *)
(* it uses, and, while no byte of a packet id can be taken for the first   *)
(* byte of an answer, that no message is forgotten and that publish() does *)
(* what MqttDelivery promises.  Nothing is assumed of the order in which   *)
(* bytes arrive, calls give up or connections break.                       *)
(***************************************************************************)
EXTENDS MqttSession, SequenceTheorems, FiniteSetTheorems, TLAPS

USE DEF Failed, NoType, CONNACK, PUBACK, Refused

Moving == pc \in {"check", "ready", "recv", "switch", "return"}

\* Between two calls there is no packet, and during a call the client is at some
\* place of it.
AtRest == IF call = "none" THEN pc = "idle" /\ kind = NoType /\ got = NoType ELSE Moving

\* Whatever the client has or could have read from this socket.
Evidence == \/ isconnected
            \/ down # <<>>
            \/ kind \notin {NoType, Failed}
            \/ got \notin {NoType, Failed}

AllServed == Evidence => served # -1

IInv == AtRest /\ AllServed
-----------------------------------------------------------------------------
LEMMA Initially == Init => IInv
  BY DEF Init, IInv, AtRest, AllServed, Evidence

LEMMA CallerKeeps == IInv /\ Caller => IInv'
<1> SUFFICES ASSUME IInv, Caller PROVE IInv'
  OBVIOUS
<1> USE DEF IInv, AtRest, AllServed, Evidence, Moving
<1>1. CASE OpenSocket
  BY <1>1 DEF OpenSocket, callvars, readvars, sessvars
<1>2. CASE Connect
  BY <1>2 DEF Connect, Sent, Unsent, Wait, callvars, readvars, sessvars
<1>3. CASE PublishCall
  BY <1>3 DEF PublishCall, Sent, Unsent, Wait
<1>6. CASE PublishTooLong
  BY <1>6 DEF PublishTooLong, callvars, readvars, netvars
<1>4. CASE YieldCall
  BY <1>4 DEF YieldCall, Wait, readvars, sessvars, netvars
<1>5. CASE Disconnect
  BY <1>5 DEF Disconnect, Sent, Unsent, CloseSession, callvars, readvars
<1> QED BY <1>1, <1>2, <1>3, <1>4, <1>5, <1>6 DEF Caller

\* A byte that is read was sent by the broker; what is left unread is still there.
LEMMA ReadingKeeps == IInv /\ (Recv \/ RecvNothing) => IInv'
<1> SUFFICES ASSUME IInv, Recv \/ RecvNothing PROVE IInv'
  OBVIOUS
<1> USE DEF IInv, AtRest, AllServed, Evidence, Moving
<1>1. CASE Recv
  <2>1. served # -1 /\ served' = served /\ call # "none" /\ call' = call
    BY <1>1 DEF Recv
  <2>2. Moving'
    BY <1>1 DEF Recv, RecvHead, RecvLength, RecvBody, HasLength, Returns, NextRead, Again
  <2> QED BY <2>1, <2>2
<1>2. CASE RecvNothing
  <2>1. call # "none" /\ call' = call /\ got' = got
        /\ UNCHANGED <<isconnected, down, served>>
    BY <1>2 DEF RecvNothing, sessvars, netvars
  <2>2. Moving' /\ kind' \in {kind, NoType, Failed}
    BY <1>2 DEF RecvNothing, HasLength, Returns, NextRead
  <2> QED BY <2>1, <2>2
<1> QED BY <1>1, <1>2

\* cycle() returns the type of the packet it has read, or a failure.
LEMMA SwitchKeeps == IInv /\ Switch => IInv'
<1> SUFFICES ASSUME IInv, Switch PROVE IInv'
  OBVIOUS
<1> USE DEF IInv, AtRest, AllServed, Evidence, Moving
<1>1. call' = call /\ call # "none" /\ kind' = kind
  BY DEF Switch
<1>2. pc' = "return" /\ got' \in {kind, Failed}
  BY DEF Switch, ReadFailed, Odd, PingOverdue, Ping, Quiet, CycleFails, CycleReturns
<1>3. UNCHANGED <<down, served>>
  BY DEF Switch, ReadFailed, Odd, PingOverdue, Ping, Quiet, Sent, Unsent, netvars
<1>4. CycleFails => (isconnected' => isconnected)
  BY Zenon DEF CycleFails, CloseSession
<1>5. isconnected' => isconnected
  BY <1>4 DEF Switch, ReadFailed, Odd, PingOverdue, Ping, Quiet, CloseSession
<1> QED BY <1>1, <1>2, <1>3, <1>5

\* Only a CONNACK, or a PUBACK for a publish sent again, makes the client connected.
LEMMA ReturnsKeep ==
  IInv /\ (YieldEnds \/ ConnectAnswer \/ PublishAnswered \/ PublishUnanswered) => IInv'
<1> SUFFICES ASSUME IInv, YieldEnds \/ ConnectAnswer \/ PublishAnswered \/ PublishUnanswered
             PROVE  IInv'
  OBVIOUS
<1> USE DEF IInv, AtRest, AllServed, Evidence, Moving
<1>1. CASE YieldEnds
  BY <1>1 DEF YieldEnds, Idle, sessvars, netvars
<1>2. CASE ConnectAnswer
  <2>1. CASE inflight = NoPublish
    <3>1. ConnectEnds(IF Answered THEN ConnackCode ELSE Failed) /\ UNCHANGED <<down, served>>
      BY <1>2, <2>1 DEF ConnectAnswer, netvars
    <3>2. Answered => served # -1
      BY <1>2 DEF ConnectAnswer, Answered, Wanted
    <3> QED BY <3>1, <3>2 DEF ConnectEnds, Idle
  <2>2. CASE inflight # NoPublish
    <3>1. \/ Sent(inflight) /\ call' = "resend" /\ pc' = "check" /\ UNCHANGED <<readvars, isconnected>>
          \/ Unsent /\ CloseSession /\ Idle
      BY <1>2, <2>2 DEF ConnectAnswer
    <3>2. UNCHANGED <<down, served>>
      BY <3>1 DEF Sent, Unsent
    <3>3. CASE call' = "resend" /\ pc' = "check" /\ UNCHANGED <<readvars, isconnected>>
      BY <3>2, <3>3 DEF readvars
    <3>4. CASE CloseSession /\ Idle
      BY <3>2, <3>4 DEF CloseSession, Idle
    <3> QED BY <3>1, <3>3, <3>4
  <2> QED BY <2>1, <2>2
<1>3. CASE PublishAnswered
  <2>1. served # -1 /\ served' = served
    BY <1>3 DEF PublishAnswered, Answered, Wanted, netvars
  <2>2. Idle
    BY <1>3 DEF PublishAnswered, ConnectEnds
  <2> QED BY <2>1, <2>2 DEF Idle
<1>4. CASE PublishUnanswered
  BY <1>4 DEF PublishUnanswered, Idle, CloseSession, netvars
<1> QED BY <1>1, <1>2, <1>3, <1>4

LEMMA OutsideKeeps == IInv /\ (Broker \/ Break \/ Tick) => IInv'
<1> SUFFICES ASSUME IInv, Broker \/ Break \/ Tick PROVE IInv'
  OBVIOUS
<1> USE DEF IInv, AtRest, AllServed, Evidence, Moving
<1>1. CASE Broker
  <2>1. UNCHANGED <<call, pc, kind, got, isconnected>>
    BY <1>1 DEF Broker, callvars, readvars, sessvars
  <2>2. served' # -1 \/ UNCHANGED <<down, served>>
    BY <1>1 DEF Broker
  <2> QED BY <2>1, <2>2
<1>2. CASE Break
  BY <1>2 DEF Break, callvars, readvars, sessvars
<1>3. CASE Tick
  BY <1>3 DEF Tick, readvars, sessvars, netvars
<1> QED BY <1>1, <1>2, <1>3

LEMMA Inductive == IInv /\ [Next]_vars => IInv'
<1> SUFFICES ASSUME IInv, [Next]_vars PROVE IInv'
  OBVIOUS
<1> USE DEF IInv, AtRest, AllServed, Evidence, Moving
<1>1. CASE Check \/ Arm \/ KeepWaiting
  BY <1>1 DEF Check, Arm, KeepWaiting, readvars, sessvars, netvars
<1>2. CASE UNCHANGED vars
  BY <1>2 DEF vars, callvars, readvars, sessvars, netvars
<1> QED BY <1>1, <1>2, CallerKeeps, ReadingKeeps, SwitchKeeps, ReturnsKeep, OutsideKeeps
        DEF Next, Client

\* For every broker and network: isconnected is never set on a socket on which the broker
\* has not answered a CONNECT, late and cut answers and resends included.
THEOREM Served == Spec => []ConnectedWasServed
<1>1. IInv => ConnectedWasServed
  BY DEF IInv, AllServed, Evidence, ConnectedWasServed
<1> QED BY <1>1, Initially, Inductive, PTL DEF Spec

-----------------------------------------------------------------------------
(* Until the broker has accepted, no byte of the stream reads as a PUBACK.  *)

NoAck == served # 0 => down \in Seq(0 .. 63) /\ kind # PUBACK /\ got # PUBACK

NotYetConnected == call \in {"connect", "resend"} => ~isconnected

LEMMA NoAckCaller == NoAck /\ IInv /\ Caller => NoAck'
<1> SUFFICES ASSUME NoAck, IInv, Caller PROVE NoAck'
  OBVIOUS
<1> USE DEF NoAck
<1>1. CASE OpenSocket
  <2>1. down' = <<>> /\ kind' = kind /\ got' = got /\ call = "none"
    BY <1>1 DEF OpenSocket, readvars
  <2>2. kind = NoType /\ got = NoType
    BY <2>1 DEF IInv, AtRest
  <2> QED BY <2>1, <2>2
<1>2. CASE Connect
  BY <1>2 DEF Connect, Sent, Unsent, readvars
<1>3. CASE PublishCall
  <2>1. UNCHANGED <<down, served>>
    BY <1>3 DEF PublishCall, Sent, Unsent
  <2>2. kind' = kind /\ got' \in {got, Failed}
    BY <1>3 DEF PublishCall
  <2> QED BY <2>1, <2>2
<1>4. CASE PublishTooLong \/ YieldCall
  BY <1>4 DEF PublishTooLong, YieldCall, readvars, netvars
<1>5. CASE Disconnect
  BY <1>5 DEF Disconnect, Sent, Unsent, readvars
<1> QED BY <1>1, <1>2, <1>3, <1>4, <1>5 DEF Caller

LEMMA NoAckReading == NoAck /\ (Recv \/ RecvNothing) => NoAck'
<1> SUFFICES ASSUME NoAck, Recv \/ RecvNothing, served' # 0
             PROVE  down' \in Seq(0 .. 63) /\ kind' # PUBACK /\ got' # PUBACK
  BY DEF NoAck
<1>1. served # 0 /\ got' = got
  BY DEF Recv, RecvNothing, netvars
<1>2. down \in Seq(0 .. 63) /\ kind # PUBACK /\ got # PUBACK
  BY <1>1 DEF NoAck
<1>3. CASE Recv
  <2>1. down # <<>> /\ down' = Tail(down)
    BY <1>3 DEF Recv
  <2>2. down' \in Seq(0 .. 63) /\ Head(down) \in 0 .. 63
    BY <2>1, <1>2, HeadTailProperties
  <2>3. \A c \in 0 .. 63 : c \div 16 # PUBACK
    OBVIOUS
  <2>4. kind' \in {kind, Failed, Head(down) \div 16}
    <3>1. RecvHead(Head(down)) \/ RecvLength(Head(down)) \/ RecvBody(Head(down))
      BY <1>3 DEF Recv
    <3> QED BY <3>1 DEF RecvHead, RecvLength, RecvBody, HasLength, Returns
  <2>5. Head(down) \div 16 # PUBACK
    BY <2>2, <2>3, Zenon
  <2> QED BY <1>1, <1>2, <2>2, <2>4, <2>5
<1>4. CASE RecvNothing
  BY <1>1, <1>2, <1>4 DEF RecvNothing, HasLength, Returns, netvars
<1> QED BY <1>3, <1>4

LEMMA NoAckStep == NoAck /\ IInv /\ [Next]_vars => NoAck'
<1> SUFFICES ASSUME NoAck, IInv, [Next]_vars PROVE NoAck'
  OBVIOUS
<1>1. CASE Check \/ Arm \/ KeepWaiting \/ Tick
  BY <1>1 DEF NoAck, Check, Arm, KeepWaiting, Tick, readvars, netvars
<1>2. CASE Switch
  <2>1. kind' = kind /\ got' \in {kind, Failed}
    BY <1>2 DEF Switch, ReadFailed, Odd, PingOverdue, Ping, Quiet, CycleFails, CycleReturns
  <2>2. UNCHANGED <<down, served>>
    BY <1>2 DEF Switch, ReadFailed, Odd, PingOverdue, Ping, Quiet, Sent, Unsent, netvars
  <2> QED BY <2>1, <2>2 DEF NoAck
<1>3. CASE YieldEnds \/ PublishAnswered \/ PublishUnanswered
  <2>1. Idle /\ UNCHANGED <<down, served>>
    BY <1>3 DEF YieldEnds, PublishAnswered, PublishUnanswered, ConnectEnds, netvars
  <2> QED BY <2>1 DEF Idle, NoAck
<1>4. CASE ConnectAnswer
  <2>1. UNCHANGED <<down, served>>
    BY <1>4 DEF ConnectAnswer, Sent, Unsent, netvars
  <2>2. Idle \/ UNCHANGED <<kind, got>>
    BY <1>4 DEF ConnectAnswer, ConnectEnds, readvars
  <2> QED BY <2>1, <2>2 DEF Idle, NoAck
<1>5. CASE Broker
  <2>1. UNCHANGED <<kind, got>>
    BY <1>5 DEF Broker, readvars
  <2>2. \/ served' = 0
        \/ served' = served /\ down' = down
        \/ served = -1 /\ down' = down \o Connack(Refused)
    BY <1>5 DEF Broker, Answer
  <2>3. Connack(Refused) \in Seq(0 .. 63)
    BY DEF Connack
  <2>4. CASE served = -1 /\ down' = down \o Connack(Refused)
    <3>1. down \in Seq(0 .. 63)
      BY <2>4 DEF NoAck
    <3>2. down' \in Seq(0 .. 63)
      BY <2>3, <2>4, <3>1
    <3> QED BY <2>1, <2>4, <3>2 DEF NoAck
  <2> QED BY <2>1, <2>2, <2>4 DEF NoAck
<1>6. CASE Break
  BY <1>6, EmptySeq DEF Break, NoAck, readvars
<1>7. CASE UNCHANGED vars
  BY <1>7 DEF NoAck, vars, readvars, netvars
<1> QED BY <1>1, <1>2, <1>3, <1>4, <1>5, <1>6, <1>7, NoAckCaller, NoAckReading
        DEF Next, Client

LEMMA NotYetConnectedStep == NotYetConnected /\ [Next]_vars => NotYetConnected'
<1> SUFFICES ASSUME NotYetConnected, [Next]_vars PROVE NotYetConnected'
  OBVIOUS
<1> USE DEF NotYetConnected
<1>1. CASE Caller
  BY <1>1 DEF Caller, OpenSocket, Connect, PublishCall, PublishTooLong, YieldCall, Disconnect,
              CloseSession, Wait, callvars, sessvars
<1>2. CASE Check \/ Arm \/ KeepWaiting \/ Recv \/ RecvNothing \/ Broker \/ Break \/ Tick
  BY <1>2 DEF Check, Arm, KeepWaiting, Recv, RecvNothing, Broker, Break, Tick, callvars, sessvars
<1>3. CASE Switch
  <2>1. call' = call
    BY <1>3 DEF Switch
  <2>2. CycleFails => (isconnected' => isconnected)
    BY Zenon DEF CycleFails, CloseSession
  <2>3. isconnected' => isconnected
    BY <1>3, <2>2 DEF Switch, ReadFailed, Odd, PingOverdue, Ping, Quiet, CloseSession
  <2> QED BY <2>1, <2>3
<1>4. CASE YieldEnds \/ PublishAnswered \/ PublishUnanswered
  <2>1. Idle
    BY <1>4 DEF YieldEnds, PublishAnswered, PublishUnanswered, ConnectEnds
  <2> QED BY <2>1 DEF Idle
<1>5. CASE ConnectAnswer
  <2>1. Idle \/ (call = "connect" /\ isconnected' = isconnected)
    BY <1>5 DEF ConnectAnswer, ConnectEnds
  <2> QED BY <2>1 DEF Idle
<1>6. CASE UNCHANGED vars
  BY <1>6 DEF vars, callvars, sessvars
<1> QED BY <1>1, <1>2, <1>3, <1>4, <1>5, <1>6 DEF Next, Client

\* The only step of a resend that makes the client connected is the PUBACK for it.
LEMMA ResendSteps ==
  NoAck /\ NotYetConnected /\ Next /\ call = "resend" /\ isconnected' => served = 0
<1> SUFFICES ASSUME NoAck, NotYetConnected, Next, call = "resend", isconnected'
             PROVE  served = 0
  OBVIOUS
<1>1. ~isconnected
  BY DEF NotYetConnected
<1>2. CASE PublishAnswered
  BY <1>2 DEF PublishAnswered, Answered, Wanted, NoAck
<1>3. CASE Switch
  <2>1. CycleFails => (isconnected' => isconnected)
    BY Zenon DEF CycleFails, CloseSession
  <2> QED BY <1>1, <1>3, <2>1 DEF Switch, ReadFailed, Odd, PingOverdue, Ping, Quiet, CloseSession
<1>4. ~(Caller \/ YieldEnds \/ ConnectAnswer)
  BY DEF Caller, OpenSocket, Connect, PublishCall, PublishTooLong, YieldCall, Disconnect,
         YieldEnds, ConnectAnswer
<1>5. ~(Check \/ Arm \/ KeepWaiting \/ Recv \/ RecvNothing \/ Broker \/ Break \/ Tick \/ PublishUnanswered)
  BY <1>1 DEF Check, Arm, KeepWaiting, Recv, RecvNothing, Broker, Break, Tick,
              PublishUnanswered, CloseSession, sessvars
<1> QED BY <1>2, <1>3, <1>4, <1>5 DEF Next, Client

\* For every packet id, broker and network: when connect() sends the kept message again and
\* ends well, after a refusal or without an answer read, the broker has accepted.
THEOREM ResendAccepted == Spec => ResendWasAccepted
<1>1. Init => NoAck /\ NotYetConnected
  BY EmptySeq DEF Init, NoAck, NotYetConnected
<1>2. NoAck /\ NotYetConnected /\ [Next]_vars =>
        [call = "resend" /\ isconnected' => served = 0]_vars
  BY ResendSteps
<1> QED BY <1>1, <1>2, Initially, Inductive, NoAckStep, NotYetConnectedStep, PTL
        DEF Spec, ResendWasAccepted

-----------------------------------------------------------------------------
(* The types, in the parts a step can disturb.                              *)

CallTypeOK ==
  /\ call \in {"none", "connect", "resend", "publish", "yield"}
  /\ pc \in {"idle", "check", "ready", "recv", "switch", "return"}
  /\ part \in {"head", "len", "body"}
  /\ timer \in -1 .. (CommandTime + YieldTime)
  /\ armed \in -1 .. (CommandTime + YieldTime)
  /\ wait \in -1 .. (CommandTime + YieldTime)

IdTypeOK ==
  /\ next \in 0 .. MaxId
  /\ inflight = NoPublish \/ inflight.id \in 1 .. MaxId

KeepAliveTypeOK ==
  /\ last_sent \in 0 .. KeepAlive
  /\ last_received \in 0 .. KeepAlive
  /\ ping_sent \in 0 .. KeepAlive

FlagTypeOK ==
  /\ {isconnected, ping_outstanding, cleansession, closed, torn} \subseteq BOOLEAN
  /\ served \in {-1, 0, Refused}

Parts == CallTypeOK /\ IdTypeOK /\ KeepAliveTypeOK /\ FlagTypeOK

LEMMA PartsAreTypes == TypeOK <=> Parts
  BY DEF TypeOK, Parts, CallTypeOK, IdTypeOK, KeepAliveTypeOK, FlagTypeOK

LEMMA CallTypes == CallTypeOK /\ [Next]_vars => CallTypeOK'
<1> SUFFICES ASSUME CallTypeOK, [Next]_vars PROVE CallTypeOK'
  OBVIOUS
<1> USE SessionAssumption DEF CallTypeOK, callvars
<1>1. CASE Caller
  BY <1>1 DEF Caller, OpenSocket, Connect, PublishCall, PublishTooLong, YieldCall, Disconnect, Wait
<1>2. CASE Check \/ Arm \/ KeepWaiting
  BY <1>2 DEF Check, Arm, KeepWaiting
<1>3. CASE Recv
  BY <1>3 DEF Recv, RecvHead, RecvLength, RecvBody, HasLength, Returns, NextRead, Again
<1>4. CASE RecvNothing
  BY <1>4 DEF RecvNothing, HasLength, Returns, NextRead
<1>5. CASE Switch
  BY <1>5 DEF Switch, ReadFailed, Odd, PingOverdue, Ping, Quiet, CycleFails, CycleReturns
<1>6. CASE YieldEnds \/ ConnectAnswer \/ PublishAnswered \/ PublishUnanswered
  BY <1>6 DEF YieldEnds, ConnectAnswer, PublishAnswered, PublishUnanswered, ConnectEnds, Idle
<1>7. CASE Broker \/ Break
  BY <1>7 DEF Broker, Break
<1>8. CASE Tick
  BY <1>8 DEF Tick, Less
<1>9. CASE UNCHANGED vars
  BY <1>9 DEF vars
<1> QED BY <1>1, <1>2, <1>3, <1>4, <1>5, <1>6, <1>7, <1>8, <1>9 DEF Next, Client

\* Ids run from 1 to MaxId and round again; 0 is no id of a packet.
LEMMA IdTypes == IdTypeOK /\ [Next]_vars => IdTypeOK'
<1> SUFFICES ASSUME IdTypeOK, [Next]_vars PROVE IdTypeOK'
  OBVIOUS
<1> USE SessionAssumption DEF IdTypeOK, sessvars
<1>1. CASE PublishCall
  <2>1. NextId \in 1 .. MaxId
    BY DEF NextId
  <2>2. next' = NextId /\ (inflight' = inflight \/ \E m \in Msgs : inflight' = Publish(m, NextId))
    BY <1>1 DEF PublishCall
  <2> QED BY <2>1, <2>2 DEF Publish
<1>8. CASE PublishTooLong
  BY <1>8 DEF PublishTooLong, NextId
<1>2. CASE OpenSocket \/ Connect \/ YieldCall \/ Disconnect
  BY <1>2 DEF OpenSocket, Connect, YieldCall, Disconnect, CloseSession
<1>3. CASE Check \/ Arm \/ KeepWaiting \/ Recv \/ RecvNothing \/ YieldEnds
  BY <1>3 DEF Check, Arm, KeepWaiting, Recv, RecvNothing, YieldEnds
<1>4. CASE Switch
  BY <1>4 DEF Switch, ReadFailed, Odd, PingOverdue, Ping, Quiet, CycleFails, CloseSession
<1>5. CASE ConnectAnswer \/ PublishAnswered \/ PublishUnanswered
  BY <1>5 DEF ConnectAnswer, PublishAnswered, PublishUnanswered, CloseSession
<1>6. CASE Broker \/ Break \/ Tick
  BY <1>6 DEF Broker, Break, Tick
<1>7. CASE UNCHANGED vars
  BY <1>7 DEF vars
<1> QED BY <1>1, <1>2, <1>3, <1>4, <1>5, <1>6, <1>7, <1>8 DEF Next, Client, Caller

\* Each timer is unchanged or starts again.
LEMMA Sending == (Unsent \/ \E p : Sent(p)) => last_sent' \in {last_sent, KeepAlive}
  BY DEF Sent, Unsent

LEMMA KeepAliveTypes == KeepAliveTypeOK /\ [Next]_vars => KeepAliveTypeOK'
<1> SUFFICES ASSUME KeepAliveTypeOK, [Next]_vars PROVE KeepAliveTypeOK'
  OBVIOUS
<1> DEFINE Running == /\ last_sent' \in {last_sent, KeepAlive}
                      /\ last_received' \in {last_received, KeepAlive}
                      /\ ping_sent' \in {ping_sent, KeepAlive}
<1>a. Running => KeepAliveTypeOK'
  BY SessionAssumption DEF KeepAliveTypeOK
<1> USE DEF timevars
<1>1. CASE OpenSocket \/ YieldCall \/ PublishTooLong
  BY <1>1, <1>a DEF OpenSocket, YieldCall, PublishTooLong
<1>2. CASE Connect \/ PublishCall \/ Disconnect
  <2>1. Unsent \/ \E p : Sent(p)
    BY <1>2 DEF Connect, PublishCall, Disconnect
  <2>2. last_received' \in {last_received, KeepAlive} /\ ping_sent' = ping_sent
    BY <1>2 DEF Connect, PublishCall, Disconnect
  <2> QED BY <2>1, <2>2, <1>a, Sending
<1>3. CASE Check \/ Arm \/ KeepWaiting \/ YieldEnds
  BY <1>3, <1>a DEF Check, Arm, KeepWaiting, YieldEnds
<1>4. CASE Recv
  BY <1>4, <1>a DEF Recv, RecvHead, RecvLength, RecvBody, HasLength, Received
<1>5. CASE RecvNothing
  BY <1>5, <1>a DEF RecvNothing, HasLength, Received
<1>6. CASE Switch
  <2>1. CASE Ping
    <3>1. Unsent \/ \E p : Sent(p)
      BY <2>1 DEF Ping
    <3>2. last_received' = last_received /\ ping_sent' \in {ping_sent, KeepAlive}
      BY <2>1 DEF Ping
    <3> QED BY <3>1, <3>2, <1>a, Sending
  <2>2. CASE ReadFailed \/ Odd \/ PingOverdue \/ Quiet
    BY <2>2, <1>a DEF ReadFailed, Odd, PingOverdue, Quiet
  <2> QED BY <1>6, <2>1, <2>2 DEF Switch
<1>7. CASE ConnectAnswer
  <2>1. last_sent' = last_sent \/ Unsent \/ \E p : Sent(p)
    BY <1>7 DEF ConnectAnswer
  <2>2. last_received' = last_received /\ ping_sent' = ping_sent
    BY <1>7 DEF ConnectAnswer
  <2> QED BY <2>1, <2>2, <1>a, Sending
<1>8. CASE PublishAnswered \/ PublishUnanswered \/ Broker \/ Break
  BY <1>8, <1>a DEF PublishAnswered, PublishUnanswered, Broker, Break
<1>9. CASE Tick
  BY <1>9, SessionAssumption DEF Tick, Less, KeepAliveTypeOK
<1>10. CASE UNCHANGED vars
  BY <1>10, <1>a DEF vars
<1> QED BY <1>1, <1>2, <1>3, <1>4, <1>5, <1>6, <1>7, <1>8, <1>9, <1>10 DEF Next, Client, Caller

\* The flags are booleans, the answer to CONNECT is one of those a broker gives.
Booleans == /\ isconnected \in BOOLEAN /\ ping_outstanding \in BOOLEAN
            /\ cleansession \in BOOLEAN /\ closed \in BOOLEAN /\ torn \in BOOLEAN
            /\ served \in {-1, 0, Refused}

LEMMA FlagsAreBooleans == FlagTypeOK <=> Booleans
  BY DEF FlagTypeOK, Booleans

LEMMA NetworkFlags ==
  (Unsent \/ \E p : Sent(p)) => closed' = closed /\ served' = served /\ torn' \in {torn, TRUE}
  BY Zenon DEF Sent, Unsent

LEMMA SwitchFlags ==
  Switch => /\ isconnected' \in {isconnected, FALSE}
            /\ ping_outstanding' \in {ping_outstanding, Outstanding, TRUE, FALSE}
<1>1. CycleFails => /\ isconnected' \in {isconnected, FALSE}
                    /\ ping_outstanding' \in {ping_outstanding, Outstanding, TRUE, FALSE}
  BY DEF CycleFails, CloseSession
<1> QED BY <1>1 DEF Switch, ReadFailed, Odd, PingOverdue, Ping, Quiet, CloseSession

LEMMA SwitchNetwork ==
  Switch => closed' = closed /\ served' = served /\ torn' \in {torn, TRUE}
  BY NetworkFlags DEF Switch, ReadFailed, Odd, PingOverdue, Ping, Quiet, netvars

LEMMA FlagTypes == Booleans /\ [Next]_vars => Booleans'
<1> SUFFICES ASSUME Booleans, [Next]_vars PROVE Booleans'
  OBVIOUS
<1> USE DEF Booleans, sessvars, netvars, bounds
<1>1. CASE OpenSocket
  BY <1>1 DEF OpenSocket
<1>2. CASE Connect
  <2>1. Unsent \/ \E p : Sent(p)
    BY <1>2 DEF Connect
  <2> QED BY <1>2, <2>1, NetworkFlags DEF Connect
<1>3. CASE PublishCall
  <2>1. Unsent \/ \E p : Sent(p)
    BY <1>3 DEF PublishCall
  <2> QED BY <1>3, <2>1, NetworkFlags DEF PublishCall
<1>4. CASE Disconnect
  <2>1. Unsent \/ \E p : Sent(p)
    BY <1>4 DEF Disconnect
  <2> QED BY <1>4, <2>1, NetworkFlags DEF Disconnect, CloseSession
<1>5. CASE PublishTooLong \/ YieldCall \/ Check \/ Arm \/ KeepWaiting \/ RecvNothing \/ YieldEnds \/ Tick
  BY <1>5 DEF PublishTooLong, YieldCall, Check, Arm, KeepWaiting, RecvNothing, YieldEnds, Tick
<1>6. CASE Recv
  BY <1>6 DEF Recv
<1>7. CASE Switch
  <2>1. Outstanding \in BOOLEAN
    BY DEF Outstanding
  <2>2. cleansession' = cleansession
    BY <1>7 DEF Switch
  <2> QED BY <1>7, <2>1, <2>2, SwitchFlags, SwitchNetwork
<1>8. CASE ConnectAnswer
  <2>1. UNCHANGED <<closed, served, torn>> \/ Unsent \/ \E p : Sent(p)
    BY <1>8 DEF ConnectAnswer
  <2>2. UNCHANGED <<isconnected, ping_outstanding>> \/ CloseSession \/ \E rc : ConnectEnds(rc)
    BY <1>8 DEF ConnectAnswer
  <2>3. cleansession' = cleansession
    BY <1>8 DEF ConnectAnswer
  <2> QED BY <2>1, <2>2, <2>3, NetworkFlags DEF ConnectEnds, CloseSession
<1>9. CASE PublishAnswered
  BY <1>9 DEF PublishAnswered, ConnectEnds
<1>10. CASE PublishUnanswered
  BY <1>10 DEF PublishUnanswered, CloseSession
<1>11. CASE Broker
  <2>1. closed' \in {closed, TRUE} /\ served' \in {served, 0, Refused}
    BY <1>11 DEF Broker, Answer
  <2> QED BY <1>11, <2>1 DEF Broker
<1>12. CASE Break
  BY <1>12 DEF Break
<1>13. CASE UNCHANGED vars
  BY <1>13 DEF vars
<1> QED BY <1>1, <1>2, <1>3, <1>4, <1>5, <1>6, <1>7, <1>8, <1>9, <1>10, <1>11, <1>12, <1>13
        DEF Next, Client, Caller

\* For every range of packet ids and every time limit: an id on the wire or in the copy of
\* the last publish is never 0 and never beyond the largest, and a timer that is overdue
\* stays so until the call that set it is over.
THEOREM TypeCorrect == Spec => []TypeOK
<1>1. Init => Parts
  <2> SUFFICES ASSUME Init PROVE Parts
    OBVIOUS
  <2>1. CallTypeOK /\ IdTypeOK /\ KeepAliveTypeOK
    BY SessionAssumption DEF Init, CallTypeOK, IdTypeOK, KeepAliveTypeOK
  <2>2. Booleans
    BY SessionAssumption DEF Init, Booleans
  <2> QED BY <2>1, <2>2, FlagsAreBooleans DEF Parts
<1>2. Parts /\ [Next]_vars => Parts'
  <2>1. FlagTypeOK /\ [Next]_vars => FlagTypeOK'
    BY FlagTypes, FlagsAreBooleans DEF FlagTypeOK, Booleans
  <2> QED BY <2>1, CallTypes, IdTypes, KeepAliveTypes DEF Parts
<1>3. Parts => TypeOK
  BY PartsAreTypes
<1> QED BY <1>1, <1>2, <1>3, PTL DEF Spec
-----------------------------------------------------------------------------
(***************************************************************************)
(* Acknowledgements.  Publishing is correct because at most one PUBACK is  *)
(* under way on a connection - in the hands of the client, among the bytes *)
(* it has not read, or still to be given for a PUBLISH in up - and because *)
(* that one is for the message that the next PUBACK is taken for.          *)
(***************************************************************************)

\* Packet types that would deceive the client: in a clean session a CONNACK makes it
\* connected, in a kept one it sends its copy again whatever the answer was.
Mistaken == IF cleansession THEN {CONNACK, PUBACK} ELSE {PUBACK}

\* A read that gives up leaves the id of a PUBACK to be read as a header.  The bytes of
\* this id are no header that matters.
Harmless(id) == (id \div 256) \div 16 \notin Mistaken /\ (id % 256) \div 16 \notin Mistaken
HarmlessIds == Harmless(next)

Publishes == {Publish(m, id) : m \in Msgs \ TooLong, id \in 1 .. MaxId}
Packets == {Plain("CONNECT"), Plain("DISCONNECT"), Plain("PINGREQ")} \cup Publishes

\* The client has begun to read a packet of type t, or has read it and not yet acted.
InHand(t) == \/ pc = "switch" /\ kind = t
             \/ pc \in {"ready", "recv"} /\ part # "head" /\ kind = t
             \/ pc = "return" /\ got = t

\* Where an unread packet of type t may begin.
Headers(t) == {j \in DOMAIN down : down[j] \div 16 = t}

\* The broker has sent a packet of type t that the client has not acted upon.
Given(t) == InHand(t) \/ Headers(t) # {}

Connecting == \E i \in DOMAIN up : up[i].type = "CONNECT"

\* A packet that makes the broker close the connection: DISCONNECT or a second CONNECT.
Closing(i) == \/ up[i].type = "DISCONNECT"
              \/ /\ up[i].type = "CONNECT"
                 /\ served # -1 \/ \E k \in 1 .. i - 1 : up[k].type = "CONNECT"

\* The publications that the broker will acknowledge if nothing breaks.
Live == {i \in DOMAIN up : up[i].type = "PUBLISH" /\ \A j \in 1 .. i - 1 : ~Closing(j)}

\* What is sent now is never answered.
Doomed == torn \/ closed \/ \E i \in DOMAIN up : Closing(i)

\* A PUBACK has come, is on its way or may still be given.
Awaiting == Given(PUBACK) \/ Live # {}

Once(t) == /\ \A j, k \in Headers(t) : j = k
           /\ InHand(t) => Headers(t) = {}

OnePuback == /\ Once(PUBACK)
             /\ \A i, k \in Live : i = k
             /\ Given(PUBACK) => Live = {}

\* The message that the next PUBACK will be taken for.
Awaited == IF cleansession THEN cur ELSE inflight.msg

\* In a clean session an acknowledgement that comes after its call is of no interest.
OwnAnswer == (IF cleansession THEN call = "publish" ELSE Awaiting) =>
  /\ ~cleansession => inflight # NoPublish
  /\ Given(PUBACK) => Awaited \in stored
  /\ \A i \in Live : up[i].msg = Awaited

\* A client that is connected begins its next call with nothing left over.
Settled ==
  /\ call \in {"connect", "resend"} => ~isconnected
  /\ isconnected /\ call \in {"none", "yield"} =>
       ~Awaiting /\ (inflight # NoPublish => inflight.msg \in stored)

\* A socket gives one CONNACK, so one on which a publish() was given up never connects again.
CleanSession == cleansession =>
  /\ inflight = NoPublish /\ call # "resend"
  /\ Once(CONNACK)
  /\ Awaiting \/ isconnected => served # -1 /\ ~Given(CONNACK)

\* connect() on a socket on which a PUBACK is awaited is its second CONNECT: the copy that
\* it sends again is not answered.
KeptSession == ~cleansession =>
  /\ Live # {} => served # -1 \/ Connecting
  /\ call = "connect" => torn \/ closed \/ served # -1 \/ Connecting
  /\ call = "connect" /\ Awaiting => Doomed

AckInv == OnePuback /\ OwnAnswer /\ Settled /\ CleanSession /\ KeptSession

\* What is on the wire and in the copy.
WireOK ==
  /\ cleansession \in BOOLEAN
  /\ up \in Seq(Packets) /\ down \in Seq(Nat)
  /\ inflight \in Publishes \cup {NoPublish}
  /\ \A i \in DOMAIN up : up[i].type = "PUBLISH" => Harmless(up[i].id)
  /\ inflight # NoPublish => Harmless(inflight.id)
-----------------------------------------------------------------------------
LEMMA PacketTypes ==
  \A p \in Packets : /\ p \in Publishes <=> p.type = "PUBLISH"
                     /\ p.type \in {"CONNECT", "DISCONNECT", "PINGREQ", "PUBLISH"}
                     /\ p \in Publishes => p.msg \in Msgs \ TooLong /\ p.id \in 1 .. MaxId
                     /\ p # NoPublish
  BY DEF Packets, Publishes, Publish, Plain, NoPublish

\* A packet other than PUBLISH leaves the live ones as they are, and nothing behind a closing
\* packet is live.
LEMMA SentKeeps ==
  ASSUME NEW p \in Packets, up \in Seq(Packets), Sent(p)
  PROVE  /\ up' \in Seq(Packets)
         /\ UNCHANGED <<down, served, closed, torn>>
         /\ \A i \in DOMAIN up : i \in DOMAIN up' /\ up'[i] = up[i]
         /\ Live \subseteq Live'
         /\ p.type # "PUBLISH" \/ Doomed => Live' = Live
         /\ \A i \in Live' : i \in Live \/ up'[i] = p
         /\ \A i, k \in Live' : i \in Live \/ k \in Live \/ i = k
         /\ Doomed => Doomed'
         /\ Connecting => Connecting'
<1>1. UNCHANGED <<down, served, closed, torn>>
  BY DEF Sent
<1>2. CASE closed \/ torn
  <2>1. up' = up
    BY <1>2 DEF Sent
  <2> QED BY <1>1, <2>1 DEF Live, Doomed, Closing, Connecting
<1>3. CASE ~(closed \/ torn)
  <2>1. up' = Append(up, p)
    BY <1>3 DEF Sent
  <2>2. up' \in Seq(Packets) /\ Len(up') = Len(up) + 1 /\ Len(up) \in Nat
    BY <2>1
  <2>3. \A i \in 1 .. Len(up) : up'[i] = up[i]
    BY <2>1
  <2>4. up'[Len(up) + 1] = p
    BY <2>1
  <2>5. DOMAIN up = 1 .. Len(up) /\ DOMAIN up' = 1 .. Len(up) + 1
    BY <2>2
  <2>6. \A i \in 1 .. Len(up) : Closing(i)' <=> Closing(i)
    BY <1>1, <2>2, <2>3 DEF Closing
  <2>7. \A i \in 1 .. Len(up) : i \in Live' <=> i \in Live
    BY <2>2, <2>3, <2>5, <2>6 DEF Live
  <2>8. Live \subseteq 1 .. Len(up) /\ Live' \subseteq 1 .. Len(up) + 1
    BY <2>5 DEF Live
  <2>9. \A i \in Live' : i \in Live \/ i = Len(up) + 1
    BY <2>2, <2>7, <2>8
  <2>10. p.type # "PUBLISH" \/ Doomed => Len(up) + 1 \notin Live'
    BY <1>3, <2>2, <2>4, <2>5, <2>6 DEF Live, Doomed
  <2>11. Doomed => Doomed'
    BY <1>1, <2>2, <2>5, <2>6 DEF Doomed
  <2>12. Connecting => Connecting'
    BY <2>2, <2>3, <2>5 DEF Connecting
  <2>13. Live \subseteq Live' /\ (p.type # "PUBLISH" \/ Doomed => Live' = Live)
    BY <2>7, <2>8, <2>9, <2>10
  <2>14. /\ \A i \in Live' : i \in Live \/ up'[i] = p
         /\ \A i, k \in Live' : i \in Live \/ k \in Live \/ i = k
    BY <2>4, <2>9
  <2>15. \A i \in DOMAIN up : i \in DOMAIN up' /\ up'[i] = up[i]
    BY <2>2, <2>3, <2>5
  <2> QED BY <1>1, <2>2, <2>11, <2>12, <2>13, <2>14, <2>15
<1> QED BY <1>2, <1>3

\* What the broker has not yet served, and what it has sent, are as before.
NetStays == /\ UNCHANGED <<down, served, closed, stored, cleansession>>
            /\ torn => torn'
            /\ Live' = Live /\ \A i \in Live : up'[i] = up[i]
            /\ Doomed => Doomed'
            /\ Connecting => Connecting'

\* The client has read nothing new, and has not come to believe anything new.
ClientStays == /\ UNCHANGED <<inflight, cur>>
               /\ \A t \in {CONNACK, PUBACK} : InHand(t)' => InHand(t)
               /\ isconnected' => isconnected
               /\ isconnected' /\ call' \in {"none", "yield"} => call \in {"none", "yield"}
               /\ call' \notin {call, "none"} => call = "none" /\ call' = "yield" /\ isconnected

LEMMA Still == AckInv /\ NetStays /\ ClientStays => AckInv'
<1> SUFFICES ASSUME AckInv, NetStays, ClientStays PROVE AckInv'
  OBVIOUS
<1>1. Headers(CONNACK)' = Headers(CONNACK) /\ Headers(PUBACK)' = Headers(PUBACK)
  BY DEF NetStays, Headers
<1>2. \A t \in {CONNACK, PUBACK} : /\ Given(t)' => Given(t)
                                   /\ Once(t) => Once(t)'
  BY <1>1 DEF ClientStays, Given, Once
<1>3. Awaiting' => Awaiting
  BY <1>2 DEF NetStays, Awaiting
<1>4. OnePuback'
  BY <1>2 DEF AckInv, OnePuback, NetStays
<1>5. OwnAnswer'
  <2>1. Awaited' = Awaited
    BY DEF NetStays, ClientStays, Awaited
  <2> QED BY <1>2, <1>3, <2>1 DEF AckInv, OwnAnswer, NetStays, ClientStays
<1>6. Settled'
  BY <1>3 DEF AckInv, Settled, NetStays, ClientStays
<1>7. CleanSession'
  BY <1>2, <1>3 DEF AckInv, CleanSession, NetStays, ClientStays
<1>8. KeptSession'
  BY <1>3 DEF AckInv, KeptSession, NetStays, ClientStays
<1> QED BY <1>4, <1>5, <1>6, <1>7, <1>8 DEF AckInv

LEMMA SameNet == UNCHANGED <<up, down, served, closed, torn, stored, cleansession>> => NetStays
  BY DEF NetStays, Live, Closing, Doomed, Connecting

\* A sendPacket() of something else than a PUBLISH, or of nothing at all.
LEMMA SendingStays ==
  ASSUME WireOK, UNCHANGED <<stored, cleansession>>,
         Unsent \/ \E p \in Packets : p.type # "PUBLISH" /\ Sent(p)
  PROVE  NetStays
<1>1. CASE Unsent
  <2>0. torn => torn'
    BY <1>1, Zenon DEF Unsent
  <2>1. UNCHANGED <<down, served, closed, up>>
    BY <1>1 DEF Unsent
  <2>2. \A i : Closing(i)' <=> Closing(i)
    BY <2>1 DEF Closing
  <2>3. Live' = Live /\ (Doomed => Doomed') /\ Connecting' = Connecting
    BY <2>0, <2>1, <2>2 DEF Live, Doomed, Connecting
  <2> QED BY <2>0, <2>1, <2>3 DEF NetStays
<1>2. ASSUME NEW p \in Packets, p.type # "PUBLISH", Sent(p) PROVE NetStays
  <2>1. \A i \in Live : i \in DOMAIN up
    BY DEF Live
  <2> QED BY <1>2, <2>1, SentKeeps DEF NetStays, WireOK
<1> QED BY <1>1, <1>2

\* In a clean session there is no copy to drop.
LEMMA Closes == AckInv /\ CloseSession => ~isconnected' /\ inflight' = inflight
  BY DEF AckInv, CleanSession, CloseSession

LEMMA IdleHand == Idle => ~InHand(CONNACK)' /\ ~InHand(PUBACK)' /\ call' = "none"
  BY DEF Idle, InHand
-----------------------------------------------------------------------------
LEMMA WaitingKeeps ==
  AckInv /\ IInv /\ (PublishTooLong \/ YieldCall \/ Check \/ Arm \/ RecvNothing \/ KeepWaiting \/ Tick \/ YieldEnds)
    => AckInv'
<1> SUFFICES ASSUME AckInv, IInv,
                    PublishTooLong \/ YieldCall \/ Check \/ Arm \/ RecvNothing \/ KeepWaiting \/ Tick \/ YieldEnds
             PROVE  AckInv'
  OBVIOUS
<1> USE DEF netvars, history, bounds, sessvars, readvars
<1>1. NetStays
  BY SameNet DEF PublishTooLong, YieldCall, Check, Arm, RecvNothing, KeepWaiting, Tick, YieldEnds
<1>2. CASE YieldCall
  <2>1. ClientStays
    BY <1>2 DEF YieldCall, Wait, ClientStays, InHand
  <2> QED BY <1>1, <2>1, Still
<1>6. CASE PublishTooLong
  <2>1. ClientStays
    BY <1>6 DEF PublishTooLong, callvars, ClientStays, InHand
  <2> QED BY <1>1, <2>1, Still
<1>3. CASE Check \/ Arm \/ KeepWaiting \/ Tick
  <2>1. ClientStays
    BY <1>3 DEF Check, Arm, KeepWaiting, Tick, ClientStays, InHand
  <2> QED BY <1>1, <2>1, Still
<1>4. CASE RecvNothing
  <2>1. ClientStays
    BY <1>4 DEF RecvNothing, HasLength, Returns, NextRead, ClientStays, InHand
  <2> QED BY <1>1, <2>1, Still
<1>5. CASE YieldEnds
  <2>1. ClientStays
    BY <1>5, IdleHand DEF YieldEnds, ClientStays
  <2> QED BY <1>1, <2>1, Still
<1> QED BY <1>2, <1>3, <1>4, <1>5, <1>6

LEMMA SwitchSettles == AckInv /\ WireOK /\ Switch => AckInv'
<1> SUFFICES ASSUME AckInv, WireOK, Switch PROVE AckInv'
  OBVIOUS
<1> USE DEF netvars, history, bounds
<1>1. NetStays
  <2>1. CASE Ping
    <3>1. Unsent \/ \E p \in Packets : p.type # "PUBLISH" /\ Sent(p)
      BY <2>1 DEF Ping, Packets, Plain
    <3> QED BY <3>1, SendingStays DEF Switch
  <2>2. CASE ~Ping
    <3>1. UNCHANGED <<up, down, served, closed, torn, stored, cleansession>>
      BY <2>2 DEF Switch, ReadFailed, Odd, PingOverdue, Quiet
    <3> QED BY <3>1, SameNet
  <2> QED BY <2>1, <2>2
<1>2. UNCHANGED inflight /\ (~isconnected' \/ UNCHANGED isconnected)
  <2>1. CycleFails => UNCHANGED inflight /\ (~isconnected' \/ UNCHANGED isconnected)
    BY Closes, Zenon DEF CycleFails
  <2>2. CASE Odd
    BY <2>2, Closes, Zenon DEF Odd
  <2>3. CASE ReadFailed \/ PingOverdue \/ Ping \/ Quiet
    BY <2>1, <2>3 DEF ReadFailed, PingOverdue, Ping, Quiet
  <2> QED BY <2>2, <2>3 DEF Switch
<1>3. pc = "switch" /\ pc' = "return" /\ got' \in {kind, Failed} /\ UNCHANGED <<call, cur>>
  BY DEF Switch, ReadFailed, Odd, PingOverdue, Ping, Quiet, CycleFails, CycleReturns
<1>4. ClientStays
  BY <1>2, <1>3 DEF ClientStays, InHand
<1> QED BY <1>1, <1>4, Still

-----------------------------------------------------------------------------
(* The calls.                                                               *)

LEMMA Emptied == up' = <<>> => Live' = {} /\ ~Connecting'
  BY DEF Live, Connecting

LEMMA Drained == down' = <<>> => Headers(CONNACK)' = {} /\ Headers(PUBACK)' = {}
  BY DEF Headers

\* A new socket has nothing of the old one.
LEMMA OpenSocketSettles == AckInv /\ IInv /\ OpenSocket => AckInv'
<1> SUFFICES ASSUME AckInv, IInv, OpenSocket PROVE AckInv'
  OBVIOUS
<1>1. Live' = {} /\ Headers(CONNACK)' = {} /\ Headers(PUBACK)' = {}
  BY Emptied, Drained DEF OpenSocket
<1>2. call' = "none" /\ pc' = "idle"
  BY DEF OpenSocket, callvars, IInv, AtRest
<1>3. ~Given(CONNACK)' /\ ~Given(PUBACK)' /\ ~Awaiting'
  BY <1>1, <1>2 DEF Given, InHand, Awaiting
<1>4. UNCHANGED <<isconnected, inflight, stored, cleansession>> /\ ~isconnected
  BY DEF OpenSocket, sessvars, history
<1>5. OnePuback' /\ OwnAnswer'
  BY <1>1, <1>2, <1>3 DEF OnePuback, OwnAnswer, Once, Given
<1>6. Settled' /\ KeptSession'
  BY <1>1, <1>2, <1>4 DEF Settled, KeptSession
<1>7. CleanSession'
  BY <1>1, <1>2, <1>3, <1>4 DEF AckInv, CleanSession, Once, Given
<1> QED BY <1>5, <1>6, <1>7 DEF AckInv

\* The second CONNECT on a socket is a closing packet: what has been published before it
\* may be answered, what is published after it will not be.
LEMMA ConnectSettles == AckInv /\ IInv /\ WireOK /\ Connect => AckInv'
<1> SUFFICES ASSUME AckInv, IInv, WireOK, Connect PROVE AckInv'
  OBVIOUS
<1> DEFINE p == Plain("CONNECT")
<1>1. p \in Packets /\ p.type = "CONNECT"
  BY DEF Packets, Plain
<1>2. UNCHANGED <<isconnected, inflight, stored, cleansession, cur, kind, got>>
      /\ ~isconnected /\ call = "none" /\ pc = "idle"
  BY DEF Connect, sessvars, history, readvars, IInv, AtRest
<1>3. NetStays
  BY <1>1, <1>2, SendingStays DEF Connect
<1>4. CASE Sent(p) /\ Wait("connect", CommandTime)
  <2>1. call' = "connect" /\ pc' = "check"
    BY <1>4 DEF Wait
  <2>2. Headers(CONNACK)' = Headers(CONNACK) /\ Headers(PUBACK)' = Headers(PUBACK)
    BY <1>3 DEF NetStays, Headers
  <2>3. /\ Given(CONNACK)' <=> Given(CONNACK)
        /\ Given(PUBACK)' <=> Given(PUBACK)
        /\ ~InHand(CONNACK)' /\ ~InHand(PUBACK)'
        /\ Awaiting' <=> Awaiting
    BY <1>2, <1>3, <2>1, <2>2 DEF Given, InHand, Awaiting, NetStays
  <2>4. OnePuback'
    BY <1>3, <2>2, <2>3 DEF AckInv, OnePuback, Once, NetStays
  <2>5. OwnAnswer'
    <3>1. CASE cleansession
      BY <1>2, <2>1, <3>1 DEF OwnAnswer
    <3>2. CASE ~cleansession
      BY <1>2, <1>3, <2>3, <3>2 DEF AckInv, OwnAnswer, NetStays, Awaited
    <3> QED BY <3>1, <3>2
  <2>6. Settled'
    BY <1>2, <2>1 DEF Settled
  <2>7. CleanSession'
    BY <1>2, <1>3, <2>1, <2>2, <2>3 DEF AckInv, CleanSession, Once, NetStays
  <2>8. torn' \/ closed' \/ served' # -1 \/ Connecting'
    <3>1. CASE torn \/ closed
      BY <1>3, <3>1 DEF NetStays
    <3>2. CASE ~(torn \/ closed)
      <4>1. up' = Append(up, p) /\ up \in Seq(Packets)
        BY <1>4, <3>2 DEF Sent, WireOK
      <4>2. Len(up) + 1 \in DOMAIN up' /\ up'[Len(up) + 1] = p
        BY <1>1, <4>1
      <4> QED BY <1>1, <4>2 DEF Connecting
    <3> QED BY <3>1, <3>2
  <2>9. served # -1 \/ Connecting => Doomed'
    <3>1. CASE torn \/ closed
      BY <1>3, <3>1 DEF NetStays, Doomed
    <3>2. CASE ~(torn \/ closed)
      <4>1. up' = Append(up, p) /\ up \in Seq(Packets) /\ served' = served
        BY <1>4, <3>2 DEF Sent, WireOK
      <4>2. PICK n \in Nat : n = Len(up) + 1
        BY <4>1
      <4>3. n \in DOMAIN up' /\ up'[n] = p
        BY <4>1, <4>2
      <4>4. \A i \in DOMAIN up : i \in 1 .. n - 1 /\ up'[i] = up[i]
        BY <4>1, <4>2
      <4>5. served # -1 \/ Connecting => Closing(n)'
        BY <1>1, <4>1, <4>3, <4>4 DEF Closing, Connecting
      <4> QED BY <4>3, <4>5 DEF Doomed
    <3> QED BY <3>1, <3>2
  <2>10. KeptSession'
    <3>1. ~cleansession /\ Awaiting => served # -1 \/ Connecting
      BY DEF AckInv, KeptSession, Awaiting, Given, Headers, InHand, IInv, AllServed, Evidence
    <3> QED BY <1>2, <1>3, <2>3, <2>8, <2>9, <3>1 DEF KeptSession, NetStays, AckInv
  <2> QED BY <2>4, <2>5, <2>6, <2>7, <2>10 DEF AckInv
<1>5. CASE Unsent /\ UNCHANGED callvars
  <2>1. ClientStays
    BY <1>2, <1>5 DEF ClientStays, callvars, InHand
  <2> QED BY <1>3, <2>1, Still
<1> QED BY <1>4, <1>5 DEF Connect

LEMMA NextIdType == IdTypeOK => NextId \in 1 .. MaxId
  BY SessionAssumption DEF IdTypeOK, NextId

\* publish() starts when no other acknowledgement is under way, so the next one is its own.
LEMMA PublishCallSettles == AckInv /\ IInv /\ WireOK /\ IdTypeOK /\ PublishCall => AckInv'
<1> SUFFICES ASSUME AckInv, IInv, WireOK, IdTypeOK, PublishCall PROVE AckInv'
  OBVIOUS
<1>1. UNCHANGED <<isconnected, stored, cleansession>>
      /\ isconnected /\ call = "none" /\ pc = "idle"
  BY DEF PublishCall, bounds, IInv, AtRest
<1>2. PICK m \in Msgs \ TooLong :
        /\ cur' = m
        /\ inflight' = IF cleansession THEN inflight ELSE Publish(m, NextId)
        /\ call' = "publish"
        /\ \/ Sent(Publish(m, NextId)) /\ pc' = "check"
           \/ Unsent /\ pc' = "return" /\ got' = Failed
  BY DEF PublishCall, Wait
<1>3. PICK p \in Publishes : p = Publish(m, NextId)
  BY NextIdType DEF Publishes
<1>4. p \in Packets /\ p.msg = m /\ p # NoPublish
  BY <1>3, PacketTypes DEF Packets, Publish
<1>5. ~Awaiting /\ Live = {} /\ ~Given(PUBACK) /\ served # -1
  BY <1>1 DEF AckInv, Settled, Awaiting, IInv, AllServed, Evidence
<1>6. /\ UNCHANGED <<down, served>>
      /\ \A i \in Live' : up'[i] = p
      /\ \A i, k \in Live' : i = k
  <2>1. CASE Sent(p)
    BY <1>4, <1>5, <2>1, SentKeeps DEF WireOK
  <2>2. CASE Unsent
    <3>1. UNCHANGED <<up, down, served>>
      BY <2>2 DEF Unsent
    <3>2. Live' = {}
      BY <1>5, <3>1 DEF Live, Closing
    <3> QED BY <3>1, <3>2
  <2> QED BY <1>2, <1>3, <2>1, <2>2
<1>7. Headers(CONNACK)' = Headers(CONNACK) /\ Headers(PUBACK)' = Headers(PUBACK)
  BY <1>6 DEF Headers
<1>8. ~InHand(CONNACK)' /\ ~InHand(PUBACK)'
  BY <1>2 DEF InHand
<1>9. ~Given(PUBACK)' /\ (Given(CONNACK)' => Given(CONNACK))
  BY <1>5, <1>7, <1>8 DEF Given
<1>10. OnePuback'
  BY <1>6, <1>8, <1>9 DEF OnePuback, Once, Given
<1>11. OwnAnswer'
  <2>1. ~cleansession' => inflight' = p
    BY <1>1, <1>2, <1>3
  <2>2. Awaited' = m
    BY <1>1, <1>2, <1>4, <2>1 DEF Awaited
  <2> QED BY <1>1, <1>4, <1>6, <1>9, <2>1, <2>2 DEF OwnAnswer
<1>12. Settled' /\ KeptSession'
  BY <1>2, <1>5, <1>6 DEF Settled, KeptSession
<1>13. CleanSession'
  BY <1>1, <1>2, <1>5, <1>6, <1>7, <1>8, <1>9 DEF AckInv, CleanSession, Once
<1> QED BY <1>10, <1>11, <1>12, <1>13 DEF AckInv

LEMMA DisconnectSettles == AckInv /\ WireOK /\ Disconnect => AckInv'
<1> SUFFICES ASSUME AckInv, WireOK, Disconnect PROVE AckInv'
  OBVIOUS
<1>1. NetStays
  <2>1. Unsent \/ \E p \in Packets : p.type # "PUBLISH" /\ Sent(p)
    BY DEF Disconnect, Packets, Plain
  <2>2. UNCHANGED <<stored, cleansession>>
    BY DEF Disconnect, bounds, history
  <2> QED BY <2>1, <2>2, SendingStays
<1>2. ClientStays
  <2>1. UNCHANGED <<call, pc, part, kind, got, cur>>
    BY DEF Disconnect, callvars, readvars, history
  <2> QED BY <2>1, Closes DEF Disconnect, ClientStays, InHand
<1> QED BY <1>1, <1>2, Still
-----------------------------------------------------------------------------
(* Reading.                                                                 *)

\* What is left after a byte has been taken.
LEMMA TailHeaders ==
  ASSUME NEW t, down \in Seq(Nat), down # <<>>, down' = Tail(down)
  PROVE  /\ \A j : j \in Headers(t)' => j + 1 \in Headers(t)
         /\ \A j : j \in Headers(t)' => j \in Nat \ {0}
         /\ Head(down) \div 16 = t => 1 \in Headers(t)
<1>1. down' \in Seq(Nat) /\ Len(down') = Len(down) - 1 /\ Len(down) \in Nat \ {0}
  OBVIOUS
<1>2. \A j \in 1 .. Len(down) - 1 : down'[j] = down[j + 1]
  OBVIOUS
<1>3. DOMAIN down = 1 .. Len(down) /\ DOMAIN down' = 1 .. Len(down) - 1
  BY <1>1
<1>4. Head(down) = down[1]
  OBVIOUS
<1> QED BY <1>1, <1>2, <1>3, <1>4 DEF Headers

\* An acknowledgement that is unread, or whose first byte is being read, is known already.
LEMMA TakeByte ==
  ASSUME NEW t \in {CONNACK, PUBACK}, down \in Seq(Nat), Recv
  PROVE  (Given(t)' => Given(t)) /\ (Once(t) => Once(t)')
<1>1. pc = "recv" /\ down # <<>> /\ down' = Tail(down)
  BY DEF Recv
<1>2. \/ part = "head" /\ kind' = Head(down) \div 16
      \/ part # "head" /\ kind' \in {kind, Failed}
  BY DEF Recv, RecvHead, RecvLength, RecvBody, HasLength, Returns, NextRead, Again
<1>3. pc' \in {"ready", "recv", "switch"}
  BY DEF Recv, RecvHead, RecvLength, RecvBody, HasLength, Returns, NextRead, Again
<1>4. /\ \A j : j \in Headers(t)' => j + 1 \in Headers(t) /\ j \in Nat \ {0}
      /\ Head(down) \div 16 = t => 1 \in Headers(t)
  BY <1>1, TailHeaders
<1>5. InHand(t)' => kind' = t
  BY <1>3 DEF InHand
<1>6. InHand(t)' => 1 \in Headers(t) \/ InHand(t)
  BY <1>1, <1>2, <1>4, <1>5 DEF InHand
<1>7. Given(t)' => Given(t)
  BY <1>4, <1>6 DEF Given
<1>8. Once(t) => \A j, k \in Headers(t)' : j = k
  <2> SUFFICES ASSUME Once(t), NEW j \in Headers(t)', NEW k \in Headers(t)' PROVE j = k
    OBVIOUS
  <2>1. j + 1 = k + 1 /\ j \in Nat /\ k \in Nat
    BY <1>4 DEF Once
  <2> QED BY <2>1
<1>9. Once(t) /\ InHand(t)' => Headers(t)' = {}
  <2> SUFFICES ASSUME Once(t), InHand(t)', NEW j \in Headers(t)' PROVE FALSE
    OBVIOUS
  <2>1. j + 1 \in Headers(t) /\ j \in Nat \ {0}
    BY <1>4
  <2>2. 1 \in Headers(t)
    BY <1>6, <2>1 DEF Once
  <2>3. j + 1 = 1
    BY <2>1, <2>2 DEF Once
  <2> QED BY <2>1, <2>3
<1> QED BY <1>7, <1>8, <1>9 DEF Once

LEMMA RecvSettles == AckInv /\ IInv /\ WireOK /\ Recv => AckInv'
<1> SUFFICES ASSUME AckInv, IInv, WireOK, Recv PROVE AckInv'
  OBVIOUS
<1>1. UNCHANGED <<call, isconnected, inflight, up, closed, torn, served, cleansession, cur, stored>>
  BY DEF Recv, sessvars, bounds, history
<1>2. \A t \in {CONNACK, PUBACK} : (Given(t)' => Given(t)) /\ (Once(t) => Once(t)')
  BY TakeByte DEF WireOK
<1>3. \A i : Closing(i)' <=> Closing(i)
  BY <1>1 DEF Closing
<1>4. Live' = Live /\ (Doomed' <=> Doomed) /\ (Connecting' <=> Connecting)
  BY <1>1, <1>3 DEF Live, Doomed, Connecting
<1>5. Awaiting' => Awaiting
  BY <1>2, <1>4 DEF Awaiting
<1>6. OnePuback'
  BY <1>2, <1>4 DEF AckInv, OnePuback
<1>7. OwnAnswer'
  <2>1. Awaited' = Awaited
    BY <1>1 DEF Awaited
  <2> QED BY <1>1, <1>2, <1>4, <1>5, <2>1 DEF AckInv, OwnAnswer
<1>8. Settled' /\ CleanSession' /\ KeptSession'
  BY <1>1, <1>2, <1>4, <1>5 DEF AckInv, Settled, CleanSession, KeptSession
<1> QED BY <1>6, <1>7, <1>8 DEF AckInv
-----------------------------------------------------------------------------
(* How the calls end.                                                       *)

\* A PUBACK that ends a call is the only one, and it is for the message of the call.
LEMMA PublishAnsweredSettles == AckInv /\ WireOK /\ PublishAnswered => AckInv'
<1> SUFFICES ASSUME AckInv, WireOK, PublishAnswered PROVE AckInv'
  OBVIOUS
<1>1. UNCHANGED <<up, down, closed, torn, served, cleansession, cur, stored>>
      /\ inflight' \in {inflight, NoPublish}
  BY DEF PublishAnswered, netvars, bounds
<1>2. Idle
  BY DEF PublishAnswered, ConnectEnds
<1>3. InHand(PUBACK) /\ call \in {"publish", "resend"}
  BY DEF PublishAnswered, Answered, Wanted, InHand
<1>4. NetStays
  BY <1>1, SameNet
<1>5. /\ Headers(PUBACK) = {} /\ Live = {}
      /\ ~cleansession => inflight # NoPublish /\ inflight.msg \in stored
  BY <1>3 DEF AckInv, OnePuback, Once, OwnAnswer, Given, Awaiting, Awaited
<1>6. Headers(PUBACK)' = {} /\ Headers(CONNACK)' = Headers(CONNACK)
  BY <1>1, <1>5 DEF Headers
<1>7. ~InHand(CONNACK)' /\ ~InHand(PUBACK)' /\ call' = "none"
  BY <1>2, IdleHand
<1>8. ~Given(PUBACK)' /\ ~Awaiting' /\ (Given(CONNACK)' => Given(CONNACK)) /\ Live' = {}
  BY <1>4, <1>5, <1>6, <1>7 DEF Given, Awaiting, NetStays
<1>9. OnePuback' /\ OwnAnswer' /\ KeptSession'
  BY <1>6, <1>7, <1>8 DEF OnePuback, OwnAnswer, KeptSession, Once
<1>10. Settled'
  <2>1. inflight' # NoPublish => inflight'.msg \in stored
    <3>1. CASE cleansession
      BY <1>1, <3>1 DEF AckInv, CleanSession
    <3>2. CASE ~cleansession
      BY <1>1, <1>5, <3>2
    <3> QED BY <3>1, <3>2
  <2> QED BY <1>1, <1>7, <1>8, <2>1 DEF Settled
<1>11. CleanSession'
  <2>1. Given(PUBACK)
    BY <1>3 DEF Given
  <2> QED BY <1>1, <1>6, <1>7, <1>8, <2>1 DEF AckInv, CleanSession, Once, Awaiting
<1> QED BY <1>9, <1>10, <1>11 DEF AckInv

LEMMA PublishUnansweredSettles == AckInv /\ PublishUnanswered => AckInv'
<1> SUFFICES ASSUME AckInv, PublishUnanswered PROVE AckInv'
  OBVIOUS
<1>1. NetStays
  BY SameNet DEF PublishUnanswered, netvars, bounds
<1>2. ClientStays
  BY IdleHand, Closes DEF PublishUnanswered, ClientStays
<1> QED BY <1>1, <1>2, Still

\* A CONNACK in a clean session, or no copy in a kept one: no acknowledgement is under way.
LEMMA ConnectedSettles ==
  ASSUME AckInv, IInv, call = "connect", inflight = NoPublish, UNCHANGED <<inflight, cur, stored, cleansession>>,
         NetStays, Idle, isconnected' => isconnected \/ InHand(CONNACK)
  PROVE  AckInv'
<1>1. ~isconnected
  BY DEF AckInv, Settled
<1>2. CASE isconnected'
  <2>1. ~InHand(CONNACK)' /\ ~InHand(PUBACK)' /\ call' = "none"
    BY IdleHand
  <2>2. ~Awaiting /\ InHand(CONNACK)
    BY <1>1, <1>2 DEF AckInv, CleanSession, OwnAnswer, Given
  <2>3. Headers(CONNACK)' = Headers(CONNACK) /\ Headers(PUBACK)' = Headers(PUBACK)
    BY DEF NetStays, Headers
  <2>4. ~Given(PUBACK)' /\ ~Awaiting' /\ Live' = {} /\ Headers(PUBACK)' = {}
    BY <2>1, <2>2, <2>3 DEF Awaiting, Given, NetStays
  <2>5. OnePuback' /\ OwnAnswer' /\ KeptSession' /\ Settled'
    BY <2>1, <2>4 DEF OnePuback, OwnAnswer, KeptSession, Settled, Once
  <2>6. CleanSession'
    <3>1. SUFFICES ASSUME cleansession PROVE CleanSession'
      BY DEF CleanSession, NetStays
    <3>2. Headers(CONNACK)' = {} /\ ~Given(CONNACK)'
      BY <2>1, <2>2, <2>3, <3>1 DEF AckInv, CleanSession, Once, Given
    <3>3. served' # -1
      BY <2>2 DEF NetStays, InHand, IInv, AllServed, Evidence
    <3> QED BY <2>1, <3>2, <3>3 DEF CleanSession, Once
  <2> QED BY <2>5, <2>6 DEF AckInv
<1>3. CASE ~isconnected'
  <2>1. ClientStays
    BY <1>3, IdleHand DEF ClientStays
  <2> QED BY <2>1, Still
<1> QED BY <1>2, <1>3

\* A copy that is sent again while its acknowledgement may still come stands behind the
\* second CONNECT, so no second acknowledgement of it comes.
LEMMA ResendSettles ==
  ASSUME AckInv, WireOK, call = "connect", inflight # NoPublish, Sent(inflight), call' = "resend",
         pc' = "check", UNCHANGED <<inflight, isconnected, cur, stored, cleansession>>
  PROVE  AckInv'
<1>1. ~cleansession /\ ~isconnected
  BY DEF AckInv, CleanSession, Settled
<1>2. PICK p \in Publishes : p = inflight
  BY DEF WireOK
<1>3. /\ UNCHANGED <<down, served>>
      /\ \A i \in Live : up'[i] = up[i]
      /\ Doomed => Live' = Live
      /\ \A i \in Live' : i \in Live \/ up'[i] = p
      /\ \A i, k \in Live' : i \in Live \/ k \in Live \/ i = k
      /\ Connecting => Connecting'
  <2>1. \A i \in Live : i \in DOMAIN up
    BY DEF Live
  <2>2. p \in Packets /\ Sent(p)
    BY <1>2 DEF Packets
  <2> QED BY <2>1, <2>2, SentKeeps DEF WireOK
<1>4. Awaiting => Live' = Live
  BY <1>1, <1>3 DEF AckInv, KeptSession
<1>5. Headers(PUBACK)' = Headers(PUBACK) /\ ~InHand(PUBACK)'
  BY <1>3 DEF Headers, InHand
<1>6. Given(PUBACK)' => Given(PUBACK)
  BY <1>5 DEF Given
<1>7. ~Awaiting => Live = {} /\ ~Given(PUBACK)
  BY DEF Awaiting
<1>8. OnePuback'
  BY <1>3, <1>4, <1>5, <1>6, <1>7 DEF AckInv, OnePuback, Once, Awaiting
<1>9. OwnAnswer'
  <2>1. Awaited' = p.msg /\ Awaited = p.msg
    BY <1>1, <1>2 DEF Awaited
  <2>2. Given(PUBACK)' => Awaited' \in stored'
    BY <1>1, <1>6, <2>1 DEF AckInv, OwnAnswer, Awaiting
  <2>3. \A i \in Live' : up'[i].msg = p.msg
    <3> SUFFICES ASSUME NEW i \in Live' PROVE up'[i].msg = p.msg
      OBVIOUS
    <3>1. CASE i \in Live
      BY <1>1, <1>3, <2>1, <3>1 DEF AckInv, OwnAnswer, Awaiting
    <3>2. CASE up'[i] = p
      BY <3>2
    <3> QED BY <1>3, <3>1, <3>2
  <2> QED BY <1>1, <2>1, <2>2, <2>3 DEF OwnAnswer
<1>10. Settled' /\ CleanSession'
  BY <1>1 DEF Settled, CleanSession
<1>11. KeptSession'
  BY <1>1, <1>3 DEF AckInv, KeptSession, Doomed
<1> QED BY <1>8, <1>9, <1>10, <1>11 DEF AckInv

LEMMA ConnectAnswerSettles == AckInv /\ IInv /\ WireOK /\ ConnectAnswer => AckInv'
<1> SUFFICES ASSUME AckInv, IInv, WireOK, ConnectAnswer PROVE AckInv'
  OBVIOUS
<1>1. UNCHANGED <<inflight, cur, stored, cleansession>> /\ call = "connect"
  BY Closes DEF ConnectAnswer, bounds, history
<1>2. CASE inflight = NoPublish
  <2>1. ConnectEnds(IF Answered THEN ConnackCode ELSE Failed) /\ UNCHANGED netvars
    BY <1>2 DEF ConnectAnswer
  <2>2. NetStays
    BY <1>1, <2>1, SameNet DEF netvars
  <2>3. Answered => InHand(CONNACK)
    BY <1>1 DEF Answered, Wanted, InHand
  <2>4. Idle /\ (isconnected' => isconnected \/ InHand(CONNACK))
    BY <2>1, <2>3 DEF ConnectEnds
  <2> QED BY <1>1, <1>2, <2>2, <2>4, ConnectedSettles
<1>3. CASE inflight # NoPublish
  <2>1. CASE Sent(inflight) /\ call' = "resend" /\ pc' = "check" /\ UNCHANGED isconnected
    BY <1>1, <1>3, <2>1, ResendSettles
  <2>2. CASE Unsent /\ CloseSession /\ Idle
    <3>1. NetStays
      BY <1>1, <2>2, SendingStays
    <3>2. ClientStays
      BY <1>1, <2>2, IdleHand, Closes DEF ClientStays
    <3> QED BY <3>1, <3>2, Still
  <2> QED BY <1>3, <2>1, <2>2 DEF ConnectAnswer
<1> QED BY <1>2, <1>3
-----------------------------------------------------------------------------
(* The broker.                                                              *)

\* The broker takes the first packet of up and answers it.
LEMMA TakePacket ==
  ASSUME up \in Seq(Packets), up # <<>>, up' = Tail(up), served' # -1,
         up[1].type # "DISCONNECT", up[1].type = "CONNECT" <=> served = -1,
         UNCHANGED <<closed, torn>>
  PROVE  /\ up' \in Seq(Packets)
         /\ \A i \in Live' : i \in Nat \ {0} /\ i + 1 \in Live /\ up'[i] = up[i + 1]
         /\ Doomed => Doomed'
<1>1. up' \in Seq(Packets) /\ Len(up') = Len(up) - 1 /\ Len(up) \in Nat \ {0}
  OBVIOUS
<1>2. \A i \in 1 .. Len(up) - 1 : up'[i] = up[i + 1]
  OBVIOUS
<1>3. DOMAIN up = 1 .. Len(up) /\ DOMAIN up' = 1 .. Len(up) - 1
  BY <1>1
<1>4. \A i \in DOMAIN up : i # 1 => \E k \in DOMAIN up' : k + 1 = i
  <2> SUFFICES ASSUME NEW i \in DOMAIN up, i # 1 PROVE i - 1 \in DOMAIN up' /\ i - 1 + 1 = i
    OBVIOUS
  <2> QED BY <1>1, <1>3
<1>5. ~Closing(1)
  BY DEF Closing
<1>6. \A i \in DOMAIN up' : Closing(i + 1) <=> Closing(i)'
  <2> SUFFICES ASSUME NEW i \in DOMAIN up' PROVE Closing(i + 1) <=> Closing(i)'
    OBVIOUS
  <2>1. i \in Nat \ {0} /\ i \in 1 .. Len(up) - 1 /\ up'[i] = up[i + 1] /\ 1 \in 1 .. (i + 1) - 1
    BY <1>1, <1>2, <1>3
  <2>2. Closing(i)' <=> up[i + 1].type \in {"DISCONNECT", "CONNECT"}
    BY <2>1 DEF Closing
  <2>3. Closing(i + 1) <=> up[i + 1].type \in {"DISCONNECT", "CONNECT"}
    BY <2>1 DEF Closing
  <2> QED BY <2>2, <2>3
<1>7. \A i \in Live' : i \in Nat \ {0} /\ i + 1 \in Live /\ up'[i] = up[i + 1]
  <2> SUFFICES ASSUME NEW i \in Live' PROVE i \in Nat \ {0} /\ i + 1 \in Live /\ up'[i] = up[i + 1]
    OBVIOUS
  <2>1. i \in DOMAIN up' /\ up'[i].type = "PUBLISH" /\ \A j \in 1 .. i - 1 : ~Closing(j)'
    BY DEF Live
  <2>2. i \in Nat \ {0} /\ i + 1 \in DOMAIN up /\ up'[i] = up[i + 1]
    BY <1>1, <1>2, <1>3, <2>1
  <2>3. ASSUME NEW j \in 1 .. (i + 1) - 1 PROVE ~Closing(j)
    <3>1. CASE j = 1
      BY <1>5, <3>1
    <3>2. CASE j # 1
      <4>1. PICK k \in 1 .. i - 1 : k + 1 = j
        <5>1. j - 1 \in 1 .. i - 1 /\ j - 1 + 1 = j
          BY <2>2, <3>2
        <5> QED BY <5>1
      <4>2. k \in DOMAIN up'
        BY <1>1, <1>3, <2>1, <4>1
      <4> QED BY <1>6, <2>1, <4>1, <4>2
    <3> QED BY <3>1, <3>2
  <2> QED BY <2>1, <2>2, <2>3 DEF Live
<1>8. Doomed => Doomed'
  BY <1>4, <1>5, <1>6 DEF Doomed
<1> QED BY <1>1, <1>7, <1>8

LEMMA AppendHeaders ==
  ASSUME NEW t, NEW bytes \in Seq(Nat), down \in Seq(Nat), down' = down \o bytes,
         \A j \in DOMAIN bytes : j # 1 => bytes[j] \div 16 # t
  PROVE  /\ \A j \in Headers(t)' : j \in Headers(t) \/ (j = Len(down) + 1 /\ bytes # <<>> /\ bytes[1] \div 16 = t)
         /\ Headers(t) \subseteq Headers(t)'
<1>1. down' \in Seq(Nat) /\ Len(down') = Len(down) + Len(bytes) /\ Len(down) \in Nat /\ Len(bytes) \in Nat
  OBVIOUS
<1>2. \A j \in 1 .. Len(down) : down'[j] = down[j]
  OBVIOUS
<1>3. \A j \in 1 .. Len(bytes) : down'[Len(down) + j] = bytes[j]
  OBVIOUS
<1>4. DOMAIN down = 1 .. Len(down) /\ DOMAIN down' = 1 .. Len(down) + Len(bytes) /\ DOMAIN bytes = 1 .. Len(bytes)
  BY <1>1
<1>5. ASSUME NEW j \in Headers(t)', j \notin Headers(t)
      PROVE  j = Len(down) + 1 /\ bytes # <<>> /\ bytes[1] \div 16 = t
  <2>1. j \in 1 .. Len(down) + Len(bytes) /\ down'[j] \div 16 = t
    BY <1>4 DEF Headers
  <2>2. j \notin 1 .. Len(down)
    BY <1>2, <1>4, <1>5, <2>1 DEF Headers
  <2>3. PICK k \in 1 .. Len(bytes) : j = Len(down) + k
    <3>1. j - Len(down) \in 1 .. Len(bytes) /\ j = Len(down) + (j - Len(down))
      BY <1>1, <2>1, <2>2
    <3> QED BY <3>1
  <2>4. bytes[k] \div 16 = t /\ k = 1
    BY <1>3, <1>4, <2>1, <2>3
  <2> QED BY <2>3, <2>4
<1>6. Headers(t) \subseteq Headers(t)'
  BY <1>1, <1>2, <1>4 DEF Headers
<1> QED BY <1>5, <1>6

LEMMA PacketBytes ==
  /\ Connack(0) \in Seq(Nat) /\ Connack(Refused) \in Seq(Nat) /\ Pingresp \in Seq(Nat)
  /\ \A t \in {CONNACK, PUBACK}, rc \in {0, Refused} :
        /\ \A j \in DOMAIN Connack(rc) : j # 1 => Connack(rc)[j] \div 16 # t
        /\ Connack(rc)[1] \div 16 # PUBACK
        /\ Pingresp[1] \div 16 # t /\ \A j \in DOMAIN Pingresp : j # 1 => Pingresp[j] \div 16 # t
  BY DEF Connack, Pingresp, PINGRESP

LEMMA PubackBytes ==
  ASSUME NEW id \in Nat
  PROVE  /\ Puback(id) \in Seq(Nat) /\ Puback(id) # <<>>
         /\ Puback(id)[1] \div 16 = PUBACK
         /\ Harmless(id) => \A t \in Mistaken, j \in DOMAIN Puback(id) : j # 1 => Puback(id)[j] \div 16 # t
<1>1. id \div 256 \in Nat /\ id % 256 \in Nat
  OBVIOUS
<1>2. DOMAIN Puback(id) = 1 .. 4
  BY DEF Puback
<1>3. /\ Puback(id)[1] = 64 /\ Puback(id)[2] = 2
      /\ Puback(id)[3] = id \div 256 /\ Puback(id)[4] = id % 256
  BY DEF Puback
<1>4. Puback(id) \in Seq(Nat) /\ Puback(id) # <<>>
  BY <1>1 DEF Puback
<1>5. Harmless(id) => \A t \in Mistaken, j \in DOMAIN Puback(id) : j # 1 => Puback(id)[j] \div 16 # t
  <2> SUFFICES ASSUME Harmless(id), NEW t \in Mistaken, NEW j \in 2 .. 4
               PROVE  Puback(id)[j] \div 16 # t
    BY <1>2
  <2>1. t \in {CONNACK, PUBACK}
    BY DEF Mistaken
  <2>2. j = 2 \/ j = 3 \/ j = 4
    OBVIOUS
  <2> QED BY <1>3, <2>1, <2>2 DEF Harmless
<1> QED BY <1>3, <1>4, <1>5

\* The broker answers a packet that is not a PUBLISH, and no byte of the answer can be
\* taken for the beginning of a PUBACK.
LEMMA OtherAnswerSettles ==
  ASSUME AckInv, WireOK, UNCHANGED <<callvars, readvars, isconnected, inflight, closed, torn, cur, stored, cleansession>>,
         up # <<>>, up' = Tail(up), served' # -1, up[1].type \in {"CONNECT", "PINGREQ"},
         up[1].type = "CONNECT" <=> served = -1,
         Headers(PUBACK)' = Headers(PUBACK),
         cleansession /\ served # -1 => Headers(CONNACK)' = Headers(CONNACK),
         cleansession => Once(CONNACK)'
  PROVE  AckInv'
<1>1. /\ \A i \in Live' : i \in Nat \ {0} /\ i + 1 \in Live /\ up'[i] = up[i + 1]
      /\ Doomed => Doomed'
  BY TakePacket DEF WireOK
<1>2. \A t : InHand(t)' <=> InHand(t)
  BY DEF InHand, callvars, readvars
<1>3. (Given(PUBACK)' <=> Given(PUBACK)) /\ (Awaiting' => Awaiting)
  BY <1>1, <1>2 DEF Given, Awaiting
<1>4. OnePuback'
  <2>1. \A i, k \in Live' : i = k
    <3> SUFFICES ASSUME NEW i \in Live', NEW k \in Live' PROVE i = k
      OBVIOUS
    <3>1. i + 1 = k + 1 /\ i \in Nat /\ k \in Nat
      BY <1>1 DEF AckInv, OnePuback
    <3> QED BY <3>1
  <2> QED BY <1>1, <1>2, <1>3, <2>1 DEF AckInv, OnePuback, Once
<1>5. OwnAnswer'
  <2>1. Awaited' = Awaited /\ call' = call
    BY DEF Awaited, callvars
  <2> QED BY <1>1, <1>3, <2>1 DEF AckInv, OwnAnswer
<1>6. Settled' /\ KeptSession'
  BY <1>1, <1>3 DEF AckInv, Settled, KeptSession, callvars
<1>7. CleanSession'
  <2> SUFFICES ASSUME cleansession PROVE CleanSession'
    BY DEF CleanSession
  <2>1. inflight' = NoPublish /\ call' # "resend"
    BY DEF AckInv, CleanSession, callvars
  <2>2. Awaiting' \/ isconnected' => served # -1 /\ ~Given(CONNACK)
    BY <1>3 DEF AckInv, CleanSession
  <2>3. Awaiting' \/ isconnected' => ~Given(CONNACK)'
    BY <1>2, <2>2 DEF Given
  <2> QED BY <2>1, <2>3 DEF CleanSession
<1> QED BY <1>4, <1>5, <1>6, <1>7 DEF AckInv

\* The broker closes the connection, and answers nothing that comes after.
LEMMA ClosingSettles ==
  ASSUME AckInv, UNCHANGED <<callvars, readvars, isconnected, inflight, torn, cur, stored, cleansession>>,
         up' = <<>>, closed' = TRUE, served' = -1 => served = -1,
         Headers(PUBACK)' \in {{}, Headers(PUBACK)},
         cleansession /\ served # -1 => Headers(CONNACK)' \in {{}, Headers(CONNACK)},
         cleansession => Once(CONNACK)'
  PROVE  AckInv'
<1>1. Live' = {} /\ Doomed'
  BY Emptied DEF Doomed
<1>2. \A t : InHand(t)' <=> InHand(t)
  BY DEF InHand, callvars, readvars
<1>3. (Given(PUBACK)' => Given(PUBACK)) /\ (Awaiting' => Awaiting)
  BY <1>1, <1>2 DEF Given, Awaiting
<1>4. OnePuback'
  BY <1>1, <1>2 DEF AckInv, OnePuback, Once
<1>5. OwnAnswer'
  <2>1. Awaited' = Awaited /\ call' = call
    BY DEF Awaited, callvars
  <2> QED BY <1>1, <1>3, <2>1 DEF AckInv, OwnAnswer
<1>6. Settled' /\ KeptSession'
  BY <1>1, <1>3 DEF AckInv, Settled, KeptSession, callvars
<1>7. CleanSession'
  <2> SUFFICES ASSUME cleansession PROVE CleanSession'
    BY DEF CleanSession
  <2>1. inflight' = NoPublish /\ call' # "resend"
    BY DEF AckInv, CleanSession, callvars
  <2>2. Awaiting' \/ isconnected' => served # -1 /\ ~Given(CONNACK)
    BY <1>3 DEF AckInv, CleanSession
  <2>3. Awaiting' \/ isconnected' => ~Given(CONNACK)'
    BY <1>2, <2>2 DEF Given
  <2> QED BY <2>1, <2>2, <2>3 DEF CleanSession
<1> QED BY <1>4, <1>5, <1>6, <1>7 DEF AckInv

\* The broker takes a PUBLISH: it was the one that was live, and now its PUBACK is on the way.
LEMMA StoreSettles ==
  ASSUME AckInv, WireOK, UNCHANGED <<callvars, readvars, isconnected, inflight, closed, torn, served, cur, cleansession>>,
         up # <<>>, up' = Tail(up), served = 0, up[1].type = "PUBLISH",
         stored' = stored \cup {up[1].msg}, down' = down \o Puback(up[1].id)
  PROVE  AckInv'
<1>1. /\ \A i \in Live' : i \in Nat \ {0} /\ i + 1 \in Live /\ up'[i] = up[i + 1]
      /\ Doomed => Doomed'
  <2>1. up \in Seq(Packets) /\ served' # -1 /\ UNCHANGED <<closed, torn>>
    BY DEF WireOK
  <2>2. up[1].type # "DISCONNECT" /\ (up[1].type = "CONNECT" <=> served = -1)
    OBVIOUS
  <2> QED BY <2>1, <2>2, TakePacket
<1>2. up[1] \in Publishes /\ Harmless(up[1].id) /\ 1 \in Live
  <2>1. 1 \in DOMAIN up /\ up[1] \in Packets
    BY DEF WireOK
  <2> QED BY <2>1, PacketTypes DEF WireOK, Live
<1>3. PICK id \in Nat : id = up[1].id
  <2>1. up[1].id \in 1 .. MaxId
    BY <1>2, PacketTypes DEF Packets
  <2> QED BY <2>1, SessionAssumption
<1>4. ~Given(PUBACK) /\ Awaiting /\ Headers(PUBACK) = {} /\ ~InHand(PUBACK)
  BY <1>2 DEF AckInv, OnePuback, Given, Awaiting
<1>5. \A t : InHand(t)' <=> InHand(t)
  BY DEF InHand, callvars, readvars
<1>6. Live' = {}
  <2> SUFFICES ASSUME NEW i \in Live' PROVE FALSE
    OBVIOUS
  <2>1. i + 1 = 1 /\ i \in Nat \ {0}
    BY <1>1, <1>2 DEF AckInv, OnePuback
  <2> QED BY <2>1
<1>7. \A t \in Mistaken : \A j \in DOMAIN Puback(id) : j # 1 => Puback(id)[j] \div 16 # t
  BY <1>2, <1>3, PubackBytes
<1>8. \A j \in Headers(PUBACK)' : j = Len(down) + 1
  <2>1. PUBACK \in Mistaken
    BY DEF Mistaken
  <2> QED BY <1>3, <1>4, <1>7, <2>1, PubackBytes, AppendHeaders DEF WireOK
<1>9. OnePuback'
  BY <1>4, <1>5, <1>6, <1>8 DEF OnePuback, Once
<1>10. OwnAnswer'
  <2>1. Awaited' = Awaited /\ call' = call
    BY DEF Awaited, callvars
  <2>2. (IF cleansession THEN call = "publish" ELSE Awaiting) => up[1].msg = Awaited
    BY <1>2, <1>4 DEF AckInv, OwnAnswer
  <2> QED BY <1>4, <1>6, <2>1, <2>2 DEF AckInv, OwnAnswer
<1>11. Settled'
  BY <1>4 DEF AckInv, Settled, callvars
<1>12. CleanSession'
  <2> SUFFICES ASSUME cleansession PROVE CleanSession'
    BY DEF CleanSession
  <2>1. ~Given(CONNACK) /\ inflight = NoPublish /\ call # "resend"
    BY <1>4 DEF AckInv, CleanSession
  <2>2. \A j \in Headers(CONNACK)' : j \in Headers(CONNACK)
    <3>1. CONNACK \in Mistaken
      BY DEF Mistaken
    <3>2. \A j \in DOMAIN Puback(id) : j # 1 => Puback(id)[j] \div 16 # CONNACK
      BY <1>7, <3>1
    <3>3. Puback(id) \in Seq(Nat) /\ Puback(id)[1] \div 16 = PUBACK
      BY PubackBytes
    <3>4. Puback(id)[1] \div 16 # CONNACK
      BY <3>3
    <3>5. down' = down \o Puback(id) /\ down \in Seq(Nat)
      BY <1>3 DEF WireOK
    <3> QED BY <3>2, <3>3, <3>4, <3>5, AppendHeaders
  <2>3. ~Given(CONNACK)' /\ Headers(CONNACK)' = {}
    BY <1>5, <2>1, <2>2 DEF Given
  <2> QED BY <2>1, <2>3 DEF CleanSession, Once, callvars
<1>13. KeptSession'
  BY <1>1, <1>4, <1>6 DEF AckInv, KeptSession, callvars
<1> QED BY <1>9, <1>10, <1>11, <1>12, <1>13 DEF AckInv

LEMMA BrokerSettles == AckInv /\ IInv /\ WireOK /\ Broker => AckInv'
<1> SUFFICES ASSUME AckInv, IInv, WireOK, Broker PROVE AckInv'
  OBVIOUS
<1> DEFINE p == Head(up)
<1>1. UNCHANGED <<callvars, readvars, isconnected, inflight, torn, cleansession, cur>>
      /\ up # <<>> /\ p = up[1]
  BY DEF Broker, sessvars, bounds, WireOK
<1>2. served = -1 => down = <<>> /\ ~InHand(CONNACK)
  BY DEF IInv, AllServed, Evidence, InHand
<1>3. served = -1 => Headers(CONNACK) = {} /\ ~InHand(CONNACK)'
  BY <1>1, <1>2 DEF Headers, InHand, callvars, readvars
<1>4. ASSUME p.type = "CONNECT", served = -1, NEW rc \in {0, Refused}, down' = down \o Connack(rc)
      PROVE  Headers(PUBACK)' = Headers(PUBACK) /\ Once(CONNACK)'
  <2>1. Headers(PUBACK)' = Headers(PUBACK)
    BY <1>4, PacketBytes, AppendHeaders DEF WireOK
  <2>2. \A j \in Headers(CONNACK)' : j = Len(down) + 1
    BY <1>3, <1>4, PacketBytes, AppendHeaders DEF WireOK
  <2> QED BY <1>3, <1>4, <2>1, <2>2 DEF Once
<1>5. CASE p.type = "CONNECT" /\ served = -1 /\ served' = 0 /\ Answer(Connack(0)) /\ stored' = stored
  BY <1>1, <1>4, <1>5, OtherAnswerSettles DEF Answer
<1>6. CASE /\ p.type = "CONNECT" /\ served = -1 /\ served' = Refused /\ down' = down \o Connack(Refused)
           /\ up' = <<>> /\ closed' = TRUE /\ stored' = stored
  BY <1>1, <1>4, <1>6, ClosingSettles
<1>7. CASE /\ p.type = "PUBLISH" /\ served = 0 /\ stored' = stored \cup {p.msg}
           /\ Answer(Puback(p.id)) /\ served' = served
  BY <1>1, <1>7, StoreSettles DEF Answer
<1>8. CASE /\ p.type = "PINGREQ" /\ served = 0 /\ Answer(Pingresp) /\ UNCHANGED <<served, stored>>
  <2>1. \A t \in {CONNACK, PUBACK} : Headers(t)' = Headers(t)
    BY <1>8, PacketBytes, AppendHeaders DEF WireOK, Answer
  <2>2. cleansession => Once(CONNACK)'
    BY <1>1, <2>1 DEF AckInv, CleanSession, Once, InHand, callvars, readvars
  <2> QED BY <1>1, <1>8, <2>1, <2>2, OtherAnswerSettles DEF Answer
<1>9. CASE up' = <<>> /\ closed' = TRUE /\ UNCHANGED <<down, served, stored>>
  <2>1. \A t \in {CONNACK, PUBACK} : Headers(t)' = Headers(t)
    BY <1>9 DEF Headers
  <2>2. cleansession => Once(CONNACK)'
    BY <1>1, <2>1 DEF AckInv, CleanSession, Once, InHand, callvars, readvars
  <2> QED BY <1>1, <1>9, <2>1, <2>2, ClosingSettles
<1> QED BY <1>5, <1>6, <1>7, <1>8, <1>9 DEF Broker

LEMMA BreakSettles == AckInv /\ WireOK /\ Break => AckInv'
<1> SUFFICES ASSUME AckInv, WireOK, Break PROVE AckInv'
  OBVIOUS
<1>1. UNCHANGED <<callvars, readvars, isconnected, inflight, torn, served, cur, stored, cleansession>>
  BY DEF Break, sessvars, bounds, history
<1>2. up' = <<>> /\ closed' = TRUE /\ down' \in {down, <<>>}
  BY DEF Break
<1>3. \A t \in {CONNACK, PUBACK} : Headers(t)' \in {{}, Headers(t)}
  BY <1>2, Drained DEF Headers
<1>4. cleansession => Once(CONNACK)'
  BY <1>1, <1>3 DEF AckInv, CleanSession, Once, InHand, callvars, readvars
<1> QED BY <1>1, <1>2, <1>3, <1>4, ClosingSettles

LEMMA AckStep == AckInv /\ IInv /\ WireOK /\ IdTypeOK /\ [Next]_vars => AckInv'
<1> SUFFICES ASSUME AckInv, IInv, WireOK, IdTypeOK, [Next]_vars PROVE AckInv'
  OBVIOUS
<1>1. CASE Caller
  BY <1>1, OpenSocketSettles, ConnectSettles, PublishCallSettles, WaitingKeeps, DisconnectSettles
     DEF Caller
<1>2. CASE Client
  BY <1>2, WaitingKeeps, RecvSettles, SwitchSettles, ConnectAnswerSettles, PublishAnsweredSettles,
     PublishUnansweredSettles DEF Client
<1>3. CASE Broker \/ Break \/ Tick
  BY <1>3, BrokerSettles, BreakSettles, WaitingKeeps
<1>4. CASE UNCHANGED vars
  <2>1. NetStays
    BY <1>4, SameNet DEF vars, netvars, bounds, history
  <2>2. ClientStays
    BY <1>4 DEF vars, callvars, readvars, sessvars, history, ClientStays, InHand
  <2> QED BY <2>1, <2>2, Still
<1> QED BY <1>1, <1>2, <1>3, <1>4 DEF Next
-----------------------------------------------------------------------------
(* What is on the wire.                                                     *)

\* Where a packet in up may come from: it was there, it is no PUBLISH, it is the copy, or
\* publish() has just made it.
Sources == {up[k] : k \in DOMAIN up} \cup (Packets \ Publishes) \cup ({inflight} \cap Publishes)
           \cup (IF PublishCall THEN {Publish(cur', next')} \cap Publishes ELSE {})

LEMMA UpSteps ==
  ASSUME WireOK, IdTypeOK, [Next]_vars
  PROVE  up' \in Seq(Packets) /\ \A i \in DOMAIN up' : up'[i] \in Sources
<1> DEFINE Goal == up' \in Seq(Packets) /\ \A i \in DOMAIN up' : up'[i] \in Sources
<1> USE DEF netvars
<1>0. up \in Seq(Packets) /\ \A k \in DOMAIN up : up[k] \in Sources
  BY DEF WireOK, Sources
<1>a. ASSUME NEW p \in Packets, p \in Sources, Sent(p) PROVE Goal
  <2>1. CASE closed \/ torn
    BY <1>0, <1>a, <2>1 DEF Sent
  <2>2. CASE ~(closed \/ torn)
    <3>1. up' = Append(up, p)
      BY <1>a, <2>2 DEF Sent
    <3>2. \A i \in DOMAIN up' : up'[i] = p \/ (i \in DOMAIN up /\ up'[i] = up[i])
      BY <1>0, <3>1
    <3> QED BY <1>0, <1>a, <3>1, <3>2
  <2> QED BY <2>1, <2>2
<1>b. up' = up \/ up' = <<>> => Goal
  <2>1. CASE up' = up
    BY <1>0, <2>1
  <2>2. CASE up' = <<>>
    BY <2>2
  <2> QED BY <2>1, <2>2
<1>c. Unsent => Goal
  BY <1>b DEF Unsent
<1>d. \A p \in {Plain("CONNECT"), Plain("DISCONNECT"), Plain("PINGREQ")} : p \in Packets /\ p \in Sources
  <2>1. \A p \in {Plain("CONNECT"), Plain("DISCONNECT"), Plain("PINGREQ")} : p \in Packets /\ p.type # "PUBLISH"
    BY DEF Packets, Plain
  <2> QED BY <2>1, PacketTypes DEF Sources
<1>e. SUFFICES Goal
  OBVIOUS
<1> HIDE DEF Goal
<1>1. CASE OpenSocket \/ YieldCall \/ PublishTooLong
  BY <1>1, <1>b DEF OpenSocket, YieldCall, PublishTooLong
<1>2. CASE Connect \/ Disconnect
  BY <1>2, <1>a, <1>c, <1>d DEF Connect, Disconnect
<1>3. CASE PublishCall
  <2>1. PICK m \in Msgs \ TooLong : cur' = m /\ next' = NextId /\ (Sent(Publish(m, NextId)) \/ Unsent)
    BY <1>3 DEF PublishCall
  <2>2. PICK p \in Publishes : p = Publish(m, NextId)
    BY NextIdType DEF Publishes
  <2>3. p \in Packets /\ p \in Sources
    BY <1>3, <2>1, <2>2 DEF Packets, Sources
  <2> QED BY <2>1, <2>2, <2>3, <1>a, <1>c
<1>4. CASE Check \/ Arm \/ KeepWaiting \/ Recv \/ RecvNothing \/ YieldEnds \/ Tick
  BY <1>4, <1>b DEF Check, Arm, KeepWaiting, Recv, RecvNothing, YieldEnds, Tick
<1>5. CASE Switch
  <2>1. CASE Ping
    BY <2>1, <1>a, <1>c, <1>d DEF Ping
  <2>2. CASE ReadFailed \/ Odd \/ PingOverdue \/ Quiet
    BY <2>2, <1>b DEF ReadFailed, Odd, PingOverdue, Quiet
  <2> QED BY <1>5, <2>1, <2>2 DEF Switch
<1>6. CASE ConnectAnswer
  <2>1. CASE inflight = NoPublish
    BY <1>6, <2>1, <1>b DEF ConnectAnswer
  <2>2. CASE inflight # NoPublish
    <3>1. PICK p \in Publishes : p = inflight
      BY <2>2 DEF WireOK
    <3>2. p \in Packets /\ p \in Sources
      BY <3>1 DEF Packets, Sources
    <3>3. Sent(p) \/ Unsent
      BY <1>6, <2>2, <3>1 DEF ConnectAnswer
    <3> QED BY <3>2, <3>3, <1>a, <1>c
  <2> QED BY <2>1, <2>2
<1>7. CASE PublishAnswered \/ PublishUnanswered
  BY <1>7, <1>b DEF PublishAnswered, PublishUnanswered
<1>8. CASE Broker
  <2>1. CASE up' = <<>>
    BY <2>1, <1>b
  <2>2. CASE up' = Tail(up) /\ up # <<>>
    <3>1. up' \in Seq(Packets) /\ Len(up') = Len(up) - 1 /\ Len(up) \in Nat \ {0}
      BY <1>0, <2>2
    <3>2. \A i \in DOMAIN up' : i + 1 \in DOMAIN up /\ up'[i] = up[i + 1]
      BY <1>0, <2>2, <3>1
    <3> QED BY <1>0, <3>1, <3>2 DEF Goal
  <2> QED BY <1>8, <2>1, <2>2 DEF Broker, Answer
<1>9. CASE Break
  BY <1>9, <1>b DEF Break
<1>10. CASE UNCHANGED vars
  BY <1>10, <1>b DEF vars
<1> QED BY <1>1, <1>2, <1>3, <1>4, <1>5, <1>6, <1>7, <1>8, <1>9, <1>10 DEF Next, Caller, Client

LEMMA CopySteps ==
  ASSUME WireOK, IdTypeOK, [Next]_vars
  PROVE  /\ cleansession' = cleansession
         /\ \/ inflight' \in {inflight, NoPublish}
            \/ PublishCall /\ inflight' \in Publishes /\ inflight' = Publish(cur', next')
         /\ cleansession \/ inflight' = inflight \/ PublishCall \/ PublishAnswered
<1> USE DEF sessvars, bounds
<1>1. CASE PublishCall
  <2>1. PICK m \in Msgs \ TooLong :
          /\ cur' = m /\ next' = NextId
          /\ inflight' = IF cleansession THEN inflight ELSE Publish(m, NextId)
    BY <1>1 DEF PublishCall
  <2>2. Publish(m, NextId) \in Publishes
    BY NextIdType DEF Publishes
  <2> QED BY <1>1, <2>1, <2>2 DEF PublishCall
<1>2. CASE OpenSocket \/ Connect \/ PublishTooLong \/ YieldCall \/ Disconnect
  BY <1>2 DEF OpenSocket, Connect, PublishTooLong, YieldCall, Disconnect, CloseSession
<1>3. CASE Check \/ Arm \/ KeepWaiting \/ Recv \/ RecvNothing \/ YieldEnds
  BY <1>3 DEF Check, Arm, KeepWaiting, Recv, RecvNothing, YieldEnds
<1>4. CASE Switch
  BY <1>4 DEF Switch, ReadFailed, Odd, PingOverdue, Ping, Quiet, CycleFails, CloseSession
<1>5. CASE ConnectAnswer \/ PublishAnswered \/ PublishUnanswered
  BY <1>5 DEF ConnectAnswer, PublishAnswered, PublishUnanswered, CloseSession
<1>6. CASE Broker \/ Break \/ Tick
  BY <1>6 DEF Broker, Break, Tick
<1>7. CASE UNCHANGED vars
  BY <1>7 DEF vars
<1> QED BY <1>1, <1>2, <1>3, <1>4, <1>5, <1>6, <1>7 DEF Next, Client, Caller

LEMMA DownSteps == WireOK /\ [Next]_vars => down' \in Seq(Nat)
<1> SUFFICES ASSUME WireOK, [Next]_vars PROVE down' \in Seq(Nat)
  OBVIOUS
<1> USE DEF WireOK, netvars
<1>a. (Unsent \/ \E p : Sent(p)) => down' = down
  BY DEF Sent, Unsent
<1>1. CASE Broker
  <2>1. CASE \E p \in Publishes : down' = down \o Puback(p.id)
    <3>1. PICK p \in Publishes : down' = down \o Puback(p.id)
      BY <2>1
    <3>2. p.id \in Nat
      BY SessionAssumption, PacketTypes DEF Packets
    <3>3. Puback(p.id) \in Seq(Nat)
      BY <3>2, PubackBytes
    <3> QED BY <3>1, <3>3
  <2>2. CASE \E b \in {Connack(0), Connack(Refused), Pingresp} : down' = down \o b
    <3>1. PICK b \in Seq(Nat) : down' = down \o b
      BY <2>2, PacketBytes
    <3> QED BY <3>1
  <2>4. CASE down' = down
    BY <2>4
  <2>3. up # <<>> => Head(up) \in Packets
    OBVIOUS
  <2> QED BY <1>1, <2>1, <2>2, <2>3, <2>4, PacketTypes DEF Broker, Answer
<1>2. CASE Recv
  BY <1>2 DEF Recv
<1>3. CASE OpenSocket \/ Break \/ YieldCall \/ PublishTooLong
  <2>1. down' = down \/ down' = <<>>
    BY <1>3 DEF OpenSocket, Break, YieldCall, PublishTooLong
  <2>2. CASE down' = down
    BY <2>2
  <2>3. CASE down' = <<>>
    BY <2>3
  <2> QED BY <2>1, <2>2, <2>3
<1>4. CASE Connect \/ PublishCall \/ Disconnect
  BY <1>4, <1>a DEF Connect, PublishCall, Disconnect
<1>5. CASE Check \/ Arm \/ RecvNothing \/ KeepWaiting \/ YieldEnds \/ PublishAnswered \/ PublishUnanswered \/ Tick
  BY <1>5 DEF Check, Arm, RecvNothing, KeepWaiting, YieldEnds, PublishAnswered, PublishUnanswered, Tick
<1>6. CASE Switch
  BY <1>6, <1>a DEF Switch, ReadFailed, Odd, PingOverdue, Ping, Quiet
<1>7. CASE ConnectAnswer
  BY <1>7, <1>a DEF ConnectAnswer
<1>8. CASE UNCHANGED vars
  BY <1>8 DEF vars
<1> QED BY <1>1, <1>2, <1>3, <1>4, <1>5, <1>6, <1>7, <1>8 DEF Next, Caller, Client

LEMMA WireStep == WireOK /\ IdTypeOK /\ HarmlessIds' /\ [Next]_vars => WireOK'
<1> SUFFICES ASSUME WireOK, IdTypeOK, HarmlessIds', [Next]_vars PROVE WireOK'
  OBVIOUS
<1>1. down' \in Seq(Nat) /\ cleansession' = cleansession
  BY DownSteps, CopySteps
<1>2. \A id : Harmless(id)' <=> Harmless(id)
  BY <1>1 DEF Harmless, Mistaken
<1>3. Harmless(next')
  BY <1>1 DEF HarmlessIds, Harmless, Mistaken
<1>4. inflight' \in Publishes \cup {NoPublish} /\ (inflight' # NoPublish => Harmless(inflight'.id))
  BY <1>3, CopySteps DEF WireOK, Publish
<1>5. up' \in Seq(Packets) /\ \A i \in DOMAIN up' : up'[i].type = "PUBLISH" => Harmless(up'[i].id)
  <2>1. up' \in Seq(Packets) /\ \A i \in DOMAIN up' : up'[i] \in Sources
    BY UpSteps
  <2>2. ASSUME NEW p \in Sources, p.type = "PUBLISH" PROVE Harmless(p.id)
    <3>1. \A q \in Packets \ Publishes : q.type # "PUBLISH"
      BY PacketTypes
    <3>2. \A q \in Publishes : q # NoPublish
      BY PacketTypes DEF Packets
    <3>3. CASE \E k \in DOMAIN up : p = up[k]
      BY <2>2, <3>3 DEF WireOK
    <3>4. CASE p = inflight /\ p \in Publishes
      BY <3>2, <3>4 DEF WireOK
    <3>5. CASE PublishCall /\ p = Publish(cur', next')
      BY <1>3, <3>5 DEF Publish
    <3> QED BY <2>2, <3>1, <3>3, <3>4, <3>5 DEF Sources
  <2> QED BY <2>1, <2>2
<1> QED BY <1>1, <1>2, <1>4, <1>5 DEF WireOK, HarmlessIds
-----------------------------------------------------------------------------
(* What the caller has been told.                                           *)

\* A publish() that has begun has a result, and its packet is nobody else's.
Publishing ==
  /\ result \in [Msgs -> {"none", "pending", "ok", "failed"}]
  /\ call = "publish" => /\ cur \in Msgs /\ result[cur] = "pending"
                         /\ cleansession \/ (inflight # NoPublish /\ inflight.msg = cur)
  /\ \A i \in DOMAIN up : up[i].type = "PUBLISH" => result[up[i].msg] # "none"
  /\ inflight # NoPublish => result[inflight.msg] # "none"

\* Whatever a step does to the messages, the caller of publish() expects it.
Expected == \/ \E m \in Msgs : \/ Delivery!Issue(m) /\ PublishCall /\ cur' = m
                               \/ Delivery!Reject(m) /\ PublishTooLong /\ UNCHANGED call
                               \/ Delivery!Store(m) /\ Broker
                               \/ Delivery!Succeed(m) /\ call' = "none"
                               \/ Delivery!Fail(m) /\ call' = "none"
            \/ UNCHANGED <<stored, result>> /\ ~PublishCall /\ ~PublishTooLong

LEMMA DeliverySteps ==
  ASSUME AckInv, WireOK, Publishing, [Next]_vars
  PROVE  Expected
<1> USE DEF history
<1>1. CASE PublishCall
  <2>1. PICK m \in Msgs \ TooLong :
           result[m] = "none" /\ cur' = m /\ result' = [result EXCEPT ![m] = "pending"]
    BY <1>1 DEF PublishCall
  <2>2. stored' = stored
    BY <1>1 DEF PublishCall
  <2> QED BY <1>1, <2>1, <2>2 DEF Expected, Delivery!Issue
<1>10. CASE PublishTooLong
  <2>1. PICK m \in TooLong : result[m] = "none" /\ result' = [result EXCEPT ![m] = "failed"]
    BY <1>10 DEF PublishTooLong
  <2>2. m \in Msgs /\ UNCHANGED <<stored, call>>
    BY <1>10, SessionAssumption DEF PublishTooLong, callvars
  <2> QED BY <1>10, <2>1, <2>2 DEF Expected, Delivery!Reject
<1>a. ASSUME UNCHANGED <<stored, result>> PROVE Expected
  BY <1>1, <1>10, <1>a DEF Expected
<1>2. CASE OpenSocket \/ Connect \/ YieldCall \/ Disconnect
  BY <1>2, <1>a DEF OpenSocket, Connect, YieldCall, Disconnect
<1>3. CASE Check \/ Arm \/ KeepWaiting \/ Recv \/ RecvNothing \/ YieldEnds \/ ConnectAnswer
  BY <1>3, <1>a DEF Check, Arm, KeepWaiting, Recv, RecvNothing, YieldEnds, ConnectAnswer
<1>4. CASE Switch
  BY <1>4, <1>a DEF Switch
<1>5. CASE PublishAnswered
  <2>1. CASE call = "publish"
    <3>1. InHand(PUBACK)
      BY <1>5 DEF PublishAnswered, Answered, Wanted, InHand
    <3>2. cur \in stored
      BY <2>1, <3>1 DEF AckInv, OwnAnswer, Given, Awaiting, Awaited, Publishing, WireOK
    <3>3. cur \in Msgs /\ result[cur] = "pending"
      BY <2>1 DEF Publishing
    <3>4. result' = [result EXCEPT ![cur] = "ok"] /\ stored' = stored /\ call' = "none"
      BY <1>5, <2>1 DEF PublishAnswered, Idle
    <3> QED BY <3>2, <3>3, <3>4 DEF Expected, Delivery!Succeed
  <2>2. CASE call # "publish"
    BY <1>5, <2>2, <1>a DEF PublishAnswered
  <2> QED BY <2>1, <2>2
<1>6. CASE PublishUnanswered
  <2>1. CASE call = "publish"
    <3>1. cur \in Msgs /\ result[cur] = "pending"
      BY <2>1 DEF Publishing
    <3>2. result' = [result EXCEPT ![cur] = "failed"] /\ stored' = stored /\ call' = "none"
      BY <1>6, <2>1 DEF PublishUnanswered, Idle
    <3> QED BY <3>1, <3>2 DEF Expected, Delivery!Fail
  <2>2. CASE call # "publish"
    BY <1>6, <2>2, <1>a DEF PublishUnanswered
  <2> QED BY <2>1, <2>2
<1>7. CASE Broker
  <2>1. result' = result /\ up # <<>>
    BY <1>7 DEF Broker
  <2>2. CASE stored' = stored
    BY <2>1, <2>2, <1>a
  <2>3. CASE Head(up).type = "PUBLISH" /\ stored' = stored \cup {Head(up).msg}
    <3>1. 1 \in DOMAIN up /\ Head(up) = up[1] /\ up[1] \in Packets
      BY <2>1 DEF WireOK
    <3>2. up[1].msg \in Msgs \ TooLong /\ result[up[1].msg] # "none"
      BY <2>3, <3>1, PacketTypes DEF Publishing
    <3> QED BY <1>7, <2>1, <2>3, <3>1, <3>2 DEF Expected, Delivery!Store
  <2> QED BY <1>7, <2>2, <2>3 DEF Broker
<1>8. CASE Break \/ Tick
  BY <1>8, <1>a DEF Break, Tick
<1>9. CASE UNCHANGED vars
  BY <1>9, <1>a DEF vars
<1> QED BY <1>1, <1>2, <1>3, <1>4, <1>5, <1>6, <1>7, <1>8, <1>9, <1>10 DEF Next, Caller, Client

LEMMA PublishGoesOn ==
  [Next]_vars /\ call' = "publish" /\ ~PublishCall => call = "publish" /\ cur' = cur
<1> SUFFICES ASSUME [Next]_vars, call' = "publish", ~PublishCall PROVE call = "publish" /\ cur' = cur
  OBVIOUS
<1> USE DEF callvars, history
<1>1. CASE Caller
  BY <1>1 DEF Caller, OpenSocket, Connect, PublishTooLong, YieldCall, Disconnect, Wait
<1>2. CASE Check \/ Arm \/ KeepWaiting \/ Recv \/ RecvNothing \/ Switch
  BY <1>2 DEF Check, Arm, KeepWaiting, Recv, RecvNothing, Switch
<1>3. CASE YieldEnds \/ ConnectAnswer \/ PublishAnswered \/ PublishUnanswered
  BY <1>3 DEF YieldEnds, ConnectAnswer, PublishAnswered, PublishUnanswered, ConnectEnds, Idle
<1>4. CASE Broker \/ Break \/ Tick
  BY <1>4 DEF Broker, Break, Tick
<1>5. CASE UNCHANGED vars
  BY <1>5 DEF vars
<1> QED BY <1>1, <1>2, <1>3, <1>4, <1>5 DEF Next, Client

LEMMA PublishingStep ==
  ASSUME AckInv, WireOK, IdTypeOK, Publishing, [Next]_vars
  PROVE  Publishing'
<1>1. Expected
  BY DeliverySteps
<1>2. /\ result' \in [Msgs -> {"none", "pending", "ok", "failed"}]
      /\ \A m \in Msgs : result[m] # "none" => result'[m] # "none"
  BY <1>1 DEF Expected, Publishing, Delivery!Issue, Delivery!Reject, Delivery!Store, Delivery!Succeed,
     Delivery!Fail
<1>3. PublishCall => cur' \in Msgs /\ result'[cur'] = "pending"
  <2>1. PublishCall => call = "none" /\ call' = "publish"
    BY DEF PublishCall, Wait
  <2> QED BY <1>1, <2>1 DEF Expected, Publishing, Delivery!Issue, Delivery!Reject, Delivery!Store,
             Delivery!Succeed, Delivery!Fail, Broker, callvars
<1>4. call' = "publish" => /\ cur' \in Msgs /\ result'[cur'] = "pending"
                           /\ cleansession' \/ (inflight' # NoPublish /\ inflight'.msg = cur')
  <2> SUFFICES ASSUME call' = "publish"
               PROVE  /\ cur' \in Msgs /\ result'[cur'] = "pending"
                      /\ cleansession' \/ (inflight' # NoPublish /\ inflight'.msg = cur')
    OBVIOUS
  <2>1. CASE PublishCall
    <3>1. PICK m \in Msgs \ TooLong : cur' = m /\ inflight' = IF cleansession THEN inflight ELSE Publish(m, NextId)
      BY <2>1 DEF PublishCall
    <3>2. cleansession' = cleansession
      BY CopySteps
    <3>3. ~cleansession => inflight' # NoPublish /\ inflight'.msg = cur'
      BY <3>1 DEF Publish, NoPublish
    <3> QED BY <1>3, <2>1, <3>2, <3>3
  <2>2. CASE ~PublishCall
    <3>1. call = "publish" /\ cur' = cur
      BY <2>2, PublishGoesOn
    <3>2. result' = result
      BY <1>1, <2>2, <3>1 DEF Expected, Delivery!Store, PublishTooLong
    <3>3. cleansession' = cleansession /\ (cleansession \/ inflight' = inflight)
      BY <2>2, CopySteps DEF PublishAnswered, ConnectEnds, Idle
    <3> QED BY <3>1, <3>2, <3>3 DEF Publishing
  <2> QED BY <2>1, <2>2
<1>5. \A i \in DOMAIN up' : up'[i].type = "PUBLISH" => result'[up'[i].msg] # "none"
  <2>1. up' \in Seq(Packets) /\ \A i \in DOMAIN up' : up'[i] \in Sources
    BY UpSteps
  <2>2. ASSUME NEW p \in Sources, p.type = "PUBLISH" PROVE result'[p.msg] # "none"
    <3>1. \A q \in Packets \ Publishes : q.type # "PUBLISH"
      BY PacketTypes
    <3>2. \A q \in Publishes : q # NoPublish /\ q.msg \in Msgs /\ q \in Packets
      BY PacketTypes DEF Packets
    <3>3. CASE \E k \in DOMAIN up : p = up[k]
      <4>1. PICK k \in DOMAIN up : p = up[k]
        BY <3>3
      <4>2. p \in Publishes /\ result[p.msg] # "none"
        BY <2>2, <4>1, PacketTypes DEF Publishing, WireOK
      <4> QED BY <1>2, <3>2, <4>2
    <3>4. CASE p = inflight /\ p \in Publishes
      BY <1>2, <3>2, <3>4 DEF Publishing
    <3>5. CASE PublishCall /\ p = Publish(cur', next')
      BY <1>3, <3>5 DEF Publish
    <3> QED BY <2>2, <3>1, <3>3, <3>4, <3>5 DEF Sources
  <2> QED BY <2>1, <2>2
<1>6. inflight' # NoPublish => result'[inflight'.msg] # "none"
  <2>1. CASE inflight' = inflight /\ inflight # NoPublish
    <3>1. inflight.msg \in Msgs
      BY <2>1, PacketTypes DEF WireOK, Packets
    <3> QED BY <1>2, <2>1, <3>1 DEF Publishing
  <2>2. CASE PublishCall /\ inflight' = Publish(cur', next')
    BY <1>3, <2>2 DEF Publish
  <2> QED BY <2>1, <2>2, CopySteps
<1> QED BY <1>2, <1>4, <1>5, <1>6 DEF Publishing

LEMMA ForgottenStep ==
  ASSUME AckInv, WireOK, IdTypeOK, Publishing, NothingForgotten, [Next]_vars
  PROVE  NothingForgotten'
<1>1. cleansession' = cleansession
  BY CopySteps
<1>2. SUFFICES ASSUME ~cleansession, NEW m \in Msgs \ TooLong, result'[m] # "none"
               PROVE  m \in stored' \/ (inflight' # NoPublish /\ inflight'.msg = m)
  BY <1>1 DEF NothingForgotten
<1>3. Expected
  BY DeliverySteps
<1>4. stored \subseteq stored'
  BY <1>3 DEF Expected, Delivery!Issue, Delivery!Reject, Delivery!Store, Delivery!Succeed, Delivery!Fail
<1>5. result[m] # "none" => m \in stored \/ (inflight # NoPublish /\ inflight.msg = m)
  BY <1>2 DEF NothingForgotten
<1>6. CASE PublishCall
  <2>1. PICK n \in Msgs \ TooLong :
           cur' = n /\ inflight' = Publish(n, NextId) /\ result' = [result EXCEPT ![n] = "pending"]
    BY <1>2, <1>6 DEF PublishCall
  <2>2. CASE m = n
    BY <2>1, <2>2 DEF Publish, NoPublish
  <2>3. CASE m # n
    <3>1. result[m] # "none"
      BY <1>2, <2>1, <2>3 DEF Publishing
    <3>2. inflight # NoPublish => inflight.msg \in stored
      BY <1>6 DEF PublishCall, AckInv, Settled
    <3> QED BY <1>4, <1>5, <3>1, <3>2
  <2> QED BY <2>2, <2>3
<1>7. CASE ~PublishCall
  <2>1. result[m] # "none"
    BY <1>2, <1>3, <1>7 DEF Expected, Publishing, Delivery!Reject, Delivery!Store, Delivery!Succeed,
       Delivery!Fail
  <2>2. CASE inflight' = inflight
    BY <1>4, <1>5, <2>1, <2>2
  <2>3. CASE PublishAnswered
    <3>1. InHand(PUBACK)
      BY <2>3 DEF PublishAnswered, Answered, Wanted, InHand
    <3>2. inflight # NoPublish => inflight.msg \in stored
      BY <1>2, <3>1 DEF AckInv, OwnAnswer, Given, Awaiting, Awaited
    <3> QED BY <1>4, <1>5, <2>1, <3>2
  <2> QED BY <1>2, <1>7, <2>2, <2>3, CopySteps
<1> QED BY <1>6, <1>7

\* The inductive invariant of publishing.
MInv == IInv /\ IdTypeOK /\ WireOK /\ AckInv /\ Publishing /\ NothingForgotten

LEMMA MInit == Init /\ HarmlessIds => MInv
<1> SUFFICES ASSUME Init, HarmlessIds PROVE MInv
  OBVIOUS
<1>1. IInv /\ IdTypeOK
  BY Initially, SessionAssumption DEF Init, IdTypeOK
<1>2. WireOK
  BY SessionAssumption DEF Init, WireOK
<1>3. Live = {} /\ \A t : ~InHand(t) /\ Headers(t) = {}
  BY DEF Init, Live, InHand, Headers
<1>4. AckInv
  BY <1>3 DEF Init, AckInv, OnePuback, Once, OwnAnswer, Settled, CleanSession, KeptSession, Awaiting, Given
<1>5. Publishing /\ NothingForgotten
  BY DEF Init, Publishing, NothingForgotten
<1> QED BY <1>1, <1>2, <1>4, <1>5 DEF MInv

LEMMA MStep == MInv /\ HarmlessIds' /\ [Next]_vars => MInv'
<1> SUFFICES ASSUME MInv, HarmlessIds', [Next]_vars PROVE MInv'
  OBVIOUS
<1>1. IInv' /\ IdTypeOK' /\ WireOK' /\ AckInv'
  BY Inductive, IdTypes, WireStep, AckStep DEF MInv
<1>2. Publishing' /\ NothingForgotten'
  BY PublishingStep, ForgottenStep DEF MInv
<1> QED BY <1>1, <1>2 DEF MInv

\* In a kept session, for every set of messages, all time limits and every order in which
\* packets are lost, cut and late: as long as no byte of a packet id can be taken for the
\* first byte of an answer, every message that fits and was handed to publish() is at the
\* broker or in the copy that the next connect() sends, publications that do not fit in
\* between included.
THEOREM NothingLost == Spec /\ []HarmlessIds => []NothingForgotten
<1>1. MInv => NothingForgotten
  BY DEF MInv
<1> QED BY <1>1, MInit, MStep, PTL DEF Spec

LEMMA DeliveryInit == Init => Delivery!Init
  BY DEF Init, Delivery!Init

LEMMA DeliveryNext == MInv /\ [Next]_vars => [Delivery!Next]_(Delivery!dvars)
<1> SUFFICES ASSUME MInv, [Next]_vars PROVE [Delivery!Next]_(Delivery!dvars)
  OBVIOUS
<1>1. Expected
  BY DeliverySteps DEF MInv
<1> QED BY <1>1 DEF Expected, Delivery!Next, Delivery!dvars

\* Under the same condition the client, the network and the broker together implement
\* MqttDelivery, in clean and in kept sessions: every step is one that the caller of
\* publish() expects, or none that he could see.
THEOREM Delivers == Spec /\ []HarmlessIds => ImplementsDelivery
  BY DeliveryInit, DeliveryNext, MInit, MStep, PTL DEF Spec, ImplementsDelivery, Delivery!Spec

\* Under the same condition publish() never returns 0 for a message the broker does not have:
\* a PUBACK that ends the call is that of its own message, late ones of earlier calls included.
THEOREM AnsweredIsStored == Spec /\ []HarmlessIds => []PublishedIsStored
<1>1. Init => PublishedIsStored
  BY DEF Init, PublishedIsStored
<1>2. MInv /\ PublishedIsStored /\ [Next]_vars => PublishedIsStored'
  <2> SUFFICES ASSUME MInv, PublishedIsStored, [Next]_vars, NEW m \in Msgs, result'[m] = "ok"
               PROVE  m \in stored'
    BY DEF PublishedIsStored
  <2>1. Expected /\ Publishing
    BY DeliverySteps DEF MInv
  <2> QED BY <2>1 DEF PublishedIsStored, Publishing, Expected, Delivery!Issue, Delivery!Reject,
             Delivery!Store, Delivery!Succeed, Delivery!Fail
<1> QED BY <1>1, <1>2, MInit, MStep, PTL DEF Spec
-----------------------------------------------------------------------------
(* The ids of the first publications are harmless.                          *)

IssuedMsgs == {m \in Msgs : result[m] # "none"}

IdsIssued == next <= Issued + Cardinality(IssuedMsgs)

LEMMA NextSteps == [Next]_vars => next' = next \/ PublishCall \/ PublishTooLong
<1> SUFFICES ASSUME [Next]_vars, ~PublishCall, ~PublishTooLong PROVE next' = next
  OBVIOUS
<1> USE DEF sessvars
<1>1. CASE Caller
  BY <1>1 DEF Caller, OpenSocket, Connect, YieldCall, Disconnect
<1>2. CASE Client
  BY <1>2 DEF Client, Check, Arm, Recv, RecvNothing, Switch, KeepWaiting, YieldEnds, ConnectAnswer,
     PublishAnswered, PublishUnanswered
<1>3. CASE Broker \/ Break \/ Tick
  BY <1>3 DEF Broker, Break, Tick
<1>4. CASE UNCHANGED vars
  BY <1>4 DEF vars
<1> QED BY <1>1, <1>2, <1>3, <1>4 DEF Next

LEMMA IdsStep ==
  ASSUME IsFiniteSet(Msgs), MInv, IdsIssued, [Next]_vars
  PROVE  IdsIssued'
<1>1. Expected /\ Publishing /\ next \in Nat
  BY DeliverySteps, SessionAssumption DEF MInv, IdTypeOK
<1>2. IsFiniteSet(IssuedMsgs) /\ Cardinality(IssuedMsgs) \in Nat
  BY FS_Subset, FS_CardinalityType DEF IssuedMsgs
<1>3. CASE PublishCall \/ PublishTooLong
  <2>1. PICK m \in Msgs : /\ result[m] = "none"
                          /\ \E r \in {"pending", "failed"} : result' = [result EXCEPT ![m] = r]
                          /\ next' = NextId
    BY <1>3, SessionAssumption DEF PublishCall, PublishTooLong
  <2>2. m \notin IssuedMsgs /\ IssuedMsgs' = IssuedMsgs \cup {m}
    BY <1>1, <2>1 DEF IssuedMsgs, Publishing
  <2>3. Cardinality(IssuedMsgs') = Cardinality(IssuedMsgs) + 1
    BY <1>2, <2>2, FS_AddElement
  <2>4. next' <= next + 1
    BY <1>1, <2>1, SessionAssumption DEF NextId
  <2> QED BY <1>1, <1>2, <2>1, <2>3, <2>4, SessionAssumption DEF IdsIssued, NextId
<1>4. CASE ~PublishCall /\ ~PublishTooLong
  <2>1. IssuedMsgs' = IssuedMsgs
    BY <1>1, <1>4 DEF IssuedMsgs, Publishing, Expected, Delivery!Store, Delivery!Succeed, Delivery!Fail
  <2> QED BY <1>4, <2>1, NextSteps DEF IdsIssued
<1> QED BY <1>3, <1>4

LEMMA SmallIdsAreHarmless ==
  ASSUME IsFiniteSet(Msgs), Issued + Cardinality(Msgs) < 32, IdTypeOK, IdsIssued
  PROVE  HarmlessIds
<1>1. Cardinality(IssuedMsgs) <= Cardinality(Msgs) /\ Cardinality(Msgs) \in Nat /\ Cardinality(IssuedMsgs) \in Nat
  BY FS_Subset, FS_CardinalityType DEF IssuedMsgs
<1>2. next \in 0 .. 31
  BY <1>1, SessionAssumption DEF IdTypeOK, IdsIssued
<1>3. (next \div 256) \div 16 = 0 /\ (next % 256) \div 16 \in {0, 1}
  BY <1>2
<1> QED BY <1>3 DEF HarmlessIds, Harmless, Mistaken

\* Of a client that publishes fewer than 32 messages in all, as main() does, this holds
\* without a condition on the ids.
COROLLARY FewMessages ==
  ASSUME IsFiniteSet(Msgs), Issued + Cardinality(Msgs) < 32
  PROVE  Spec => []NothingForgotten /\ ImplementsDelivery /\ []PublishedIsStored
<1>1. Init => IdTypeOK /\ IdsIssued
  <2> SUFFICES ASSUME Init PROVE IdTypeOK /\ IdsIssued
    OBVIOUS
  <2>1. IssuedMsgs = {}
    BY DEF Init, IssuedMsgs
  <2> QED BY <2>1, FS_EmptySet, SessionAssumption DEF Init, IdTypeOK, IdsIssued
<1>2. IdTypeOK /\ IdsIssued => HarmlessIds
  BY SmallIdsAreHarmless
<1>3. IdTypeOK /\ [Next]_vars => IdTypeOK'
  BY IdTypes
<1>4. MInv /\ IdsIssued /\ [Next]_vars => IdsIssued'
  BY IdsStep
<1>5. Spec => []HarmlessIds
  BY <1>1, <1>2, <1>3, <1>4, MInit, MStep, PTL DEF Spec
<1> QED BY <1>5, NothingLost, Delivers, AnsweredIsStored, PTL
=============================================================================
