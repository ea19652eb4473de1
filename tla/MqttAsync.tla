----------------------------- MODULE MqttAsync ------------------------------
(***************************************************************************)
(* The MQTT client of the project, mqtt::Client, built with MQTT_VERSION   *)
(* 3: connect_async(), which fills the static CONNECT message and sends    *)
(* it, and process(), which reads one packet and stores the code of a      *)
(* CONNACK, to be asked for with status() and connected().  process() may  *)
(* run in a thread of its own.                                             *)
(*                                                                         *)
(* publish() is left out: it needs a serializer that is declared and not   *)
(* defined, so no program that calls it links.  As nothing subscribes      *)
(* either, a broker sends this client nothing but CONNACKs.  They may be   *)
(* those of version 5, which connect_async() announces, with properties    *)
(* that this build does not expect.                                        *)
(***************************************************************************)
EXTENDS Integers, Sequences

CONSTANTS
  Connacks,       \* the CONNACKs of the broker, as bytes
  MaxConnects     \* bound: calls of connect_async()

\* The second byte is the length, the third the flags, the fourth the code; properties
\* of version 5 may follow.
ASSUME AsyncAssumption ==
  /\ MaxConnects \in Nat
  /\ \A bytes \in Connacks :
       /\ bytes \in Seq(0 .. 255) /\ Len(bytes) >= 4
       /\ bytes[1] \in 32 .. 47

VARIABLES
  message,        \* the fields of the static message<CONNECT> that are not empty
  wire,           \* the last CONNECT that went out whole
  connects,
  pc,             \* the read of process() under way, "idle" between two calls
  kind,           \* MessageType of the header
  code,           \* reason_code of the static message<CONNACK>
  status,         \* m_conn_status
  blocking,       \* the mode of the socket
  asked,          \* the broker has a CONNECT to answer
  answers,        \* history: the CONNACKs the broker has sent
  down, closed    \* bytes on their way to the client, the end of the stream

asyncvars == <<message, wire, connects, pc, kind, code, status, blocking, asked, answers, down, closed>>
-----------------------------------------------------------------------------
CONNACK     == 2
PUBLISH     == 3
PUBACK      == 4
SUCCESS     == 0
UNSPECIFIED == 128

\* The payload of CONNECT.
Fields == {"client_id", "will_topic", "will_payload", "username", "password"}
Will   == {"will_topic", "will_payload"}
Names  == {"username", "password"}

NoPacket == [flags |-> {}, announced |-> {}, written |-> {}]

Init ==
  /\ message = {} /\ wire = NoPacket /\ connects = 0
  /\ pc = "idle" /\ kind = 0 /\ code = SUCCESS /\ status = UNSPECIFIED
  /\ blocking \in BOOLEAN /\ asked = FALSE /\ answers = {} /\ down = <<>> /\ closed = FALSE
-----------------------------------------------------------------------------
(* connect_async().  m are the fields that are not empty; every field takes *)
(* at least two bytes, for its length, where it is counted or written.      *)

Flags(m) == m \cap (Names \cup {"will_topic"})

\* The fields payload.length() counts.
Announced(m) == {"client_id"} \cup (m \cap Names) \cup (IF m \cap Will # {} THEN Will ELSE {})

\* Mutant: Message::write() calls the write() of the payload.
WrittenAsMeant(m) == Announced(m)

\* It does not: the serializer writes every field.
Written(m) == Fields

Packet(m) == [flags |-> Flags(m), announced |-> Announced(m), written |-> Written(m)]

\* The packet goes out, or not all of it does.
Send(m) ==
  /\ connects < MaxConnects
  /\ connects' = connects + 1
  /\ message' = m
  /\ \/ wire' = Packet(m) /\ asked' = ~closed
     \/ wire' = NoPacket /\ asked' = asked
  /\ UNCHANGED <<pc, kind, code, status, blocking, answers, down, closed>>

ConnectPayload == \E payload \in SUBSET Fields : Send(payload)

\* What is left of the payload of the call before is sent again: the client id and,
\* without its topic, the payload of the will.
ConnectNames == \E names \in SUBSET Names :
  Send((message \ (Names \cup {"will_topic"})) \cup names)
-----------------------------------------------------------------------------
(* process().  Each read takes one byte, or fails: a socket that does not   *)
(* block fails when nothing has come yet, one that does after its time when *)
(* the stream has ended.                                                    *)

Byte == down # <<>> /\ down' = Tail(down)

Pause == ~blocking \/ (closed /\ down = <<>>)

\* Mutant: the time of a read is not looked at, recv() is tried again for ever.
NoByteUntimed == ~blocking /\ down' = down

NoByte == Pause /\ down' = down

Process ==
  /\ pc = "idle" /\ pc' = "type"
  /\ UNCHANGED <<message, wire, connects, kind, code, status, blocking, asked, answers, down, closed>>

\* Mutant: the flags of the header are not shifted out.
ReadTypeUnshifted ==
  /\ pc = "type"
  /\ \/ Byte /\ kind' = Head(down) /\ pc' = "length"
     \/ NoByte /\ kind' = kind /\ pc' = "idle"
  /\ UNCHANGED <<code, status>>

ReadType ==
  /\ pc = "type"
  /\ \/ Byte /\ kind' = Head(down) \div 16 /\ pc' = "length"
     \/ NoByte /\ kind' = kind /\ pc' = "idle"
  /\ UNCHANGED <<code, status>>

\* process() goes on with the packet.  A property that reads as a PUBLISH or a PUBACK
\* takes some of the bytes that follow; how many, and what those two do, is left open.
Dispatch ==
  \/ kind = CONNACK /\ pc' = "flags" /\ NoByte
  \/ kind \notin {CONNACK, PUBLISH, PUBACK} /\ pc' = "idle" /\ NoByte
  \/ /\ kind \in {PUBLISH, PUBACK} /\ pc' = "idle" /\ Pause
     /\ \E n \in 1 .. Len(down) + 1 : down' = SubSeq(down, n, Len(down))

\* Mutant: a length is there when its byte was read.
ReadLengthUpright ==
  /\ pc = "length"
  /\ \/ Byte /\ pc' = IF kind = CONNACK THEN "flags" ELSE "idle"
     \/ NoByte /\ pc' = "idle"
  /\ UNCHANGED <<kind, code, status>>

\* read_raw() is true when it has its byte, and read() gives up when it is true;
\* a byte that does not come is a length of 0.
ReadLength ==
  /\ pc = "length"
  /\ (Byte /\ pc' = "idle") \/ Dispatch
  /\ UNCHANGED <<kind, code, status>>

\* A CONNACK that cannot be read is reported and its code is stored all the same:
\* the one of the CONNACK before when the flags are missing.
ReadFlags ==
  /\ pc = "flags"
  /\ \/ Byte /\ pc' = "reason" /\ status' = status
     \/ NoByte /\ pc' = "idle" /\ status' = code
  /\ UNCHANGED <<kind, code>>

\* read_raw() has set the code to 0 before it reads.
ReadReason ==
  /\ pc = "reason"
  /\ \/ Byte /\ code' = Head(down)
     \/ NoByte /\ code' = 0
  /\ status' = code' /\ pc' = "idle" /\ kind' = kind

Receive == /\ ReadType \/ ReadLength \/ ReadFlags \/ ReadReason
           /\ UNCHANGED <<message, wire, connects, blocking, asked, answers, closed>>
-----------------------------------------------------------------------------
(* Outside the repository: the broker and the network.                      *)

Answer ==
  /\ asked /\ ~closed
  /\ \E bytes \in Connacks : down' = down \o bytes /\ answers' = answers \cup {bytes}
  /\ asked' = FALSE
  /\ UNCHANGED <<message, wire, connects, pc, kind, code, status, blocking, closed>>

\* What had not arrived is lost.
Close ==
  /\ ~closed /\ closed' = TRUE /\ asked' = FALSE
  /\ \E n \in 0 .. Len(down) : down' = SubSeq(down, 1, n)
  /\ UNCHANGED <<message, wire, connects, pc, kind, code, status, blocking, answers>>

Next == ConnectPayload \/ ConnectNames \/ Process \/ Receive \/ Answer \/ Close

\* A call of process() that is under way goes on.
AsyncSpec == Init /\ [][Next]_asyncvars /\ WF_asyncvars(Receive)
-----------------------------------------------------------------------------
(* Properties.                                                              *)

\* The values each variable may have: the type of a packet is the upper half of its
\* first byte (Client.cpp:107).
TypeOK ==
  /\ message \subseteq Fields /\ connects \in 0 .. MaxConnects
  /\ wire \in [flags : SUBSET Fields, announced : SUBSET Fields, written : SUBSET Fields]
  /\ pc \in {"idle", "type", "length", "flags", "reason"}
  /\ kind \in 0 .. 15 /\ code \in 0 .. 255 /\ status \in 0 .. 255
  /\ blocking \in BOOLEAN /\ asked \in BOOLEAN /\ closed \in BOOLEAN
  /\ answers \subseteq Connacks /\ down \in Seq(0 .. 255)

\* A CONNACK whose flags are 0, as they are when every session starts clean, and no
\* later byte of which reads as the head of a CONNACK.
Plain(bytes) == bytes[3] = 0 /\ \A i \in 2 .. Len(bytes) : bytes[i] \notin 32 .. 47

\* status() changes only after a byte that did not come: on a socket that blocks, not
\* before the connection is gone (serializer.cpp:15 takes a byte it has read for a
\* failure).  What it then says is SUCCESS, whatever the broker has answered.  The one
\* exception is a socket that does not block and an answer with a property that reads
\* as a CONNACK: a later byte of the properties can then become the code.
ConnectedOnSilence == status # UNSPECIFIED =>
  /\ blocking => closed
  /\ blocking \/ (\A bytes \in answers : Plain(bytes)) => status = SUCCESS

\* What read() of a message is tested for (test_mqtt.cpp:97): a packet all of whose
\* bytes have arrived is read.  Here, once process() has taken all that has come,
\* status() is the code of a CONNACK.
WholeAnswerIsRead ==
  blocking /\ ~closed /\ pc = "idle" /\ down = <<>> /\ answers # {}
    => \E bytes \in answers : status = bytes[4]

\* The fields Payload<CONNECT>::read() takes for these flags.
Taken(flags) == {"client_id"} \cup (flags \cap Names)
                  \cup (IF "will_topic" \in flags THEN Will ELSE {})

\* The packet is as long as it says, and the project's own parser leaves nothing of
\* it.  What is announced is also written, so the lengths agree if the fields do.
Understood(packet) == packet.announced = packet.written /\ packet.written = Taken(packet.flags)

\* A CONNECT is understood only when it has a will, a user name and a password,
\* and never one of connect_async(username, password), which removes the topic of
\* the will: the length and the flags leave empty fields out, the serializer does
\* not (types.hpp:126, serializer.hpp:516).
OnlyAFullConnectIsUnderstood == wire # NoPacket =>
  (Understood(wire) <=> {"will_topic", "username", "password"} \subseteq message)

\* Nothing has come and nothing says that nothing will.
Starved == blocking /\ ~closed /\ down = <<>>

\* process() returns, unless it waits for a byte on a socket that blocks.
ProcessReturns == pc # "idle" ~> (pc = "idle" \/ Starved)
=============================================================================
