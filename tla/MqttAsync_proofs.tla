-------------------------- MODULE MqttAsync_proofs --------------------------
(***************************************************************************)
(* Proofs about MqttAsync, for every number of calls and every CONNACK,    *)
(* with and without properties.                                            *)
(***************************************************************************)
EXTENDS MqttAsync, SequenceTheorems, TLAPS

\* A CONNACK in the stream has a 0 two bytes after its head, if that has arrived.
Cut(d) == \A i \in 1 .. Len(d) : d[i] \in 32 .. 47 /\ i + 2 <= Len(d) => d[i + 2] = 0

\* ... and on an open connection it has.
Whole(d) == \A i \in 1 .. Len(d) : d[i] \in 32 .. 47 => i + 2 <= Len(d)

Stream == Cut(down) /\ (~closed => Whole(down))

\* The head of a CONNACK was read: the byte that will be taken for its code is the
\* one of its flags, k bytes further.
Ahead(k) == (k <= Len(down) => down[k] = 0) /\ (~closed => k <= Len(down))

\* What process() holds between two reads.
Midway ==
  /\ pc = "length" /\ kind = CONNACK => Ahead(2)
  /\ pc = "flags" => Ahead(2)
  /\ pc = "reason" => Ahead(1)

\* While the broker has sent nothing but plain CONNACKs, no code but SUCCESS is read.
AllPlain == \A bytes \in answers : Plain(bytes)

Shown == code = SUCCESS /\ status \in {SUCCESS, UNSPECIFIED}

PlainInv == AllPlain => Stream /\ Midway /\ Shown

\* A socket that blocks gets past the length of a packet only when the stream has ended.
Deaf ==
  /\ pc = "flags" => closed /\ down = <<>>
  /\ pc # "reason" /\ code = SUCCESS
  /\ status = UNSPECIFIED \/ (closed /\ status = SUCCESS)

BlockingInv == blocking => Deaf

IInv == TypeOK /\ PlainInv /\ BlockingInv

-----------------------------------------------------------------------------
(* The stream.                                                              *)

LEMMA UpperHalf ==
  ASSUME NEW c \in 0 .. 255
  PROVE  c \div 16 \in 0 .. 15 /\ (c \div 16 = 2 => c \in 32 .. 47)
OBVIOUS

LEMMA TailStream ==
  ASSUME NEW d \in Seq(0 .. 255), d # <<>>
  PROVE  /\ Tail(d) \in Seq(0 .. 255) /\ Head(d) \in 0 .. 255
         /\ Cut(d) => Cut(Tail(d))
         /\ Whole(d) => Whole(Tail(d))
<1>1. /\ Tail(d) \in Seq(0 .. 255) /\ Head(d) \in 0 .. 255 /\ Len(Tail(d)) = Len(d) - 1
      /\ \A i \in 1 .. Len(d) - 1 : Tail(d)[i] = d[i + 1]
  BY HeadTailProperties
<1>2. Cut(d) => Cut(Tail(d))
  BY <1>1 DEF Cut
<1>3. Whole(d) => Whole(Tail(d))
  BY <1>1 DEF Whole
<1> QED BY <1>1, <1>2, <1>3

LEMMA AnsweredStream ==
  ASSUME NEW d \in Seq(0 .. 255), NEW bytes \in Connacks, Plain(bytes), Cut(d), Whole(d)
  PROVE  d \o bytes \in Seq(0 .. 255) /\ Cut(d \o bytes) /\ Whole(d \o bytes)
<1>1. /\ bytes \in Seq(0 .. 255) /\ Len(bytes) >= 4 /\ bytes[3] = 0
      /\ \A i \in 2 .. Len(bytes) : bytes[i] \notin 32 .. 47
  BY AsyncAssumption DEF Plain
<1>2. /\ d \o bytes \in Seq(0 .. 255) /\ Len(d \o bytes) = Len(d) + Len(bytes)
      /\ \A i \in 1 .. Len(d) : (d \o bytes)[i] = d[i]
      /\ \A i \in Len(d) + 1 .. Len(d) + Len(bytes) : (d \o bytes)[i] = bytes[i - Len(d)]
      /\ Len(d) \in Nat /\ Len(bytes) \in Nat
  BY <1>1, ConcatProperties
<1>3. ASSUME NEW i \in 1 .. Len(d \o bytes), (d \o bytes)[i] \in 32 .. 47
      PROVE  i + 2 <= Len(d \o bytes) /\ (d \o bytes)[i + 2] = 0
  <2>1. CASE i <= Len(d)
    <3>1. i \in 1 .. Len(d) /\ d[i] \in 32 .. 47
      BY <1>2, <1>3, <2>1
    <3>2. i + 2 <= Len(d) /\ d[i + 2] = 0
      BY <3>1 DEF Cut, Whole
    <3> QED BY <1>2, <3>1, <3>2
  <2>2. CASE i > Len(d)
    <3>1. i - Len(d) \in 1 .. Len(bytes) /\ bytes[i - Len(d)] \in 32 .. 47
      BY <1>1, <1>2, <1>3, <2>2
    <3>2. i - Len(d) = 1
      BY <1>1, <1>2, <3>1
    <3>3. i + 2 = Len(d) + 3
      BY <1>2, <3>2
    <3> QED BY <1>1, <1>2, <3>3
  <2> QED BY <2>1, <2>2, <1>2
<1> QED BY <1>2, <1>3 DEF Cut, Whole

LEMMA CutStream ==
  ASSUME NEW d \in Seq(0 .. 255), NEW n \in 0 .. Len(d)
  PROVE  /\ SubSeq(d, 1, n) \in Seq(0 .. 255) /\ Len(SubSeq(d, 1, n)) = n
         /\ \A i \in 1 .. n : SubSeq(d, 1, n)[i] = d[i]
         /\ Cut(d) => Cut(SubSeq(d, 1, n))
<1>1. /\ SubSeq(d, 1, n) \in Seq(0 .. 255) /\ Len(SubSeq(d, 1, n)) = n
      /\ \A i \in 1 .. n : SubSeq(d, 1, n)[i] = d[i]
  <2>1. \A i \in 1 .. n : d[i] \in 0 .. 255
    <3>1. \A i \in 1 .. n : i \in 1 .. Len(d)
      OBVIOUS
    <3> QED BY <3>1, ElementOfSeq
  <2>2. /\ SubSeq(d, 1, n) \in Seq(0 .. 255)
        /\ Len(SubSeq(d, 1, n)) = IF 1 <= n THEN n - 1 + 1 ELSE 0
        /\ \A i \in 1 .. n - 1 + 1 : SubSeq(d, 1, n)[i] = d[1 + i - 1]
    BY <2>1, SubSeqProperties
  <2>3. n - 1 + 1 = n /\ \A i \in 1 .. n : 1 + i - 1 = i
    OBVIOUS
  <2> QED BY <2>2, <2>3
<1>2. Cut(d) => Cut(SubSeq(d, 1, n))
  <2>1. \A i \in 1 .. n : i + 2 <= n => i + 2 \in 1 .. n /\ i \in 1 .. Len(d) /\ i + 2 <= Len(d)
    OBVIOUS
  <2> QED BY <1>1, <2>1 DEF Cut
<1> QED BY <1>1, <1>2

-----------------------------------------------------------------------------
LEMMA Initially == Init => IInv
<1> SUFFICES ASSUME Init PROVE IInv
  OBVIOUS
<1>1. wire \in [flags : SUBSET Fields, announced : SUBSET Fields, written : SUBSET Fields]
  BY DEF Init, NoPacket
<1>2. TypeOK
  <2>1. message \subseteq Fields /\ down \in Seq(0 .. 255) /\ pc = "idle" /\ answers \subseteq Connacks
        /\ blocking \in BOOLEAN /\ asked \in BOOLEAN /\ closed \in BOOLEAN
    BY EmptySeq DEF Init
  <2>2. connects \in 0 .. MaxConnects /\ kind \in 0 .. 15 /\ code \in 0 .. 255 /\ status \in 0 .. 255
    BY AsyncAssumption DEF Init, SUCCESS, UNSPECIFIED
  <2> QED BY <1>1, <2>1, <2>2 DEF TypeOK
<1>3. Stream
  BY DEF Init, Stream, Cut, Whole
<1> QED BY <1>2, <1>3 DEF Init, IInv, PlainInv, BlockingInv, Deaf, Midway, Shown

\* connect_async() touches nothing process() works with.
LEMMA SendKeeps ==
  ASSUME IInv, NEW m \in SUBSET Fields, Send(m)
  PROVE  IInv'
<1>1. Packet(m) \in [flags : SUBSET Fields, announced : SUBSET Fields, written : SUBSET Fields]
  <2>1. Flags(m) \subseteq Fields /\ Announced(m) \subseteq Fields /\ Written(m) \subseteq Fields
    BY DEF Flags, Announced, Written, Fields, Names, Will
  <2> QED BY <2>1 DEF Packet
<1>2. NoPacket \in [flags : SUBSET Fields, announced : SUBSET Fields, written : SUBSET Fields]
  BY DEF NoPacket
<1>3. connects' \in 0 .. MaxConnects
  BY AsyncAssumption DEF IInv, TypeOK, Send
<1>4. TypeOK'
  BY <1>1, <1>2, <1>3 DEF IInv, TypeOK, Send
<1>5. PlainInv'
  BY DEF IInv, PlainInv, Send, AllPlain, Stream, Cut, Whole, Midway, Ahead, Shown
<1>6. BlockingInv'
  BY DEF IInv, BlockingInv, Deaf, Send
<1> QED BY <1>4, <1>5, <1>6 DEF IInv
-----------------------------------------------------------------------------
(* The reads.                                                               *)

\* A byte that is read: what is left of the stream.
LEMMA ByteKeeps ==
  ASSUME TypeOK, Byte, closed' = closed
  PROVE  /\ down' \in Seq(0 .. 255) /\ Head(down) \in 0 .. 255
         /\ Stream => Stream'
         /\ Len(down) >= 1 /\ Len(down') = Len(down) - 1 /\ Head(down) = down[1]
         /\ \A i \in 1 .. Len(down') : down'[i] = down[i + 1]
<1>1. down \in Seq(0 .. 255) /\ down # <<>> /\ down' = Tail(down)
  BY DEF TypeOK, Byte
<1>2. /\ Len(down) >= 1 /\ Len(Tail(down)) = Len(down) - 1 /\ Head(down) = down[1]
      /\ \A i \in 1 .. Len(Tail(down)) : Tail(down)[i] = down[i + 1]
  BY <1>1
<1> QED BY <1>1, <1>2, TailStream DEF Stream

\* Any number of bytes that are read.
LEMMA SomeBytesKeep ==
  ASSUME TypeOK, NEW n \in 1 .. Len(down) + 1, down' = SubSeq(down, n, Len(down)), closed' = closed
  PROVE  down' \in Seq(0 .. 255) /\ (Stream => Stream')
<1>1. /\ down \in Seq(0 .. 255) /\ Len(down) \in Nat
      /\ Len(down') = Len(down) - n + 1
      /\ \A i \in 1 .. Len(down') : down'[i] = down[n + i - 1]
      /\ down' \in Seq(0 .. 255)
  <2>1. down \in Seq(0 .. 255) /\ Len(down) \in Nat
    BY DEF TypeOK
  <2>2. \A i \in n .. Len(down) : down[i] \in 0 .. 255
    <3>1. \A i \in n .. Len(down) : i \in 1 .. Len(down)
      OBVIOUS
    <3> QED BY <2>1, <3>1, ElementOfSeq
  <2>3. /\ down' \in Seq(0 .. 255)
        /\ Len(down') = IF n <= Len(down) THEN Len(down) - n + 1 ELSE 0
        /\ \A i \in 1 .. Len(down) - n + 1 : down'[i] = down[n + i - 1]
    BY <2>1, <2>2, SubSeqProperties
  <2>4. (IF n <= Len(down) THEN Len(down) - n + 1 ELSE 0) = Len(down) - n + 1
    BY <2>1
  <2> QED BY <2>1, <2>3, <2>4
<1>2. \A i \in 1 .. Len(down') : n + i - 1 \in 1 .. Len(down)
  BY <1>1
<1>3. Cut(down) => Cut(down')
  <2> SUFFICES ASSUME Cut(down), NEW i \in 1 .. Len(down'), down'[i] \in 32 .. 47, i + 2 <= Len(down')
               PROVE  down'[i + 2] = 0
    BY DEF Cut
  <2>1. i + 2 \in 1 .. Len(down')
    BY <1>1
  <2>2. down'[i + 2] = down[n + (i + 2) - 1] /\ down'[i] = down[n + i - 1] /\ n + (i + 2) - 1 \in 1 .. Len(down)
    BY <1>1, <1>2, <2>1
  <2>3. n + (i + 2) - 1 = (n + i - 1) + 2
    OBVIOUS
  <2> QED BY <1>1, <1>2, <2>2, <2>3 DEF Cut
<1>4. Whole(down) => Whole(down')
  <2> SUFFICES ASSUME Whole(down), NEW i \in 1 .. Len(down'), down'[i] \in 32 .. 47
               PROVE  i + 2 <= Len(down')
    BY DEF Whole
  <2>1. (n + i - 1) + 2 <= Len(down)
    BY <1>1, <1>2 DEF Whole
  <2> QED BY <1>1, <2>1
<1> QED BY <1>1, <1>3, <1>4 DEF Stream

LEMMA ReadTypeKeeps ==
  ASSUME IInv, ReadType, UNCHANGED <<message, wire, connects, blocking, asked, answers, closed>>
  PROVE  IInv'
<1>1. CASE Byte /\ kind' = Head(down) \div 16 /\ pc' = "length"
  <2>1. /\ down' \in Seq(0 .. 255) /\ (Stream => Stream') /\ Head(down) \in 0 .. 255
        /\ Len(down) >= 1 /\ Len(down') = Len(down) - 1 /\ Head(down) = down[1]
        /\ \A i \in 1 .. Len(down') : down'[i] = down[i + 1]
    BY <1>1, ByteKeeps DEF IInv
  <2>2. kind' \in 0 .. 15 /\ (kind' = CONNACK => Head(down) \in 32 .. 47)
    BY <1>1, <2>1, UpperHalf DEF CONNACK
  <2>3. Stream /\ kind' = CONNACK => Ahead(2)'
    BY <2>1, <2>2 DEF IInv, Stream, Cut, Whole, Ahead, TypeOK
  <2>4. TypeOK'
    BY <1>1, <2>1, <2>2 DEF IInv, TypeOK, ReadType
  <2>5. PlainInv'
    BY <1>1, <2>1, <2>3 DEF IInv, PlainInv, AllPlain, Midway, Shown, ReadType
  <2>6. BlockingInv'
    BY <1>1 DEF IInv, BlockingInv, Deaf, ReadType
  <2> QED BY <2>4, <2>5, <2>6 DEF IInv
<1>2. CASE NoByte /\ kind' = kind /\ pc' = "idle"
  BY <1>2 DEF IInv, TypeOK, PlainInv, AllPlain, Stream, Midway, Shown, BlockingInv, Deaf, ReadType, NoByte
<1> QED BY <1>1, <1>2 DEF ReadType

LEMMA ReadLengthKeeps ==
  ASSUME IInv, ReadLength, UNCHANGED <<message, wire, connects, blocking, asked, answers, closed>>
  PROVE  IInv'
<1> USE DEF ReadLength
<1>a. ASSUME down' \in Seq(0 .. 255), Stream => Stream', pc' = "idle"
      PROVE  IInv'
  BY <1>a DEF IInv, TypeOK, PlainInv, AllPlain, Midway, Shown, BlockingInv, Deaf
<1>1. CASE Byte /\ pc' = "idle"
  BY <1>1, <1>a, ByteKeeps DEF IInv
<1>2. CASE kind = CONNACK /\ pc' = "flags" /\ NoByte
  <2>1. TypeOK'
    BY <1>2 DEF IInv, TypeOK, NoByte
  <2>2. PlainInv'
    BY <1>2 DEF IInv, PlainInv, AllPlain, Stream, Midway, Ahead, Shown, NoByte
  <2>3. BlockingInv'
    BY <1>2 DEF IInv, BlockingInv, Deaf, NoByte, Pause
  <2> QED BY <2>1, <2>2, <2>3 DEF IInv
<1>3. CASE pc' = "idle" /\ NoByte
  BY <1>3, <1>a DEF IInv, TypeOK, NoByte, Stream
<1>4. CASE pc' = "idle" /\ \E n \in 1 .. Len(down) + 1 : down' = SubSeq(down, n, Len(down))
  BY <1>4, <1>a, SomeBytesKeep DEF IInv
<1> QED BY <1>1, <1>2, <1>3, <1>4 DEF Dispatch

LEMMA ReadFlagsKeeps ==
  ASSUME IInv, ReadFlags, UNCHANGED <<message, wire, connects, blocking, asked, answers, closed>>
  PROVE  IInv'
<1>1. CASE Byte /\ pc' = "reason" /\ status' = status
  <2>1. /\ down' \in Seq(0 .. 255) /\ (Stream => Stream')
        /\ Len(down) >= 1 /\ Len(down') = Len(down) - 1
        /\ \A i \in 1 .. Len(down') : down'[i] = down[i + 1]
    BY <1>1, ByteKeeps DEF IInv
  <2>2. TypeOK'
    BY <1>1, <2>1 DEF IInv, TypeOK, ReadFlags
  <2>3. Ahead(2) => Ahead(1)'
    BY <2>1 DEF IInv, Ahead, TypeOK
  <2>4. PlainInv'
    BY <1>1, <2>1, <2>3 DEF IInv, PlainInv, AllPlain, Midway, Shown, ReadFlags
  <2>5. BlockingInv'
    BY <1>1 DEF IInv, BlockingInv, Deaf, ReadFlags, Byte
  <2> QED BY <2>2, <2>4, <2>5 DEF IInv
<1>2. CASE NoByte /\ pc' = "idle" /\ status' = code
  <2>1. TypeOK'
    BY <1>2 DEF IInv, TypeOK, ReadFlags, NoByte
  <2>2. PlainInv'
    BY <1>2 DEF IInv, PlainInv, AllPlain, Stream, Midway, Shown, ReadFlags, NoByte
  <2>3. BlockingInv'
    BY <1>2 DEF IInv, BlockingInv, Deaf, ReadFlags, NoByte
  <2> QED BY <2>1, <2>2, <2>3 DEF IInv
<1> QED BY <1>1, <1>2 DEF ReadFlags

LEMMA ReadReasonKeeps ==
  ASSUME IInv, ReadReason, UNCHANGED <<message, wire, connects, blocking, asked, answers, closed>>
  PROVE  IInv'
<1>1. /\ down' \in Seq(0 .. 255) /\ (Stream => Stream') /\ code' \in 0 .. 255
      /\ Ahead(1) => code' = 0
  <2>1. CASE Byte /\ code' = Head(down)
    BY <2>1, ByteKeeps DEF IInv, Ahead, ReadReason
  <2>2. CASE NoByte /\ code' = 0
    BY <2>2 DEF IInv, TypeOK, Stream, NoByte
  <2> QED BY <2>1, <2>2 DEF ReadReason
<1>2. TypeOK'
  BY <1>1 DEF IInv, TypeOK, ReadReason
<1>3. PlainInv'
  BY <1>1 DEF IInv, PlainInv, AllPlain, Midway, Shown, ReadReason, SUCCESS
<1>4. BlockingInv'
  BY DEF IInv, BlockingInv, Deaf, ReadReason
<1> QED BY <1>2, <1>3, <1>4 DEF IInv
-----------------------------------------------------------------------------
(* The broker and the network.                                              *)

LEMMA AnswerKeeps ==
  ASSUME IInv, Answer
  PROVE  IInv'
<1>1. PICK bytes \in Connacks : down' = down \o bytes /\ answers' = answers \cup {bytes}
  BY DEF Answer
<1>2. /\ down' \in Seq(0 .. 255)
      /\ Len(down') >= Len(down) /\ \A i \in 1 .. Len(down) : down'[i] = down[i]
  BY <1>1, AsyncAssumption DEF IInv, TypeOK
<1>3. TypeOK'
  BY <1>1, <1>2 DEF IInv, TypeOK, Answer
<1>4. PlainInv'
  <2> SUFFICES ASSUME AllPlain' PROVE Stream' /\ Midway' /\ Shown'
    BY DEF PlainInv
  <2>1. Stream /\ Midway /\ Shown /\ Plain(bytes)
    BY <1>1 DEF AllPlain, IInv, PlainInv
  <2>2. Stream'
    BY <1>1, <2>1, AnsweredStream DEF IInv, TypeOK, Stream, Answer
  <2>3. Midway' /\ Shown'
    BY <1>2, <2>1 DEF IInv, TypeOK, Midway, Ahead, Shown, Answer
  <2> QED BY <2>2, <2>3
<1>5. BlockingInv'
  BY DEF IInv, BlockingInv, Deaf, Answer
<1> QED BY <1>3, <1>4, <1>5 DEF IInv

LEMMA CloseKeeps ==
  ASSUME IInv, Close
  PROVE  IInv'
<1>1. PICK n \in 0 .. Len(down) : down' = SubSeq(down, 1, n)
  BY DEF Close
<1>2. /\ down' \in Seq(0 .. 255) /\ Len(down') = n /\ n <= Len(down)
      /\ \A i \in 1 .. n : down'[i] = down[i]
  BY <1>1, CutStream DEF IInv, TypeOK
<1>3. TypeOK'
  BY <1>2 DEF IInv, TypeOK, Close
<1>4. PlainInv'
  <2>1. Cut(down) => Cut(down')
    BY <1>1, CutStream DEF IInv, TypeOK
  <2>2. Midway => Midway'
    BY <1>1, <1>2 DEF IInv, TypeOK, Midway, Ahead, Close
  <2> QED BY <2>1, <2>2 DEF IInv, PlainInv, AllPlain, Stream, Shown, Close
<1>5. BlockingInv'
  BY DEF IInv, BlockingInv, Deaf, Close
<1> QED BY <1>3, <1>4, <1>5 DEF IInv

LEMMA Inductive == IInv /\ [Next]_asyncvars => IInv'
<1> SUFFICES ASSUME IInv, [Next]_asyncvars
             PROVE  IInv'
  OBVIOUS
<1>1. CASE ConnectPayload
  BY <1>1, SendKeeps DEF ConnectPayload
<1>2. CASE ConnectNames
  <2>1. PICK names \in SUBSET Names : Send((message \ (Names \cup {"will_topic"})) \cup names)
    BY <1>2 DEF ConnectNames
  <2>2. (message \ (Names \cup {"will_topic"})) \cup names \in SUBSET Fields
    BY <2>1 DEF IInv, TypeOK, Names, Fields
  <2> QED BY <2>1, <2>2, SendKeeps
<1>3. CASE Process
  BY <1>3 DEF IInv, Process, TypeOK, PlainInv, AllPlain, Stream, Cut, Whole, Midway, Shown, BlockingInv, Deaf
<1>4. CASE Receive
  BY <1>4, ReadTypeKeeps, ReadLengthKeeps, ReadFlagsKeeps, ReadReasonKeeps DEF Receive
<1>5. CASE Answer
  BY <1>5, AnswerKeeps
<1>6. CASE Close
  BY <1>6, CloseKeeps
<1>7. CASE UNCHANGED asyncvars
  BY <1>7 DEF asyncvars, IInv, TypeOK, PlainInv, AllPlain, Stream, Cut, Whole, Midway, Ahead, Shown, BlockingInv, Deaf
<1> QED BY <1>1, <1>2, <1>3, <1>4, <1>5, <1>6, <1>7 DEF Next

-----------------------------------------------------------------------------
\* The variables of the client keep their types, for every CONNACK (Client.cpp,
\* serializer.cpp).
THEOREM TypeCorrect == AsyncSpec => []TypeOK
<1>1. IInv => TypeOK
  BY DEF IInv
<1> QED BY <1>1, Initially, Inductive, PTL DEF AsyncSpec

\* For every CONNACK, properties included: on a socket that blocks status() shows nothing
\* before the connection is gone, and SUCCESS then; on one that does not, it shows nothing
\* but SUCCESS until the broker has sent a CONNACK one of whose later bytes reads as the
\* head of another (serializer.cpp:15, Client.cpp:43-45).
THEOREM ShownOnSilence == AsyncSpec => []ConnectedOnSilence
<1>1. IInv => ConnectedOnSilence
  BY DEF IInv, PlainInv, AllPlain, Shown, BlockingInv, Deaf, ConnectedOnSilence
<1> QED BY <1>1, Initially, Inductive, PTL DEF AsyncSpec

\* The last whole CONNECT is the one of the message as it is now.
Current == wire # NoPacket => wire = Packet(message)

\* For every sequence of calls of both connect_async(), a CONNECT is understood exactly
\* when it has a will topic, a user name and a password (types.hpp:126, serializer.hpp:516).
THEOREM FullConnectsOnly == AsyncSpec => []OnlyAFullConnectIsUnderstood
<1>1. Init => Current
  BY DEF Init, Current
<1>2. Current /\ [Next]_asyncvars => Current'
  <2> SUFFICES ASSUME Current, [Next]_asyncvars
               PROVE  Current'
    OBVIOUS
  <2>1. CASE ConnectPayload \/ ConnectNames
    BY <2>1 DEF ConnectPayload, ConnectNames, Send, Current
  <2>2. CASE UNCHANGED <<message, wire>>
    BY <2>2 DEF Current
  <2> QED BY <2>1, <2>2 DEF Next, Process, Receive, Answer, Close, asyncvars
<1>3. TypeOK /\ Current => OnlyAFullConnectIsUnderstood
  <2> SUFFICES ASSUME TypeOK, wire = Packet(message)
               PROVE  Understood(wire) <=> {"will_topic", "username", "password"} \subseteq message
    BY DEF Current, OnlyAFullConnectIsUnderstood
  <2>1. /\ wire.flags = Flags(message) /\ wire.written = Fields
        /\ wire.announced = Announced(message)
    BY DEF Packet, Written
  <2> QED BY <2>1 DEF Understood, Taken, Announced, Flags, Fields, Names, Will, TypeOK
<1> QED BY <1>1, <1>2, <1>3, TypeCorrect, PTL DEF AsyncSpec
=============================================================================
