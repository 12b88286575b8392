------------------------- MODULE OptiServiceProofs -------------------------
(***************************************************************************)
(* Proofs about both halves of OptiService.                                *)
(*                                                                         *)
(* OptiServer: its types, the bound on what the parser keeps, that the     *)
(* newest client is the one that is read, and that empty messages end with *)
(* the first real one.                                                     *)
(* Then the stream: where the bytes ahead of the parser come from, which   *)
(* packets are handed over whole and which are lost, how many messages are *)
(* made of two packets, and that the link implements LossyFifo.            *)
(*                                                                         *)
(* OptiPostWork: its types, and that the two threads never meet in the     *)
(* shared copies although no lock guards them, for any number of robots    *)
(* and any interval, under RoundsAreShort.                                 *)
(***************************************************************************)
EXTENDS OptiServer, OptiPostWork, FiniteSetTheorems, SequenceTheorems, TLAPS

USE DEF NoClient

-----------------------------------------------------------------------------
(* Lemmas about the parts the model is built from.                         *)

\* A packet takes a whole header on the wire, or the length announced there: of the
\* two the parser tells apart only that a payload follows, and how long it is.
LEMMA SizeIs ==
  /\ MESSAGE_HEAD_LEN \in Nat \ {0} /\ MAX_MESSAGE_LEN \in Nat
  /\ MESSAGE_HEAD_LEN <= MAX_MESSAGE_LEN
  /\ CmdOf \in [Packet -> Cmd]
  /\ \A p \in Packet :
       /\ LenOf[p] \in Nat /\ Size(p) \in Nat
       /\ MESSAGE_HEAD_LEN <= Size(p) /\ LenOf[p] <= Size(p)
       /\ Size(p) > MESSAGE_HEAD_LEN <=> LenOf[p] > MESSAGE_HEAD_LEN
       /\ Size(p) > MESSAGE_HEAD_LEN => Size(p) = LenOf[p]
       /\ Size(p) <= MAX_MESSAGE_LEN <=> LenOf[p] <= MAX_MESSAGE_LEN
BY ProtocolAssumption DEF Size

\* What a client writes is a sequence of bytes, as long as the packet takes.
LEMMA EncodeType ==
  ASSUME NEW p \in Packet
  PROVE  Encode(p) \in Seq(Byte) /\ Len(Encode(p)) = Size(p)
<1>1. Size(p) \in Nat  BY SizeIs
<1>2. \A k \in 1..Size(p) : [pkt |-> p, at |-> k - 1] \in Byte  BY <1>1 DEF Byte
<1>3. Encode(p) \in [1..Size(p) -> Byte]  BY <1>2 DEF Encode
<1> QED  BY <1>1, <1>3

\* Any part of a sequence is a sequence over the same set.
LEMMA PartType ==
  ASSUME NEW S, NEW s \in Seq(S), NEW m \in 1..(Len(s) + 1), NEW n \in 0..Len(s)
  PROVE  SubSeq(s, m, n) \in Seq(S)
         /\ Len(SubSeq(s, m, n)) = IF m <= n THEN n - m + 1 ELSE 0
<1>1. \A k \in m..n : s[k] \in S  BY ElementOfSeq
<1> QED  BY <1>1, SubSeqProperties

\* The end of an iteration keeps the types of the parser, if the branch taken
\* leaves values of the right types and does not run over the chunk.
LEMMA EndOfIterationType ==
  ASSUME ProtocolTypeOK,
         NEW state \in {"Idle", "Processing"}, NEW cmd \in Cmd,
         NEW payload \in Seq(Byte), NEW size \in Int,
         NEW delta \in Nat, i + delta <= Len(raw_data),
         EndOfIteration(state, cmd, payload, size, delta)
  PROVE  ProtocolTypeOK'
<1>1. Len(raw_data) \in Nat  BY LenProperties DEF ProtocolTypeOK
<1>2. i' \in 0..Len(raw_data')  BY <1>1 DEF ProtocolTypeOK, EndOfIteration
<1>3. out' \in Seq(Message)
  <2>1. [cmd |-> cmd, payload |-> payload] \in Message  BY DEF Message
  <2>2. Append(out, [cmd |-> cmd, payload |-> payload]) \in Seq(Message)
    BY <2>1, AppendProperties DEF ProtocolTypeOK
  <2> QED  BY <2>2 DEF EndOfIteration, ProtocolTypeOK
<1>4. rx_payload' \in Seq(Byte)  BY EmptySeq DEF EndOfIteration
<1> QED  BY <1>2, <1>3, <1>4 DEF ProtocolTypeOK, EndOfIteration

\* A header found at the index lies in the chunk and names a packet.
LEMMA HeadHereType ==
  ASSUME ProtocolTypeOK, ~ParserDone, HeadHere
  PROVE  /\ Current.pkt \in Packet
         /\ i + MESSAGE_HEAD_LEN <= Len(raw_data)
         /\ CmdOf[Current.pkt] \in Cmd
         /\ LenOf[Current.pkt] \in Nat
         /\ LenOf[Current.pkt] - MESSAGE_HEAD_LEN \in Int
<1>1. Len(raw_data) \in Nat  BY LenProperties DEF ProtocolTypeOK
<1>2. i + 1 \in 1..Len(raw_data)  BY <1>1 DEF ProtocolTypeOK, ParserDone
<1>3. Current \in Byte  BY <1>2, ElementOfSeq DEF ProtocolTypeOK, Current
<1>4. Current.pkt \in Packet  BY <1>3 DEF Byte
<1> QED  BY <1>1, <1>4, ProtocolAssumption DEF HeadHere, ProtocolTypeOK

\* Every iteration of the parser's loop keeps the types.
LEMMA ParserStepType ==
  ASSUME ProtocolTypeOK, ParserStep
  PROVE  ProtocolTypeOK'
<1>1. /\ Len(raw_data) \in Nat
      /\ ~ParserDone => i + 1 <= Len(raw_data)
      /\ ~ParserDone => Current \in Byte
  <2>1. Len(raw_data) \in Nat  BY LenProperties DEF ProtocolTypeOK
  <2>2. ~ParserDone => i + 1 \in 1..Len(raw_data)
    BY <2>1 DEF ProtocolTypeOK, ParserDone
  <2> QED  BY <2>1, <2>2, ElementOfSeq DEF ProtocolTypeOK, Current
<1>2. CASE ReceivePayloadByte
  <2> DEFINE grown == IF Len(rx_payload) < rx_payload_size
                        THEN Append(rx_payload, Current) ELSE rx_payload
  <2>1. ~ParserDone /\ EndOfIteration("Processing", rx_cmd, grown, rx_payload_size, 1)
    BY <1>2 DEF ReceivePayloadByte
  <2>2. grown \in Seq(Byte)  BY <1>1, <2>1, AppendProperties DEF ProtocolTypeOK
  <2> HIDE DEF grown
  <2> QED  BY <1>1, <2>1, <2>2, EndOfIterationType DEF ProtocolTypeOK
<1>3. CASE AcceptHead
  <2>1. ~ParserDone /\ HeadHere  BY <1>3 DEF AcceptHead
  <2>2. EndOfIteration("Processing", CmdOf[Current.pkt], <<>>,
                       LenOf[Current.pkt] - MESSAGE_HEAD_LEN, MESSAGE_HEAD_LEN)
    BY <1>3 DEF AcceptHead
  <2> QED  BY <2>1, <2>2, HeadHereType, EmptySeq, EndOfIterationType,
              ProtocolAssumption
<1>4. CASE RejectHead
  <2>1. ~ParserDone /\ HeadHere  BY <1>4 DEF RejectHead
  <2>2. EndOfIteration("Idle", CmdOf[Current.pkt], rx_payload, rx_payload_size, 1)
    BY <1>4 DEF RejectHead
  <2> QED  BY <1>1, <2>1, <2>2, HeadHereType, EndOfIterationType DEF ProtocolTypeOK
<1>5. CASE SkipByte
  <2>1. ~ParserDone /\ EndOfIteration("Idle", rx_cmd, rx_payload, rx_payload_size, 1)
    BY <1>5 DEF SkipByte
  <2> QED  BY <1>1, <2>1, EndOfIterationType DEF ProtocolTypeOK
<1> QED  BY <1>2, <1>3, <1>4, <1>5 DEF ParserStep

-----------------------------------------------------------------------------
(* Type correctness.                                                       *)

\* Handing a chunk to the parser keeps its types.
LEMMA PushType ==
  ASSUME ProtocolTypeOK, NEW data \in Seq(Byte), PushToProtocol(data)
  PROVE  ProtocolTypeOK'
BY LenProperties DEF ProtocolTypeOK, PushToProtocol

\* What one read takes, and what it leaves, are sequences of bytes.
LEMMA ReadType ==
  ASSUME TypeOK, NEW c \in Conn, NEW n \in 1..Len(net[c])
  PROVE  /\ SubSeq(net[c], n + 1, Len(net[c])) \in Seq(Byte)
         /\ [rxbuf EXCEPT ![c] = @ \o SubSeq(net[c], 1, n)] \in [Conn -> Seq(Byte)]
<1>1. net[c] \in Seq(Byte) /\ rxbuf[c] \in Seq(Byte)  BY DEF TypeOK
<1>2. Len(net[c]) \in Nat  BY <1>1, LenProperties
<1>3. SubSeq(net[c], n + 1, Len(net[c])) \in Seq(Byte)  BY <1>1, <1>2, PartType
<1>4. SubSeq(net[c], 1, n) \in Seq(Byte)  BY <1>1, <1>2, PartType
<1>5. rxbuf[c] \o SubSeq(net[c], 1, n) \in Seq(Byte)  BY <1>1, <1>4, ConcatProperties
<1> QED  BY <1>3, <1>5 DEF TypeOK

LEMMA ReadStepType ==
  ASSUME TypeOK, NEW c \in Conn, NEW n \in 1..Len(net[c]), onClientReadyRead(c, n)
  PROVE  TypeOK'
<1> DEFINE filled == [rxbuf EXCEPT ![c] = @ \o SubSeq(net[c], 1, n)]
           waiting == IF client_ = NoClient THEN <<>> ELSE filled[client_]
           size == IF Len(waiting) < RX_MAX_SIZE THEN Len(waiting) ELSE RX_MAX_SIZE
           data == SubSeq(waiting, 1, size)
           rest == SubSeq(waiting, size + 1, Len(waiting))
<1>1. filled \in [Conn -> Seq(Byte)] /\ net' \in [Conn -> Seq(Byte)]
  BY ReadType DEF onClientReadyRead, TypeOK
<1>2. waiting \in Seq(Byte) /\ Len(waiting) \in Nat
  BY <1>1, EmptySeq, LenProperties DEF TypeOK
<1>3. size \in 0..Len(waiting)  BY <1>2, ServerAssumption
<1>4. data \in Seq(Byte) /\ rest \in Seq(Byte) /\ Len(data) = size
  BY <1>2, <1>3, PartType
<1>5. client_ \in Conn \/ (client_ = NoClient /\ size = 0)
  BY <1>2, ServerAssumption DEF TypeOK
<1>6. CASE size = 0
  <2>1. rxbuf' = filled /\ UNCHANGED <<protocolVars, cut, torn>>
    BY <1>6 DEF onClientReadyRead
  <2>2. ProtocolTypeOK'  BY <2>1 DEF TypeOK, ProtocolTypeOK, protocolVars
  <2> QED  BY <1>1, <2>1, <2>2 DEF TypeOK, onClientReadyRead, connVars
<1>7. CASE size # 0
  <2>1. /\ rxbuf' = [filled EXCEPT ![client_] = rest]
        /\ PushToProtocol(data)
        /\ cut' = cut \cup CutBy(data)
        /\ torn' = (torn \/ (rx_state = "Processing"
                             /\ FromConn(raw_data) # FromConn(data)))
    BY <1>7 DEF onClientReadyRead
  <2>2. ProtocolTypeOK'  BY <1>4, <2>1, PushType DEF TypeOK
  <2>3. CutBy(data) \subseteq Packet
    <3>1. Len(data) \in 1..Len(data)  BY <1>3, <1>4, <1>7
    <3>2. Last(data) \in Byte  BY <1>4, <3>1, ElementOfSeq DEF Last
    <3> QED  BY <3>2 DEF CutBy, Byte
  <2>4. rxbuf' \in [Conn -> Seq(Byte)]  BY <1>1, <1>4, <2>1
  <2> HIDE DEF filled, waiting, size, data, rest
  <2> QED  BY <1>1, <2>1, <2>2, <2>3, <2>4 DEF TypeOK, onClientReadyRead, connVars
<1> QED  BY <1>6, <1>7

\* Every variable keeps its type: the parser, the sockets and what is between.
THEOREM ServerTypeCorrect == Spec => []TypeOK
<1>1. Init => TypeOK
  <2> SUFFICES ASSUME Init PROVE TypeOK
    OBVIOUS
  <2>1. ProtocolTypeOK  BY EmptySeq DEF Init, ProtocolInit, ProtocolTypeOK
  <2>2. owner \in Seq(Conn) /\ Len(owner) <= MaxPackets
    BY EmptySeq, ServerAssumption DEF Init
  <2>3. net \in [Conn -> Seq(Byte)] /\ rxbuf \in [Conn -> Seq(Byte)]
    <3>1. <<>> \in Seq(Byte)  BY EmptySeq
    <3> QED  BY <3>1 DEF Init
  <2>4. accepted \in 0..MaxConn  BY ServerAssumption DEF Init
  <2> QED  BY <2>1, <2>2, <2>3, <2>4 DEF Init, TypeOK
<1>2. TypeOK /\ [Next]_vars => TypeOK'
  <2> SUFFICES ASSUME TypeOK, [Next]_vars PROVE TypeOK'
    OBVIOUS
  <2> USE DEF TypeOK
  <2>1. CASE UNCHANGED vars
    BY <2>1 DEF vars, protocolVars, connVars, streamVars, ProtocolTypeOK
  <2>2. ASSUME NEW c \in Conn, ClientSends(c) PROVE TypeOK'
    <3>1. Len(owner) + 1 \in 1..MaxPackets /\ Len(owner) + 1 \in Packet
      BY <2>2, LenProperties, ServerAssumption DEF ClientSends
    <3>2. owner' \in Seq(Conn) /\ Len(owner') <= MaxPackets
      BY <2>2, <3>1, AppendProperties DEF ClientSends
    <3>3. net[c] \o Encode(Len(owner) + 1) \in Seq(Byte)
      BY <3>1, EncodeType, ConcatProperties
    <3>4. net' \in [Conn -> Seq(Byte)]  BY <2>2, <3>3 DEF ClientSends
    <3>5. ProtocolTypeOK'  BY <2>2 DEF ClientSends, protocolVars, ProtocolTypeOK
    <3> QED  BY <2>2, <3>2, <3>4, <3>5 DEF ClientSends, connVars
  <2>3. ASSUME NEW c \in Conn, onNewConnection(c) PROVE TypeOK'
    <3>1. ProtocolTypeOK'  BY <2>3 DEF onNewConnection, protocolVars, ProtocolTypeOK
    <3> QED  BY <2>3, <3>1 DEF onNewConnection, streamVars, Conn
  <2>4. ASSUME NEW c \in Conn, FlushGreeting(c) PROVE TypeOK'
    <3>1. ProtocolTypeOK'  BY <2>4 DEF FlushGreeting, protocolVars, ProtocolTypeOK
    <3> QED  BY <2>4, <3>1 DEF FlushGreeting, streamVars, onClientDisconnected
  <2>5. ASSUME NEW c \in Conn, PeerCloses(c) PROVE TypeOK'
    <3>1. ProtocolTypeOK'  BY <2>5 DEF PeerCloses, protocolVars, ProtocolTypeOK
    <3> QED  BY <2>5, <3>1 DEF PeerCloses, streamVars, onClientDisconnected
  <2>6. ASSUME NEW c \in Conn, NEW n \in 1..Len(net[c]), onClientReadyRead(c, n)
        PROVE  TypeOK'
    BY <2>6, ReadStepType
  <2>7. CASE Parse
    <3>1. ProtocolTypeOK'  BY <2>7, ParserStepType DEF Parse
    <3> QED  BY <2>7, <3>1 DEF Parse, connVars, streamVars
  <2> QED  BY <2>1, <2>2, <2>3, <2>4, <2>5, <2>6, <2>7 DEF Next
<1> QED  BY <1>1, <1>2, PTL DEF Spec

-----------------------------------------------------------------------------
(* What the parser keeps is bounded.                                       *)

\* The end of an iteration keeps the bound, if the branch taken respects it:
\* a payload kept waiting is shorter than the length awaited.
LEMMA EndOfIterationBound ==
  ASSUME ProtocolTypeOK, BoundedBuffering,
         NEW state \in {"Idle", "Processing"}, NEW cmd \in Cmd,
         NEW payload \in Seq(Byte), NEW size \in Int, NEW delta \in Nat,
         size <= MAX_MESSAGE_LEN - MESSAGE_HEAD_LEN,
         Len(payload) <= MAX_MESSAGE_LEN - MESSAGE_HEAD_LEN,
         state = "Idle" => payload = <<>>,
         EndOfIteration(state, cmd, payload, size, delta)
  PROVE  BoundedBuffering'
<1> DEFINE m == [cmd |-> cmd, payload |-> payload]
<1>1. Len(payload) \in Nat  BY LenProperties
<1>2. m \in Message  BY DEF Message
<1>3. \A k \in DOMAIN out' : Len(out'[k].payload) <= MAX_MESSAGE_LEN - MESSAGE_HEAD_LEN
  <2>1. CASE out' = Append(out, m)
    <3>1. /\ Len(out) \in Nat /\ DOMAIN out = 1..Len(out)
          /\ DOMAIN out' = 1..(Len(out) + 1)
          /\ \A k \in 1..Len(out) : out'[k] = out[k]
          /\ out'[Len(out) + 1] = m
      BY <1>2, <2>1, AppendProperties, LenProperties DEF ProtocolTypeOK
    <3> QED  BY <3>1 DEF BoundedBuffering
  <2>2. CASE UNCHANGED out
    BY <2>2 DEF BoundedBuffering
  <2> QED  BY <2>1, <2>2 DEF EndOfIteration
<1>4. rx_state' = "Processing" => Len(rx_payload') < rx_payload_size'
  BY <1>1 DEF EndOfIteration
<1>5. rx_state' = "Idle" => rx_payload' = <<>>
  BY DEF EndOfIteration
<1> QED  BY <1>3, <1>4, <1>5 DEF BoundedBuffering, EndOfIteration

\* An iteration that stays idle keeps the bound.
LEMMA IdleBranchBound ==
  ASSUME ProtocolTypeOK, BoundedBuffering, rx_state = "Idle", NEW cmd \in Cmd,
         EndOfIteration("Idle", cmd, rx_payload, rx_payload_size, 1)
  PROVE  BoundedBuffering'
<1>1. rx_payload = <<>>  BY DEF BoundedBuffering
<1>2. rx_payload \in Seq(Byte) /\ rx_payload_size \in Int  BY DEF ProtocolTypeOK
<1>3. Len(rx_payload) <= MAX_MESSAGE_LEN - MESSAGE_HEAD_LEN
  BY <1>1, ProtocolAssumption
<1>4. rx_payload_size <= MAX_MESSAGE_LEN - MESSAGE_HEAD_LEN  BY DEF BoundedBuffering
<1> QED  BY <1>1, <1>2, <1>3, <1>4, EndOfIterationBound

\* Every iteration of the parser's loop keeps the bound.
LEMMA ParserStepBound ==
  ASSUME ProtocolTypeOK, BoundedBuffering, ParserStep
  PROVE  BoundedBuffering'
<1> USE ProtocolAssumption
<1>1. /\ Len(rx_payload) \in Nat /\ Len(raw_data) \in Nat /\ Len(<<>>) = 0
      /\ ~ParserDone => Current \in Byte
  <2>1. Len(rx_payload) \in Nat /\ Len(raw_data) \in Nat
    BY LenProperties DEF ProtocolTypeOK
  <2>2. ~ParserDone => i + 1 \in 1..Len(raw_data)
    BY <2>1 DEF ProtocolTypeOK, ParserDone
  <2> QED  BY <2>1, <2>2, ElementOfSeq DEF ProtocolTypeOK, Current
<1>2. CASE ReceivePayloadByte
  <2> DEFINE grown == IF Len(rx_payload) < rx_payload_size
                        THEN Append(rx_payload, Current) ELSE rx_payload
  <2>1. /\ ~ParserDone /\ rx_state = "Processing"
        /\ EndOfIteration("Processing", rx_cmd, grown, rx_payload_size, 1)
    BY <1>2 DEF ReceivePayloadByte
  <2>2. grown = Append(rx_payload, Current)  BY <2>1 DEF BoundedBuffering
  <2>3. grown \in Seq(Byte) /\ Len(grown) = Len(rx_payload) + 1
    BY <1>1, <2>1, <2>2, AppendProperties DEF ProtocolTypeOK
  <2>4. Len(grown) <= MAX_MESSAGE_LEN - MESSAGE_HEAD_LEN
    BY <1>1, <2>1, <2>3 DEF BoundedBuffering, ProtocolTypeOK
  <2> HIDE DEF grown
  <2> QED  BY <2>1, <2>3, <2>4, EndOfIterationBound
           DEF ProtocolTypeOK, BoundedBuffering
<1>3. CASE AcceptHead
  <2>1. /\ ~ParserDone /\ HeadHere /\ LenOf[Current.pkt] <= MAX_MESSAGE_LEN
        /\ EndOfIteration("Processing", CmdOf[Current.pkt], <<>>,
                          LenOf[Current.pkt] - MESSAGE_HEAD_LEN, MESSAGE_HEAD_LEN)
    BY <1>3 DEF AcceptHead
  <2>2. /\ CmdOf[Current.pkt] \in Cmd
        /\ LenOf[Current.pkt] - MESSAGE_HEAD_LEN \in Int
        /\ LenOf[Current.pkt] - MESSAGE_HEAD_LEN <= MAX_MESSAGE_LEN - MESSAGE_HEAD_LEN
    BY <2>1, HeadHereType
  <2>3. <<>> \in Seq(Byte) /\ Len(<<>>) <= MAX_MESSAGE_LEN - MESSAGE_HEAD_LEN
    BY <1>1, EmptySeq
  <2> QED  BY <2>1, <2>2, <2>3, EndOfIterationBound
<1>4. CASE RejectHead
  <2>1. /\ ~ParserDone /\ HeadHere
        /\ EndOfIteration("Idle", CmdOf[Current.pkt], rx_payload, rx_payload_size, 1)
    BY <1>4 DEF RejectHead
  <2>2. CmdOf[Current.pkt] \in Cmd  BY <2>1, HeadHereType
  <2>3. rx_state = "Idle"  BY <1>4 DEF RejectHead
  <2> QED  BY <2>1, <2>2, <2>3, IdleBranchBound
<1>5. CASE SkipByte
  <2>1. rx_state = "Idle" /\ EndOfIteration("Idle", rx_cmd, rx_payload, rx_payload_size, 1)
    BY <1>5 DEF SkipByte
  <2> QED  BY <2>1, IdleBranchBound DEF ProtocolTypeOK
<1> QED  BY <1>2, <1>3, <1>4, <1>5 DEF ParserStep

\* Whatever the clients send and however it is cut, the parser keeps no more
\* than one maximal payload and hands over none that is longer.
THEOREM BufferingIsBounded == Spec => []BoundedBuffering
<1>1. Init => BoundedBuffering
  <2> SUFFICES ASSUME Init PROVE BoundedBuffering
    OBVIOUS
  <2>1. out = <<>> /\ rx_payload = <<>> /\ rx_payload_size = 0 /\ rx_state = "Idle"
    BY DEF Init, ProtocolInit
  <2>2. DOMAIN out = {}  BY <2>1
  <2> QED  BY <2>1, <2>2, ProtocolAssumption DEF BoundedBuffering
<1>2. TypeOK /\ BoundedBuffering /\ [Next]_vars => BoundedBuffering'
  <2> SUFFICES ASSUME TypeOK, BoundedBuffering, [Next]_vars PROVE BoundedBuffering'
    OBVIOUS
  <2>1. CASE UNCHANGED <<rx_state, rx_payload, rx_payload_size, out>>
    BY <2>1 DEF BoundedBuffering
  <2>2. CASE Parse
    BY <2>2, ParserStepBound DEF Parse, TypeOK
  <2>3. ASSUME NEW c \in Conn, NEW n \in 1..Len(net[c]), onClientReadyRead(c, n)
        PROVE  UNCHANGED <<rx_state, rx_payload, rx_payload_size, out>>
    BY <2>3 DEF onClientReadyRead, PushToProtocol, protocolVars
  <2> QED  BY <2>1, <2>2, <2>3
           DEF Next, vars, protocolVars, ClientSends, onNewConnection,
               FlushGreeting, PeerCloses
<1> QED  BY <1>1, <1>2, ServerTypeCorrect, PTL DEF Spec

-----------------------------------------------------------------------------
(* The newest client is served.                                            *)

\* What is kept from step to step: connections are opened in order, and
\* unless clients came back to back only the newest one may be open, no
\* socket lingers in closing, and client_ is that open connection.
OnlyNewestOpen ==
  /\ \A c \in Conn : c > accepted => sock[c] = "none"
  /\ client_ <= accepted
  /\ ~crowded => /\ client_ \in {NoClient, accepted}
                 /\ \A c \in Conn : /\ sock[c] # "closing"
                                    /\ sock[c] = "open" => c = accepted /\ client_ = c

\* However connections come and go, if none was replaced before it was greeted
\* the newest live one is the one onClientReadyRead reads.
THEOREM NewestIsServed == Spec => []NewestClientServed
<1>1. Init => OnlyNewestOpen
  BY DEF Init, OnlyNewestOpen
<1>2. TypeOK /\ OnlyNewestOpen /\ [Next]_vars => OnlyNewestOpen'
  <2> SUFFICES ASSUME TypeOK, OnlyNewestOpen, [Next]_vars PROVE OnlyNewestOpen'
    OBVIOUS
  <2>1. accepted \in Nat /\ Conn \subseteq Nat \ {0}
        /\ sock \in [Conn -> {"none", "open", "closing", "closed"}]
        /\ client_ \in Conn \cup {NoClient} /\ crowded \in BOOLEAN
    BY ServerAssumption DEF TypeOK, Conn
  <2>2. CASE UNCHANGED <<client_, accepted, sock, crowded>>
    BY <2>2 DEF OnlyNewestOpen
  <2>3. ASSUME NEW c \in Conn, onNewConnection(c) PROVE OnlyNewestOpen'
    <3>1. /\ c = accepted + 1 /\ accepted' = c /\ client_' = c
          /\ \A d \in Conn : sock'[d] = CASE d = c -> "open"
                               [] d = client_ -> IF d \in greeting
                                                   THEN "closing" ELSE "closed"
                               [] OTHER -> sock[d]
          /\ crowded' = (crowded \/ client_ \in greeting)
      BY <2>3 DEF onNewConnection
    <3>2. ASSUME NEW d \in Conn, d > accepted' PROVE sock'[d] = "none"
      <4>1. d # c /\ d > accepted  BY <2>1, <3>1, <3>2
      <4>2. client_ # d  BY <2>1, <4>1 DEF OnlyNewestOpen
      <4> QED  BY <2>1, <3>1, <3>2, <4>1, <4>2 DEF OnlyNewestOpen
    <3>3. ASSUME ~crowded', NEW d \in Conn
          PROVE  sock'[d] # "closing" /\ (sock'[d] = "open" => d = c)
      BY <2>1, <3>1, <3>3 DEF OnlyNewestOpen
    <3>4. client_' <= accepted' /\ client_' \in {NoClient, accepted'}  BY <2>1, <3>1
    <3>5. \A d \in Conn : d > accepted' => sock'[d] = "none"  BY <3>2
    <3>6. ~crowded' => \A d \in Conn :
            sock'[d] # "closing" /\ (sock'[d] = "open" => d = accepted' /\ client_' = d)
      BY <3>1, <3>3
    <3> QED  BY <3>4, <3>5, <3>6 DEF OnlyNewestOpen
  <2>4. ASSUME NEW c \in Conn, FlushGreeting(c) PROVE OnlyNewestOpen'
    BY <2>1, <2>4 DEF FlushGreeting, onClientDisconnected, OnlyNewestOpen
  <2>5. ASSUME NEW c \in Conn, PeerCloses(c) PROVE OnlyNewestOpen'
    BY <2>1, <2>5 DEF PeerCloses, onClientDisconnected, OnlyNewestOpen
  <2>6. ASSUME NEW c \in Conn, NEW n \in 1..Len(net[c]), onClientReadyRead(c, n)
        PROVE  UNCHANGED <<client_, accepted, sock, crowded>>
    BY <2>6 DEF onClientReadyRead, connVars
  <2> QED  BY <2>2, <2>3, <2>4, <2>5, <2>6
           DEF Next, vars, connVars, ClientSends, Parse
<1>3. TypeOK /\ OnlyNewestOpen => NewestClientServed
  BY ServerAssumption DEF TypeOK, OnlyNewestOpen, NewestClientServed, Conn
<1> QED  BY <1>1, <1>2, <1>3, ServerTypeCorrect, PTL DEF Spec
-----------------------------------------------------------------------------
(* Empty messages end with the first real one.                             *)

\* A byte of a packet that some client has sent.
SentByte == [pkt : 1..MaxPackets, at : Nat]

\* Whatever is on its way, buffered or being parsed was sent by a client.
OnlySent ==
  /\ raw_data \in Seq(SentByte)
  /\ net \in [Conn -> Seq(SentByte)] /\ rxbuf \in [Conn -> Seq(SentByte)]

\* One read moves sent bytes, and hands only such bytes to the parser.
LEMMA ReadKeepsSent ==
  ASSUME TypeOK, OnlySent, NEW c \in Conn, NEW n \in 1..Len(net[c]),
         onClientReadyRead(c, n)
  PROVE  OnlySent'
<1> DEFINE filled == [rxbuf EXCEPT ![c] = @ \o SubSeq(net[c], 1, n)]
           waiting == IF client_ = NoClient THEN <<>> ELSE filled[client_]
           size == IF Len(waiting) < RX_MAX_SIZE THEN Len(waiting) ELSE RX_MAX_SIZE
           data == SubSeq(waiting, 1, size)
           rest == SubSeq(waiting, size + 1, Len(waiting))
<1>1. net[c] \in Seq(SentByte) /\ rxbuf[c] \in Seq(SentByte) /\ Len(net[c]) \in Nat
  BY LenProperties DEF OnlySent
<1>2. /\ SubSeq(net[c], n + 1, Len(net[c])) \in Seq(SentByte)
      /\ SubSeq(net[c], 1, n) \in Seq(SentByte)
  BY <1>1, PartType
<1>3. rxbuf[c] \o SubSeq(net[c], 1, n) \in Seq(SentByte)
  BY <1>1, <1>2, ConcatProperties
<1>4. filled \in [Conn -> Seq(SentByte)] /\ net' \in [Conn -> Seq(SentByte)]
  BY <1>2, <1>3 DEF OnlySent, onClientReadyRead
<1>5. waiting \in Seq(SentByte) /\ Len(waiting) \in Nat
  BY <1>4, EmptySeq, LenProperties DEF TypeOK
<1>6. size \in 0..Len(waiting)  BY <1>5, ServerAssumption
<1>7. data \in Seq(SentByte) /\ rest \in Seq(SentByte)  BY <1>5, <1>6, PartType
<1>8. CASE size = 0
  <2>1. rxbuf' = filled /\ raw_data' = raw_data
    BY <1>8 DEF onClientReadyRead, protocolVars
  <2> QED  BY <1>4, <2>1 DEF OnlySent
<1>9. CASE size # 0
  <2>1. rxbuf' = [filled EXCEPT ![client_] = rest] /\ raw_data' = data
    BY <1>9 DEF onClientReadyRead, PushToProtocol
  <2> HIDE DEF filled, waiting, size, data, rest
  <2> QED  BY <1>4, <1>7, <2>1 DEF OnlySent
<1> QED  BY <1>8, <1>9

\* No byte is parsed that no client has sent.
LEMMA ParsedWasSent == Spec => []OnlySent
<1>1. Init => OnlySent
  BY EmptySeq DEF Init, ProtocolInit, OnlySent
<1>2. TypeOK /\ OnlySent /\ [Next]_vars => OnlySent'
  <2> SUFFICES ASSUME TypeOK, OnlySent, [Next]_vars PROVE OnlySent'
    OBVIOUS
  <2>1. CASE UNCHANGED <<raw_data, net, rxbuf>>
    BY <2>1 DEF OnlySent
  <2>2. ASSUME NEW c \in Conn, ClientSends(c) PROVE OnlySent'
    <3>1. Len(owner) + 1 \in 1..MaxPackets
      BY <2>2, LenProperties, ServerAssumption DEF ClientSends, TypeOK
    <3>2. Size(Len(owner) + 1) \in Nat
      BY <3>1, ServerAssumption, SizeIs
    <3>3. Encode(Len(owner) + 1) \in [1..Size(Len(owner) + 1) -> SentByte]
      BY <3>1, <3>2 DEF Encode, SentByte
    <3>4. Encode(Len(owner) + 1) \in Seq(SentByte)  BY <3>2, <3>3
    <3>5. net[c] \o Encode(Len(owner) + 1) \in Seq(SentByte)
      BY <3>4, ConcatProperties DEF OnlySent
    <3>6. net' \in [Conn -> Seq(SentByte)]  BY <2>2, <3>5 DEF ClientSends, OnlySent
    <3> QED  BY <2>2, <3>6 DEF ClientSends, protocolVars, OnlySent
  <2>3. ASSUME NEW c \in Conn, NEW n \in 1..Len(net[c]), onClientReadyRead(c, n)
        PROVE  OnlySent'
    BY <2>3, ReadKeepsSent
  <2>4. CASE Parse
    BY <2>4 DEF Parse, ParserStep, ReceivePayloadByte, AcceptHead, RejectHead, SkipByte,
                EndOfIteration, streamVars, OnlySent
  <2> QED  BY <2>1, <2>2, <2>3, <2>4
           DEF Next, vars, protocolVars, streamVars, onNewConnection,
               FlushGreeting, PeerCloses
<1> QED  BY <1>1, <1>2, ServerTypeCorrect, PTL DEF Spec

\* A message handed over had a length awaited above zero, and such a length is
\* never replaced by zero again: so a real message is followed by real ones.
OnceRealAwaiting ==
  /\ \A j \in DOMAIN out : Real(out[j]) => rx_payload_size > 0
  /\ \A j, k \in DOMAIN out : j < k /\ Real(out[j]) => Real(out[k])

\* Every packet a client may send carries a payload.
AllCarryPayload == \A p \in 1..MaxPackets : LenOf[p] > MESSAGE_HEAD_LEN

\* The end of an iteration keeps that, if the branch taken does not go back to
\* awaiting nothing.
LEMMA EndOfIterationReal ==
  ASSUME ProtocolTypeOK, OnceRealAwaiting,
         NEW state, NEW cmd \in Cmd, NEW payload \in Seq(Byte), NEW size \in Int,
         NEW delta, rx_payload_size > 0 => size > 0, size <= 0 => payload = <<>>,
         EndOfIteration(state, cmd, payload, size, delta)
  PROVE  OnceRealAwaiting'
<1> DEFINE m == [cmd |-> cmd, payload |-> payload]
<1>1. rx_payload_size' = size /\ rx_payload_size \in Int
  BY DEF EndOfIteration, ProtocolTypeOK
<1>2. CASE UNCHANGED out
  BY <1>1, <1>2 DEF OnceRealAwaiting
<1>3. CASE Len(payload) >= size /\ out' = Append(out, m)
  <2>1. m \in Message  BY DEF Message
  <2>2. /\ Len(out) \in Nat /\ DOMAIN out = 1..Len(out)
        /\ DOMAIN out' = 1..(Len(out) + 1)
        /\ \A k \in 1..Len(out) : out'[k] = out[k]
        /\ out'[Len(out) + 1] = m
    BY <1>3, <2>1, AppendProperties, LenProperties DEF ProtocolTypeOK
  <2>3. CASE size > 0
    <3>1. payload # <<>>  BY <1>3, <2>3
    <3>2. Real(out'[Len(out) + 1])  BY <2>2, <3>1 DEF Real
    <3>3. ASSUME NEW j \in DOMAIN out', NEW k \in DOMAIN out', j < k, Real(out'[j])
          PROVE  Real(out'[k])
      <4>1. CASE k = Len(out) + 1  BY <3>2, <4>1
      <4>2. CASE k # Len(out) + 1
        <5>1. j \in 1..Len(out) /\ k \in 1..Len(out)  BY <2>2, <3>3, <4>2
        <5> QED  BY <2>2, <3>3, <5>1 DEF OnceRealAwaiting
      <4> QED  BY <4>1, <4>2
    <3> QED  BY <1>1, <2>3, <3>3 DEF OnceRealAwaiting
  <2>4. CASE size <= 0
    <3>1. ~(rx_payload_size > 0)  BY <1>1, <2>4
    <3>2. \A j \in 1..Len(out) : ~Real(out'[j])  BY <2>2, <3>1 DEF OnceRealAwaiting
    <3>3. \A j \in DOMAIN out' : ~Real(out'[j])  BY <2>2, <2>4, <3>2 DEF Real
    <3> QED  BY <3>3 DEF OnceRealAwaiting
  <2> QED  BY <2>3, <2>4
<1> QED  BY <1>2, <1>3 DEF EndOfIteration

\* Every iteration of the parser's loop keeps that.
LEMMA ParserStepReal ==
  ASSUME TypeOK, BoundedBuffering, OnlySent, OnceRealAwaiting, AllCarryPayload,
         ParserStep
  PROVE  OnceRealAwaiting'
<1>1. ProtocolTypeOK  BY DEF TypeOK
<1>2. /\ rx_payload \in Seq(Byte) /\ rx_payload_size \in Int /\ rx_cmd \in Cmd
      /\ Len(rx_payload) \in Nat
  BY <1>1, LenProperties DEF ProtocolTypeOK
<1>3. ~ParserDone => Current \in Byte /\ Current \in SentByte
  <2>1. ~ParserDone => i + 1 \in 1..Len(raw_data)
    BY <1>1, LenProperties DEF ProtocolTypeOK, ParserDone
  <2> QED  BY <1>1, <2>1, ElementOfSeq DEF ProtocolTypeOK, OnlySent, Current
<1>4. CASE ReceivePayloadByte
  <2> DEFINE grown == IF Len(rx_payload) < rx_payload_size
                        THEN Append(rx_payload, Current) ELSE rx_payload
  <2>1. /\ ~ParserDone /\ rx_state = "Processing"
        /\ EndOfIteration("Processing", rx_cmd, grown, rx_payload_size, 1)
    BY <1>4 DEF ReceivePayloadByte
  <2>2. rx_payload_size > 0  BY <1>2, <2>1 DEF BoundedBuffering
  <2>3. grown \in Seq(Byte)  BY <1>2, <1>3, <2>1, AppendProperties
  <2> HIDE DEF grown
  <2> QED  BY <1>1, <1>2, <2>1, <2>2, <2>3, EndOfIterationReal
<1>5. CASE AcceptHead
  <2>1. /\ ~ParserDone /\ HeadHere
        /\ EndOfIteration("Processing", CmdOf[Current.pkt], <<>>,
                          LenOf[Current.pkt] - MESSAGE_HEAD_LEN, MESSAGE_HEAD_LEN)
    BY <1>5 DEF AcceptHead
  <2>2. /\ CmdOf[Current.pkt] \in Cmd
        /\ LenOf[Current.pkt] - MESSAGE_HEAD_LEN \in Int
        /\ LenOf[Current.pkt] > MESSAGE_HEAD_LEN
    BY <1>1, <1>3, <2>1, HeadHereType DEF AllCarryPayload, SentByte
  <2>3. LenOf[Current.pkt] - MESSAGE_HEAD_LEN > 0
    BY <1>1, <2>1, <2>2, HeadHereType, ProtocolAssumption
  <2> QED  BY <1>1, <2>1, <2>2, <2>3, EmptySeq, EndOfIterationReal
<1>6. CASE RejectHead
  <2>1. /\ ~ParserDone /\ HeadHere /\ rx_payload = <<>>
        /\ EndOfIteration("Idle", CmdOf[Current.pkt], rx_payload, rx_payload_size, 1)
    BY <1>6 DEF RejectHead, BoundedBuffering
  <2>2. CmdOf[Current.pkt] \in Cmd  BY <1>1, <2>1, HeadHereType
  <2> QED  BY <1>1, <1>2, <2>1, <2>2, EndOfIterationReal
<1>7. CASE SkipByte
  <2>1. /\ rx_payload = <<>>
        /\ EndOfIteration("Idle", rx_cmd, rx_payload, rx_payload_size, 1)
    BY <1>7 DEF SkipByte, BoundedBuffering
  <2> QED  BY <1>1, <1>2, <2>1, EndOfIterationReal
<1> QED  BY <1>4, <1>5, <1>6, <1>7 DEF ParserStep

\* Where every packet carries a payload, no empty message follows a real one,
\* through every reconnection and every cut of the stream.
THEOREM NoPhantoms == Spec => []NoPhantomAfterReal
<1> DEFINE Inv == AllCarryPayload => OnceRealAwaiting
<1>1. Init => Inv
  BY DEF Init, ProtocolInit, OnceRealAwaiting
<1>2. TypeOK /\ BoundedBuffering /\ OnlySent /\ Inv /\ [Next]_vars => Inv'
  <2> SUFFICES ASSUME TypeOK, BoundedBuffering, OnlySent, OnceRealAwaiting,
                      AllCarryPayload, [Next]_vars
               PROVE  OnceRealAwaiting'
    BY DEF AllCarryPayload
  <2>1. CASE UNCHANGED <<rx_payload_size, out>>
    BY <2>1 DEF OnceRealAwaiting, Real
  <2>2. CASE Parse
    BY <2>2, ParserStepReal DEF Parse
  <2>3. ASSUME NEW c \in Conn, NEW n \in 1..Len(net[c]), onClientReadyRead(c, n)
        PROVE  UNCHANGED <<rx_payload_size, out>>
    BY <2>3 DEF onClientReadyRead, PushToProtocol, protocolVars
  <2> QED  BY <2>1, <2>2, <2>3
           DEF Next, vars, protocolVars, ClientSends, onNewConnection,
               FlushGreeting, PeerCloses
<1>3. Inv => NoPhantomAfterReal
  BY DEF NoPhantomAfterReal, AllCarryPayload, OnceRealAwaiting
<1> QED  BY <1>1, <1>2, <1>3, ServerTypeCorrect, BufferingIsBounded, ParsedWasSent, PTL DEF Spec
-----------------------------------------------------------------------------
(* The order of the stream, and the messages that come of it.              *)

Before(a, b) == a.pkt < b.pkt \/ (a.pkt = b.pkt /\ a.at < b.at)

\* What waits on a connection, and what the parser may still be given.
Line(c) == rxbuf[c] \o net[c]
Rest == SubSeq(raw_data, i + 1, Len(raw_data))
Ahead == IF accepted = 0 THEN <<>> ELSE Rest \o Line(accepted)

\* The bytes of another connection than the newest.
Stranded == UNION {Range(Line(c)) : c \in Conn \ {accepted}}

\* An element of a sequence is at one of its indices.
LEMMA RangeIs ==
  ASSUME NEW S, NEW s \in Seq(S), NEW b
  PROVE  b \in Range(s) <=> \E k \in 1..Len(s) : s[k] = b
BY LenProperties DEF Range

\* Concatenation, index by index.
LEMMA ConcatAt ==
  ASSUME NEW S, NEW s \in Seq(S), NEW t \in Seq(S)
  PROVE  /\ s \o t \in Seq(S) /\ Len(s \o t) = Len(s) + Len(t)
         /\ Len(s) \in Nat /\ Len(t) \in Nat
         /\ \A k \in 1..Len(s) : (s \o t)[k] = s[k]
         /\ \A k \in 1..Len(t) : (s \o t)[Len(s) + k] = t[k]
         /\ \A k \in 1..Len(s \o t) : k > Len(s) => (s \o t)[k] = t[k - Len(s)]
<1>1. Len(s) \in Nat /\ Len(t) \in Nat  BY LenProperties
<1>2. /\ s \o t \in Seq(S) /\ Len(s \o t) = Len(s) + Len(t)
      /\ \A k \in 1..(Len(s) + Len(t)) :
           (s \o t)[k] = IF k <= Len(s) THEN s[k] ELSE t[k - Len(s)]
  BY ConcatProperties
<1>3. ASSUME NEW k \in 1..Len(t) PROVE (s \o t)[Len(s) + k] = t[k]
  <2>1. Len(s) + k \in 1..(Len(s) + Len(t)) /\ ~(Len(s) + k <= Len(s))
        /\ (Len(s) + k) - Len(s) = k
    BY <1>1
  <2> QED  BY <1>2, <2>1
<1>4. ASSUME NEW k \in 1..Len(s) PROVE (s \o t)[k] = s[k]
  BY <1>1, <1>2
<1> QED  BY <1>1, <1>2, <1>3, <1>4

\* The elements of a concatenation are those of its two parts.
LEMMA RangeConcat ==
  ASSUME NEW S, NEW s \in Seq(S), NEW t \in Seq(S)
  PROVE  Range(s \o t) = Range(s) \cup Range(t)
<1>1. s \o t \in Seq(S)  BY ConcatAt
<1>2. ASSUME NEW b \in Range(s \o t) PROVE b \in Range(s) \cup Range(t)
  <2>1. PICK k \in 1..Len(s \o t) : (s \o t)[k] = b  BY <1>1, <1>2, RangeIs
  <2>2. Len(s) \in Nat /\ Len(t) \in Nat /\ Len(s \o t) = Len(s) + Len(t)
    BY ConcatAt
  <2>3. CASE k <= Len(s)
    <3>1. k \in 1..Len(s)  BY <2>2, <2>3
    <3>2. s[k] = b  BY <2>1, <3>1, ConcatAt
    <3> QED  BY <3>1, <3>2, RangeIs
  <2>4. CASE ~(k <= Len(s))
    <3>1. k - Len(s) \in 1..Len(t) /\ Len(s) + (k - Len(s)) = k  BY <2>2, <2>4
    <3>2. t[k - Len(s)] = b  BY <2>1, <3>1, ConcatAt
    <3> QED  BY <3>1, <3>2, RangeIs
  <2> QED  BY <2>3, <2>4
<1>3. ASSUME NEW b \in Range(s) PROVE b \in Range(s \o t)
  <2>1. PICK k \in 1..Len(s) : s[k] = b  BY <1>3, RangeIs
  <2>2. k \in 1..Len(s \o t) /\ (s \o t)[k] = b  BY <2>1, ConcatAt
  <2> QED  BY <1>1, <2>2, RangeIs
<1>4. ASSUME NEW b \in Range(t) PROVE b \in Range(s \o t)
  <2>1. PICK k \in 1..Len(t) : t[k] = b  BY <1>4, RangeIs
  <2>2. Len(s) + k \in 1..Len(s \o t) /\ (s \o t)[Len(s) + k] = b  BY <2>1, ConcatAt
  <2> QED  BY <1>1, <2>2, RangeIs
<1> QED  BY <1>2, <1>3, <1>4

\* Sequences of one length that agree at every index are one.
LEMMA SameSeq ==
  ASSUME NEW S, NEW s \in Seq(S), NEW t \in Seq(S), Len(s) = Len(t),
         \A k \in 1..Len(s) : s[k] = t[k]
  PROVE  s = t
BY SeqEqual

\* A sequence cut in two is the sequence again, before or behind another one.
JoinsBefore(s, n, t) == SubSeq(s, 1, n) \o (SubSeq(s, n + 1, Len(s)) \o t) = s \o t
JoinsBehind(s, n, t) == (t \o SubSeq(s, 1, n)) \o SubSeq(s, n + 1, Len(s)) = t \o s

\* Where a sequence is cut, both parts keep its elements.
LEMMA CutAnywhere ==
  ASSUME NEW S, NEW s \in Seq(S), NEW n \in 0..Len(s), NEW t \in Seq(S)
  PROVE  /\ SubSeq(s, 1, n) \in Seq(S) /\ SubSeq(s, n + 1, Len(s)) \in Seq(S)
         /\ Len(SubSeq(s, 1, n)) = n
         /\ Len(SubSeq(s, n + 1, Len(s))) = Len(s) - n
         /\ \A k \in 1..n : SubSeq(s, 1, n)[k] = s[k]
         /\ \A k \in 1..(Len(s) - n) : SubSeq(s, n + 1, Len(s))[k] = s[n + k]
         /\ JoinsBefore(s, n, t) /\ JoinsBehind(s, n, t)
<1> DEFINE a == SubSeq(s, 1, n)
           b == SubSeq(s, n + 1, Len(s))
<1>1. Len(s) \in Nat /\ n \in Nat /\ Len(t) \in Nat  BY LenProperties
<1>2. a \in Seq(S) /\ Len(a) = n
  <2>1. 1 \in 1..(Len(s) + 1)  BY <1>1
  <2> QED  BY <1>1, <2>1, PartType
<1>3. b \in Seq(S) /\ Len(b) = Len(s) - n
  <2>1. n + 1 \in 1..(Len(s) + 1) /\ Len(s) \in 0..Len(s)  BY <1>1
  <2> QED  BY <1>1, <2>1, PartType
<1>4. \A k \in 1..n : a[k] = s[k]
  BY <1>1, <1>2, SubSeqProperties, ElementOfSeq
<1>5. \A k \in 1..(Len(s) - n) : b[k] = s[n + k]
  BY <1>1, <1>3, SubSeqProperties, ElementOfSeq
<1>6. a \o b = s
  <2>1. 1 \in 1..(Len(s) + 1) /\ n \in (1 - 1)..Len(s) /\ Len(s) \in n..Len(s)
    BY <1>1
  <2>2. a \o b = SubSeq(s, 1, Len(s))  BY <2>1, ConcatAdjacentSubSeq
  <2> QED  BY <2>2, SubSeqFull
<1> HIDE DEF a, b
<1>7. a \o (b \o t) = s \o t /\ (t \o a) \o b = t \o s
  <2>0. a \in Seq(S) /\ b \in Seq(S) /\ t \in Seq(S)  BY <1>2, <1>3
  <2>1. (a \o b) \o t = a \o (b \o t)  BY <2>0, ConcatAssociative, SMTT(30)
  <2>2. (t \o a) \o b = t \o (a \o b)  BY <2>0, ConcatAssociative, SMTT(30)
  <2> QED  BY <1>6, <2>1, <2>2, Zenon
<1> QED  BY <1>2, <1>3, <1>4, <1>5, <1>6, <1>7 DEF a, b, JoinsBefore, JoinsBehind

\* The connection whose bytes the parser has.
From == FromConn(raw_data)

\* Only the newest connection is read, and every byte is in a place of the
\* connection it was sent on.
ConnInv ==
  /\ client_ \in {NoClient, accepted}
  /\ \A c \in Conn : c > accepted => sock[c] = "none"
  /\ \A p \in 1..Len(owner) : owner[p] <= accepted
  /\ \A c \in Conn : \A b \in Range(Line(c)) : b.pkt \in 1..Len(owner) /\ owner[b.pkt] = c
  /\ raw_data # <<>> =>
       /\ From \in 1..accepted
       /\ \A b \in Range(raw_data) : b.pkt \in 1..Len(owner) /\ owner[b.pkt] = From
       /\ ~ParserDone => From = accepted
  /\ raw_data = <<>> => out = <<>> /\ rx_state = "Idle"
  /\ cut \subseteq 1..Len(owner)

\* What waits on the connections and in the chunk are bytes.
LEMMA Lines ==
  ASSUME TypeOK
  PROVE  /\ \A c \in Conn : /\ Line(c) \in Seq(Byte)
                           /\ Range(Line(c)) = Range(rxbuf[c]) \cup Range(net[c])
         /\ Rest \in Seq(Byte) /\ Len(Rest) = Len(raw_data) - i
         /\ \A k \in 1..(Len(raw_data) - i) : Rest[k] = raw_data[i + k]
         /\ Len(raw_data) \in Nat /\ i \in 0..Len(raw_data)
<1>1. ASSUME NEW c \in Conn
      PROVE  /\ Line(c) \in Seq(Byte)
             /\ Range(Line(c)) = Range(rxbuf[c]) \cup Range(net[c])
  <2>1. rxbuf[c] \in Seq(Byte) /\ net[c] \in Seq(Byte)  BY DEF TypeOK
  <2> QED  BY <2>1, ConcatAt, RangeConcat DEF Line
<1>2. raw_data \in Seq(Byte) /\ i \in 0..Len(raw_data) /\ Len(raw_data) \in Nat
  BY LenProperties DEF TypeOK, ProtocolTypeOK
<1>3. /\ Rest \in Seq(Byte) /\ Len(Rest) = Len(raw_data) - i
      /\ \A k \in 1..(Len(raw_data) - i) : Rest[k] = raw_data[i + k]
  BY <1>2, CutAnywhere DEF Rest
<1> QED  BY <1>1, <1>2, <1>3

\* What the parser may still be given, index by index.
LEMMA AheadIs ==
  ASSUME TypeOK, ConnInv
  PROVE  /\ Ahead \in Seq(Byte)
         /\ Len(Ahead) \in Nat /\ Len(raw_data) - i <= Len(Ahead)
         /\ \A k \in 1..(Len(raw_data) - i) : Ahead[k] = raw_data[i + k]
         /\ accepted \in Conn => Len(Ahead) = Len(raw_data) - i + Len(Line(accepted))
         /\ accepted \in Conn /\ ParserDone => Ahead = Line(accepted)
         /\ InFlight = Range(Ahead) \cup Stranded
<1>1. accepted \in 0..MaxConn /\ Conn = 1..MaxConn /\ MaxConn \in Nat
  BY ServerAssumption DEF TypeOK, Conn
<1>2. {raw_data[k] : k \in (i + 1)..Len(raw_data)} = Range(Rest)
  <2>1. ASSUME NEW b \in Range(Rest) PROVE b \in {raw_data[k] : k \in (i + 1)..Len(raw_data)}
    <3>1. PICK k \in 1..Len(Rest) : Rest[k] = b  BY <2>1, Lines, RangeIs
    <3>2. i + k \in (i + 1)..Len(raw_data) /\ raw_data[i + k] = b  BY <3>1, Lines
    <3> QED  BY <3>2
  <2>2. ASSUME NEW k \in (i + 1)..Len(raw_data) PROVE raw_data[k] \in Range(Rest)
    <3>1. k - i \in 1..Len(Rest) /\ i + (k - i) = k  BY Lines
    <3>2. Rest[k - i] = raw_data[k]  BY <3>1, Lines
    <3> QED  BY <3>1, <3>2, Lines, RangeIs
  <2> QED  BY <2>1, <2>2
<1>3. CASE accepted = 0
  <2>1. raw_data = <<>> /\ Ahead = <<>>  BY <1>3 DEF ConnInv, Ahead
  <2>2. Len(raw_data) = 0 /\ i = 0 /\ Len(Ahead) = 0 /\ Range(Ahead) = {}
    BY <2>1, Lines DEF Range
  <2>3. {raw_data[k] : k \in (i + 1)..Len(raw_data)} = {}  BY <2>2
  <2>4. Conn \ {accepted} = Conn  BY <1>1, <1>3
  <2>5. Stranded = UNION {Range(rxbuf[c]) \cup Range(net[c]) : c \in Conn}
    BY <2>4, Lines DEF Stranded
  <2>6. InFlight = Range(Ahead) \cup Stranded  BY <2>2, <2>3, <2>5 DEF InFlight
  <2>7. accepted \notin Conn  BY <1>1, <1>3
  <2> QED  BY <2>1, <2>2, <2>6, <2>7, EmptySeq
<1>4. CASE accepted # 0
  <2>1. accepted \in Conn  BY <1>1, <1>4
  <2>2. Ahead = Rest \o Line(accepted)  BY <1>4 DEF Ahead
  <2>3. /\ Ahead \in Seq(Byte) /\ Len(Ahead) = Len(Rest) + Len(Line(accepted))
        /\ Len(Line(accepted)) \in Nat
        /\ \A k \in 1..Len(Rest) : Ahead[k] = Rest[k]
        /\ \A k \in 1..Len(Line(accepted)) : Ahead[Len(Rest) + k] = Line(accepted)[k]
        /\ Range(Ahead) = Range(Rest) \cup Range(Line(accepted))
    BY <2>1, <2>2, Lines, ConcatAt, RangeConcat
  <2>4. ASSUME ParserDone PROVE Ahead = Line(accepted)
    <3>1. Len(Rest) = 0  BY <2>4, Lines DEF ParserDone
    <3>2. \A k \in 1..Len(Ahead) : Ahead[k] = Line(accepted)[k]
      <4>1. ASSUME NEW k \in 1..Len(Ahead) PROVE Ahead[k] = Line(accepted)[k]
        <5>1. k \in 1..Len(Line(accepted)) /\ Len(Rest) + k = k  BY <2>3, <3>1
        <5>2. Ahead[Len(Rest) + k] = Line(accepted)[k]  BY <2>3, <5>1
        <5> QED  BY <5>1, <5>2
      <4> QED  BY <4>1
    <3>3. Len(Ahead) = Len(Line(accepted))  BY <2>3, <3>1
    <3>4. Line(accepted) \in Seq(Byte)  BY <2>1, Lines
    <3> QED  BY <2>3, <3>2, <3>3, <3>4, SameSeq
  <2>5. InFlight = Range(Ahead) \cup Stranded
    <3>1. UNION {Range(rxbuf[c]) \cup Range(net[c]) : c \in Conn}
            = Range(Line(accepted)) \cup Stranded
      BY <2>1, Lines DEF Stranded
    <3> QED  BY <1>2, <2>3, <3>1 DEF InFlight
  <2>6. \A k \in 1..(Len(raw_data) - i) : Ahead[k] = raw_data[i + k]
    BY <2>3, Lines
  <2>7. Len(Ahead) = Len(raw_data) - i + Len(Line(accepted))
        /\ Len(Ahead) \in Nat /\ Len(raw_data) - i <= Len(Ahead)
    <3>1. Len(Rest) = Len(raw_data) - i /\ Len(raw_data) \in Nat /\ i \in 0..Len(raw_data)
      BY Lines
    <3>2. Len(Ahead) = Len(Rest) + Len(Line(accepted)) /\ Len(Line(accepted)) \in Nat
      BY <2>3
    <3> QED  BY <3>1, <3>2
  <2> QED  BY <2>1, <2>3, <2>4, <2>5, <2>6, <2>7
<1> QED  BY <1>3, <1>4

\* One read: no byte changes its place in the stream, and what the parser is
\* given is the first of what the newest connection holds.
LEMMA ReadOutcome ==
  ASSUME TypeOK, ConnInv, NEW c \in Conn, NEW n \in 1..Len(net[c]),
         onClientReadyRead(c, n)
  PROVE  /\ Ahead' = Ahead
         /\ \A d \in Conn : d # accepted => Line(d)' = Line(d)
         /\ UNCHANGED <<connVars, owner, crowded, rx_state, rx_cmd, rx_payload,
                        rx_payload_size, out>>
         /\ ParserDone
         /\ \/ UNCHANGED <<raw_data, i, cut, torn>>
            \/ /\ accepted \in Conn /\ raw_data' # <<>> /\ i' = 0
               /\ Len(raw_data') <= Len(Ahead)
               /\ \A k \in 1..Len(raw_data') : raw_data'[k] = Ahead[k]
               /\ cut' = cut \cup CutBy(raw_data')
               /\ torn' = (torn \/ (rx_state = "Processing" /\ From # From'))
<1> DEFINE filled == [rxbuf EXCEPT ![c] = @ \o SubSeq(net[c], 1, n)]
           waiting == IF client_ = NoClient THEN <<>> ELSE filled[client_]
           size == IF Len(waiting) < RX_MAX_SIZE THEN Len(waiting) ELSE RX_MAX_SIZE
           data == SubSeq(waiting, 1, size)
           rest == SubSeq(waiting, size + 1, Len(waiting))
<1>1. /\ net[c] \in Seq(Byte) /\ rxbuf[c] \in Seq(Byte) /\ Len(net[c]) \in Nat
      /\ net \in [Conn -> Seq(Byte)] /\ rxbuf \in [Conn -> Seq(Byte)]
      /\ n \in 0..Len(net[c]) /\ accepted \in 0..MaxConn /\ Conn = 1..MaxConn /\ MaxConn \in Nat
  BY LenProperties, ServerAssumption DEF TypeOK, Conn
<1>2. /\ ParserDone
      /\ UNCHANGED <<connVars, owner, crowded, rx_state, rx_cmd, rx_payload,
                     rx_payload_size, out>>
      /\ net' = [net EXCEPT ![c] = SubSeq(@, n + 1, Len(@))]
      /\ \/ /\ size = 0 /\ rxbuf' = filled
            /\ UNCHANGED <<raw_data, i, cut, torn>>
         \/ /\ size # 0 /\ rxbuf' = [filled EXCEPT ![client_] = rest]
            /\ raw_data' = data /\ i' = 0 /\ cut' = cut \cup CutBy(data)
            /\ torn' = (torn \/ (rx_state = "Processing" /\ FromConn(raw_data) # FromConn(data)))
  BY DEF onClientReadyRead, PushToProtocol, protocolVars
<1>3. filled \in [Conn -> Seq(Byte)] /\ net' \in [Conn -> Seq(Byte)]
      /\ \A d \in Conn : d # c => filled[d] = rxbuf[d] /\ net'[d] = net[d]
  <2>1. SubSeq(net[c], 1, n) \in Seq(Byte) /\ SubSeq(net[c], n + 1, Len(net[c])) \in Seq(Byte)
    BY <1>1, CutAnywhere
  <2>2. rxbuf[c] \o SubSeq(net[c], 1, n) \in Seq(Byte)  BY <1>1, <2>1, ConcatAt
  <2> QED  BY <1>1, <1>2, <2>1, <2>2
<1>8. filled[c] = rxbuf[c] \o SubSeq(net[c], 1, n)
  BY <1>1
<1>9. net'[c] = SubSeq(net[c], n + 1, Len(net[c]))
  BY <1>1, <1>2
<1>4. \A d \in Conn : filled[d] \o net'[d] = Line(d)
  <2>1. filled[c] \o net'[c] = Line(c)
    <3>1. JoinsBehind(net[c], n, rxbuf[c])  BY <1>1, CutAnywhere
    <3> HIDE DEF filled
    <3> QED  BY <1>8, <1>9, <3>1, Zenon DEF JoinsBehind, Line
  <2> QED  BY <1>3, <2>1 DEF Line
<1>5. waiting \in Seq(Byte) /\ Len(waiting) \in Nat /\ size \in 0..Len(waiting)
  <2>1. waiting \in Seq(Byte)  BY <1>3, EmptySeq DEF TypeOK
  <2>2. Len(waiting) \in Nat  BY <2>1, LenProperties
  <2> QED  BY <2>1, <2>2, ServerAssumption
<1>6. CASE size = 0
  <2>1. rxbuf' = filled /\ UNCHANGED <<raw_data, i, cut, torn>>  BY <1>2, <1>6
  <2>2. \A d \in Conn : Line(d)' = Line(d)  BY <1>4, <2>1 DEF Line
  <2>3. accepted' = accepted /\ Rest' = Rest  BY <1>2, <2>1 DEF connVars, Rest
  <2>4. Ahead' = Ahead  BY <1>1, <2>2, <2>3 DEF Ahead
  <2> QED  BY <1>2, <2>1, <2>2, <2>4
<1>7. CASE size # 0
  <2>1. /\ rxbuf' = [filled EXCEPT ![client_] = rest]
        /\ raw_data' = data /\ i' = 0 /\ cut' = cut \cup CutBy(data)
        /\ torn' = (torn \/ (rx_state = "Processing" /\ FromConn(raw_data) # FromConn(data)))
    BY <1>2, <1>7
  <2>2. client_ = accepted /\ accepted \in Conn /\ waiting = filled[accepted]
    <3>1. client_ # NoClient
      <4>1. Len(<<>>) = 0  OBVIOUS
      <4> QED  BY <1>5, <1>7, <4>1
    <3> QED  BY <1>1, <3>1 DEF ConnInv
  <2>3. /\ data \in Seq(Byte) /\ rest \in Seq(Byte) /\ Len(data) = size
        /\ net'[accepted] \in Seq(Byte)
        /\ data \o (rest \o net'[accepted]) = waiting \o net'[accepted]
    <3>1. net'[accepted] \in Seq(Byte)  BY <1>3, <2>2
    <3> DEFINE later == net'[accepted]
    <3>2. later \in Seq(Byte)  BY <3>1
    <3> HIDE DEF waiting, size, later
    <3>3. /\ data \in Seq(Byte) /\ rest \in Seq(Byte) /\ Len(data) = size
          /\ JoinsBefore(waiting, size, later)
      BY <1>5, <3>2, CutAnywhere, ZenonT(40)
    <3> QED  BY <3>1, <3>3, Zenon DEF later, JoinsBefore
  <2> HIDE DEF data, rest, size, waiting
  <2>4. \A d \in Conn : d # accepted => Line(d)' = Line(d)
    BY <1>3, <1>4, <2>1, <2>2 DEF Line
  <2>5. Line(accepted)' = rest \o net'[accepted]
    <3>1. rxbuf'[accepted] = rest  BY <1>3, <2>1, <2>2
    <3> QED  BY <1>2, <3>1 DEF Line, connVars
  <2>6. data \o Line(accepted)' = Line(accepted)
    BY <1>4, <2>2, <2>3, <2>5
  <2>7. Ahead = Line(accepted)  BY <1>2, <2>2, AheadIs
  <2>8. Rest' = data
    <3>1. Rest' = SubSeq(data, 0 + 1, Len(data))  BY <2>1 DEF Rest
    <3>2. Rest' = SubSeq(data, 1, Len(data))  BY <3>1
    <3> QED  BY <2>3, <3>2, SubSeqFull
  <2>9. Ahead' = Ahead
    <3>1. accepted' = accepted /\ accepted # 0  BY <1>1, <1>2, <2>2 DEF connVars
    <3>2. Ahead' = Rest' \o Line(accepted)'  BY <3>1 DEF Ahead
    <3> QED  BY <2>6, <2>7, <2>8, <3>2
  <2>10. /\ Len(data) <= Len(Ahead)
         /\ \A k \in 1..Len(data) : data[k] = Ahead[k]
    <3>1. Line(accepted)' \in Seq(Byte)  BY <2>3, <2>5, ConcatAt
    <3> QED  BY <2>3, <2>6, <2>7, <3>1, ConcatAt
  <2>11. data # <<>>
    <3>1. Len(<<>>) = 0  OBVIOUS
    <3> QED  BY <1>7, <2>3, <3>1
  <2>12. From' = FromConn(data)
    BY <1>2, <2>1 DEF From, FromConn
  <2> QED  BY <1>2, <2>1, <2>2, <2>4, <2>9, <2>10, <2>11, <2>12 DEF From
<1> QED  BY <1>6, <1>7

\* The parser has done with the first d bytes of the stream.
Advances(d) ==
  /\ i' = i + d /\ UNCHANGED raw_data
  /\ Len(Ahead') = Len(Ahead) - d
  /\ \A k \in 1..(Len(Ahead) - d) : Ahead'[k] = Ahead[d + k]

\* An iteration takes the first byte, or a whole header, off the stream of the
\* newest connection.
LEMMA StepAdvances ==
  ASSUME TypeOK, TypeOK', ConnInv, Parse
  PROVE  /\ accepted \in Conn /\ From = accepted /\ raw_data # <<>> /\ ~ParserDone
         /\ Len(raw_data) \in Nat /\ i \in Nat /\ i < Len(raw_data)
         /\ Len(Ahead) \in Nat /\ Len(raw_data) - i <= Len(Ahead) /\ Ahead[1] = Current
         /\ Current \in Byte
         /\ i' - i \in {1, MESSAGE_HEAD_LEN} /\ i' - i <= Len(raw_data) - i
         /\ Advances(i' - i)
         /\ UNCHANGED <<connVars, streamVars, cut, crowded, torn>>
         /\ From' = From /\ Stranded' = Stranded
<1>1. ~ParserDone /\ UNCHANGED raw_data /\ i' - i \in {1, MESSAGE_HEAD_LEN}
  <2>1. i \in Nat /\ MESSAGE_HEAD_LEN \in Nat \ {0}
    BY Lines, ProtocolAssumption
  <2> QED
    BY <2>1 DEF Parse, ParserStep, ReceivePayloadByte, AcceptHead, RejectHead, SkipByte,
                EndOfIteration
<1>2. /\ Len(raw_data) \in Nat /\ i \in Nat /\ i < Len(raw_data)
      /\ i' \in 0..Len(raw_data) /\ i' - i <= Len(raw_data) - i
  <2>1. Len(raw_data) \in Nat /\ i \in 0..Len(raw_data) /\ i' \in 0..Len(raw_data')
    BY LenProperties DEF TypeOK, ProtocolTypeOK
  <2> QED  BY <1>1, <2>1 DEF ParserDone
<1>3. UNCHANGED <<connVars, streamVars, cut, crowded, torn>>  BY DEF Parse
<1>4. /\ raw_data # <<>> /\ From = accepted /\ accepted \in Conn
  <2>1. raw_data # <<>>
    <3>1. Len(<<>>) = 0  OBVIOUS
    <3> QED  BY <1>2, <3>1
  <2>2. From = accepted /\ From \in 1..accepted  BY <1>1, <2>1 DEF ConnInv
  <2>3. accepted \in 0..MaxConn /\ MaxConn \in Nat  BY ServerAssumption DEF TypeOK
  <2> QED  BY <2>1, <2>2, <2>3 DEF Conn
<1>5. /\ Len(Ahead) \in Nat /\ Len(raw_data) - i <= Len(Ahead)
      /\ \A k \in 1..(Len(raw_data) - i) : Ahead[k] = raw_data[i + k]
      /\ Len(Ahead) = Len(raw_data) - i + Len(Line(accepted))
  BY <1>4, AheadIs
<1>6. Ahead[1] = Current /\ Current \in Byte
  <2>1. Ahead[1] = raw_data[i + 1]  BY <1>2, <1>5
  <2>2. i + 1 \in 1..Len(raw_data)  BY <1>2
  <2> QED  BY <2>1, <2>2, ElementOfSeq DEF Current, TypeOK, ProtocolTypeOK
<1>7. accepted' = accepted /\ \A c \in Conn : Line(c)' = Line(c)
  BY <1>3 DEF connVars, streamVars, Line
<1>8. Stranded' = Stranded  BY <1>7 DEF Stranded
<1>9. From' = From  BY <1>1, <1>3 DEF From, FromConn, streamVars
<1>10. Advances(i' - i)
  <2> DEFINE d == i' - i
             L == Line(accepted)
  <2>1. d \in Nat /\ i' = i + d /\ d <= Len(raw_data) - i
    <3>1. MESSAGE_HEAD_LEN \in Nat /\ i \in Nat /\ i' \in Nat
      BY <1>2, ProtocolAssumption
    <3>2. d = 1 \/ d = MESSAGE_HEAD_LEN  BY <1>1
    <3>3. d <= Len(raw_data) - i  BY <1>2
    <3>5. \A a, b \in Nat : a = b + (a - b)  OBVIOUS
    <3>4. i' = i + d  BY <3>1, <3>5
    <3> HIDE DEF d
    <3> QED  BY <3>1, <3>2, <3>3, <3>4
  <2>2. Ahead = Rest \o L /\ Ahead' = Rest' \o L
    <3>1. accepted # 0  BY <1>4 DEF Conn
    <3> QED  BY <1>4, <1>7, <3>1 DEF Ahead
  <2>3. L \in Seq(Byte) /\ Rest \in Seq(Byte) /\ Len(Rest) = Len(raw_data) - i
        /\ \A k \in 1..(Len(raw_data) - i) : Rest[k] = raw_data[i + k]
    BY <1>4, Lines
  <2>4. /\ Rest' \in Seq(Byte) /\ Len(Rest') = Len(raw_data) - (i + d)
        /\ \A k \in 1..(Len(raw_data) - (i + d)) : Rest'[k] = raw_data[(i + d) + k]
    <3>1. raw_data \in Seq(Byte) /\ i + d \in 0..Len(raw_data)
      BY <1>2, <2>1 DEF TypeOK, ProtocolTypeOK
    <3>2. Rest' = SubSeq(raw_data, (i + d) + 1, Len(raw_data))
      BY <1>1, <2>1 DEF Rest
    <3> HIDE DEF d
    <3> QED  BY <3>1, <3>2, CutAnywhere
  <2> HIDE DEF d, L
  <2>5. /\ Len(Ahead) = Len(Rest) + Len(L) /\ Len(Ahead') = Len(Rest') + Len(L)
        /\ Len(L) \in Nat
    BY <2>2, <2>3, <2>4, ConcatAt
  <2>6. Len(Ahead') = Len(Ahead) - d
    <3>1. Len(Rest') = Len(Rest) - d  BY <1>2, <2>1, <2>3, <2>4
    <3>2. Len(Rest) \in Nat /\ Len(Rest') \in Nat  BY <2>3, <2>4, LenProperties
    <3> QED  BY <2>1, <2>5, <3>1, <3>2
  <2>7. ASSUME NEW k \in 1..(Len(Ahead) - d) PROVE Ahead'[k] = Ahead[d + k]
    <3>1. CASE k <= Len(Rest')
      <4>1. k \in 1..Len(Rest') /\ d + k \in 1..Len(Rest)
            /\ k \in 1..(Len(raw_data) - (i + d)) /\ d + k \in 1..(Len(raw_data) - i)
            /\ (i + d) + k = i + (d + k)
        BY <1>2, <2>1, <2>3, <2>4, <2>5, <3>1
      <4>2. Ahead'[k] = Rest'[k]  BY <2>2, <2>3, <2>4, <4>1, ConcatAt
      <4>3. Ahead[d + k] = Rest[d + k]  BY <2>2, <2>3, <4>1, ConcatAt
      <4>4. Rest'[k] = raw_data[i + (d + k)]  BY <2>4, <4>1
      <4>5. Rest[d + k] = raw_data[i + (d + k)]  BY <2>3, <4>1
      <4> QED  BY <4>2, <4>3, <4>4, <4>5
    <3>2. CASE k > Len(Rest')
      <4>1. k \in 1..Len(Ahead') /\ d + k \in 1..Len(Ahead) /\ d + k > Len(Rest)
            /\ (d + k) - Len(Rest) = k - Len(Rest')
        BY <1>2, <2>1, <2>3, <2>4, <2>5, <2>6, <3>2
      <4>2. Ahead'[k] = L[k - Len(Rest')]  BY <2>2, <2>3, <2>4, <3>2, <4>1, ConcatAt, SMTT(40)
      <4>3. Ahead[d + k] = L[(d + k) - Len(Rest)]  BY <2>2, <2>3, <4>1, ConcatAt
      <4> QED  BY <4>1, <4>2, <4>3
    <3> QED  BY <1>2, <2>1, <2>4, <2>5, <3>1, <3>2
  <2> QED  BY <1>1, <2>1, <2>6, <2>7 DEF Advances, d
<1> QED  BY <1>1, <1>2, <1>3, <1>4, <1>5, <1>6, <1>8, <1>9, <1>10

\* A packet goes on the line of its connection, and nowhere else.
LEMMA SendOutcome ==
  ASSUME TypeOK, ConnInv, NEW c \in Conn, ClientSends(c)
  PROVE  /\ Len(owner) \in Nat /\ Len(owner) + 1 \in Packet
         /\ Encode(Len(owner) + 1) \in Seq(Byte)
         /\ owner' = Append(owner, c) /\ Len(owner') = Len(owner) + 1
         /\ \A p \in 1..Len(owner) : owner'[p] = owner[p]
         /\ owner'[Len(owner) + 1] = c /\ c <= accepted /\ accepted \in Nat
         /\ UNCHANGED <<protocolVars, connVars, cut, crowded, torn>>
         /\ \A d \in Conn \ {c} : Line(d)' = Line(d)
         /\ Line(c)' = Line(c) \o Encode(Len(owner) + 1)
         /\ Ahead' = IF c = accepted THEN Ahead \o Encode(Len(owner) + 1) ELSE Ahead
         /\ Stranded' = IF c = accepted THEN Stranded
                        ELSE Stranded \cup Range(Encode(Len(owner) + 1))
<1> DEFINE p == Len(owner) + 1
           new == Encode(p)
<1>1. /\ sock[c] = "open" /\ Len(owner) < MaxPackets /\ owner' = Append(owner, c)
      /\ net' = [net EXCEPT ![c] = @ \o new]
      /\ UNCHANGED <<protocolVars, connVars, rxbuf, cut, crowded, torn>>
  BY DEF ClientSends
<1>2. Len(owner) \in Nat /\ p \in Packet /\ new \in Seq(Byte)
  <2>1. Len(owner) \in Nat  BY LenProperties DEF TypeOK
  <2>2. p \in 1..MaxPackets  BY <1>1, <2>1, ServerAssumption
  <2> QED  BY <2>1, <2>2, EncodeType, ServerAssumption
<1>3. Len(owner') = p /\ owner'[p] = c /\ \A q \in 1..Len(owner) : owner'[q] = owner[q]
  BY <1>1, AppendProperties DEF TypeOK
<1>4. c <= accepted /\ accepted \in Nat
  <2>1. accepted \in Nat /\ c \in Nat  BY ServerAssumption DEF TypeOK, Conn
  <2> QED  BY <1>1, <2>1 DEF ConnInv
<1> HIDE DEF new, p
<1>5. \A d \in Conn \ {c} : Line(d)' = Line(d)
  BY <1>1 DEF Line, TypeOK
<1>6. Line(c)' = Line(c) \o new
  <2>1. net'[c] = net[c] \o new /\ rxbuf' = rxbuf  BY <1>1 DEF TypeOK
  <2>2. net[c] \in Seq(Byte) /\ rxbuf[c] \in Seq(Byte) /\ new \in Seq(Byte)
    BY <1>2 DEF TypeOK
  <2> DEFINE r == rxbuf[c]
             t == net[c]
  <2>3. r \in Seq(Byte) /\ t \in Seq(Byte) /\ new \in Seq(Byte)  BY <2>2
  <2> HIDE DEF r, t
  <2>4. (r \o t) \o new = r \o (t \o new)  BY <2>3, ConcatAssociative
  <2> QED  BY <2>1, <2>4, Zenon DEF Line, r, t
<1>7. accepted' = accepted /\ Rest' = Rest
  BY <1>1 DEF connVars, protocolVars, Rest
<1>8. Ahead' = IF c = accepted THEN Ahead \o new ELSE Ahead
  <2>1. CASE c = accepted
    <3>1. accepted # 0  BY <2>1 DEF Conn
    <3>2. Rest \in Seq(Byte) /\ Line(c) \in Seq(Byte)  BY Lines
    <3>3. (Rest \o Line(c)) \o new = Rest \o (Line(c) \o new)
      BY <1>2, <3>2, ConcatAssociative
    <3>4. Ahead = Rest \o Line(c) /\ Ahead' = Rest \o Line(c)'
      BY <1>7, <2>1, <3>1 DEF Ahead
    <3> QED  BY <1>6, <2>1, <3>3, <3>4, Zenon
  <2>2. CASE c # accepted
    <3>1. accepted # 0 => accepted \in Conn \ {c}
      BY <2>2, ServerAssumption DEF TypeOK, Conn
    <3> QED  BY <1>5, <1>7, <2>2, <3>1 DEF Ahead
  <2> QED  BY <2>1, <2>2
<1>9. Stranded' = IF c = accepted THEN Stranded ELSE Stranded \cup Range(new)
  <2>1. Stranded' = UNION {Range(Line(d)') : d \in Conn \ {accepted}}
    BY <1>7 DEF Stranded
  <2>2. CASE c = accepted
    BY <1>5, <2>1, <2>2 DEF Stranded
  <2>3. CASE c # accepted
    <3>1. Range(Line(c)') = Range(Line(c)) \cup Range(new)
      <4>1. Line(c) \in Seq(Byte)  BY Lines
      <4> QED  BY <1>2, <1>6, <4>1, RangeConcat
    <3> QED  BY <1>5, <2>1, <2>3, <3>1 DEF Stranded
  <2> QED  BY <2>2, <2>3
<1> QED  BY <1>1, <1>2, <1>3, <1>4, <1>5, <1>6, <1>8, <1>9 DEF p, new

\* Bytes in the order sent on connection c, from somewhere in the stream to its
\* end: what is left of a packet is there without a gap, and then the next one.
Runs(s, own, c) ==
  /\ \A k \in 1..Len(s) :
       s[k].pkt \in 1..Len(own) /\ own[s[k].pkt] = c /\ s[k].at < Size(s[k].pkt)
  /\ \A k \in 1..Len(s), d \in Nat : s[k].at + d < Size(s[k].pkt) =>
       k + d <= Len(s) /\ s[k + d] = [pkt |-> s[k].pkt, at |-> s[k].at + d]
  /\ \A j, k \in 1..Len(s) : j < k => Before(s[j], s[k])
  /\ \A k \in 1..(Len(s) - 1) : s[k].at + 1 = Size(s[k].pkt) => s[k + 1].at = 0

\* What is left of a stream is a stream.
LEMMA RunsDrop ==
  ASSUME NEW s \in Seq(Byte), NEW t \in Seq(Byte), NEW own, NEW c, Runs(s, own, c),
         NEW n \in Nat, n <= Len(s), Len(t) = Len(s) - n,
         \A k \in 1..(Len(s) - n) : t[k] = s[n + k]
  PROVE  Runs(t, own, c)
<1>1. Len(s) \in Nat /\ Len(t) \in Nat  BY LenProperties
<1>2. \A k \in 1..Len(t) : n + k \in 1..Len(s) /\ t[k] = s[n + k]  BY <1>1
<1>3. \A k \in 1..Len(t) :
        t[k].pkt \in 1..Len(own) /\ own[t[k].pkt] = c /\ t[k].at < Size(t[k].pkt)
  BY <1>2 DEF Runs
<1>4. ASSUME NEW k \in 1..Len(t), NEW d \in Nat, t[k].at + d < Size(t[k].pkt)
      PROVE  k + d <= Len(t) /\ t[k + d] = [pkt |-> t[k].pkt, at |-> t[k].at + d]
  <2>1. (n + k) + d <= Len(s) /\ s[(n + k) + d] = [pkt |-> t[k].pkt, at |-> t[k].at + d]
    BY <1>2, <1>4, SMTT(40) DEF Runs
  <2>2. k + d <= Len(t)  BY <1>1, <2>1
  <2>3. k + d \in 1..Len(t)  BY <1>1, <2>2
  <2>4. n + (k + d) = (n + k) + d  OBVIOUS
  <2> QED  BY <1>2, <2>1, <2>3, <2>4
<1>5. ASSUME NEW j \in 1..Len(t), NEW k \in 1..Len(t), j < k PROVE Before(t[j], t[k])
  <2>1. n + j < n + k  BY <1>1, <1>5
  <2> QED  BY <1>2, <2>1 DEF Runs
<1>6. ASSUME NEW k \in 1..(Len(t) - 1), t[k].at + 1 = Size(t[k].pkt) PROVE t[k + 1].at = 0
  <2>1. k \in 1..Len(t) /\ k + 1 \in 1..Len(t) /\ n + k \in 1..(Len(s) - 1)
        /\ n + (k + 1) = (n + k) + 1
    BY <1>1
  <2>2. s[(n + k) + 1].at = 0  BY <1>2, <1>6, <2>1 DEF Runs
  <2> QED  BY <1>2, <2>1, <2>2
<1> QED  BY <1>3, <1>4, <1>5, <1>6 DEF Runs

\* A packet sent elsewhere leaves a stream what it is.
LEMMA RunsElsewhere ==
  ASSUME NEW s \in Seq(Byte), NEW own \in Seq(Conn), NEW c, NEW e \in Conn, Runs(s, own, c)
  PROVE  Runs(s, Append(own, e), c)
<1>1. /\ Len(own) \in Nat /\ Len(Append(own, e)) = Len(own) + 1
      /\ \A p \in 1..Len(own) : Append(own, e)[p] = own[p]
  BY LenProperties, AppendProperties
<1>2. \A k \in 1..Len(s) : s[k].pkt \in 1..Len(Append(own, e))
        /\ Append(own, e)[s[k].pkt] = c /\ s[k].at < Size(s[k].pkt)
  BY <1>1 DEF Runs
<1> QED  BY <1>2 DEF Runs

\* A packet sent goes on with the stream.
LEMMA RunsOn ==
  ASSUME NEW s \in Seq(Byte), NEW own \in Seq(Conn), NEW c \in Conn, Runs(s, own, c),
         Len(own) + 1 \in Packet
  PROVE  Runs(s \o Encode(Len(own) + 1), Append(own, c), c)
<1> DEFINE p == Len(own) + 1
           new == Encode(p)
           t == s \o new
           more == Append(own, c)
<1>1. /\ Len(own) \in Nat /\ Len(more) = p /\ more[p] = c
      /\ \A q \in 1..Len(own) : more[q] = own[q]
  BY LenProperties, AppendProperties
<1>2. Size(p) \in Nat /\ Size(p) > 0  BY SizeIs
<1>3. new \in Seq(Byte) /\ Len(new) = Size(p)  BY EncodeType
<1>4. \A k \in 1..Size(p) : new[k] = [pkt |-> p, at |-> k - 1]  BY DEF Encode
<1> HIDE DEF new
<1>5. /\ t \in Seq(Byte) /\ Len(t) = Len(s) + Size(p) /\ Len(s) \in Nat
      /\ \A k \in 1..Len(s) : t[k] = s[k] /\ t[k] \in Byte
      /\ \A k \in 1..Len(t) : k > Len(s) => t[k] = new[k - Len(s)]
  BY <1>3, ConcatAt, ElementOfSeq
<1>6. \A k \in 1..Len(t) : k > Len(s) =>
        /\ t[k] = [pkt |-> p, at |-> (k - Len(s)) - 1]
        /\ t[k].pkt = p /\ t[k].at = (k - Len(s)) - 1
  <2>1. ASSUME NEW k \in 1..Len(t), k > Len(s)
        PROVE  t[k] = [pkt |-> p, at |-> (k - Len(s)) - 1]
    <3>1. k - Len(s) \in 1..Size(p)  BY <1>2, <1>5, <2>1
    <3> QED  BY <1>4, <1>5, <2>1, <3>1
  <2> HIDE DEF t, p
  <2> QED  BY <2>1
<1> HIDE DEF t, p, more
<1>7. ASSUME NEW k \in 1..Len(s)
      PROVE  /\ t[k] = s[k] /\ t[k].pkt \in Nat /\ t[k].at \in Nat
             /\ t[k].pkt \in 1..Len(own) /\ own[t[k].pkt] = c /\ t[k].at < Size(t[k].pkt)
  <2>1. t[k] = s[k] /\ t[k] \in Byte  BY <1>5
  <2>2. t[k].pkt \in 1..Len(own) /\ own[t[k].pkt] = c /\ t[k].at < Size(t[k].pkt)
    BY <2>1 DEF Runs
  <2> QED  BY <2>1, <2>2 DEF Byte
<1>8. ASSUME NEW k \in 1..Len(t)
      PROVE  t[k].pkt \in 1..Len(more) /\ more[t[k].pkt] = c /\ t[k].at < Size(t[k].pkt)
  <2>1. CASE k <= Len(s)
    <3>1. k \in 1..Len(s)  BY <1>5, <2>1
    <3>2. t[k].pkt \in 1..Len(own) /\ own[t[k].pkt] = c /\ t[k].at < Size(t[k].pkt)
      BY <1>7, <3>1
    <3> QED  BY <1>1, <3>2 DEF p
  <2>2. CASE k > Len(s)
    <3>1. t[k].pkt = p /\ t[k].at = (k - Len(s)) - 1  BY <1>6, <2>2
    <3>2. p \in 1..Len(more)  BY <1>1 DEF p
    <3>3. (k - Len(s)) - 1 < Size(p)  BY <1>2, <1>5, <2>2
    <3> QED  BY <1>1, <3>1, <3>2, <3>3
  <2> QED  BY <1>5, <2>1, <2>2
<1>9. ASSUME NEW k \in 1..Len(t), NEW d \in Nat, t[k].at + d < Size(t[k].pkt)
      PROVE  k + d <= Len(t) /\ t[k + d] = [pkt |-> t[k].pkt, at |-> t[k].at + d]
  <2>1. CASE k <= Len(s)
    <3>1. k \in 1..Len(s) /\ t[k] = s[k]  BY <1>5, <2>1
    <3>2. k + d <= Len(s) /\ s[k + d] = [pkt |-> t[k].pkt, at |-> t[k].at + d]
      BY <1>9, <3>1 DEF Runs
    <3>3. k + d \in 1..Len(s) /\ k + d <= Len(t)  BY <1>2, <1>5, <3>1, <3>2, SMTT(40)
    <3> QED  BY <1>5, <3>2, <3>3
  <2>2. CASE k > Len(s)
    <3>1. t[k].pkt = p /\ t[k].at = (k - Len(s)) - 1  BY <1>6, <2>2
    <3>2. ((k - Len(s)) - 1) + d < Size(p)  BY <1>9, <3>1
    <3>3. k + d \in 1..Len(t) /\ k + d > Len(s) /\ ((k + d) - Len(s)) - 1 = ((k - Len(s)) - 1) + d
      BY <1>2, <1>5, <2>2, <3>2
    <3> QED  BY <1>6, <3>1, <3>3
  <2> QED  BY <1>5, <2>1, <2>2
<1>10. ASSUME NEW j \in 1..Len(t), NEW k \in 1..Len(t), j < k PROVE Before(t[j], t[k])
  <2>1. CASE k <= Len(s)
    <3>1. j \in 1..Len(s) /\ k \in 1..Len(s)  BY <1>5, <1>10, <2>1
    <3> QED  BY <1>5, <1>10, <3>1 DEF Runs
  <2>2. CASE j <= Len(s) /\ k > Len(s)
    <3>1. j \in 1..Len(s)  BY <1>5, <2>2
    <3>2. t[j].pkt \in 1..Len(own)  BY <1>7, <3>1
    <3>3. t[k].pkt = p  BY <1>6, <2>2
    <3>4. t[j].pkt < p  BY <1>1, <3>2 DEF p
    <3> QED  BY <3>3, <3>4 DEF Before
  <2>3. CASE j > Len(s)
    <3>1. k > Len(s)  BY <1>5, <1>10, <2>3
    <3>2. /\ t[j].pkt = p /\ t[j].at = (j - Len(s)) - 1
          /\ t[k].pkt = p /\ t[k].at = (k - Len(s)) - 1
      BY <1>6, <2>3, <3>1
    <3>3. (j - Len(s)) - 1 < (k - Len(s)) - 1  BY <1>5, <1>10
    <3> QED  BY <3>2, <3>3 DEF Before
  <2> QED  BY <1>5, <2>1, <2>2, <2>3
<1>11. ASSUME NEW k \in 1..(Len(t) - 1), t[k].at + 1 = Size(t[k].pkt) PROVE t[k + 1].at = 0
  <2>1. k \in 1..Len(t) /\ k + 1 \in 1..Len(t)  BY <1>2, <1>5
  <2>2. CASE k < Len(s)
    <3>1. k \in 1..(Len(s) - 1) /\ k \in 1..Len(s) /\ k + 1 \in 1..Len(s)  BY <1>5, <2>2
    <3>2. s[k + 1].at = 0  BY <1>5, <1>11, <3>1 DEF Runs
    <3> QED  BY <1>5, <3>1, <3>2
  <2>3. CASE k = Len(s)
    <3>1. k + 1 > Len(s) /\ ((k + 1) - Len(s)) - 1 = 0  BY <1>5, <2>3
    <3> QED  BY <1>6, <2>1, <3>1
  <2>4. CASE k > Len(s)
    <3>1. t[k].pkt = p /\ t[k].at = (k - Len(s)) - 1  BY <1>6, <2>1, <2>4
    <3>2. ((k - Len(s)) - 1) + 1 = Size(p)  BY <1>11, <3>1
    <3> QED  BY <1>2, <1>5, <2>4, <3>2
  <2> QED  BY <1>5, <2>2, <2>3, <2>4
<1> QED  BY <1>8, <1>9, <1>10, <1>11 DEF Runs, t, p, new, more

\* A new packet is on the line of its connection.
LEMMA ConnSends ==
  ASSUME TypeOK, ConnInv, NEW c \in Conn, ClientSends(c)
  PROVE  ConnInv'
<1> DEFINE p == Len(owner) + 1
<1>1. /\ Len(owner) \in Nat /\ p \in Packet /\ Encode(p) \in Seq(Byte)
      /\ Len(owner') = p /\ owner'[p] = c /\ c <= accepted
      /\ \A q \in 1..Len(owner) : owner'[q] = owner[q]
      /\ UNCHANGED <<protocolVars, connVars, cut>>
      /\ \A d \in Conn \ {c} : Line(d)' = Line(d)
      /\ Line(c)' = Line(c) \o Encode(p)
  BY SendOutcome
<1> HIDE DEF p
<1>2. 1..Len(owner') = 1..Len(owner) \cup {p}  BY <1>1 DEF p
<1>3. \A q \in 1..Len(owner') : owner'[q] <= accepted'
  BY <1>1, <1>2 DEF ConnInv, connVars
<1>4. ASSUME NEW d \in Conn, NEW b \in Range(Line(d)')
      PROVE  b.pkt \in 1..Len(owner') /\ owner'[b.pkt] = d
  <2>1. CASE b \in Range(Line(d))
    <3>1. b.pkt \in 1..Len(owner) /\ owner[b.pkt] = d  BY <2>1 DEF ConnInv
    <3> QED  BY <1>1, <1>2, <3>1
  <2>2. CASE d = c /\ b \in Range(Encode(p))
    <3>1. PICK k \in 1..Len(Encode(p)) : Encode(p)[k] = b  BY <1>1, <2>2, RangeIs
    <3>2. Len(Encode(p)) = Size(p)  BY <1>1, EncodeType
    <3>3. b.pkt = p  BY <3>1, <3>2 DEF Encode
    <3> QED  BY <1>1, <1>2, <2>2, <3>3
  <2>3. Range(Line(c)') = Range(Line(c)) \cup Range(Encode(p))
    <3>1. Line(c) \in Seq(Byte)  BY Lines
    <3> QED  BY <1>1, <3>1, RangeConcat
  <2> QED  BY <1>1, <1>4, <2>1, <2>2, <2>3
<1>5. ASSUME raw_data' # <<>>
      PROVE  /\ From' \in 1..accepted'
             /\ \A b \in Range(raw_data') : b.pkt \in 1..Len(owner') /\ owner'[b.pkt] = From'
             /\ ~ParserDone' => From' = accepted'
  <2>1. raw_data' = raw_data /\ i' = i /\ accepted' = accepted  BY <1>1 DEF protocolVars, connVars
  <2>2. /\ From \in 1..accepted /\ (~ParserDone => From = accepted)
        /\ \A b \in Range(raw_data) : b.pkt \in 1..Len(owner) /\ owner[b.pkt] = From
    BY <1>5, <2>1 DEF ConnInv
  <2>3. raw_data[1].pkt \in 1..Len(owner)
    <3>1. raw_data \in Seq(Byte)  BY DEF TypeOK, ProtocolTypeOK
    <3>2. 1 \in 1..Len(raw_data)  BY <1>5, <2>1, <3>1, EmptySeq
    <3>3. raw_data[1] \in Range(raw_data)  BY <3>1, <3>2, RangeIs
    <3> QED  BY <2>2, <3>3
  <2>4. From' = From  BY <1>1, <2>1, <2>3 DEF From, FromConn
  <2> QED  BY <1>1, <1>2, <2>1, <2>2, <2>4 DEF ParserDone
<1>6. cut' \subseteq 1..Len(owner')  BY <1>1, <1>2 DEF ConnInv
<1>7. /\ client_' \in {NoClient, accepted'}
      /\ \A d \in Conn : d > accepted' => sock'[d] = "none"
      /\ raw_data' = <<>> => out' = <<>> /\ rx_state' = "Idle"
  BY <1>1 DEF ConnInv, connVars, protocolVars
<1> QED  BY <1>3, <1>4, <1>5, <1>6, <1>7 DEF ConnInv

\* What is read stays with its connection.
LEMMA ConnReads ==
  ASSUME TypeOK, TypeOK', ConnInv, NEW c \in Conn, NEW n \in 1..Len(net[c]),
         onClientReadyRead(c, n)
  PROVE  ConnInv'
<1>1. /\ Ahead' = Ahead /\ ParserDone
      /\ \A d \in Conn : d # accepted => Line(d)' = Line(d)
      /\ UNCHANGED <<connVars, owner, rx_state, out>>
  BY ReadOutcome
<1>2. accepted' = accepted /\ client_' = client_ /\ sock' = sock  BY <1>1 DEF connVars
<1>3. ASSUME NEW d \in Conn, NEW b \in Range(Line(d)')
      PROVE  b.pkt \in 1..Len(owner') /\ owner'[b.pkt] = d
  <2>1. b \in Range(Line(d))
    <3>1. CASE d # accepted
      BY <1>1, <1>3, <3>1
    <3>2. CASE d = accepted
      <4>1. Line(d)' \in Seq(Byte) /\ Rest' \in Seq(Byte)
        <5>1. rxbuf'[d] \in Seq(Byte) /\ net'[d] \in Seq(Byte)  BY DEF TypeOK
        <5>2. Line(d)' \in Seq(Byte)  BY <5>1, ConcatAt DEF Line
        <5>3. raw_data' \in Seq(Byte) /\ i' \in 0..Len(raw_data')
          BY DEF TypeOK, ProtocolTypeOK
        <5>4. Rest' \in Seq(Byte)  BY <5>3, CutAnywhere DEF Rest
        <5> QED  BY <5>2, <5>4
      <4>2. accepted # 0  BY <3>2 DEF Conn
      <4>3. Ahead' = Rest' \o Line(d)'  BY <1>2, <3>2, <4>2 DEF Ahead
      <4>4. b \in Range(Ahead')  BY <1>3, <4>1, <4>3, RangeConcat
      <4>5. Ahead = Line(d)  BY <1>1, <3>2, AheadIs
      <4> QED  BY <1>1, <4>4, <4>5
    <3> QED  BY <3>1, <3>2
  <2> QED  BY <1>1, <2>1 DEF ConnInv
<1>4. CASE UNCHANGED <<raw_data, i, cut>>
  <2>1. From' = From  BY <1>1, <1>4 DEF From, FromConn
  <2>2. ParserDone' <=> ParserDone  BY <1>4 DEF ParserDone
  <2> QED  BY <1>1, <1>2, <1>3, <1>4, <2>1, <2>2 DEF ConnInv
<1>5. CASE /\ accepted \in Conn /\ raw_data' # <<>> /\ i' = 0
           /\ Len(raw_data') <= Len(Ahead)
           /\ \A k \in 1..Len(raw_data') : raw_data'[k] = Ahead[k]
           /\ cut' = cut \cup CutBy(raw_data')
  <2>1. raw_data' \in Seq(Byte) /\ Len(raw_data') \in Nat /\ Ahead \in Seq(Byte)
        /\ Len(Ahead) \in Nat /\ Ahead = Line(accepted)
    <3>1. raw_data' \in Seq(Byte)  BY DEF TypeOK, ProtocolTypeOK
    <3> QED  BY <1>1, <1>5, <3>1, AheadIs, LenProperties
  <2>2. ASSUME NEW k \in 1..Len(raw_data')
        PROVE  raw_data'[k].pkt \in 1..Len(owner') /\ owner'[raw_data'[k].pkt] = accepted
    <3>1. k \in 1..Len(Ahead)  BY <1>5, <2>1
    <3>2. raw_data'[k] \in Range(Line(accepted))  BY <1>5, <2>1, <3>1, RangeIs
    <3> QED  BY <1>1, <1>5, <3>2 DEF ConnInv
  <2>3. 1 \in 1..Len(raw_data') /\ Len(raw_data') \in 1..Len(raw_data')
    BY <1>5, <2>1, EmptySeq
  <2>4. From' = accepted  BY <2>2, <2>3 DEF From, FromConn
  <2>5. accepted \in 1..accepted  BY <1>5, ServerAssumption DEF Conn
  <2>6. \A b \in Range(raw_data') : b.pkt \in 1..Len(owner') /\ owner'[b.pkt] = From'
    <3>1. ASSUME NEW b \in Range(raw_data')
          PROVE  b.pkt \in 1..Len(owner') /\ owner'[b.pkt] = From'
      <4>1. PICK k \in 1..Len(raw_data') : raw_data'[k] = b  BY <2>1, <3>1, RangeIs
      <4> QED  BY <2>2, <2>4, <4>1
    <3> QED  BY <3>1
  <2>7. cut' \subseteq 1..Len(owner')
    <3>1. Last(raw_data').pkt \in 1..Len(owner')  BY <2>2, <2>3 DEF Last
    <3>2. CutBy(raw_data') \subseteq 1..Len(owner')  BY <3>1 DEF CutBy
    <3> QED  BY <1>1, <1>5, <3>2 DEF ConnInv
  <2> QED  BY <1>1, <1>2, <1>3, <1>5, <2>4, <2>5, <2>6, <2>7 DEF ConnInv
<1>6. (UNCHANGED <<raw_data, i, cut>>)
      \/ (/\ accepted \in Conn /\ raw_data' # <<>> /\ i' = 0
          /\ Len(raw_data') <= Len(Ahead)
          /\ \A k \in 1..Len(raw_data') : raw_data'[k] = Ahead[k]
          /\ cut' = cut \cup CutBy(raw_data'))
  BY ReadOutcome
<1> QED  BY <1>4, <1>5, <1>6

\* Bytes stay where they belong, whatever connections do.
LEMMA ConnKept ==
  ASSUME TypeOK, TypeOK', ConnInv, [Next]_vars
  PROVE  ConnInv'
<1>1. /\ accepted \in 0..MaxConn /\ MaxConn \in Nat /\ Conn = 1..MaxConn
      /\ client_ \in Conn \cup {NoClient}
      /\ sock \in [Conn -> {"none", "open", "closing", "closed"}]
  BY ServerAssumption DEF TypeOK, Conn
<1>2. CASE UNCHANGED vars
  BY <1>2 DEF vars, protocolVars, connVars, streamVars, ConnInv, Line, From, FromConn, ParserDone
<1>3. ASSUME NEW c \in Conn, ClientSends(c) PROVE ConnInv'
  BY <1>3, ConnSends
<1>4. ASSUME UNCHANGED <<protocolVars, streamVars, cut>>,
             accepted' \in Nat, accepted <= accepted',
             client_' \in {NoClient, accepted'},
             \A d \in Conn : d > accepted' => sock'[d] = "none",
             accepted' # accepted => ParserDone
      PROVE  ConnInv'
  <2>1. \A d \in Conn : Line(d)' = Line(d)  BY <1>4 DEF streamVars, Line
  <2>2. From' = From /\ (ParserDone' <=> ParserDone)
    BY <1>4 DEF protocolVars, streamVars, From, FromConn, ParserDone
  <2>3. \A q \in 1..Len(owner) : owner[q] \in Nat
    <3>1. ASSUME NEW q \in 1..Len(owner) PROVE owner[q] \in Nat
      <4>1. owner[q] \in Conn  BY ElementOfSeq DEF TypeOK
      <4> QED  BY <1>1, <4>1
    <3> QED  BY <3>1
  <2>4. \A q \in 1..Len(owner') : owner'[q] <= accepted'
    BY <1>1, <1>4, <2>3 DEF streamVars, ConnInv
  <2>5. raw_data' # <<>> =>
          /\ From' \in 1..accepted' /\ (~ParserDone' => From' = accepted')
          /\ \A b \in Range(raw_data') : b.pkt \in 1..Len(owner') /\ owner'[b.pkt] = From'
    BY <1>1, <1>4, <2>2 DEF protocolVars, streamVars, ConnInv
  <2>6. /\ \A d \in Conn : \A b \in Range(Line(d)') : b.pkt \in 1..Len(owner') /\ owner'[b.pkt] = d
        /\ raw_data' = <<>> => out' = <<>> /\ rx_state' = "Idle"
        /\ cut' \subseteq 1..Len(owner')
    BY <1>4, <2>1 DEF protocolVars, streamVars, ConnInv
  <2> QED  BY <1>4, <2>4, <2>5, <2>6 DEF ConnInv
<1>5. ASSUME NEW c \in Conn, onNewConnection(c) PROVE ConnInv'
  <2>1. /\ c = accepted + 1 /\ accepted' = c /\ client_' = c /\ ParserDone
        /\ \A d \in Conn : d # c /\ d # client_ => sock'[d] = sock[d]
        /\ UNCHANGED <<protocolVars, streamVars, cut>>
    BY <1>5 DEF onNewConnection
  <2>2. ASSUME NEW d \in Conn, d > accepted' PROVE sock'[d] = "none"
    <3>1. d # c /\ d > accepted /\ d # client_
      BY <1>1, <2>1, <2>2 DEF ConnInv
    <3> QED  BY <2>1, <3>1 DEF ConnInv
  <2>3. accepted' \in Nat /\ accepted <= accepted'  BY <1>1, <2>1
  <2> QED  BY <1>4, <2>1, <2>2, <2>3
<1>6. ASSUME NEW c \in Conn, FlushGreeting(c) \/ PeerCloses(c) PROVE ConnInv'
  <2>1. /\ UNCHANGED <<protocolVars, streamVars, cut, accepted>>
        /\ client_' \in {NoClient, client_}
        /\ \A d \in Conn : sock[d] = "none" => sock'[d] = "none"
    BY <1>1, <1>6 DEF FlushGreeting, PeerCloses, onClientDisconnected
  <2>2. client_' \in {NoClient, accepted'}  BY <2>1 DEF ConnInv
  <2>3. \A d \in Conn : d > accepted' => sock'[d] = "none"  BY <2>1 DEF ConnInv
  <2>4. accepted' \in Nat /\ accepted <= accepted'  BY <1>1, <2>1
  <2> QED  BY <1>4, <2>1, <2>2, <2>3, <2>4
<1>7. ASSUME NEW c \in Conn, NEW n \in 1..Len(net[c]), onClientReadyRead(c, n)
      PROVE  ConnInv'
  BY <1>7, ConnReads
<1>8. CASE Parse
  <2>1. /\ raw_data # <<>> /\ UNCHANGED raw_data /\ From' = From /\ From = accepted
        /\ UNCHANGED <<connVars, streamVars, cut>>
    BY <1>8, StepAdvances DEF Advances
  <2>2. \A d \in Conn : Line(d)' = Line(d)  BY <2>1 DEF streamVars, Line
  <2> QED  BY <2>1, <2>2 DEF ConnInv, connVars, streamVars
<1> QED  BY <1>2, <1>3, <1>5, <1>6, <1>7, <1>8 DEF Next

\* Nothing has been sent on a connection that is just being accepted.
LEMMA NewIsEmpty ==
  ASSUME TypeOK, ConnInv, NEW c \in Conn, onNewConnection(c)
  PROVE  /\ Ahead' = <<>> /\ Len(Ahead') = 0 /\ Range(Ahead') = {}
         /\ accepted' = accepted + 1 /\ accepted' = c /\ accepted \in Nat /\ ParserDone
         /\ UNCHANGED <<protocolVars, streamVars, cut, torn>>
<1>1. /\ c = accepted + 1 /\ accepted' = c /\ ParserDone /\ accepted \in Nat
      /\ UNCHANGED <<protocolVars, streamVars, cut, torn>>
  BY DEF onNewConnection, TypeOK
<1>2. Line(c)' = Line(c) /\ Line(c) \in Seq(Byte)
  BY <1>1, Lines DEF streamVars, Line
<1>3. Range(Line(c)) = {}
  <2>1. ASSUME NEW b \in Range(Line(c)) PROVE FALSE
    <3>1. b.pkt \in 1..Len(owner) /\ owner[b.pkt] = c  BY <2>1 DEF ConnInv
    <3>2. c <= accepted  BY <3>1 DEF ConnInv
    <3> QED  BY <1>1, <3>2
  <2> QED  BY <2>1
<1>4. Line(c) = <<>>
  <2>1. ASSUME Line(c) # <<>> PROVE FALSE
    <3>1. 1 \in 1..Len(Line(c))  BY <1>2, <2>1, EmptySeq
    <3> QED  BY <1>2, <1>3, <3>1, RangeIs
  <2> QED  BY <2>1
<1>5. Rest' = Rest /\ Rest = <<>>
  <2>1. Rest' = Rest  BY <1>1 DEF protocolVars, Rest
  <2>2. Rest \in Seq(Byte) /\ Len(Rest) = 0  BY <1>1, Lines DEF ParserDone
  <2> QED  BY <2>1, <2>2, EmptySeq
<1>6. Ahead' = <<>>
  <2>1. Ahead' = Rest' \o Line(c)'
    <3>1. accepted' # 0  BY <1>1
    <3> QED  BY <1>1, <3>1 DEF Ahead
  <2>2. Rest' = <<>> /\ Line(c)' = <<>>  BY <1>2, <1>4, <1>5
  <2> QED  BY <2>1, <2>2, EmptySeq, ConcatEmptySeq
<1>7. Len(<<>>) = 0 /\ Range(<<>>) = {}  BY DEF Range
<1> QED  BY <1>1, <1>6, <1>7

\* What the parser may be given is in order and whole to the end; a connection
\* nothing was read of begins with a header; and a header still ahead has been
\* cut only if it does not fit the present chunk.
StreamInv ==
  /\ Runs(Ahead, owner, accepted)
  /\ raw_data = <<>> \/ From < accepted => Ahead = <<>> \/ Ahead[1].at = 0
  /\ raw_data # <<>> /\ Last(raw_data).at < MESSAGE_HEAD_LEN - 1 => Last(raw_data).pkt \in cut
  /\ \A k \in 1..Len(Ahead) : Ahead[k].at = 0 /\ Ahead[k].pkt \in cut =>
       k <= Len(raw_data) - i /\ Len(raw_data) - i < k + MESSAGE_HEAD_LEN - 1

\* A new packet begins with its header, behind all that is ahead.
LEMMA StreamSends ==
  ASSUME TypeOK, ConnInv, StreamInv, NEW c \in Conn, ClientSends(c)
  PROVE  StreamInv'
<1> DEFINE p == Len(owner) + 1
           new == Encode(p)
<1>1. /\ Len(owner) \in Nat /\ p \in Packet /\ new \in Seq(Byte)
      /\ owner' = Append(owner, c) /\ owner \in Seq(Conn)
      /\ UNCHANGED <<protocolVars, connVars, cut>>
      /\ Ahead' = IF c = accepted THEN Ahead \o new ELSE Ahead
      /\ \A q \in 1..Len(owner) : owner'[q] = owner[q]
  BY SendOutcome DEF TypeOK
<1>2. Ahead \in Seq(Byte)  BY AheadIs
<1>3. accepted' = accepted /\ raw_data' = raw_data /\ i' = i /\ cut' = cut
  BY <1>1 DEF protocolVars, connVars
<1>4. From' = From \/ raw_data = <<>>
  <2>1. ASSUME raw_data # <<>> PROVE From' = From
    <3>1. raw_data \in Seq(Byte)  BY DEF TypeOK, ProtocolTypeOK
    <3>2. 1 \in 1..Len(raw_data)  BY <2>1, <3>1, EmptySeq
    <3>3. raw_data[1].pkt \in 1..Len(owner)  BY <2>1, <3>1, <3>2, RangeIs DEF ConnInv
    <3> QED  BY <1>1, <1>3, <3>3 DEF From, FromConn
  <2> QED  BY <2>1
<1>5. CASE c = accepted
  <2>1. Ahead' = Ahead \o new  BY <1>1, <1>5
  <2>2. Runs(Ahead', owner', accepted')
    BY <1>1, <1>2, <1>3, <1>5, <2>1, RunsOn DEF StreamInv
  <2>3. /\ Ahead' \in Seq(Byte) /\ Len(Ahead) \in Nat /\ Len(new) \in Nat
        /\ Len(Ahead') = Len(Ahead) + Len(new)
        /\ \A k \in 1..Len(Ahead) : Ahead'[k] = Ahead[k]
        /\ \A k \in 1..Len(Ahead') : k > Len(Ahead) => Ahead'[k] = new[k - Len(Ahead)]
    <3> HIDE DEF new
    <3> QED  BY <1>1, <1>2, <2>1, ConcatAt
  <2>4. Len(new) = Size(p) /\ Size(p) \in Nat /\ Size(p) > 0
        /\ \A k \in 1..Size(p) : new[k] = [pkt |-> p, at |-> k - 1]
    BY <1>1, EncodeType, SizeIs DEF Encode
  <2> HIDE DEF new
  <2>5. ASSUME Ahead = <<>> PROVE Ahead'[1].at = 0
    <3>1. Len(Ahead) = 0  BY <2>5
    <3>2. 1 \in 1..Len(Ahead') /\ 1 > Len(Ahead) /\ 1 - Len(Ahead) = 1 /\ 1 \in 1..Size(p)
      BY <2>3, <2>4, <3>1
    <3>3. Ahead'[1] = new[1]  BY <2>3, <3>2
    <3>4. new[1] = [pkt |-> p, at |-> 1 - 1]  BY <2>4, <3>2
    <3>5. Ahead'[1] = [pkt |-> p, at |-> 1 - 1]  BY <3>3, <3>4, Zenon
    <3> HIDE DEF p
    <3> QED  BY <3>5
  <2>6. ASSUME Ahead # <<>> PROVE Ahead'[1] = Ahead[1]
    <3>1. 1 \in 1..Len(Ahead)  BY <1>2, <2>6, EmptySeq
    <3> QED  BY <2>3, <3>1
  <2>7. raw_data' = <<>> \/ From' < accepted' => Ahead' = <<>> \/ Ahead'[1].at = 0
    BY <1>3, <1>4, <2>5, <2>6 DEF StreamInv
  <2>8. ASSUME NEW k \in 1..Len(Ahead'), Ahead'[k].at = 0, Ahead'[k].pkt \in cut'
        PROVE  k <= Len(raw_data') - i' /\ Len(raw_data') - i' < k + MESSAGE_HEAD_LEN - 1
    <3>1. k <= Len(Ahead)
      <4>1. ASSUME k > Len(Ahead) PROVE FALSE
        <5>1. k - Len(Ahead) \in 1..Size(p)  BY <2>3, <2>4, <4>1
        <5>2. Ahead'[k].pkt = p
          <6>1. Ahead'[k] = new[k - Len(Ahead)]  BY <2>3, <2>8, <4>1
          <6>2. new[k - Len(Ahead)] = [pkt |-> p, at |-> (k - Len(Ahead)) - 1]
            BY <2>4, <5>1
          <6>3. Ahead'[k] = [pkt |-> p, at |-> (k - Len(Ahead)) - 1]
            BY <6>1, <6>2, Zenon
          <6> HIDE DEF p
          <6> QED  BY <6>3
        <5>3. p \in 1..Len(owner)  BY <1>3, <2>8, <5>2 DEF ConnInv
        <5> QED  BY <1>1, <5>3
      <4> QED  BY <2>3, <4>1
    <3>2. k \in 1..Len(Ahead) /\ Ahead'[k] = Ahead[k]  BY <2>3, <3>1
    <3> QED  BY <1>3, <2>8, <3>2 DEF StreamInv
  <2>9. raw_data' # <<>> /\ Last(raw_data').at < MESSAGE_HEAD_LEN - 1
          => Last(raw_data').pkt \in cut'
    BY <1>3 DEF StreamInv
  <2> QED  BY <2>2, <2>7, <2>8, <2>9 DEF StreamInv
<1>6. CASE c # accepted
  <2>1. Ahead' = Ahead  BY <1>1, <1>6
  <2>2. Runs(Ahead', owner', accepted')
    BY <1>1, <1>2, <1>3, <2>1, RunsElsewhere DEF StreamInv
  <2> QED  BY <1>3, <1>4, <2>1, <2>2 DEF StreamInv
<1> QED  BY <1>5, <1>6

\* A read cuts the header that its chunk ends in, and no other.
LEMMA StreamReads ==
  ASSUME TypeOK, TypeOK', ConnInv, ConnInv', StreamInv, NEW c \in Conn, NEW n \in 1..Len(net[c]),
         onClientReadyRead(c, n)
  PROVE  StreamInv'
<1>1. /\ Ahead' = Ahead /\ accepted' = accepted /\ owner' = owner /\ ParserDone
  BY ReadOutcome DEF connVars
<1>2. CASE UNCHANGED <<raw_data, i, cut>>
  <2>1. From' = From  BY <1>1, <1>2 DEF From, FromConn
  <2> QED  BY <1>1, <1>2, <2>1 DEF StreamInv
<1>3. CASE /\ accepted \in Conn /\ raw_data' # <<>> /\ i' = 0
           /\ Len(raw_data') <= Len(Ahead)
           /\ \A k \in 1..Len(raw_data') : raw_data'[k] = Ahead[k]
           /\ cut' = cut \cup CutBy(raw_data')
  <2> DEFINE z == Len(raw_data')
  <2>1. z \in Nat /\ z \in 1..z /\ z \in 1..Len(Ahead) /\ Ahead \in Seq(Byte) /\ Len(Ahead) \in Nat
    <3>1. raw_data' \in Seq(Byte)  BY DEF TypeOK, ProtocolTypeOK
    <3>2. z \in Nat \ {0}  BY <1>3, <3>1, EmptySeq
    <3>3. Ahead \in Seq(Byte) /\ Len(Ahead) \in Nat  BY AheadIs
    <3> QED  BY <1>3, <3>2, <3>3
  <2>2. Last(raw_data') = Ahead[z]  BY <1>3, <2>1 DEF Last
  <2>3. ~(From' < accepted')
    <3>1. z > 0 /\ i' = 0  BY <1>3, <2>1
    <3>2. ~ParserDone'  BY <3>1 DEF ParserDone
    <3>3. From' = accepted' /\ accepted' \in Nat  BY <1>3, <3>2 DEF ConnInv, TypeOK
    <3> QED  BY <3>3
  <2>4. Last(raw_data').at < MESSAGE_HEAD_LEN - 1 => Last(raw_data').pkt \in cut'
    BY <1>3 DEF CutBy
  <2>5. ASSUME NEW k \in 1..Len(Ahead), Ahead[k].at = 0, Ahead[k].pkt \in cut'
        PROVE  k <= z /\ z < k + MESSAGE_HEAD_LEN - 1
    <3>1. Ahead[k].pkt \notin cut
      <4>1. Len(raw_data) - i = 0  BY <1>1, Lines DEF ParserDone
      <4> QED  BY <2>5, <4>1 DEF StreamInv
    <3>2. Ahead[z].at < MESSAGE_HEAD_LEN - 1 /\ Ahead[k].pkt = Ahead[z].pkt
      BY <1>3, <2>2, <2>5, <3>1 DEF CutBy
    <3> DEFINE a == Ahead[z].at
    <3>3. a \in Nat /\ Ahead[z] \in Byte /\ Ahead[k] \in Byte /\ a < Size(Ahead[z].pkt)
      <4>1. Ahead[z] \in Byte /\ Ahead[k] \in Byte  BY <2>1, ElementOfSeq
      <4>2. Runs(Ahead, owner, accepted)  BY DEF StreamInv
      <4>3. Ahead[z].at < Size(Ahead[z].pkt)  BY <2>1, <4>2 DEF Runs
      <4> QED  BY <4>1, <4>3 DEF Byte
    <3> HIDE DEF a
    <3>4. k + a <= Len(Ahead) /\ Ahead[k + a] = [pkt |-> Ahead[k].pkt, at |-> a]
      <4>1. Ahead[k].at + a = a  BY <2>5, <3>3
      <4>2. Ahead[k].at + a < Size(Ahead[k].pkt)  BY <3>2, <3>3, <4>1
      <4> QED  BY <3>3, <4>1, <4>2 DEF StreamInv, Runs
    <3>5. k + a \in 1..Len(Ahead)  BY <2>1, <3>3, <3>4
    <3>6. k + a = z
      <4>1. Ahead[k + a].pkt = Ahead[z].pkt /\ Ahead[k + a].at = Ahead[z].at
        BY <3>2, <3>4 DEF a
      <4>2. Ahead[z].pkt \in 1..Len(owner)  BY <2>1 DEF StreamInv, Runs
      <4>3. ~Before(Ahead[k + a], Ahead[z]) /\ ~Before(Ahead[z], Ahead[k + a])
        BY <3>3, <4>1, <4>2 DEF Before, a
      <4>4. ~(k + a < z) /\ ~(z < k + a)  BY <2>1, <3>5, <4>3 DEF StreamInv, Runs
      <4> QED  BY <2>1, <3>3, <4>4
    <3>7. a < MESSAGE_HEAD_LEN - 1  BY <3>2 DEF a
    <3> QED  BY <2>1, <3>3, <3>6, <3>7, SizeIs
  <2>6. \A k \in 1..Len(Ahead') : Ahead'[k].at = 0 /\ Ahead'[k].pkt \in cut' =>
          k <= Len(raw_data') - i' /\ Len(raw_data') - i' < k + MESSAGE_HEAD_LEN - 1
    <3>1. Len(raw_data') - i' = z  BY <1>3, <2>1
    <3> HIDE DEF z
    <3> QED  BY <1>1, <2>5, <3>1
  <2> QED  BY <1>1, <1>3, <2>3, <2>4, <2>6 DEF StreamInv
<1>4. (UNCHANGED <<raw_data, i, cut>>)
      \/ (/\ accepted \in Conn /\ raw_data' # <<>> /\ i' = 0
          /\ Len(raw_data') <= Len(Ahead)
          /\ \A k \in 1..Len(raw_data') : raw_data'[k] = Ahead[k]
          /\ cut' = cut \cup CutBy(raw_data'))
  BY ReadOutcome
<1> QED  BY <1>2, <1>3, <1>4

\* What is ahead stays in order, and cut headers stay cut.
LEMMA StreamKept ==
  ASSUME TypeOK, TypeOK', ConnInv, ConnInv', StreamInv, [Next]_vars
  PROVE  StreamInv'
<1>1. CASE UNCHANGED <<protocolVars, streamVars, cut, accepted>>
  BY <1>1 DEF protocolVars, streamVars, StreamInv, Ahead, Rest, Line, From, FromConn
<1>2. ASSUME NEW c \in Conn, onNewConnection(c) PROVE StreamInv'
  <2>1. /\ Ahead' = <<>> /\ Len(Ahead') = 0
        /\ UNCHANGED <<protocolVars, cut>>
    BY <1>2, NewIsEmpty
  <2>2. 1..Len(Ahead') = {} /\ 1..(Len(Ahead') - 1) = {}  BY <2>1
  <2>3. Runs(Ahead', owner', accepted')  BY <2>2 DEF Runs
  <2> QED  BY <2>1, <2>2, <2>3 DEF StreamInv, protocolVars
<1>3. CASE Parse
  <2> DEFINE d == i' - i
  <2>1. /\ From = accepted /\ From' = From /\ accepted \in Conn /\ raw_data # <<>>
        /\ UNCHANGED <<connVars, streamVars, cut>>
        /\ Advances(d) /\ d \in {1, MESSAGE_HEAD_LEN} /\ d <= Len(raw_data) - i
        /\ Len(raw_data) \in Nat /\ i \in Nat
        /\ Len(Ahead) \in Nat /\ Len(raw_data) - i <= Len(Ahead)
    BY <1>3, StepAdvances
  <2> HIDE DEF d
  <2>2. d \in Nat /\ d <= Len(Ahead) /\ MESSAGE_HEAD_LEN \in Nat
    BY <2>1, SizeIs
  <2>3. /\ Len(Ahead') = Len(Ahead) - d /\ i' = i + d /\ raw_data' = raw_data
        /\ \A k \in 1..(Len(Ahead) - d) : Ahead'[k] = Ahead[d + k]
    BY <2>1 DEF Advances
  <2>4. Ahead \in Seq(Byte) /\ Ahead' \in Seq(Byte)
    <3>1. rxbuf'[accepted] \in Seq(Byte) /\ net'[accepted] \in Seq(Byte)
      BY <2>1 DEF TypeOK
    <3>2. Line(accepted)' \in Seq(Byte)
      <4>1. accepted' = accepted  BY <2>1 DEF connVars
      <4> QED  BY <3>1, <4>1, ConcatAt DEF Line
    <3>3. raw_data' \in Seq(Byte) /\ i' \in 0..Len(raw_data')
      BY DEF TypeOK, ProtocolTypeOK
    <3>4. Rest' \in Seq(Byte)  BY <3>3, CutAnywhere DEF Rest
    <3>5. Ahead' \in Seq(Byte)  BY <3>2, <3>4, ConcatAt, EmptySeq DEF Ahead
    <3> QED  BY <3>5, AheadIs
  <2>5. accepted' = accepted /\ owner' = owner /\ cut' = cut
    BY <2>1 DEF connVars, streamVars
  <2>6. Runs(Ahead', owner', accepted')
    BY <2>2, <2>3, <2>4, <2>5, RunsDrop DEF StreamInv
  <2>7. ASSUME NEW k \in 1..Len(Ahead'), Ahead'[k].at = 0, Ahead'[k].pkt \in cut'
        PROVE  k <= Len(raw_data') - i' /\ Len(raw_data') - i' < k + MESSAGE_HEAD_LEN - 1
    <3>1. d + k \in 1..Len(Ahead) /\ Ahead'[k] = Ahead[d + k]  BY <2>1, <2>2, <2>3
    <3>2. d + k <= Len(raw_data) - i /\ Len(raw_data) - i < (d + k) + MESSAGE_HEAD_LEN - 1
      BY <2>5, <2>7, <3>1 DEF StreamInv
    <3> QED  BY <2>1, <2>2, <2>3, <3>2
  <2>8. ~(From' < accepted') /\ raw_data' # <<>>
    <3>1. accepted \in Nat  BY DEF TypeOK
    <3> QED  BY <2>1, <2>3, <2>5, <3>1
  <2> QED  BY <2>3, <2>5, <2>6, <2>7, <2>8 DEF StreamInv
<1> QED
  BY <1>1, <1>2, <1>3, StreamSends, StreamReads
  DEF Next, vars, connVars, FlushGreeting, PeerCloses

\* What is known of the stream in every state.
LinkInv ==
  /\ TypeOK /\ BoundedBuffering /\ ConnInv /\ StreamInv
  /\ Ahead \in Seq(Byte) /\ Len(Ahead) \in Nat /\ Len(raw_data) - i <= Len(Ahead)
  /\ \A k \in 1..(Len(raw_data) - i) : Ahead[k] = raw_data[i + k]
  /\ InFlight = Range(Ahead) \cup Stranded

\* Whatever clients come and go, the stream ahead of the parser is that of one
\* connection, whole and in order.
LEMMA LinkHolds == Spec => []LinkInv
<1>1. Init => ConnInv /\ StreamInv
  <2> SUFFICES ASSUME Init PROVE ConnInv /\ StreamInv
    OBVIOUS
  <2>1. /\ accepted = 0 /\ client_ = NoClient /\ owner = <<>> /\ cut = {}
        /\ raw_data = <<>> /\ out = <<>> /\ rx_state = "Idle"
        /\ \A c \in Conn : sock[c] = "none" /\ net[c] = <<>> /\ rxbuf[c] = <<>>
    BY DEF Init, ProtocolInit
  <2>2. Len(owner) = 0 /\ 1..Len(owner) = {}  BY <2>1
  <2>3. \A c \in Conn : Range(Line(c)) = {}
    <3>1. <<>> \o <<>> = <<>>  BY EmptySeq, ConcatEmptySeq
    <3>2. \A c \in Conn : Line(c) = <<>>
      <4>1. ASSUME NEW c \in Conn PROVE Line(c) = <<>>
        <5>1. rxbuf[c] = <<>> /\ net[c] = <<>>  BY <2>1
        <5> QED  BY <3>1, <5>1, Zenon DEF Line
      <4> QED  BY <4>1
    <3>3. Range(<<>>) = {}  BY DEF Range
    <3> QED  BY <3>2, <3>3, Zenon
  <2>4. ConnInv  BY <2>1, <2>2, <2>3 DEF ConnInv
  <2>5. Ahead = <<>> /\ 1..Len(Ahead) = {} /\ 1..(Len(Ahead) - 1) = {}
    BY <2>1 DEF Ahead
  <2>6. StreamInv  BY <2>1, <2>5 DEF StreamInv, Runs
  <2> QED  BY <2>4, <2>6
<1>2. TypeOK /\ TypeOK' /\ ConnInv /\ StreamInv /\ [Next]_vars => (ConnInv /\ StreamInv)'
  BY ConnKept, StreamKept
<1>3. TypeOK /\ BoundedBuffering /\ ConnInv /\ StreamInv => LinkInv
  BY AheadIs DEF LinkInv
<1> QED  BY <1>1, <1>2, <1>3, ServerTypeCorrect, BufferingIsBounded, PTL DEF Spec

-----------------------------------------------------------------------------
(* What comes out of the parser.                                           *)

\* A packet the parser would deliver, and its last byte.
Fits(p) == MESSAGE_HEAD_LEN < Size(p) /\ Size(p) <= MAX_MESSAGE_LEN
Final(p) == [pkt |-> p, at |-> Size(p) - 1]

\* A message that holds the beginning of a packet.
HasHead(m) == \E n \in DOMAIN m.payload : m.payload[n].at = 0

\* Message k is packet p.
Is(k, p) == Real(out[k]) /\ out[k] = MessageOf(p)

\* A message that is no packet holds the beginning of one; one that is a packet
\* is of one all of whose bytes were parsed, and those before it are of
\* earlier packets.
OutAt(k) ==
  /\ Real(out[k]) /\ ~Intact(out[k]) => HasHead(out[k])
  /\ \A p \in 1..Len(owner) : Is(k, p) =>
       /\ Deliverable(p)
       /\ \A j \in 1..Len(Ahead) : p < Ahead[j].pkt
       /\ \A j \in 1..(k - 1), q \in 1..Len(owner) : Is(j, q) => q < p
OutInv == \A k \in 1..Len(out) : OutAt(k)

\* The payload of a packet, byte by byte.
LEMMA PayloadIs ==
  ASSUME NEW p \in Packet
  PROVE  /\ Payload(p) \in Seq(Byte) /\ Len(Payload(p)) = Size(p) - MESSAGE_HEAD_LEN
         /\ \A n \in 1..(Size(p) - MESSAGE_HEAD_LEN) :
              Payload(p)[n] = [pkt |-> p, at |-> MESSAGE_HEAD_LEN + n - 1]
<1> DEFINE e == Encode(p)
           h == MESSAGE_HEAD_LEN
<1>1. e \in Seq(Byte) /\ Len(e) = Size(p) /\ Size(p) \in Nat /\ h \in 0..Len(e) /\ h \in Nat
  BY EncodeType, SizeIs
<1>2. \A k \in 1..Size(p) : e[k] = [pkt |-> p, at |-> k - 1]  BY DEF Encode
<1>3. Payload(p) = SubSeq(e, h + 1, Len(e))  BY <1>1 DEF Payload
<1> HIDE DEF e
<1>4. /\ Payload(p) \in Seq(Byte) /\ Len(Payload(p)) = Len(e) - h
      /\ \A k \in 1..(Len(e) - h) : Payload(p)[k] = e[h + k]
  BY <1>1, <1>3, CutAnywhere
<1>5. ASSUME NEW n \in 1..(Size(p) - h)
      PROVE  Payload(p)[n] = [pkt |-> p, at |-> h + n - 1]
  <2>1. h + n \in 1..Size(p) /\ (h + n) - 1 = h + n - 1 /\ n \in 1..(Len(e) - h)
    BY <1>1
  <2>2. Payload(p)[n] = e[h + n]  BY <1>4, <2>1
  <2> QED  BY <1>2, <2>1, <2>2
<1> QED  BY <1>1, <1>4, <1>5

\* A packet that was sent is one of those there are.
LEMMA SentIsPacket ==
  ASSUME TypeOK
  PROVE  1..Len(owner) \subseteq Packet /\ Len(owner) \in Nat
BY LenProperties, ServerAssumption DEF TypeOK

\* A whole packet does not hold its beginning, and says which packet it is.
LEMMA WholeMessage ==
  ASSUME NEW p \in Packet
  PROVE  /\ ~HasHead(MessageOf(p))
         /\ Real(MessageOf(p)) => MessageOf(p).payload[1].pkt = p
         /\ Fits(p) => Real(MessageOf(p))
<1>1. Size(p) \in Nat /\ MESSAGE_HEAD_LEN \in Nat \ {0} /\ Size(p) >= MESSAGE_HEAD_LEN
  BY SizeIs
<1>2. MessageOf(p).payload = Payload(p)  BY DEF MessageOf
<1>3. DOMAIN Payload(p) = 1..(Size(p) - MESSAGE_HEAD_LEN)
  BY PayloadIs, LenProperties
<1>4. \A n \in DOMAIN Payload(p) : Payload(p)[n].at = MESSAGE_HEAD_LEN + n - 1
                                   /\ Payload(p)[n].pkt = p
  <2>1. ASSUME NEW n \in DOMAIN Payload(p)
        PROVE  Payload(p)[n].at = MESSAGE_HEAD_LEN + n - 1 /\ Payload(p)[n].pkt = p
    <3>1. Payload(p)[n] = [pkt |-> p, at |-> MESSAGE_HEAD_LEN + n - 1]
      BY <1>3, PayloadIs
    <3> QED  BY <3>1
  <2> QED  BY <2>1
<1>5. ~HasHead(MessageOf(p))
  <2>1. \A n \in DOMAIN Payload(p) : Payload(p)[n].at # 0  BY <1>1, <1>3, <1>4
  <2> QED  BY <1>2, <2>1 DEF HasHead
<1>6. ASSUME Real(MessageOf(p)) PROVE MessageOf(p).payload[1].pkt = p
  <2>1. Payload(p) # <<>>  BY <1>2, <1>6 DEF Real
  <2>2. 1 \in DOMAIN Payload(p)  BY <2>1, PayloadIs, EmptySeq, LenProperties
  <2> QED  BY <1>2, <1>4, <2>2
<1>7. ASSUME Fits(p) PROVE Real(MessageOf(p))
  <2>1. Len(Payload(p)) # 0  BY <1>1, <1>7, PayloadIs DEF Fits
  <2>2. Payload(p) # <<>>
    <3>1. Len(<<>>) = 0  OBVIOUS
    <3> QED  BY <2>1, <3>1
  <2> QED  BY <1>2, <2>2 DEF Real
<1> QED  BY <1>5, <1>6, <1>7

\* Whatever the parser has handed over is of packets already sent.
LEMMA NoneTooEarly ==
  ASSUME TypeOK, OutInv, NEW k \in 1..Len(out), NEW p \in Packet, Is(k, p)
  PROVE  p \in 1..Len(owner)
<1>1. Real(out[k]) /\ out[k] = MessageOf(p)  BY DEF Is
<1>2. ~HasHead(out[k]) /\ out[k].payload[1].pkt = p  BY <1>1, WholeMessage
<1>3. Intact(out[k])  BY <1>1, <1>2 DEF OutInv, OutAt
<1>4. PICK q \in 1..Len(owner) : out[k] = MessageOf(q)  BY <1>3 DEF Intact
<1>5. q \in Packet  BY SentIsPacket
<1>6. out[k].payload[1].pkt = q  BY <1>1, <1>4, <1>5, WholeMessage
<1> QED  BY <1>2, <1>6

\* The step takes back nothing it has handed over, and nothing real is new.
Extends ==
  Len(out) <= Len(out') /\ \A k \in 1..Len(out) : out'[k] = out[k]
NoneReal ==
  Extends /\ \A k \in 1..Len(out') : k > Len(out) => ~Real(out[k])'

\* The step sends new packets, and parses or cuts no other than those ahead.
OnlyAhead ==
  /\ Len(owner) <= Len(owner')
  /\ \A b \in InFlight' : b \in InFlight \/ b.pkt > Len(owner)
  /\ \A k \in 1..Len(Ahead') : Ahead'[k] \in Range(Ahead) \/ Ahead'[k].pkt > Len(owner)
  /\ \A p \in cut' : p \in cut \/ \E b \in Range(Ahead) : p = b.pkt

\* How much there is of everything, before a step and after it.
LEMMA Counts ==
  ASSUME LinkInv, LinkInv'
  PROVE  /\ Len(out) \in Nat /\ Len(out') \in Nat /\ Len(owner) \in Nat /\ Len(owner') \in Nat
         /\ DOMAIN out = 1..Len(out) /\ DOMAIN out' = 1..Len(out')
         /\ 1..Len(owner) \subseteq Packet /\ 1..Len(owner') \subseteq Packet
<1>1. /\ out \in Seq(Message) /\ out' \in Seq(Message)
      /\ owner \in Seq(Conn) /\ owner' \in Seq(Conn)
      /\ Len(owner) <= MaxPackets /\ Len(owner') <= MaxPackets
  BY DEF LinkInv, TypeOK, ProtocolTypeOK
<1> QED  BY <1>1, LenProperties, ServerAssumption

\* What such a step leaves true of the messages handed over before it.
LEMMA OutOld ==
  ASSUME LinkInv, LinkInv', OutInv, Extends, OnlyAhead, NEW k \in 1..Len(out)
  PROVE  OutAt(k)'
<1>1. /\ Len(out) \in Nat /\ Len(owner) \in Nat /\ Len(owner') \in Nat
      /\ 1..Len(owner) \subseteq 1..Len(owner') /\ 1..Len(owner') \subseteq Packet
  BY Counts DEF OnlyAhead
<1>2. \A j \in 1..Len(out) : out'[j] = out[j]  BY DEF Extends
<1>3. ASSUME Real(out[k])', ~Intact(out[k])' PROVE HasHead(out[k])'
  <2>1. out'[k] = out[k]  BY <1>2
  <2>2. ~Intact(out[k])
    <3>1. ASSUME NEW p \in 1..Len(owner), out[k] = MessageOf(p) PROVE FALSE
      <4>1. p \in 1..Len(owner') /\ out'[k] = MessageOf(p)  BY <1>1, <2>1, <3>1
      <4> QED  BY <1>3, <4>1 DEF Intact, MessageOf
    <3> QED  BY <3>1 DEF Intact
  <2>3. Real(out[k])  BY <1>3, <2>1 DEF Real
  <2> QED  BY <2>1, <2>2, <2>3 DEF OutInv, OutAt, HasHead
<1>4. ASSUME NEW j \in 1..Len(out), NEW p \in 1..Len(owner'), Is(j, p)'
      PROVE  p \in 1..Len(owner) /\ Is(j, p)
  <2>1. Real(out'[j]) /\ out'[j] = MessageOf(p)  BY <1>4 DEF Is, MessageOf
  <2>2. Is(j, p)  BY <1>2, <2>1 DEF Is
  <2> QED  BY <1>1, <2>2, NoneTooEarly DEF LinkInv
<1>5. ASSUME NEW p \in 1..Len(owner'), Is(k, p)'
      PROVE  /\ Deliverable(p)'
             /\ \A j \in 1..Len(Ahead') : p < Ahead'[j].pkt
             /\ \A j \in 1..(k - 1), q \in 1..Len(owner') : Is(j, q)' => q < p
  <2>1. p \in 1..Len(owner) /\ Is(k, p)  BY <1>4, <1>5
  <2>2. /\ Deliverable(p)
        /\ \A j \in 1..Len(Ahead) : p < Ahead[j].pkt
        /\ \A j \in 1..(k - 1), q \in 1..Len(owner) : Is(j, q) => q < p
    BY <2>1 DEF OutInv, OutAt
  <2>3. \A b \in Range(Ahead) : p < b.pkt
    BY <2>2, RangeIs DEF LinkInv
  <2>4. ~(p > Len(owner)) /\ p \in Nat /\ ~(p < p)  BY <1>1, <2>1
  <2>5. Deliverable(p)'
    <3>1. p \notin cut'
      BY <2>2, <2>3, <2>4 DEF Deliverable, OnlyAhead
    <3>2. \A b \in InFlight' : b.pkt # p
      BY <2>2, <2>4 DEF Deliverable, Parsed, OnlyAhead
    <3> QED  BY <2>2, <3>1, <3>2 DEF Deliverable, Parsed
  <2>6. ASSUME NEW j \in 1..Len(Ahead') PROVE p < Ahead'[j].pkt
    <3>1. Ahead'[j].pkt \in 1..Len(owner')  BY DEF LinkInv, StreamInv, Runs
    <3> QED  BY <1>1, <2>1, <2>3, <3>1 DEF OnlyAhead
  <2>7. ASSUME NEW j \in 1..(k - 1), NEW q \in 1..Len(owner'), Is(j, q)' PROVE q < p
    <3>1. j \in 1..Len(out)  BY <1>1
    <3>2. q \in 1..Len(owner) /\ Is(j, q)  BY <1>4, <2>7, <3>1
    <3> QED  BY <2>2, <3>2
  <2> QED  BY <2>5, <2>6, <2>7
<1>6. Real(out[k])' /\ ~Intact(out[k])' => HasHead(out[k])'  BY <1>3
<1>7. \A p \in 1..Len(owner') : Is(k, p)' =>
        /\ Deliverable(p)'
        /\ \A j \in 1..Len(Ahead') : p < Ahead'[j].pkt
        /\ \A j \in 1..(k - 1), q \in 1..Len(owner') : Is(j, q)' => q < p
  BY <1>5
<1> QED  BY <1>6, <1>7 DEF OutAt

\* A step that hands over nothing real keeps OutInv, and so does one that hands
\* over a message with the beginning of a packet in it.
LEMMA OutKept ==
  ASSUME LinkInv, LinkInv', OutInv, Extends, OnlyAhead,
         \A k \in 1..Len(out') : k > Len(out) => ~Real(out[k])' \/ HasHead(out[k])'
  PROVE  OutInv'
<1>1. Len(out) \in Nat /\ Len(out') \in Nat /\ 1..Len(owner') \subseteq Packet
  BY Counts
<1>2. ASSUME NEW k \in 1..Len(out') PROVE OutAt(k)'
  <2>1. CASE k <= Len(out)
    BY <1>1, <2>1, OutOld
  <2>2. CASE k > Len(out)
    <3>1. ~Real(out[k])' \/ HasHead(out[k])'  BY <2>2
    <3>2. ASSUME NEW p \in 1..Len(owner'), Is(k, p)' PROVE FALSE
      <4>1. Real(out[k])' /\ out'[k] = MessageOf(p)  BY <3>2 DEF Is, MessageOf
      <4>2. ~HasHead(MessageOf(p))  BY <1>1, WholeMessage
      <4>3. ~HasHead(out[k])'  BY <4>1, <4>2 DEF HasHead
      <4> QED  BY <3>1, <4>1, <4>3
    <3> QED  BY <3>1, <3>2 DEF OutAt
  <2> QED  BY <1>1, <2>1, <2>2
<1> QED  BY <1>2 DEF OutInv

\* So does one that hands over the packet whose last byte is next: all of it has
\* then been parsed, and whatever comes is of later packets.
LEMMA OutWhole ==
  ASSUME LinkInv, LinkInv', OutInv, OnlyAhead, NEW p \in 1..Len(owner),
         out' = Append(out, MessageOf(p)), Ahead # <<>>, Ahead[1] = Final(p),
         owner[p] = accepted, Fits(p), p \notin cut, UNCHANGED <<owner, cut, accepted>>,
         InFlight' \subseteq Range(Ahead') \cup Stranded, 
         \A k \in 1..Len(Ahead') : k + 1 <= Len(Ahead) /\ Ahead'[k] = Ahead[k + 1]
  PROVE  OutInv'
<1>1. /\ Len(out) \in Nat /\ 1..Len(owner') \subseteq Packet /\ 1..Len(owner) \subseteq Packet
      /\ Len(owner) \in Nat
  BY Counts
<1>0. PICK new \in Nat : new = Len(out) + 1  BY <1>1
<1>2. Len(out') = new /\ out'[new] = MessageOf(p) /\ \A k \in 1..Len(out) : out'[k] = out[k]
  <2>1. MessageOf(p) \in Message
    <3>1. p \in Packet  BY <1>1
    <3> QED  BY <3>1, PayloadIs, SizeIs DEF MessageOf, Message
  <2>2. out \in Seq(Message)  BY DEF LinkInv, TypeOK, ProtocolTypeOK
  <2> QED  BY <1>0, <2>1, <2>2, AppendProperties
<1>3. Extends  BY <1>0, <1>1, <1>2 DEF Extends
<1>4. 1 \in 1..Len(Ahead) /\ Ahead[1].pkt = p /\ Ahead[1].at = Size(p) - 1
  BY EmptySeq DEF LinkInv, Final
<1>5. ASSUME NEW k \in 1..Len(Ahead') PROVE p < Ahead'[k].pkt
  <2>1. k + 1 \in 1..Len(Ahead) /\ 1 < k + 1 /\ Ahead'[k] = Ahead[k + 1]
    BY DEF LinkInv
  <2>2. Before(Ahead[1], Ahead[k + 1])  BY <1>4, <2>1 DEF LinkInv, StreamInv, Runs
  <2>3. Ahead[k + 1] \in Byte /\ Ahead[k + 1].at < Size(Ahead[k + 1].pkt)
    BY <2>1, ElementOfSeq DEF LinkInv, StreamInv, Runs
  <2>4. Size(p) \in Nat  BY <1>1, SizeIs
  <2>5. ASSUME Ahead[k + 1].pkt = p PROVE FALSE
    <3>1. Ahead[k + 1].at < Size(p) /\ Size(p) - 1 < Ahead[k + 1].at
      BY <1>1, <1>4, <2>2, <2>3, <2>5 DEF Before
    <3>2. Ahead[k + 1].at \in Nat  BY <2>3 DEF Byte
    <3> QED  BY <2>4, <3>1, <3>2, SMTT(40)
  <2> QED  BY <1>4, <2>1, <2>2, <2>5 DEF Before
<1>6. ASSUME NEW b \in InFlight' PROVE b.pkt # p
  <2>1. CASE b \in Range(Ahead')
    <3>1. PICK k \in 1..Len(Ahead') : Ahead'[k] = b  BY <2>1, RangeIs DEF LinkInv
    <3>2. p < b.pkt  BY <1>5, <3>1
    <3>3. p \in Nat  BY <1>1
    <3> QED  BY <3>2, <3>3
  <2>2. CASE b \in Stranded
    <3>1. PICK c \in Conn : c # accepted /\ b \in Range(Line(c))  BY <2>2 DEF Stranded
    <3> QED  BY <3>1 DEF LinkInv, ConnInv
  <2> QED  BY <2>1, <2>2
<1>7. Deliverable(p)'
  BY <1>1, <1>6, SizeIs DEF Deliverable, Parsed, Fits
<1>8. OutAt(new)'
  <2>1. Intact(out[new])'
    <3>1. p \in 1..Len(owner') /\ out'[new] = MessageOf(p)  BY <1>2
    <3> QED  BY <3>1, Zenon DEF Intact, MessageOf
  <2>2. ASSUME NEW q \in 1..Len(owner'), Is(new, q)'
        PROVE  /\ Deliverable(q)'
               /\ \A j \in 1..Len(Ahead') : q < Ahead'[j].pkt
               /\ \A j \in 1..(new - 1), r \in 1..Len(owner') : Is(j, r)' => r < q
    <3>1. q = p
      <4>1. Real(MessageOf(q)) /\ MessageOf(p) = MessageOf(q)
        BY <1>2, <2>2, Zenon DEF Is, MessageOf, Real
      <4> QED  BY <1>1, <4>1, WholeMessage
    <3>2. ASSUME NEW j \in 1..(new - 1), NEW r \in 1..Len(owner'), Is(j, r)' PROVE r < p
      <4>1. j \in 1..Len(out)  BY <1>0, <1>1
      <4>2. Real(out'[j]) /\ out'[j] = MessageOf(r)  BY <3>2 DEF Is, MessageOf
      <4>3. Is(j, r)  BY <1>2, <4>1, <4>2 DEF Is
      <4>4. r < Ahead[1].pkt  BY <1>4, <4>1, <4>3 DEF OutInv, OutAt
      <4> QED  BY <1>4, <4>4
    <3> QED  BY <1>5, <1>7, <3>1, <3>2
  <2>3. \A q \in 1..Len(owner') : Is(new, q)' =>
          /\ Deliverable(q)'
          /\ \A j \in 1..Len(Ahead') : q < Ahead'[j].pkt
          /\ \A j \in 1..(new - 1), r \in 1..Len(owner') : Is(j, r)' => r < q
    BY <2>2
  <2> QED  BY <2>1, <2>3 DEF OutAt
<1>9. ASSUME NEW k \in 1..Len(out') PROVE OutAt(k)'
  <2>1. k \in 1..Len(out) \/ k = new  BY <1>0, <1>1, <1>2
  <2> QED  BY <1>3, <1>8, <2>1, OutOld
<1> QED  BY <1>9 DEF OutInv

-----------------------------------------------------------------------------
(* What one iteration of the parser does.                                  *)

\* It adds a byte to the payload awaited, which completes it or does not; it
\* takes a header, that of an empty packet included; or it passes a byte over,
\* which begins a packet only if that is too long or its header is cut.
TakesByte ==
  /\ rx_state = "Processing" /\ i' = i + 1
  /\ \/ /\ Len(rx_payload) + 1 = rx_payload_size /\ rx_state' = "Idle"
        /\ out' = Append(out, [cmd |-> rx_cmd, payload |-> Append(rx_payload, Current)])
     \/ /\ Len(rx_payload) + 1 < rx_payload_size /\ rx_state' = "Processing"
        /\ rx_payload' = Append(rx_payload, Current)
        /\ UNCHANGED <<out, rx_cmd, rx_payload_size>>

TakesHead ==
  /\ rx_state = "Idle" /\ i' = i + MESSAGE_HEAD_LEN /\ NoneReal
  /\ Current.at = 0 /\ i + MESSAGE_HEAD_LEN <= Len(raw_data)
  /\ Size(Current.pkt) <= MAX_MESSAGE_LEN
  /\ \/ Size(Current.pkt) = MESSAGE_HEAD_LEN /\ rx_state' = "Idle"
     \/ /\ Size(Current.pkt) > MESSAGE_HEAD_LEN /\ rx_state' = "Processing"
        /\ rx_payload' = <<>> /\ rx_cmd' = CmdOf[Current.pkt]
        /\ rx_payload_size' = Size(Current.pkt) - MESSAGE_HEAD_LEN

TakesNothing ==
  /\ rx_state = "Idle" /\ rx_state' = "Idle" /\ i' = i + 1 /\ NoneReal
  /\ Current.at = 0 =>
       Size(Current.pkt) > MAX_MESSAGE_LEN \/ Len(raw_data) - i < MESSAGE_HEAD_LEN

\* An empty message at the most comes of an iteration that ends with no payload.
LEMMA NothingHandedOver ==
  ASSUME ProtocolTypeOK, NEW state, NEW cmd \in Cmd, NEW size, NEW delta,
         EndOfIteration(state, cmd, <<>>, size, delta)
  PROVE  NoneReal
<1> DEFINE m == [cmd |-> cmd, payload |-> <<>>]
<1>1. m \in Message /\ ~Real(m)  BY EmptySeq DEF Message, Real
<1>2. out \in Seq(Message) /\ Len(out) \in Nat  BY LenProperties DEF ProtocolTypeOK
<1>3. out' = out \/ out' = Append(out, m)  BY DEF EndOfIteration
<1> HIDE DEF m
<1>4. CASE out' = out
  BY <1>2, <1>4 DEF NoneReal, Extends
<1>5. CASE out' = Append(out, m)
  <2>1. /\ Len(out') = Len(out) + 1 /\ out'[Len(out) + 1] = m
        /\ \A k \in 1..Len(out) : out'[k] = out[k]
    BY <1>1, <1>2, <1>5, AppendProperties
  <2>2. ASSUME NEW k \in 1..Len(out'), k > Len(out) PROVE ~Real(out[k])'
    <3>1. k = Len(out) + 1  BY <1>2, <2>1, <2>2
    <3>2. out'[k] = m  BY <2>1, <3>1
    <3> QED  BY <1>1, <3>2 DEF Real
  <2> QED  BY <1>2, <2>1, <2>2 DEF NoneReal, Extends
<1> QED  BY <1>3, <1>4, <1>5

LEMMA ParseOutcome ==
  ASSUME LinkInv, Parse
  PROVE  TakesByte \/ TakesHead \/ TakesNothing
<1>1. /\ ProtocolTypeOK /\ BoundedBuffering /\ Len(raw_data) \in Nat /\ i \in Nat
      /\ MESSAGE_HEAD_LEN \in Nat /\ rx_cmd \in Cmd /\ i \in 0..Len(raw_data)
  BY LenProperties, SizeIs DEF LinkInv, TypeOK, ProtocolTypeOK
<1>2. Current \in Byte
  <2>1. ~ParserDone  BY DEF Parse, ParserStep, ReceivePayloadByte, AcceptHead, RejectHead, SkipByte
  <2>2. i + 1 \in 1..Len(raw_data)  BY <1>1, <2>1 DEF ParserDone
  <2> QED  BY <1>1, <2>2, ElementOfSeq DEF Current, ProtocolTypeOK
<1>3. /\ CmdOf[Current.pkt] \in Cmd /\ Size(Current.pkt) \in Nat
      /\ Size(Current.pkt) >= MESSAGE_HEAD_LEN /\ MAX_MESSAGE_LEN \in Nat
      /\ LenOf[Current.pkt] \in Nat /\ LenOf[Current.pkt] <= Size(Current.pkt)
      /\ Size(Current.pkt) > MESSAGE_HEAD_LEN => Size(Current.pkt) = LenOf[Current.pkt]
      /\ Size(Current.pkt) <= MAX_MESSAGE_LEN <=> LenOf[Current.pkt] <= MAX_MESSAGE_LEN
  BY <1>2, SizeIs DEF Byte
<1>4. rx_state = "Idle" => rx_payload = <<>>  BY <1>1 DEF BoundedBuffering
<1>5. CASE ReceivePayloadByte
  <2> DEFINE grown == Append(rx_payload, Current)
  <2>1. rx_state = "Processing" /\ Len(rx_payload) < rx_payload_size
        /\ EndOfIteration("Processing", rx_cmd, grown, rx_payload_size, 1)
    BY <1>1, <1>5 DEF ReceivePayloadByte, BoundedBuffering
  <2>2. Len(grown) = Len(rx_payload) + 1 /\ Len(rx_payload) \in Nat /\ rx_payload_size \in Int
    BY <1>1, <1>2, AppendProperties, LenProperties DEF ProtocolTypeOK
  <2>3. CASE Len(grown) >= rx_payload_size
    <3>1. Len(rx_payload) + 1 = rx_payload_size  BY <2>1, <2>2, <2>3
    <3> QED  BY <2>1, <2>3, <3>1 DEF TakesByte, EndOfIteration
  <2>4. CASE ~(Len(grown) >= rx_payload_size)
    <3>1. Len(rx_payload) + 1 < rx_payload_size  BY <2>2, <2>4
    <3> QED  BY <2>1, <2>4, <3>1 DEF TakesByte, EndOfIteration
  <2> QED  BY <2>3, <2>4
<1>6. CASE AcceptHead
  <2> DEFINE size == LenOf[Current.pkt] - MESSAGE_HEAD_LEN
  <2>1. /\ rx_state = "Idle" /\ HeadHere /\ Size(Current.pkt) <= MAX_MESSAGE_LEN
        /\ EndOfIteration("Processing", CmdOf[Current.pkt], <<>>, size, MESSAGE_HEAD_LEN)
    BY <1>3, <1>6 DEF AcceptHead
  <2>2. NoneReal  BY <1>1, <1>3, <2>1, NothingHandedOver
  <2>3. Current.at = 0 /\ i + MESSAGE_HEAD_LEN <= Len(raw_data)
    BY <1>1, <2>1 DEF HeadHere, CheckMessageHead
  <2>4. Len(<<>>) >= size <=> Size(Current.pkt) = MESSAGE_HEAD_LEN
    BY <1>1, <1>3
  <2>5. CASE Size(Current.pkt) = MESSAGE_HEAD_LEN
    BY <2>1, <2>2, <2>3, <2>4, <2>5 DEF TakesHead, EndOfIteration
  <2>6. CASE Size(Current.pkt) # MESSAGE_HEAD_LEN
    <3>1. Size(Current.pkt) > MESSAGE_HEAD_LEN /\ size = Size(Current.pkt) - MESSAGE_HEAD_LEN
      BY <1>1, <1>3, <2>6
    <3> QED  BY <2>1, <2>2, <2>3, <2>4, <2>6, <3>1 DEF TakesHead, EndOfIteration
  <2> QED  BY <2>5, <2>6
<1>7. CASE RejectHead
  <2>1. /\ rx_state = "Idle" /\ Size(Current.pkt) > MAX_MESSAGE_LEN
        /\ EndOfIteration("Idle", CmdOf[Current.pkt], <<>>, rx_payload_size, 1)
    BY <1>3, <1>4, <1>7 DEF RejectHead
  <2>2. NoneReal  BY <1>1, <1>3, <2>1, NothingHandedOver
  <2> QED  BY <2>1, <2>2 DEF TakesNothing, EndOfIteration
<1>8. CASE SkipByte
  <2>1. /\ rx_state = "Idle" /\ ~HeadHere
        /\ EndOfIteration("Idle", rx_cmd, <<>>, rx_payload_size, 1)
    BY <1>4, <1>8 DEF SkipByte
  <2>2. NoneReal  BY <1>1, <2>1, NothingHandedOver
  <2>3. Current.at = 0 => Len(raw_data) - i < MESSAGE_HEAD_LEN
    BY <1>1, <2>1 DEF HeadHere, CheckMessageHead
  <2> QED  BY <2>1, <2>2, <2>3 DEF TakesNothing, EndOfIteration
<1> QED  BY <1>5, <1>6, <1>7, <1>8 DEF Parse, ParserStep

\* The iteration takes its d bytes off the stream, and no others.
LEMMA Dropped ==
  ASSUME LinkInv, LinkInv', Parse, NEW d \in Nat, i' = i + d
  PROVE  /\ From = accepted /\ From' = From /\ accepted \in Conn /\ raw_data # <<>>
         /\ UNCHANGED <<raw_data, accepted, owner, cut, torn>>
         /\ 1 <= d /\ d <= Len(Ahead) /\ d <= Len(raw_data) - i
         /\ 1 \in 1..Len(Ahead) /\ Ahead[1] = Current /\ Current \in Byte
         /\ Len(Ahead') = Len(Ahead) - d
         /\ \A k \in 1..Len(Ahead') : Ahead'[k] = Ahead[d + k] /\ d + k \in 1..Len(Ahead)
         /\ Ahead' # <<>> => d + 1 \in 1..Len(Ahead) /\ Ahead'[1] = Ahead[d + 1]
         /\ InFlight' = Range(Ahead') \cup Stranded /\ InFlight' \subseteq InFlight
         /\ \A b \in InFlight : b \in InFlight' \/ \E k \in 1..d : b = Ahead[k]
         /\ OnlyAhead
<1>1. /\ accepted \in Conn /\ From = accepted /\ raw_data # <<>>
      /\ Len(raw_data) \in Nat /\ i \in Nat
      /\ Len(Ahead) \in Nat /\ Len(raw_data) - i <= Len(Ahead) /\ Ahead[1] = Current
      /\ Current \in Byte
      /\ i' - i \in {1, MESSAGE_HEAD_LEN} /\ i' - i <= Len(raw_data) - i
      /\ Advances(i' - i)
      /\ UNCHANGED <<connVars, streamVars, cut, crowded, torn>>
      /\ From' = From /\ Stranded' = Stranded
  BY StepAdvances DEF LinkInv
<1>2. i' - i = d  BY <1>1
<1>3. 1 <= d /\ d <= Len(raw_data) - i /\ d <= Len(Ahead) /\ 1 \in 1..Len(Ahead)
  BY <1>1, <1>2, SizeIs
<1>4. /\ UNCHANGED raw_data /\ Len(Ahead') = Len(Ahead) - d
      /\ \A k \in 1..(Len(Ahead) - d) : Ahead'[k] = Ahead[d + k]
  BY <1>1, <1>2 DEF Advances
<1>5. \A k \in 1..Len(Ahead') : Ahead'[k] = Ahead[d + k] /\ d + k \in 1..Len(Ahead)
  BY <1>1, <1>3, <1>4
<1>6. ASSUME Ahead' # <<>> PROVE d + 1 \in 1..Len(Ahead) /\ Ahead'[1] = Ahead[d + 1]
  <2>1. 1 \in 1..Len(Ahead')  BY <1>6, EmptySeq DEF LinkInv
  <2> QED  BY <1>5, <2>1
<1>7. InFlight' = Range(Ahead') \cup Stranded /\ InFlight = Range(Ahead) \cup Stranded
  BY <1>1 DEF LinkInv
<1>8. Range(Ahead') \subseteq Range(Ahead)
  <2>1. ASSUME NEW b \in Range(Ahead') PROVE b \in Range(Ahead)
    <3>1. PICK k \in 1..Len(Ahead') : Ahead'[k] = b  BY <2>1, RangeIs DEF LinkInv
    <3>2. d + k \in 1..Len(Ahead) /\ Ahead[d + k] = b  BY <1>5, <3>1
    <3> QED  BY <3>2, RangeIs DEF LinkInv
  <2> QED  BY <2>1
<1>9. ASSUME NEW b \in Range(Ahead)
      PROVE  b \in Range(Ahead') \/ \E k \in 1..d : b = Ahead[k]
  <2>1. PICK k \in 1..Len(Ahead) : Ahead[k] = b  BY <1>9, RangeIs DEF LinkInv
  <2>2. CASE k <= d
    <3>1. k \in 1..d  BY <1>1, <2>2
    <3> QED  BY <2>1, <3>1
  <2>3. CASE ~(k <= d)
    <3>1. k - d \in 1..(Len(Ahead) - d) /\ d + (k - d) = k  BY <1>1, <2>3
    <3>2. k - d \in 1..Len(Ahead') /\ Ahead'[k - d] = b  BY <1>4, <2>1, <3>1
    <3> QED  BY <3>2, RangeIs DEF LinkInv
  <2> QED  BY <2>2, <2>3
<1>10. OnlyAhead
  <2>1. owner' = owner /\ cut' = cut  BY <1>1 DEF streamVars
  <2>2. Len(owner) <= Len(owner')  BY <2>1, Counts
  <2>3. \A k \in 1..Len(Ahead') : Ahead'[k] \in Range(Ahead)
    BY <1>5, RangeIs DEF LinkInv
  <2>4. \A b \in InFlight' : b \in InFlight  BY <1>7, <1>8
  <2> QED  BY <2>1, <2>2, <2>3, <2>4 DEF OnlyAhead
<1>11. accepted' = accepted /\ owner' = owner /\ cut' = cut /\ torn' = torn
  BY <1>1 DEF connVars, streamVars
<1> QED  BY <1>1, <1>3, <1>4, <1>5, <1>6, <1>7, <1>8, <1>9, <1>10, <1>11

\* A packet sent is in flight, behind what is ahead.
LEMMA Sends ==
  ASSUME LinkInv, LinkInv', NEW c \in Conn, ClientSends(c)
  PROVE  /\ OnlyAhead /\ UNCHANGED <<protocolVars, accepted, cut, torn>>
         /\ Len(owner') = Len(owner) + 1 /\ Final(Len(owner) + 1) \in InFlight'
         /\ \A p \in 1..Len(owner) : owner'[p] = owner[p]
         /\ InFlight \subseteq InFlight'
         /\ raw_data # <<>> => From' = From
         /\ Ahead # <<>> => Ahead' # <<>> /\ Ahead'[1] = Ahead[1]
         /\ Ahead = <<>> => Ahead' = <<>> \/ Ahead'[1].at = 0
<1>0. PICK p \in Nat : p = Len(owner) + 1  BY Counts
<1> DEFINE new == Encode(p)
<1>1. /\ Len(owner) \in Nat /\ p \in Packet /\ new \in Seq(Byte)
      /\ owner' = Append(owner, c) /\ Len(owner') = p
      /\ \A q \in 1..Len(owner) : owner'[q] = owner[q]
      /\ UNCHANGED <<protocolVars, connVars, cut, crowded, torn>>
      /\ Ahead' = IF c = accepted THEN Ahead \o new ELSE Ahead
      /\ Stranded' = IF c = accepted THEN Stranded ELSE Stranded \cup Range(new)
  BY <1>0, SendOutcome DEF LinkInv
<1>2. /\ Size(p) \in Nat /\ Size(p) > 0 /\ Len(new) = Size(p)
      /\ \A k \in 1..Size(p) : new[k] = [pkt |-> p, at |-> k - 1]
  BY <1>1, EncodeType, SizeIs DEF Encode
<1> HIDE DEF new
<1>3. /\ Ahead \in Seq(Byte) /\ Ahead' \in Seq(Byte) /\ Len(Ahead) \in Nat
      /\ InFlight = Range(Ahead) \cup Stranded /\ InFlight' = Range(Ahead') \cup Stranded'
  BY DEF LinkInv
<1>4. c = accepted => Range(Ahead') = Range(Ahead) \cup Range(new)
  BY <1>1, <1>3, RangeConcat
<1>5. InFlight' = InFlight \cup Range(new)
  BY <1>1, <1>3, <1>4
<1>6. \A b \in Range(new) : b.pkt = p
  <2>1. ASSUME NEW b \in Range(new) PROVE b.pkt = p
    <3>1. PICK k \in 1..Len(new) : new[k] = b  BY <1>1, <2>1, RangeIs
    <3>2. b = [pkt |-> p, at |-> k - 1]  BY <1>2, <3>1
    <3> QED  BY <3>2
  <2> QED  BY <2>1
<1>7. p > Len(owner) /\ Len(owner) <= Len(owner')  BY <1>0, <1>1
<1>8. ASSUME NEW k \in 1..Len(Ahead')
      PROVE  Ahead'[k] \in Range(Ahead) \/ Ahead'[k].pkt > Len(owner)
  <2>1. Ahead'[k] \in Range(Ahead')  BY <1>3, RangeIs
  <2>2. Ahead'[k] \in Range(Ahead) \/ Ahead'[k] \in Range(new)  BY <1>1, <1>4, <2>1
  <2> QED  BY <1>6, <1>7, <2>2
<1>9. OnlyAhead
  <2>1. \A b \in InFlight' : b \in InFlight \/ b.pkt > Len(owner)
    BY <1>5, <1>6, <1>7
  <2> QED  BY <1>1, <1>7, <1>8, <2>1 DEF OnlyAhead
<1>10. Final(p) \in Range(new)
  <2>1. Size(p) \in 1..Len(new) /\ new[Size(p)] = Final(p)  BY <1>2 DEF Final
  <2> QED  BY <1>1, <2>1, RangeIs
<1>11. ASSUME raw_data # <<>> PROVE From' = From
  <2>1. raw_data \in Seq(Byte)  BY DEF LinkInv, TypeOK, ProtocolTypeOK
  <2>2. 1 \in 1..Len(raw_data)  BY <1>11, <2>1, EmptySeq
  <2>3. raw_data[1].pkt \in 1..Len(owner)  BY <1>11, <2>1, <2>2, RangeIs DEF LinkInv, ConnInv
  <2> QED  BY <1>1, <2>3 DEF From, FromConn, protocolVars
<1>12. ASSUME Ahead # <<>> PROVE Ahead' # <<>> /\ Ahead'[1] = Ahead[1]
  <2>1. CASE c = accepted
    <3>1. 1 \in 1..Len(Ahead)  BY <1>3, <1>12, EmptySeq
    <3>2. Ahead'[1] = Ahead[1] /\ Len(Ahead') = Len(Ahead) + Len(new)
      BY <1>1, <1>3, <2>1, <3>1, ConcatAt
    <3>3. Ahead' # <<>>
      <4>1. Len(Ahead') # 0  BY <1>2, <1>3, <3>1, <3>2
      <4>2. Len(<<>>) = 0  OBVIOUS
      <4> QED  BY <4>1, <4>2
    <3> QED  BY <3>2, <3>3
  <2>2. CASE c # accepted
    BY <1>1, <1>12, <2>2
  <2> QED  BY <2>1, <2>2
<1>13. ASSUME Ahead = <<>> PROVE Ahead' = <<>> \/ Ahead'[1].at = 0
  <2>1. CASE c = accepted
    <3>1. Len(Ahead) = 0 /\ 1 \in 1..Len(new) /\ 1 \in 1..Size(p)  BY <1>2, <1>13
    <3>2. Ahead'[Len(Ahead) + 1] = new[1]  BY <1>1, <1>3, <2>1, <3>1, ConcatAt
    <3>3. Ahead'[1] = new[1]  BY <3>1, <3>2
    <3>4. new[1] = [pkt |-> p, at |-> 1 - 1]  BY <1>2, <3>1
    <3>5. Ahead'[1] = [pkt |-> p, at |-> 1 - 1]  BY <3>3, <3>4, Zenon
    <3> QED  BY <3>5
  <2>2. CASE c # accepted
    BY <1>1, <1>13, <2>2
  <2> QED  BY <2>1, <2>2
<1> QED
  BY <1>0, <1>1, <1>5, <1>9, <1>10, <1>11, <1>12, <1>13 DEF connVars

\* A new connection leaves what was sent before where it is.
LEMMA Connects ==
  ASSUME LinkInv, LinkInv', NEW c \in Conn, onNewConnection(c)
  PROVE  /\ OnlyAhead /\ UNCHANGED <<protocolVars, owner, cut, torn>>
         /\ Ahead' = <<>> /\ InFlight' = InFlight /\ From' = From
         /\ accepted \in Nat /\ accepted' = accepted + 1
<1>1. /\ Ahead' = <<>> /\ Len(Ahead') = 0 /\ accepted \in Nat /\ accepted' = accepted + 1
      /\ UNCHANGED <<protocolVars, streamVars, cut, torn>>
  BY NewIsEmpty DEF LinkInv
<1>2. InFlight' = InFlight  BY <1>1 DEF protocolVars, streamVars, InFlight
<1>3. From' = From  BY <1>1 DEF protocolVars, streamVars, From, FromConn
<1>4. OnlyAhead
  <2>1. Len(owner) <= Len(owner') /\ 1..Len(Ahead') = {}
    BY <1>1, Counts DEF streamVars
  <2> QED  BY <1>1, <1>2, <2>1 DEF OnlyAhead, streamVars
<1> QED  BY <1>1, <1>2, <1>3, <1>4 DEF streamVars

\* A read moves no byte, and cuts at most the packet its chunk ends in.
LEMMA Reads ==
  ASSUME LinkInv, LinkInv', NEW c \in Conn, NEW n \in 1..Len(net[c]), onClientReadyRead(c, n)
  PROVE  /\ OnlyAhead /\ Ahead' = Ahead /\ InFlight' = InFlight /\ ParserDone
         /\ UNCHANGED <<accepted, owner, rx_state, rx_cmd, rx_payload, rx_payload_size, out>>
         /\ cut \subseteq cut' /\ (torn => torn')
         /\ \/ UNCHANGED <<raw_data, i, cut, torn>> /\ From' = From
            \/ /\ accepted \in Conn /\ From' = accepted /\ ~ParserDone'
               /\ 1 \in 1..Len(Ahead) /\ Current' = Ahead[1]
               /\ \A p \in cut' : p \in cut \/ \E k \in 1..Len(Ahead) :
                    p = Ahead[k].pkt /\ Ahead[k].at < MESSAGE_HEAD_LEN - 1
               /\ torn' = (torn \/ (rx_state = "Processing" /\ From # From'))
<1>1. /\ Ahead' = Ahead /\ ParserDone
      /\ \A d \in Conn : d # accepted => Line(d)' = Line(d)
      /\ UNCHANGED <<connVars, owner, crowded, rx_state, rx_cmd, rx_payload,
                     rx_payload_size, out>>
      /\ \/ UNCHANGED <<raw_data, i, cut, torn>>
         \/ /\ accepted \in Conn /\ raw_data' # <<>> /\ i' = 0
            /\ Len(raw_data') <= Len(Ahead)
            /\ \A k \in 1..Len(raw_data') : raw_data'[k] = Ahead[k]
            /\ cut' = cut \cup CutBy(raw_data')
            /\ torn' = (torn \/ (rx_state = "Processing" /\ From # From'))
  BY ReadOutcome DEF LinkInv
<1>2. accepted' = accepted  BY <1>1 DEF connVars
<1>3. Stranded' = Stranded
  BY <1>1, <1>2 DEF Stranded
<1>4. InFlight' = InFlight  BY <1>1, <1>3 DEF LinkInv
<1>5. CASE UNCHANGED <<raw_data, i, cut, torn>>
  <2>1. From' = From  BY <1>1, <1>5 DEF From, FromConn
  <2>2. \A k \in 1..Len(Ahead') : Ahead'[k] \in Range(Ahead)
    BY <1>1, RangeIs DEF LinkInv
  <2>3. Len(owner) <= Len(owner')  BY <1>1, Counts
  <2>4. OnlyAhead  BY <1>4, <1>5, <2>2, <2>3 DEF OnlyAhead
  <2> QED  BY <1>1, <1>2, <1>4, <1>5, <2>1, <2>4
<1>6. CASE /\ accepted \in Conn /\ raw_data' # <<>> /\ i' = 0
           /\ Len(raw_data') <= Len(Ahead)
           /\ \A k \in 1..Len(raw_data') : raw_data'[k] = Ahead[k]
           /\ cut' = cut \cup CutBy(raw_data')
           /\ torn' = (torn \/ (rx_state = "Processing" /\ From # From'))
  <2>1. Len(raw_data') \in Nat /\ 1 \in 1..Len(raw_data') /\ Len(raw_data') \in 1..Len(raw_data')
        /\ Len(Ahead) \in Nat
    <3>1. raw_data' \in Seq(Byte)  BY DEF LinkInv, TypeOK, ProtocolTypeOK
    <3>2. Len(raw_data') \in Nat \ {0}  BY <1>6, <3>1, EmptySeq
    <3> QED  BY <3>2 DEF LinkInv
  <2>2. 1 \in 1..Len(Ahead) /\ Len(raw_data') \in 1..Len(Ahead)  BY <1>6, <2>1
  <2>3. Current' = Ahead[1] /\ ~ParserDone'  BY <1>6, <2>1 DEF Current, ParserDone
  <2>4. From' = accepted  BY <1>2, <1>6, <2>3 DEF LinkInv, ConnInv
  <2>5. ASSUME NEW p \in cut', p \notin cut
        PROVE  \E k \in 1..Len(Ahead) : p = Ahead[k].pkt /\ Ahead[k].at < MESSAGE_HEAD_LEN - 1
    <3>1. p \in CutBy(raw_data')  BY <1>6, <2>5
    <3>2. Last(raw_data') = Ahead[Len(raw_data')]  BY <1>6, <2>1 DEF Last
    <3>3. p = Last(raw_data').pkt /\ Last(raw_data').at < MESSAGE_HEAD_LEN - 1
      BY <3>1 DEF CutBy
    <3> QED  BY <2>2, <3>2, <3>3
  <2>6. \A k \in 1..Len(Ahead) : Ahead[k] \in Range(Ahead)
    BY RangeIs DEF LinkInv
  <2>7. Len(owner) <= Len(owner')  BY <1>1, Counts
  <2>8. OnlyAhead  BY <1>1, <1>4, <2>5, <2>6, <2>7 DEF OnlyAhead
  <2>9. cut \subseteq cut' /\ (torn => torn')  BY <1>6
  <2>10. \A p \in cut' : p \in cut \/ \E k \in 1..Len(Ahead) :
           p = Ahead[k].pkt /\ Ahead[k].at < MESSAGE_HEAD_LEN - 1
    BY <2>5
  <2> QED  BY <1>1, <1>2, <1>4, <1>6, <2>2, <2>3, <2>4, <2>8, <2>9, <2>10
<1> QED  BY <1>1, <1>5, <1>6

-----------------------------------------------------------------------------
(* What the parser holds, and how many messages are mixed.                 *)

\* It holds the first bytes of the payload of packet p, and of no other, and the
\* rest of that payload is next unless its connection is gone.
PureOf(p) ==
  /\ owner[p] = From /\ Fits(p) /\ p \notin cut
  /\ rx_payload_size = Size(p) - MESSAGE_HEAD_LEN /\ rx_cmd = CmdOf[p]
  /\ \A n \in 1..Len(rx_payload) :
       rx_payload[n] = [pkt |-> p, at |-> MESSAGE_HEAD_LEN + n - 1]
  /\ From = accepted =>
       Ahead # <<>> /\ Ahead[1] = [pkt |-> p, at |-> MESSAGE_HEAD_LEN + Len(rx_payload)]
Pure == \E p \in 1..Len(owner) : PureOf(p)

\* It holds, or is about to take, the beginning of a packet.
Impure ==
  \/ \E n \in 1..Len(rx_payload) : rx_payload[n].at = 0
  \/ ~ParserDone /\ Current.at = 0

\* The messages that are no packet.
Broken == {k \in DOMAIN out : Real(out[k]) /\ ~Intact(out[k])}
AtMost(n) == Cardinality(Broken) <= n

\* Each connection but the one being read from has left at most one of them
\* behind; that one has too, if what it broke off is not yet handed over.
MixInv == raw_data # <<>> =>
  \/ AtMost(From - 1) /\ (rx_state = "Processing" => Pure)
  \/ AtMost(From - 2) /\ rx_state = "Processing" /\ torn /\ Impure

\* A packet whose payload is complete is handed over as it was sent.
LEMMA PureCompletes ==
  ASSUME LinkInv, NEW p \in 1..Len(owner), PureOf(p), From = accepted, Ahead[1] = Current,
         Len(rx_payload) + 1 = rx_payload_size
  PROVE  /\ [cmd |-> rx_cmd, payload |-> Append(rx_payload, Current)] = MessageOf(p)
         /\ Ahead[1] = Final(p)
<1> DEFINE h == MESSAGE_HEAD_LEN
           l == Len(rx_payload)
           grown == Append(rx_payload, Current)
<1>1. /\ rx_payload \in Seq(Byte) /\ l \in Nat /\ p \in Packet /\ Size(p) \in Nat /\ h \in Nat
      /\ rx_payload_size = Size(p) - h /\ rx_cmd = CmdOf[p]
      /\ \A n \in 1..l : rx_payload[n] = [pkt |-> p, at |-> h + n - 1]
      /\ Current = [pkt |-> p, at |-> h + l]
  BY SentIsPacket, LenProperties, SizeIs DEF LinkInv, PureOf, TypeOK, ProtocolTypeOK
<1>2. Current \in Byte  BY <1>1 DEF Byte
<1>3. /\ grown \in Seq(Byte) /\ Len(grown) = l + 1 /\ grown[l + 1] = Current
      /\ \A n \in 1..l : grown[n] = rx_payload[n]
  BY <1>1, <1>2, AppendProperties
<1>4. /\ Payload(p) \in Seq(Byte) /\ Len(Payload(p)) = l + 1
      /\ \A n \in 1..(l + 1) : Payload(p)[n] = [pkt |-> p, at |-> h + n - 1]
  <2>1. Size(p) - h = l + 1  BY <1>1
  <2> HIDE DEF l
  <2> QED  BY <1>1, <2>1, PayloadIs
<1>8. h + l = Size(p) - 1
  <2>1. l + 1 = Size(p) - h /\ l \in Nat /\ h \in Nat /\ Size(p) \in Nat  BY <1>1
  <2> HIDE DEF l, h
  <2> QED  BY <2>1
<1> HIDE DEF grown, l
<1>5. ASSUME NEW n \in 1..(l + 1) PROVE grown[n] = Payload(p)[n]
  <2>1. CASE n = l + 1
    <3>1. h + n - 1 = h + l  BY <1>1, <2>1
    <3>2. Payload(p)[n] = [pkt |-> p, at |-> h + l]  BY <1>4, <3>1
    <3> QED  BY <1>1, <1>3, <2>1, <3>2
  <2>2. CASE n # l + 1
    <3>1. n \in 1..l  BY <1>1, <2>2
    <3> QED  BY <1>1, <1>3, <1>4, <3>1
  <2> QED  BY <2>1, <2>2
<1>6. grown = Payload(p)  BY <1>3, <1>4, <1>5, SameSeq
<1>7. Ahead[1] = Final(p)
  BY <1>1, <1>8 DEF Final
<1> QED  BY <1>1, <1>6, <1>7 DEF MessageOf, grown

\* A step that hands over nothing that is no packet breaks nothing more.
LEMMA BrokenKept ==
  ASSUME LinkInv, LinkInv', Extends, Len(owner) <= Len(owner'),
         \A k \in 1..Len(out') : k > Len(out) => ~Real(out[k])' \/ Intact(out[k])',
         NEW n \in Int, AtMost(n)
  PROVE  AtMost(n)'
<1>1. /\ Len(out) \in Nat /\ DOMAIN out = 1..Len(out) /\ DOMAIN out' = 1..Len(out')
      /\ Len(out') \in Nat /\ 1..Len(owner) \subseteq 1..Len(owner')
  BY Counts
<1>2. ASSUME NEW k \in Broken' PROVE k \in Broken
  <2>1. k \in 1..Len(out') /\ Real(out[k])' /\ ~Intact(out[k])'  BY <1>1 DEF Broken
  <2>2. k \in 1..Len(out)  BY <1>1, <2>1
  <2>3. out'[k] = out[k]  BY <2>2 DEF Extends
  <2>4. Real(out[k])  BY <2>1, <2>3 DEF Real
  <2>5. ASSUME NEW p \in 1..Len(owner), out[k] = MessageOf(p) PROVE FALSE
    <3>1. p \in 1..Len(owner') /\ out'[k] = MessageOf(p)  BY <1>1, <2>3, <2>5
    <3> QED  BY <2>1, <3>1, Zenon DEF Intact, MessageOf
  <2> QED  BY <1>1, <2>2, <2>4, <2>5 DEF Broken, Intact
<1>3. Broken' \subseteq Broken  BY <1>2
<1>4. IsFiniteSet(Broken)
  <2>1. Broken \subseteq 1..Len(out) /\ IsFiniteSet(1..Len(out))  BY <1>1, FS_Interval DEF Broken
  <2> QED  BY <2>1, FS_Subset
<1>5. Cardinality(Broken') \in Nat /\ Cardinality(Broken) \in Nat
      /\ Cardinality(Broken') <= Cardinality(Broken)
  BY <1>3, <1>4, FS_Subset, FS_CardinalityType
<1> QED  BY <1>5 DEF AtMost

\* One that hands over one message breaks at most one more.
LEMMA BrokenGrows ==
  ASSUME LinkInv, LinkInv', UNCHANGED owner, NEW m \in Message, out' = Append(out, m),
         NEW n \in Int, AtMost(n)
  PROVE  AtMost(n + 1)'
<1>0. PICK new \in Nat : new = Len(out) + 1  BY Counts
<1>1. /\ Len(out) \in Nat /\ DOMAIN out = 1..Len(out) /\ DOMAIN out' = 1..Len(out')
      /\ Len(out') = new /\ \A k \in 1..Len(out) : out'[k] = out[k]
  BY <1>0, Counts, AppendProperties, SMTT(40) DEF LinkInv, TypeOK, ProtocolTypeOK
<1>2. ASSUME NEW k \in Broken' PROVE k \in Broken \cup {new}
  <2>1. k \in 1..new /\ Real(out[k])' /\ ~Intact(out[k])'  BY <1>1 DEF Broken
  <2>2. CASE k \in 1..Len(out)
    <3>1. out'[k] = out[k]  BY <1>1, <2>2
    <3>2. Real(out[k]) /\ ~Intact(out[k])
      BY <2>1, <3>1, Zenon DEF Real, Intact, MessageOf
    <3> QED  BY <1>1, <2>2, <3>2 DEF Broken
  <2>3. CASE k \notin 1..Len(out)
    BY <1>0, <1>1, <2>1, <2>3
  <2> QED  BY <2>2, <2>3
<1>3. IsFiniteSet(Broken)
  <2>1. Broken \subseteq 1..Len(out) /\ IsFiniteSet(1..Len(out))  BY <1>1, FS_Interval DEF Broken
  <2> QED  BY <2>1, FS_Subset
<1>4. /\ IsFiniteSet(Broken \cup {new}) /\ Cardinality(Broken) \in Nat
      /\ Cardinality(Broken \cup {new}) <= Cardinality(Broken) + 1
  <2>1. Cardinality(Broken) \in Nat  BY <1>3, FS_CardinalityType
  <2>2. /\ IsFiniteSet(Broken \cup {new})
        /\ \/ Cardinality(Broken \cup {new}) = Cardinality(Broken)
           \/ Cardinality(Broken \cup {new}) = Cardinality(Broken) + 1
    BY <1>3, FS_AddElement
  <2> QED  BY <2>1, <2>2
<1>5. Cardinality(Broken') \in Nat /\ Cardinality(Broken \cup {new}) \in Nat
      /\ Cardinality(Broken') <= Cardinality(Broken \cup {new})
  BY <1>2, <1>4, FS_Subset, FS_CardinalityType
<1> QED  BY <1>4, <1>5 DEF AtMost

\* How much of the payload, and where in the history, the numbers of MixInv are.
LEMMA FromType ==
  ASSUME LinkInv, raw_data # <<>>
  PROVE  From \in Nat /\ From >= 1 /\ From <= accepted /\ accepted \in Nat
<1>1. From \in 1..accepted /\ accepted \in Nat  BY DEF LinkInv, ConnInv, TypeOK
<1> QED  BY <1>1

\* Where two bytes are ahead, the second goes on with the packet of the first or
\* begins another.
LEMMA NextByte ==
  ASSUME LinkInv, 1 \in 1..Len(Ahead), NEW d \in Nat
  PROVE  /\ Ahead[1] \in Byte /\ Ahead[1].pkt \in 1..Len(owner) /\ owner[Ahead[1].pkt] = accepted
         /\ Ahead[1].at \in Nat /\ Size(Ahead[1].pkt) \in Nat
         /\ Ahead[1].at < Size(Ahead[1].pkt)
         /\ Ahead[1].at + d < Size(Ahead[1].pkt) =>
              /\ 1 + d \in 1..Len(Ahead) /\ Ahead # <<>>
              /\ Ahead[1 + d] = [pkt |-> Ahead[1].pkt, at |-> Ahead[1].at + d]
<1>1. Ahead[1] \in Byte /\ Len(Ahead) \in Nat  BY ElementOfSeq DEF LinkInv
<1>2. Runs(Ahead, owner, accepted)  BY DEF LinkInv, StreamInv
<1>3. Ahead[1].pkt \in 1..Len(owner) /\ owner[Ahead[1].pkt] = accepted
      /\ Ahead[1].at < Size(Ahead[1].pkt)
  BY <1>2 DEF Runs
<1>4. Size(Ahead[1].pkt) \in Nat  BY <1>1, SizeIs DEF Byte
<1>5. ASSUME Ahead[1].at + d < Size(Ahead[1].pkt)
      PROVE  1 + d \in 1..Len(Ahead) /\ Ahead # <<>>
             /\ Ahead[1 + d] = [pkt |-> Ahead[1].pkt, at |-> Ahead[1].at + d]
  <2>1. 1 + d <= Len(Ahead) /\ Ahead[1 + d] = [pkt |-> Ahead[1].pkt, at |-> Ahead[1].at + d]
    BY <1>2, <1>5 DEF Runs
  <2>2. Ahead # <<>>
    <3>1. Len(<<>>) = 0 /\ Len(Ahead) # 0  BY <1>1
    <3> QED  BY <3>1
  <2> QED  BY <1>1, <2>1, <2>2
<1> QED  BY <1>1, <1>3, <1>4, <1>5 DEF Byte

\* A payload byte keeps MixInv.
LEMMA MixTakesByte ==
  ASSUME LinkInv, LinkInv', MixInv, Parse, TakesByte
  PROVE  MixInv'
<1>1. /\ From = accepted /\ From' = From /\ accepted \in Conn /\ raw_data # <<>>
      /\ UNCHANGED <<raw_data, accepted, owner, cut, torn>>
      /\ 1 \in 1..Len(Ahead) /\ Ahead[1] = Current /\ Current \in Byte
      /\ \A k \in 1..Len(Ahead') : Ahead'[k] = Ahead[1 + k]
      /\ Len(Ahead') = Len(Ahead) - 1
  <2>1. 1 \in Nat /\ i' = i + 1  BY DEF TakesByte
  <2> QED  BY <2>1, Dropped
<1>0. PICK f \in Nat : f = From  BY <1>1, FromType
<1>2. rx_state = "Processing" /\ Len(Ahead) \in Nat /\ Len(rx_payload) \in Nat
      /\ rx_payload \in Seq(Byte) /\ MESSAGE_HEAD_LEN \in Nat
  BY <1>1, FromType, LenProperties, SizeIs
  DEF TakesByte, LinkInv, TypeOK, ProtocolTypeOK
<1> DEFINE grown == Append(rx_payload, Current)
           m == [cmd |-> rx_cmd, payload |-> grown]
<1>3. /\ grown \in Seq(Byte) /\ Len(grown) = Len(rx_payload) + 1
      /\ grown[Len(rx_payload) + 1] = Current
      /\ \A n \in 1..Len(rx_payload) : grown[n] = rx_payload[n]
  BY <1>1, <1>2, AppendProperties
<1> HIDE DEF grown
<1>4. m \in Message  BY <1>3 DEF Message, LinkInv, TypeOK, ProtocolTypeOK
<1> HIDE DEF m
<1>5. CASE /\ Len(rx_payload) + 1 = rx_payload_size /\ rx_state' = "Idle"
           /\ out' = Append(out, m)
  <2>1. ASSUME AtMost(f - 2) PROVE MixInv'
    <3>1. AtMost((f - 2) + 1)'  BY <1>1, <1>2, <1>4, <1>5, <2>1, BrokenGrows, SMTT(40)
    <3>2. (f - 2) + 1 = f - 1  OBVIOUS
    <3>3. AtMost(f - 1)'  BY <3>1, <3>2
    <3> QED  BY <1>0, <1>1, <1>5, <3>3 DEF MixInv, AtMost
  <2>2. ASSUME AtMost(f - 1), NEW p \in 1..Len(owner), PureOf(p) PROVE MixInv'
    <3>1. m = MessageOf(p)  BY <1>1, <1>5, <2>2, PureCompletes DEF m, grown
    <3>2. out \in Seq(Message) /\ Len(out) \in Nat /\ Len(owner) \in Nat
      BY Counts DEF LinkInv, TypeOK, ProtocolTypeOK
    <3>3. /\ Len(out') = Len(out) + 1 /\ out'[Len(out) + 1] = m
          /\ \A k \in 1..Len(out) : out'[k] = out[k]
      BY <1>4, <1>5, <3>2, AppendProperties
    <3>4. Extends /\ Len(owner) <= Len(owner')  BY <1>1, <3>2, <3>3 DEF Extends
    <3>5. ASSUME NEW k \in 1..Len(out'), k > Len(out) PROVE Intact(out[k])'
      <4>1. k = Len(out) + 1  BY <3>2, <3>3, <3>5
      <4>2. p \in 1..Len(owner') /\ out'[k] = MessageOf(p)  BY <1>1, <3>1, <3>3, <4>1
      <4> QED  BY <4>2, Zenon DEF Intact, MessageOf
    <3>6. AtMost(f - 1)'  BY <1>2, <2>2, <3>4, <3>5, BrokenKept
    <3> QED  BY <1>0, <1>1, <1>5, <3>6 DEF MixInv, AtMost
  <2> QED  BY <1>0, <1>1, <1>2, <2>1, <2>2 DEF MixInv, Pure
<1>6. CASE /\ Len(rx_payload) + 1 < rx_payload_size /\ rx_state' = "Processing"
           /\ rx_payload' = grown
           /\ UNCHANGED <<out, rx_cmd, rx_payload_size>>
  <2>1. \A n \in Int : AtMost(n) => AtMost(n)'
    BY <1>1, <1>6, Zenon DEF AtMost, Broken, Real, Intact, MessageOf
  <2>2. ASSUME AtMost(f - 2), torn, Impure PROVE MixInv'
    <3>1. Impure'
      <4>1. CASE \E n \in 1..Len(rx_payload) : rx_payload[n].at = 0
        <5>1. PICK n \in 1..Len(rx_payload) : rx_payload[n].at = 0  BY <4>1
        <5>2. n \in 1..Len(grown) /\ grown[n].at = 0  BY <1>2, <1>3, <5>1
        <5> QED  BY <1>6, <5>2 DEF Impure
      <4>2. CASE Current.at = 0
        <5>1. Len(rx_payload) + 1 \in 1..Len(grown) /\ grown[Len(rx_payload) + 1].at = 0
          BY <1>2, <1>3, <4>2
        <5> QED  BY <1>6, <5>1 DEF Impure
      <4> QED  BY <2>2, <4>1, <4>2 DEF Impure
    <3>2. AtMost(f - 2)'  BY <1>2, <2>1, <2>2
    <3> QED  BY <1>0, <1>1, <1>6, <2>2, <3>1, <3>2 DEF MixInv, AtMost
  <2>3. ASSUME AtMost(f - 1), NEW p \in 1..Len(owner), PureOf(p) PROVE MixInv'
    <3> DEFINE h == MESSAGE_HEAD_LEN
               l == Len(rx_payload)
    <3>1. /\ Ahead[1] = [pkt |-> p, at |-> h + l] /\ rx_payload_size = Size(p) - h
          /\ Size(p) \in Nat /\ p \in Packet /\ l + 1 < rx_payload_size
      BY <1>1, <1>6, <2>3, SentIsPacket, SizeIs DEF PureOf, LinkInv
    <3>2. Ahead[1].pkt = p /\ Ahead[1].at = h + l  BY <3>1
    <3>3. Ahead[1].at + 1 < Size(p)  BY <1>2, <3>1, <3>2
    <3>4. 1 + 1 \in 1..Len(Ahead) /\ Ahead[1 + 1] = [pkt |-> p, at |-> (h + l) + 1]
      BY <1>1, <3>2, <3>3, NextByte
    <3>5. 1 \in 1..Len(Ahead') /\ Ahead'[1] = [pkt |-> p, at |-> (h + l) + 1]
      BY <1>1, <1>2, <3>4
    <3>6. (h + l) + 1 = h + Len(grown)  BY <1>2, <1>3
    <3>7. Ahead' # <<>>
      <4>1. Len(<<>>) = 0 /\ Len(Ahead') # 0  BY <1>1, <1>2, <3>5
      <4> QED  BY <4>1
    <3>8. ASSUME NEW n \in 1..Len(grown) PROVE grown[n] = [pkt |-> p, at |-> h + n - 1]
      <4>1. CASE n = Len(grown)
        <5>1. h + n - 1 = h + l  BY <1>2, <1>3, <4>1
        <5> QED  BY <1>1, <1>3, <3>1, <4>1, <5>1
      <4>2. CASE n # Len(grown)
        <5>1. n \in 1..Len(rx_payload)  BY <1>2, <1>3, <4>2
        <5> QED  BY <1>3, <2>3, <5>1 DEF PureOf
      <4> QED  BY <4>1, <4>2
    <3> HIDE DEF h, l
    <3>9. PureOf(p)'
      <4>1. /\ owner'[p] = From' /\ Fits(p)' /\ p \notin cut'
            /\ rx_payload_size' = Size(p) - h /\ rx_cmd' = CmdOf[p]
        BY <1>1, <1>6, <2>3, <3>1 DEF PureOf, Fits, h
      <4>2. Ahead' # <<>> /\ Ahead'[1] = [pkt |-> p, at |-> h + Len(rx_payload')]
        BY <1>6, <3>5, <3>6, <3>7
      <4> QED  BY <1>6, <3>8, <4>1, <4>2 DEF PureOf, h
    <3>10. p \in 1..Len(owner')  BY <1>1
    <3>11. AtMost(f - 1)'  BY <1>2, <2>1, <2>3
    <3> QED  BY <1>0, <1>1, <3>9, <3>10, <3>11 DEF MixInv, Pure, AtMost
  <2> QED  BY <1>0, <1>1, <1>2, <2>2, <2>3 DEF MixInv, Pure
<1> QED  BY <1>5, <1>6 DEF TakesByte, m, grown

\* A header begins a payload that is pure, and one passed over leaves none.
LEMMA MixTakesHead ==
  ASSUME LinkInv, LinkInv', MixInv, Parse, TakesHead
  PROVE  MixInv'
<1> DEFINE h == MESSAGE_HEAD_LEN
           p == Ahead[1].pkt
<1>1. /\ From = accepted /\ From' = From /\ accepted \in Conn /\ raw_data # <<>>
      /\ UNCHANGED <<raw_data, accepted, owner, cut, torn>>
      /\ 1 \in 1..Len(Ahead) /\ Ahead[1] = Current
      /\ \A k \in 1..Len(Ahead') : Ahead'[k] = Ahead[h + k]
      /\ Len(Ahead') = Len(Ahead) - h /\ h \in Nat /\ Len(Ahead) \in Nat
  <2>1. MESSAGE_HEAD_LEN \in Nat /\ i' = i + MESSAGE_HEAD_LEN
    BY SizeIs DEF TakesHead
  <2> QED  BY <2>1, Dropped DEF LinkInv
<1>0. PICK f \in Nat : f = From  BY <1>1, FromType
<1>2. rx_state = "Idle" /\ Ahead[1].at = 0 /\ Extends
      /\ Size(p) <= MAX_MESSAGE_LEN
  BY <1>1, FromType DEF TakesHead, NoneReal
<1>3. AtMost(f - 1)'
  <2>1. AtMost(f - 1)  BY <1>0, <1>1, <1>2 DEF MixInv
  <2>2. Len(owner) <= Len(owner')  BY <1>1, Counts
  <2>3. \A k \in 1..Len(out') : k > Len(out) => ~Real(out[k])'  BY DEF TakesHead, NoneReal
  <2> QED  BY <1>2, <2>1, <2>2, <2>3, BrokenKept
<1>4. CASE rx_state' = "Idle"
  BY <1>0, <1>1, <1>3, <1>4 DEF MixInv, AtMost
<1>5. CASE /\ Size(Current.pkt) > h /\ rx_state' = "Processing"
           /\ rx_payload' = <<>> /\ rx_cmd' = CmdOf[Current.pkt]
           /\ rx_payload_size' = Size(Current.pkt) - h
  <2>1. /\ p \in 1..Len(owner) /\ owner[p] = accepted /\ Size(p) \in Nat /\ 0 + h < Size(p)
        /\ 1 + h \in 1..Len(Ahead)
        /\ Ahead[1 + h] = [pkt |-> p, at |-> 0 + h]
    BY <1>1, <1>2, <1>5, NextByte
  <2>2. p \notin cut
    <3>1. ASSUME p \in cut PROVE FALSE
      <4>1. Len(raw_data) - i < 1 + h - 1
        BY <1>1, <1>2, <3>1 DEF LinkInv, StreamInv
      <4>2. i + h <= Len(raw_data)  BY DEF TakesHead
      <4>3. i \in Nat /\ Len(raw_data) \in Nat
        BY LenProperties DEF LinkInv, TypeOK, ProtocolTypeOK
      <4> QED  BY <1>1, <4>1, <4>2, <4>3
    <3> QED  BY <3>1
  <2>3. PICK q \in 1..Len(owner) : q = p  BY <2>1
  <2> HIDE DEF p
  <2>4. h + 1 = 1 + h /\ 0 + h = h + Len(<<>>)  BY <1>1
  <2>5. 1 \in 1..Len(Ahead') /\ Ahead'[1] = [pkt |-> q, at |-> h + Len(<<>>)]
    BY <1>1, <2>1, <2>3, <2>4
  <2>6. Ahead' # <<>>
    <3>1. Len(<<>>) = 0 /\ Len(Ahead') # 0  BY <1>1, <2>5
    <3> QED  BY <3>1
  <2>7. PureOf(q)'
    <3>1. owner'[q] = From' /\ Fits(q)' /\ q \notin cut'
      BY <1>1, <1>2, <1>5, <2>1, <2>2, <2>3 DEF Fits, p
    <3>2. rx_payload_size' = Size(q) - h /\ rx_cmd' = CmdOf[q]
      BY <1>1, <1>5, <2>3 DEF p
    <3>3. 1..Len(rx_payload') = {}  BY <1>5
    <3>4. Ahead' # <<>> /\ Ahead'[1] = [pkt |-> q, at |-> h + Len(rx_payload')]
      BY <1>5, <2>5, <2>6
    <3> QED  BY <3>1, <3>2, <3>3, <3>4 DEF PureOf, h
  <2>8. q \in 1..Len(owner')  BY <1>1
  <2> QED  BY <1>0, <1>1, <1>3, <2>7, <2>8 DEF MixInv, Pure, AtMost
<1> QED  BY <1>4, <1>5 DEF TakesHead

\* A step that parses nothing, and cuts nothing of what the parser holds, keeps
\* MixInv.
LEMMA MixStays ==
  ASSUME LinkInv, LinkInv', MixInv,
         UNCHANGED <<protocolVars, cut, torn>>, raw_data # <<>> => From' = From,
         Len(owner) <= Len(owner'), \A p \in 1..Len(owner) : owner'[p] = owner[p],
         From = accepted' => From = accepted /\ (Ahead # <<>> => Ahead' # <<>> /\ Ahead'[1] = Ahead[1])
  PROVE  MixInv'
<1>1. /\ out' = out /\ rx_state' = rx_state /\ rx_payload' = rx_payload /\ rx_cmd' = rx_cmd
      /\ rx_payload_size' = rx_payload_size /\ raw_data' = raw_data /\ i' = i
  BY DEF protocolVars
<1>2. SUFFICES ASSUME raw_data # <<>> PROVE MixInv'
  BY <1>1 DEF MixInv
<1>0. PICK f \in Nat : f = From  BY <1>2, FromType
<1>3. From' = f /\ Len(out) \in Nat  BY <1>0, <1>2, Counts
<1>4. \A n \in Int : AtMost(n) => AtMost(n)'
  <2>1. Extends  BY <1>1, <1>3 DEF Extends
  <2>2. \A k \in 1..Len(out') : ~(k > Len(out))  BY <1>1, <1>3
  <2> QED  BY <2>1, <2>2, BrokenKept
<1>5. ASSUME NEW p \in 1..Len(owner), PureOf(p) PROVE PureOf(p)' /\ p \in 1..Len(owner')
  <2>1. p \in 1..Len(owner')  BY Counts
  <2>2. owner'[p] = owner[p] /\ cut' = cut  OBVIOUS
  <2>3. From' = accepted' => From = accepted /\ Ahead' # <<>> /\ Ahead'[1] = Ahead[1]
    BY <1>2, <1>5 DEF PureOf
  <2> QED  BY <1>1, <1>2, <1>5, <2>1, <2>2, <2>3 DEF PureOf, Fits
<1>6. Impure => Impure'
  BY <1>1 DEF Impure, ParserDone, Current
<1>7. CASE AtMost(f - 1) /\ (rx_state = "Processing" => Pure)
  <2>1. AtMost(f - 1)'  BY <1>4, <1>7
  <2>2. rx_state' = "Processing" => Pure'  BY <1>1, <1>5, <1>7 DEF Pure
  <2> QED  BY <1>3, <2>1, <2>2 DEF MixInv, AtMost
<1>8. CASE AtMost(f - 2) /\ rx_state = "Processing" /\ torn /\ Impure
  <2>1. AtMost(f - 2)'  BY <1>4, <1>8
  <2> QED  BY <1>1, <1>3, <1>6, <1>8, <2>1 DEF MixInv, AtMost
<1> QED  BY <1>0, <1>2, <1>7, <1>8 DEF MixInv

\* Where the connection has changed, what the parser still holds of the last one
\* is torn, and the next byte begins a packet.
LEMMA MixReads ==
  ASSUME LinkInv, LinkInv', MixInv, NEW c \in Conn, NEW n \in 1..Len(net[c]),
         onClientReadyRead(c, n)
  PROVE  MixInv'
<1>1. /\ Ahead' = Ahead /\ ParserDone
      /\ UNCHANGED <<accepted, owner, rx_state, rx_cmd, rx_payload, rx_payload_size, out>>
      /\ cut \subseteq cut' /\ (torn => torn')
      /\ \/ UNCHANGED <<raw_data, i, cut, torn>> /\ From' = From
         \/ /\ accepted \in Conn /\ From' = accepted /\ ~ParserDone'
            /\ 1 \in 1..Len(Ahead) /\ Current' = Ahead[1]
            /\ \A p \in cut' : p \in cut \/ \E k \in 1..Len(Ahead) :
                 p = Ahead[k].pkt /\ Ahead[k].at < MESSAGE_HEAD_LEN - 1
            /\ torn' = (torn \/ (rx_state = "Processing" /\ From # From'))
  BY Reads
<1>2. Len(owner) <= Len(owner') /\ Len(out) \in Nat  BY <1>1, Counts
<1>3. \A m \in Int : AtMost(m) => AtMost(m)'
  <2>1. Extends /\ \A k \in 1..Len(out') : ~(k > Len(out))  BY <1>1, <1>2 DEF Extends
  <2> QED  BY <1>2, <2>1, BrokenKept
<1>4. CASE UNCHANGED <<raw_data, i, cut, torn>> /\ From' = From
  <2>1. UNCHANGED <<protocolVars, cut, torn>>  BY <1>1, <1>4 DEF protocolVars
  <2> QED  BY <1>1, <1>2, <1>4, <2>1, MixStays
<1>5. CASE /\ accepted \in Conn /\ From' = accepted /\ ~ParserDone'
           /\ 1 \in 1..Len(Ahead) /\ Current' = Ahead[1]
           /\ \A p \in cut' : p \in cut \/ \E k \in 1..Len(Ahead) :
                p = Ahead[k].pkt /\ Ahead[k].at < MESSAGE_HEAD_LEN - 1
           /\ torn' = (torn \/ (rx_state = "Processing" /\ From # From'))
  <2>0. PICK g \in Nat : g = accepted /\ g >= 1
    BY <1>5, ServerAssumption DEF Conn
  <2>1. From' = g  BY <1>5, <2>0
  <2>2. CASE raw_data = <<>>
    <3>1. out = <<>> /\ rx_state = "Idle"  BY <2>2 DEF LinkInv, ConnInv
    <3>2. Broken' = {}
      <4>1. DOMAIN out' = {}  BY <1>1, <3>1
      <4> QED  BY <4>1 DEF Broken
    <3>3. AtMost(g - 1)'
      <4>1. Cardinality(Broken') = 0  BY <3>2, FS_EmptySet
      <4> QED  BY <2>0, <4>1 DEF AtMost
    <3> QED  BY <1>1, <2>1, <3>1, <3>3 DEF MixInv, AtMost
  <2>3. CASE raw_data # <<>>
    <3>0. PICK f \in Nat : f = From /\ f <= g  BY <2>0, <2>3, FromType
    <3>1. \A m, o \in Int : m <= o /\ AtMost(m)' => AtMost(o)'
      <4>1. IsFiniteSet(Broken')
        <5>1. Broken' \subseteq 1..Len(out') /\ IsFiniteSet(1..Len(out'))
          BY Counts, FS_Interval DEF Broken
        <5> QED  BY <5>1, FS_Subset
      <4>2. Cardinality(Broken') \in Nat  BY <4>1, FS_CardinalityType
      <4> QED  BY <4>2 DEF AtMost
    <3>2. ASSUME AtMost(f - 2), rx_state = "Processing", torn, Impure PROVE MixInv'
      <4>1. AtMost(g - 2)'  BY <1>3, <3>0, <3>1, <3>2
      <4>2. Impure'  BY <1>1, <3>2 DEF Impure
      <4> QED  BY <1>1, <2>1, <3>2, <4>1, <4>2 DEF MixInv, AtMost
    <3>3. ASSUME AtMost(f - 1), rx_state # "Processing" PROVE MixInv'
      <4>1. AtMost(g - 1)'  BY <1>3, <3>0, <3>1, <3>3
      <4> QED  BY <1>1, <2>1, <3>3, <4>1 DEF MixInv, AtMost
    <3>4. ASSUME AtMost(f - 1), rx_state = "Processing", f # g PROVE MixInv'
      <4>1. f - 1 <= g - 2  BY <3>0, <3>4
      <4>2. AtMost(g - 2)'  BY <1>3, <3>0, <3>1, <3>4, <4>1
      <4>3. torn'  BY <1>5, <2>1, <3>0, <3>4
      <4>4. Ahead[1].at = 0
        <5>1. From < accepted /\ Ahead # <<>>
          <6>1. Len(<<>>) = 0 /\ Len(Ahead) # 0  BY <1>5
          <6> QED  BY <2>0, <3>0, <3>4, <6>1
        <5> QED  BY <5>1 DEF LinkInv, StreamInv
      <4>5. Impure'  BY <1>5, <4>4 DEF Impure
      <4> QED  BY <1>1, <2>1, <3>4, <4>2, <4>3, <4>5 DEF MixInv, AtMost
    <3>5. ASSUME AtMost(f - 1), NEW p \in 1..Len(owner), PureOf(p), rx_state = "Processing", f = g
          PROVE  MixInv'
      <4>1. p \notin cut'
        <5>1. ASSUME NEW k \in 1..Len(Ahead), p = Ahead[k].pkt,
                     Ahead[k].at < MESSAGE_HEAD_LEN - 1
              PROVE  FALSE
          <6>1. Ahead[1] = [pkt |-> p, at |-> MESSAGE_HEAD_LEN + Len(rx_payload)]
            BY <2>0, <3>0, <3>5 DEF PureOf
          <6>2. Ahead[1].pkt = p /\ Ahead[1].at = MESSAGE_HEAD_LEN + Len(rx_payload)
            BY <6>1
          <6>3. MESSAGE_HEAD_LEN \in Nat /\ Len(rx_payload) \in Nat /\ Len(Ahead) \in Nat
                /\ Ahead[k].at \in Nat /\ p \in Nat
            <7>1. Ahead[k] \in Byte  BY <5>1, ElementOfSeq DEF LinkInv
            <7>2. rx_payload \in Seq(Byte)  BY DEF LinkInv, TypeOK, ProtocolTypeOK
            <7>3. p \in Nat  BY Counts
            <7> QED  BY <7>1, <7>2, <7>3, LenProperties, SizeIs DEF Byte, LinkInv
          <6>4. k = 1 \/ 1 < k  BY <6>3
          <6>5. CASE k = 1
            BY <5>1, <6>2, <6>3, <6>5
          <6>6. CASE 1 < k
            <7>1. Before(Ahead[1], Ahead[k])  BY <1>5, <6>6 DEF LinkInv, StreamInv, Runs
            <7>2. Ahead[1].at < Ahead[k].at  BY <5>1, <6>2, <6>3, <7>1 DEF Before
            <7> QED  BY <5>1, <6>2, <6>3, <7>2
          <6> QED  BY <6>4, <6>5, <6>6
        <5>2. p \notin cut  BY <3>5 DEF PureOf
        <5> QED  BY <1>5, <5>1, <5>2
      <4>2. PureOf(p)'
        BY <1>1, <2>0, <2>1, <3>0, <3>5, <4>1 DEF PureOf, Fits
      <4>3. AtMost(g - 1)' /\ p \in 1..Len(owner')  BY <1>1, <1>3, <3>0, <3>1, <3>5
      <4> QED  BY <1>1, <2>1, <4>2, <4>3 DEF MixInv, AtMost, Pure
    <3> QED  BY <2>3, <3>0, <3>2, <3>3, <3>4, <3>5 DEF MixInv, Pure
  <2> QED  BY <2>2, <2>3
<1> QED  BY <1>1, <1>4, <1>5

\* Whatever happens, MixInv holds.
LEMMA MixKept ==
  ASSUME LinkInv, LinkInv', MixInv, [Next]_vars
  PROVE  MixInv'
<1>1. accepted \in Nat /\ Len(owner) \in Nat /\ (raw_data # <<>> => From <= accepted)
  <2>1. accepted \in Nat /\ Len(owner) \in Nat  BY Counts DEF LinkInv, TypeOK
  <2>2. ASSUME raw_data # <<>> PROVE From <= accepted  BY <2>2, FromType
  <2> QED  BY <2>1, <2>2
<1>2. CASE UNCHANGED <<protocolVars, streamVars, accepted, cut, torn>>
  <2>1. From' = From /\ Ahead' = Ahead /\ owner' = owner /\ accepted' = accepted
    BY <1>2 DEF protocolVars, streamVars, From, FromConn, Ahead, Rest, Line
  <2>2. Len(owner) <= Len(owner')  BY <1>1, <2>1
  <2> QED  BY <1>2, <2>1, <2>2, MixStays
<1>3. ASSUME NEW c \in Conn, ClientSends(c) PROVE MixInv'
  <2>1. /\ UNCHANGED <<protocolVars, accepted, cut, torn>>
        /\ Len(owner') = Len(owner) + 1
        /\ \A p \in 1..Len(owner) : owner'[p] = owner[p]
        /\ raw_data # <<>> => From' = From
        /\ Ahead # <<>> => Ahead' # <<>> /\ Ahead'[1] = Ahead[1]
    BY <1>3, Sends
  <2>2. Len(owner) <= Len(owner')  BY <1>1, <2>1
  <2> QED  BY <2>1, <2>2, MixStays
<1>4. ASSUME NEW c \in Conn, onNewConnection(c) PROVE MixInv'
  <2>1. /\ UNCHANGED <<protocolVars, owner, cut, torn>> /\ From' = From
        /\ accepted' = accepted + 1
    BY <1>4, Connects
  <2>2. CASE raw_data = <<>>
    BY <2>1, <2>2 DEF MixInv, protocolVars
  <2>3. CASE raw_data # <<>>
    <3>1. From # accepted' /\ Len(owner) <= Len(owner')
      BY <1>1, <2>1, <2>3, FromType
    <3> QED  BY <2>1, <3>1, MixStays
  <2> QED  BY <2>2, <2>3
<1>5. ASSUME NEW c \in Conn, NEW n \in 1..Len(net[c]), onClientReadyRead(c, n) PROVE MixInv'
  BY <1>5, MixReads
<1>6. CASE Parse
  <2>1. CASE TakesNothing
    <3>1. From = accepted /\ From' = From /\ UNCHANGED <<raw_data, owner>> /\ raw_data # <<>>
      <4>1. 1 \in Nat /\ i' = i + 1  BY <2>1 DEF TakesNothing
      <4> QED  BY <1>6, <4>1, Dropped
    <3>0. PICK f \in Nat : f = From  BY <3>1, FromType
    <3>2. AtMost(f - 1) /\ rx_state' = "Idle"  BY <2>1, <3>0, <3>1 DEF MixInv, TakesNothing
    <3>3. Extends /\ \A k \in 1..Len(out') : k > Len(out) => ~Real(out[k])'
      BY <2>1 DEF TakesNothing, NoneReal
    <3>4. AtMost(f - 1)'
      <4>1. Len(owner) <= Len(owner')  BY <1>1, <3>1
      <4> QED  BY <3>2, <3>3, <4>1, BrokenKept
    <3> QED  BY <3>0, <3>1, <3>2, <3>4 DEF MixInv, AtMost
  <2> QED  BY <1>6, <2>1, ParseOutcome, MixTakesByte, MixTakesHead
<1> QED
  BY <1>2, <1>3, <1>4, <1>5, <1>6
  DEF Next, vars, connVars, FlushGreeting, PeerCloses

\* What a step hands over: nothing whole, or the one packet it completes.
NoneWhole ==
  /\ Extends /\ Len(owner) <= Len(owner')
  /\ \A k \in 1..Len(out') : k > Len(out) => ~Real(out[k])' \/ HasHead(out[k])'
Delivers(p) ==
  out' = Append(out, MessageOf(p)) /\ Real(MessageOf(p)) /\ owner' = owner

\* A payload byte hands over nothing, a packet whole, or the beginning of one in
\* the middle of another.
LEMMA ByteDelivers ==
  ASSUME LinkInv, LinkInv', MixInv, Parse, TakesByte
  PROVE  \/ NoneWhole
         \/ \E p \in 1..Len(owner) : PureOf(p) /\ Ahead[1] = Final(p) /\ Delivers(p)
<1>1. /\ From = accepted /\ accepted \in Conn /\ raw_data # <<>> /\ UNCHANGED owner
      /\ Ahead[1] = Current /\ Current \in Byte
  <2>1. 1 \in Nat /\ i' = i + 1  BY DEF TakesByte
  <2> QED  BY <2>1, Dropped
<1>2. /\ Len(rx_payload) \in Nat /\ rx_payload \in Seq(Byte) /\ out \in Seq(Message)
      /\ Len(out) \in Nat /\ rx_state = "Processing" /\ Len(owner) <= Len(owner')
  BY <1>1, Counts, LenProperties DEF TakesByte, LinkInv, TypeOK, ProtocolTypeOK
<1> DEFINE grown == Append(rx_payload, Current)
           m == [cmd |-> rx_cmd, payload |-> grown]
<1>3. /\ grown \in Seq(Byte) /\ Len(grown) = Len(rx_payload) + 1
      /\ grown[Len(rx_payload) + 1] = Current
      /\ \A n \in 1..Len(rx_payload) : grown[n] = rx_payload[n]
  BY <1>1, <1>2, AppendProperties
<1> HIDE DEF grown
<1>4. m \in Message /\ Real(m)
  <2>1. grown # <<>>
    <3>1. Len(<<>>) = 0 /\ Len(grown) # 0  BY <1>2, <1>3
    <3> QED  BY <3>1
  <2> QED  BY <1>3, <2>1 DEF Message, Real, LinkInv, TypeOK, ProtocolTypeOK
<1>5. ASSUME Len(rx_payload) + 1 = rx_payload_size, out' = Append(out, m),
             NEW p \in 1..Len(owner), PureOf(p)
      PROVE  Ahead[1] = Final(p) /\ Delivers(p)
  <2>1. m = MessageOf(p) /\ Ahead[1] = Final(p)
    BY <1>1, <1>5, PureCompletes DEF grown
  <2> HIDE DEF m
  <2> QED  BY <1>1, <1>4, <1>5, <2>1 DEF Delivers
<1>6. ASSUME out' = Append(out, m), Impure PROVE NoneWhole
  <2>1. HasHead(m)
    <3>1. DOMAIN m.payload = 1..Len(grown)  BY <1>3, LenProperties
    <3>2. CASE \E n \in 1..Len(rx_payload) : rx_payload[n].at = 0
      <4>1. PICK n \in 1..Len(rx_payload) : rx_payload[n].at = 0  BY <3>2
      <4>2. n \in 1..Len(grown) /\ grown[n].at = 0  BY <1>2, <1>3, <4>1
      <4> QED  BY <3>1, <4>2 DEF HasHead
    <3>3. CASE Current.at = 0
      <4>1. Len(rx_payload) + 1 \in 1..Len(grown) /\ grown[Len(rx_payload) + 1].at = 0
        BY <1>2, <1>3, <3>3
      <4> QED  BY <3>1, <4>1 DEF HasHead
    <3> QED  BY <1>6, <3>2, <3>3 DEF Impure
  <2> HIDE DEF m
  <2>2. /\ Len(out') = Len(out) + 1 /\ out'[Len(out) + 1] = m
        /\ \A k \in 1..Len(out) : out'[k] = out[k]
    BY <1>2, <1>4, <1>6, AppendProperties
  <2>3. Extends  BY <1>2, <2>2 DEF Extends
  <2>4. ASSUME NEW k \in 1..Len(out'), k > Len(out) PROVE HasHead(out[k])'
    <3>1. k = Len(out) + 1  BY <1>2, <2>2, <2>4
    <3>2. out'[k] = m  BY <2>2, <3>1
    <3> QED  BY <2>1, <3>2 DEF HasHead
  <2> QED  BY <1>2, <2>3, <2>4 DEF NoneWhole
<1>7. ASSUME out' = out PROVE NoneWhole
  <2>1. Extends /\ \A k \in 1..Len(out') : ~(k > Len(out))  BY <1>2, <1>7 DEF Extends
  <2> QED  BY <1>2, <2>1 DEF NoneWhole
<1>8. Pure \/ Impure  BY <1>1, <1>2 DEF MixInv
<1>9. \/ out' = Append(out, m) /\ Len(rx_payload) + 1 = rx_payload_size
      \/ out' = out
  BY DEF TakesByte, grown
<1> HIDE DEF m
<1> QED  BY <1>5, <1>6, <1>7, <1>8, <1>9 DEF Pure

\* Either keeps OutInv.
LEMMA OutTakesByte ==
  ASSUME LinkInv, LinkInv', OutInv, MixInv, Parse, TakesByte
  PROVE  OutInv'
<1>1. /\ From = accepted /\ UNCHANGED <<accepted, owner, cut>>
      /\ 1 \in 1..Len(Ahead)
      /\ \A k \in 1..Len(Ahead') : Ahead'[k] = Ahead[1 + k] /\ 1 + k \in 1..Len(Ahead)
      /\ InFlight' = Range(Ahead') \cup Stranded /\ OnlyAhead
  <2>1. 1 \in Nat /\ i' = i + 1  BY DEF TakesByte
  <2> QED  BY <2>1, Dropped
<1>2. CASE NoneWhole
  <2>1. Extends /\ \A k \in 1..Len(out') : k > Len(out) => ~Real(out[k])' \/ HasHead(out[k])'
    BY <1>2 DEF NoneWhole
  <2> QED  BY <1>1, <2>1, OutKept
<1>3. ASSUME NEW p \in 1..Len(owner), PureOf(p), Ahead[1] = Final(p), Delivers(p)
      PROVE  OutInv'
  <2>1. Ahead # <<>> /\ owner[p] = accepted /\ Fits(p) /\ p \notin cut
    BY <1>1, <1>3 DEF PureOf
  <2>2. \A k \in 1..Len(Ahead') : k + 1 <= Len(Ahead) /\ Ahead'[k] = Ahead[k + 1]
    <3>1. Len(Ahead) \in Nat /\ Len(Ahead') \in Nat  BY DEF LinkInv
    <3>2. \A k \in 1..Len(Ahead') : 1 + k = k + 1 /\ 1 + k <= Len(Ahead)
      BY <1>1, <3>1
    <3> QED  BY <1>1, <3>2
  <2>3. out' = Append(out, MessageOf(p))  BY <1>3 DEF Delivers
  <2> QED  BY <1>1, <1>3, <2>1, <2>2, <2>3, OutWhole
<1> QED  BY <1>2, <1>3, ByteDelivers

\* Whatever happens, OutInv holds.
LEMMA OutInvKept ==
  ASSUME LinkInv, LinkInv', OutInv, MixInv, [Next]_vars
  PROVE  OutInv'
<1>1. ASSUME OnlyAhead, out' = out PROVE OutInv'
  <2>1. Extends /\ \A k \in 1..Len(out') : ~(k > Len(out))  BY <1>1, Counts DEF Extends
  <2> QED  BY <1>1, <2>1, OutKept
<1>2. CASE UNCHANGED <<protocolVars, streamVars, accepted, cut>>
  <2>1. Ahead' = Ahead /\ owner' = owner /\ InFlight' = InFlight /\ out' = out
    BY <1>2 DEF protocolVars, streamVars, Ahead, Rest, Line, InFlight
  <2>2. Len(owner) <= Len(owner')  BY <2>1, Counts
  <2>3. \A k \in 1..Len(Ahead') : Ahead'[k] \in Range(Ahead)
    BY <2>1, RangeIs DEF LinkInv
  <2>4. OnlyAhead  BY <1>2, <2>1, <2>2, <2>3 DEF OnlyAhead
  <2> QED  BY <1>1, <2>1, <2>4
<1>3. ASSUME NEW c \in Conn, ClientSends(c) PROVE OutInv'
  BY <1>1, <1>3, Sends DEF protocolVars
<1>4. ASSUME NEW c \in Conn, onNewConnection(c) PROVE OutInv'
  BY <1>1, <1>4, Connects DEF protocolVars
<1>5. ASSUME NEW c \in Conn, NEW n \in 1..Len(net[c]), onClientReadyRead(c, n) PROVE OutInv'
  BY <1>1, <1>5, Reads
<1>6. CASE Parse
  <2>1. CASE TakesHead \/ TakesNothing
    <3>1. NoneReal  BY <2>1 DEF TakesHead, TakesNothing
    <3>2. OnlyAhead
      <4>1. MESSAGE_HEAD_LEN \in Nat /\ 1 \in Nat /\ (i' = i + 1 \/ i' = i + MESSAGE_HEAD_LEN)
        BY <2>1, SizeIs DEF TakesHead, TakesNothing
      <4>2. CASE i' = i + 1
        BY <1>6, <4>1, <4>2, Dropped
      <4>3. CASE i' = i + MESSAGE_HEAD_LEN
        BY <1>6, <4>1, <4>3, Dropped
      <4> QED  BY <4>1, <4>2, <4>3
    <3> QED  BY <3>1, <3>2, OutKept DEF NoneReal
  <2> QED  BY <1>6, <2>1, ParseOutcome, OutTakesByte
<1> QED
  BY <1>2, <1>3, <1>4, <1>5, <1>6
  DEF Next, vars, connVars, FlushGreeting, PeerCloses

-----------------------------------------------------------------------------
(* No packet is lost but those that were cut.                              *)

\* The last byte of packet p is still to come, or p was handed over.
Owed(p) == Final(p) \in InFlight \/ \E k \in 1..Len(out) : out[k] = MessageOf(p)

\* Until a packet is torn no message is mixed, an idle parser is in the middle of
\* a packet only if that is cut or too long, and every other packet is handed
\* over once its last byte is parsed.
KeptInv == ~torn =>
  /\ \A k \in 1..Len(out) : Real(out[k]) => Intact(out[k])
  /\ rx_state = "Idle" /\ Ahead # <<>> /\ Ahead[1].at > 0 =>
       Ahead[1].pkt \in cut \/ ~Fits(Ahead[1].pkt)
  /\ \A p \in 1..Len(owner) : Fits(p) /\ p \notin cut => Owed(p)

\* A step that parses nothing owes what it owed, and the packet it sends.
LEMMA KeptStays ==
  ASSUME LinkInv, LinkInv', KeptInv, UNCHANGED <<out, rx_state>>,
         cut \subseteq cut', torn => torn', InFlight \subseteq InFlight',
         Len(owner) <= Len(owner'),
         \A p \in 1..Len(owner') : p > Len(owner) => Final(p) \in InFlight',
         Ahead' = <<>> \/ Ahead'[1].at = 0 \/ (Ahead # <<>> /\ Ahead'[1] = Ahead[1])
  PROVE  KeptInv'
<1>1. SUFFICES ASSUME ~torn' PROVE KeptInv'
  BY DEF KeptInv
<1>2. /\ Len(out) \in Nat /\ Len(owner) \in Nat /\ Len(owner') \in Nat
      /\ 1..Len(owner) \subseteq 1..Len(owner')
  BY Counts
<1>3. ASSUME NEW k \in 1..Len(out'), Real(out[k])' PROVE Intact(out[k])'
  <2>1. k \in 1..Len(out) /\ out'[k] = out[k] /\ Real(out[k])  BY <1>3, Zenon DEF Real
  <2>2. PICK p \in 1..Len(owner) : out[k] = MessageOf(p)
    BY <1>1, <2>1 DEF KeptInv, Intact
  <2>3. p \in 1..Len(owner') /\ out'[k] = MessageOf(p)  BY <1>2, <2>1, <2>2
  <2> QED  BY <2>3, Zenon DEF Intact, MessageOf
<1>4. ASSUME rx_state' = "Idle", Ahead' # <<>>, Ahead'[1].at > 0
      PROVE  Ahead'[1].pkt \in cut' \/ ~Fits(Ahead'[1].pkt)
  BY <1>1, <1>4 DEF KeptInv
<1>5. ASSUME NEW p \in 1..Len(owner'), Fits(p), p \notin cut' PROVE Owed(p)'
  <2>1. CASE p > Len(owner)
    BY <2>1 DEF Owed, Final
  <2>2. CASE ~(p > Len(owner))
    <3>1. p \in 1..Len(owner) /\ p \notin cut  BY <1>2, <1>5, <2>2
    <3>2. Owed(p)  BY <1>1, <1>5, <3>1 DEF KeptInv
    <3> QED  BY <3>2 DEF Owed, Final, MessageOf
  <2> QED  BY <2>1, <2>2
<1> QED  BY <1>3, <1>4, <1>5 DEF KeptInv, Fits

\* An iteration owes no less, but for the packets whose last byte it takes.
LEMMA KeptParses ==
  ASSUME LinkInv, LinkInv', KeptInv, ~torn', Parse, NEW d \in Nat, i' = i + d, Extends,
         \A k \in 1..Len(out') : k > Len(out) /\ Real(out[k])' => Intact(out[k])',
         rx_state' = "Idle" /\ Ahead' # <<>> /\ Ahead'[1].at > 0 =>
           Ahead'[1].pkt \in cut' \/ ~Fits(Ahead'[1].pkt),
         \A p \in 1..Len(owner), k \in 1..d :
           Fits(p) /\ p \notin cut /\ Ahead[k] = Final(p) =>
             \E j \in 1..Len(out') : out'[j] = MessageOf(p)
  PROVE  KeptInv'
<1>1. /\ UNCHANGED <<owner, cut, torn>>
      /\ \A b \in InFlight : b \in InFlight' \/ \E k \in 1..d : b = Ahead[k]
  BY Dropped
<1>2. Len(out) \in Nat /\ Len(out') \in Nat /\ 1..Len(out) \subseteq 1..Len(out')
  BY Counts DEF Extends
<1>3. ASSUME NEW k \in 1..Len(out'), Real(out[k])' PROVE Intact(out[k])'
  <2>1. CASE k > Len(out)
    BY <1>3, <2>1
  <2>2. CASE ~(k > Len(out))
    <3>1. k \in 1..Len(out)  BY <1>2, <2>2
    <3>2. out'[k] = out[k]  BY <3>1 DEF Extends
    <3>3. Intact(out[k])  BY <1>1, <1>3, <3>1, <3>2 DEF KeptInv, Real
    <3> QED  BY <1>1, <3>2, <3>3, Zenon DEF Intact, MessageOf
  <2> QED  BY <2>1, <2>2
<1>4. ASSUME NEW p \in 1..Len(owner'), Fits(p), p \notin cut' PROVE Owed(p)'
  <2>1. Owed(p) /\ p \in 1..Len(owner) /\ p \notin cut  BY <1>1, <1>4 DEF KeptInv
  <2>2. CASE Final(p) \in InFlight
    <3>1. Final(p) \in InFlight' \/ \E k \in 1..d : Ahead[k] = Final(p)
      BY <1>1, <2>2
    <3> QED  BY <1>4, <2>1, <3>1 DEF Owed, Final, MessageOf
  <2>3. CASE \E k \in 1..Len(out) : out[k] = MessageOf(p)
    <3>1. PICK k \in 1..Len(out) : out[k] = MessageOf(p)  BY <2>3
    <3>2. k \in 1..Len(out') /\ out'[k] = MessageOf(p)  BY <1>2, <3>1 DEF Extends
    <3> QED  BY <3>2, Zenon DEF Owed, MessageOf
  <2> QED  BY <2>1, <2>2, <2>3 DEF Owed
<1> QED  BY <1>3, <1>4 DEF KeptInv, Fits

\* The last byte of a packet that fits is not one of its header.
LEMMA FinalIsPayload ==
  ASSUME NEW p \in Packet, Fits(p)
  PROVE  /\ Final(p).pkt = p /\ Final(p).at \in Nat /\ Final(p).at >= MESSAGE_HEAD_LEN
         /\ Final(p).at > 0 /\ Final(p).at + 1 = Size(p)
<1>1. Size(p) \in Nat /\ MESSAGE_HEAD_LEN \in Nat \ {0} /\ Size(p) > MESSAGE_HEAD_LEN
  BY SizeIs DEF Fits
<1>2. Final(p).pkt = p /\ Final(p).at = Size(p) - 1  BY DEF Final
<1> QED  BY <1>1, <1>2

\* A payload byte that is the last of its packet hands the packet over.
LEMMA KeptTakesByte ==
  ASSUME LinkInv, LinkInv', MixInv, KeptInv, ~torn', Parse, TakesByte
  PROVE  KeptInv'
<1>1. /\ From = accepted /\ accepted \in Conn /\ raw_data # <<>>
      /\ UNCHANGED <<accepted, owner, cut, torn>>
      /\ 1 \in 1..Len(Ahead) /\ Ahead[1] = Current /\ Current \in Byte
      /\ Len(Ahead') = Len(Ahead) - 1
      /\ Ahead' # <<>> => 1 + 1 \in 1..Len(Ahead) /\ Ahead'[1] = Ahead[1 + 1]
      /\ 1 \in Nat /\ i' = i + 1
  <2>1. 1 \in Nat /\ i' = i + 1  BY DEF TakesByte
  <2> QED  BY <2>1, Dropped
<1>2. /\ Len(Ahead) \in Nat /\ Len(rx_payload) \in Nat /\ MESSAGE_HEAD_LEN \in Nat
      /\ rx_payload \in Seq(Byte) /\ out \in Seq(Message) /\ Len(out) \in Nat
      /\ rx_state = "Processing"
  BY Counts, LenProperties, SizeIs DEF TakesByte, LinkInv, TypeOK, ProtocolTypeOK
<1>3. PICK p \in 1..Len(owner) : PureOf(p)
  BY <1>1, <1>2 DEF MixInv, Pure
<1>4. /\ p \in Packet /\ Size(p) \in Nat /\ Fits(p)
      /\ rx_payload_size = Size(p) - MESSAGE_HEAD_LEN
      /\ Ahead[1] = [pkt |-> p, at |-> MESSAGE_HEAD_LEN + Len(rx_payload)]
  BY <1>1, <1>3, SentIsPacket, SizeIs DEF PureOf, LinkInv
<1>5. Ahead[1].pkt = p /\ Ahead[1].at = MESSAGE_HEAD_LEN + Len(rx_payload)  BY <1>4
<1> DEFINE m == [cmd |-> rx_cmd, payload |-> Append(rx_payload, Current)]
<1>6. CASE /\ Len(rx_payload) + 1 = rx_payload_size /\ out' = Append(out, m)
  <2>1. m = MessageOf(p) /\ Ahead[1] = Final(p)
    BY <1>1, <1>3, <1>6, PureCompletes
  <2>2. m \in Message
    <3>1. Append(rx_payload, Current) \in Seq(Byte)  BY <1>1, <1>2, AppendProperties
    <3> QED  BY <3>1 DEF Message, LinkInv, TypeOK, ProtocolTypeOK
  <2> HIDE DEF m
  <2>3. /\ Len(out') = Len(out) + 1 /\ out'[Len(out) + 1] = m
        /\ \A k \in 1..Len(out) : out'[k] = out[k]
    BY <1>2, <1>6, <2>2, AppendProperties
  <2>4. Extends  BY <1>2, <2>3 DEF Extends
  <2>5. ASSUME NEW k \in 1..Len(out'), k > Len(out) PROVE Intact(out[k])'
    <3>1. k = Len(out) + 1  BY <1>2, <2>3, <2>5
    <3>2. p \in 1..Len(owner') /\ out'[k] = MessageOf(p)  BY <1>1, <2>1, <2>3, <3>1
    <3> QED  BY <3>2, Zenon DEF Intact, MessageOf
  <2>6. ASSUME Ahead' # <<>> PROVE Ahead'[1].at = 0
    <3>1. 1 \in 1..(Len(Ahead) - 1) /\ Ahead'[1] = Ahead[1 + 1]  BY <1>1, <1>2, <2>6
    <3>2. Ahead[1].at + 1 = Size(Ahead[1].pkt)
      <4>1. Ahead[1].at = Size(p) - 1  BY <2>1 DEF Final
      <4> QED  BY <1>4, <1>5, <4>1
    <3>3. Ahead[1 + 1].at = 0  BY <3>1, <3>2 DEF LinkInv, StreamInv, Runs
    <3> QED  BY <3>1, <3>3
  <2>7. ASSUME NEW q \in 1..Len(owner), NEW k \in 1..1, Fits(q), Ahead[k] = Final(q)
        PROVE  \E j \in 1..Len(out') : out'[j] = MessageOf(q)
    <3>1. k = 1  OBVIOUS
    <3>2. q = p  BY <1>5, <2>7, <3>1 DEF Final
    <3>3. Len(out) + 1 \in 1..Len(out') /\ out'[Len(out) + 1] = MessageOf(q)
      BY <1>2, <2>1, <2>3, <3>2
    <3> QED  BY <3>3
  <2>8. Ahead' # <<>> /\ Ahead'[1].at > 0 => FALSE  BY <2>6
  <2> QED  BY <1>1, <2>4, <2>5, <2>7, <2>8, KeptParses
<1>7. CASE Len(rx_payload) + 1 < rx_payload_size /\ rx_state' = "Processing" /\ out' = out
  <2>1. Extends /\ \A k \in 1..Len(out') : ~(k > Len(out))  BY <1>2, <1>7 DEF Extends
  <2>2. ASSUME NEW q \in 1..Len(owner), NEW k \in 1..1, Fits(q), Ahead[k] = Final(q) PROVE FALSE
    <3>1. k = 1  OBVIOUS
    <3>2. p = q /\ Ahead[1].at = Size(p) - 1  BY <1>5, <2>2, <3>1 DEF Final
    <3> QED  BY <1>2, <1>4, <1>5, <1>7, <3>2
  <2> QED  BY <1>1, <1>7, <2>1, <2>2, KeptParses
<1> QED  BY <1>6, <1>7 DEF TakesByte

\* A header taken is not the last byte of a packet that fits.
LEMMA KeptTakesHead ==
  ASSUME LinkInv, LinkInv', KeptInv, ~torn', Parse, TakesHead
  PROVE  KeptInv'
<1> DEFINE h == MESSAGE_HEAD_LEN
           p == Ahead[1].pkt
<1>1. /\ UNCHANGED <<owner, cut, torn>> /\ h \in Nat /\ h >= 1 /\ i' = i + h
      /\ 1 \in 1..Len(Ahead) /\ Ahead[1] = Current /\ h <= Len(Ahead) /\ Len(Ahead) \in Nat
      /\ Ahead' # <<>> => h + 1 \in 1..Len(Ahead) /\ Ahead'[1] = Ahead[h + 1]
  <2>1. h \in Nat /\ h >= 1 /\ i' = i + h
    BY SizeIs DEF TakesHead
  <2> QED  BY <2>1, Dropped DEF LinkInv
<1>2. /\ rx_state = "Idle" /\ NoneReal /\ Ahead[1].at = 0 /\ Size(p) \in Nat /\ Size(p) >= h
      /\ p \in 1..Len(owner)
  <2>1. Ahead[1].at = 0 /\ rx_state = "Idle" /\ NoneReal  BY <1>1 DEF TakesHead
  <2>2. p \in Packet /\ p \in 1..Len(owner)  BY <1>1, NextByte DEF Byte
  <2> QED  BY <2>1, <2>2, SizeIs
<1>3. ASSUME NEW k \in 1..h PROVE Ahead[k] = [pkt |-> p, at |-> k - 1]
  <2>1. k - 1 \in Nat /\ 0 + (k - 1) < Size(p) /\ 1 + (k - 1) = k  BY <1>1, <1>2
  <2>2. Ahead[1 + (k - 1)] = [pkt |-> p, at |-> 0 + (k - 1)]
    BY <1>1, <1>2, <2>1, NextByte
  <2>3. Ahead[k] = [pkt |-> p, at |-> 0 + (k - 1)]  BY <2>1, <2>2
  <2>4. 0 + (k - 1) = k - 1  BY <1>1
  <2> QED  BY <2>3, <2>4
<1> HIDE DEF p
<1>4. ASSUME NEW q \in 1..Len(owner), NEW k \in 1..h, Fits(q), Ahead[k] = Final(q) PROVE FALSE
  <2>1. q \in Packet  BY Counts
  <2>2. Final(q).at = k - 1
    <3>1. Final(q) = [pkt |-> p, at |-> k - 1]  BY <1>3, <1>4
    <3> QED  BY <3>1
  <2> QED  BY <1>1, <1>4, <2>1, <2>2, FinalIsPayload
<1>5. ASSUME rx_state' = "Idle", Ahead' # <<>>, Ahead'[1].at > 0 PROVE FALSE
  <2>1. Size(p) = h  BY <1>1, <1>5 DEF TakesHead, p
  <2>2. h \in 1..(Len(Ahead) - 1) /\ h \in 1..h  BY <1>1, <1>5
  <2>3. Ahead[h] = [pkt |-> p, at |-> h - 1]  BY <1>3, <2>2
  <2>4. Ahead[h].at + 1 = Size(Ahead[h].pkt)
    <3>1. Ahead[h].at = h - 1 /\ Ahead[h].pkt = p  BY <2>3
    <3> QED  BY <1>1, <2>1, <3>1
  <2>5. Ahead[h + 1].at = 0  BY <2>2, <2>4 DEF LinkInv, StreamInv, Runs
  <2> QED  BY <1>1, <1>5, <2>5
<1>6. Extends /\ \A k \in 1..Len(out') : k > Len(out) => ~Real(out[k])'
  BY <1>2 DEF NoneReal
<1> QED  BY <1>1, <1>4, <1>5, <1>6, KeptParses

\* A byte passed over is of a packet that is cut or too long.
LEMMA KeptTakesNothing ==
  ASSUME LinkInv, LinkInv', KeptInv, ~torn', Parse, TakesNothing
  PROVE  KeptInv'
<1> DEFINE h == MESSAGE_HEAD_LEN
           p == Ahead[1].pkt
           r == Len(raw_data) - i
<1>1. /\ UNCHANGED <<owner, cut, torn>> /\ 1 \in Nat /\ i' = i + 1 /\ raw_data # <<>>
      /\ 1 \in 1..Len(Ahead) /\ Ahead[1] = Current /\ Len(Ahead) \in Nat /\ 1 <= r
      /\ Ahead' # <<>> => 1 + 1 \in 1..Len(Ahead) /\ Ahead'[1] = Ahead[1 + 1]
  <2>1. 1 \in Nat /\ i' = i + 1  BY DEF TakesNothing
  <2> QED  BY <2>1, Dropped DEF LinkInv
<1>2. /\ rx_state = "Idle" /\ NoneReal /\ Size(p) \in Nat /\ h \in Nat \ {0}
      /\ p \in 1..Len(owner) /\ p \in Packet /\ Ahead[1].at \in Nat /\ Ahead[1].at < Size(p)
  BY <1>1, NextByte, SizeIs DEF TakesNothing, Byte
<1>3. p \in cut \/ ~Fits(p)
  <2>1. CASE Ahead[1].at > 0
    <3>1. Ahead # <<>>
      <4>1. Len(<<>>) = 0 /\ Len(Ahead) # 0  BY <1>1
      <4> QED  BY <4>1
    <3> QED  BY <1>1, <1>2, <2>1, <3>1 DEF KeptInv
  <2>2. CASE Ahead[1].at = 0 /\ Size(p) > MAX_MESSAGE_LEN
    BY <1>2, <2>2, SizeIs DEF Fits
  <2>3. CASE Ahead[1].at = 0 /\ r < h /\ Size(p) > h
    <3>1. Len(raw_data) \in Nat /\ i \in Nat /\ r \in Nat /\ i + r = Len(raw_data)
          /\ i \in 0..Len(raw_data)
      <4>1. Len(raw_data) \in Nat /\ i \in 0..Len(raw_data)
        BY LenProperties DEF LinkInv, TypeOK, ProtocolTypeOK
      <4> QED  BY <4>1
    <3>2. r - 1 \in Nat /\ 0 + (r - 1) < Size(p) /\ 1 + (r - 1) = r /\ r \in 1..r
          /\ 0 + (r - 1) < h - 1
      <4>1. r \in Nat /\ r >= 1 /\ h \in Nat /\ Size(p) \in Nat /\ r < h /\ h < Size(p)
        BY <1>1, <1>2, <2>3, <3>1, SizeIs
      <4> HIDE DEF r, h, p
      <4> QED  BY <4>1
    <3>3. Ahead[1 + (r - 1)] = [pkt |-> p, at |-> 0 + (r - 1)]
      BY <1>1, <2>3, <3>2, NextByte
    <3>4. Ahead[r] = raw_data[i + r]  BY <3>2 DEF LinkInv
    <3>5. Last(raw_data) = [pkt |-> p, at |-> 0 + (r - 1)]
      BY <3>1, <3>2, <3>3, <3>4 DEF Last
    <3> HIDE DEF p, r
    <3>6. Last(raw_data).pkt = p /\ Last(raw_data).at < h - 1  BY <3>2, <3>5
    <3> QED  BY <1>1, <3>6 DEF LinkInv, StreamInv
  <2>4. CASE ~(Size(p) > h)
    BY <1>2, <2>4 DEF Fits
  <2>5. Ahead[1].at = 0 => Size(p) > MAX_MESSAGE_LEN \/ r < h
    BY <1>1 DEF TakesNothing
  <2> QED  BY <1>2, <2>1, <2>2, <2>3, <2>4, <2>5
<1>4. ASSUME NEW q \in 1..Len(owner), NEW k \in 1..1, Fits(q), q \notin cut, Ahead[k] = Final(q)
      PROVE  FALSE
  <2>1. k = 1  OBVIOUS
  <2>2. p = q  BY <1>4, <2>1 DEF Final
  <2> QED  BY <1>3, <1>4, <2>2
<1>5. ASSUME Ahead' # <<>>, Ahead'[1].at > 0
      PROVE  Ahead'[1].pkt \in cut' \/ ~Fits(Ahead'[1].pkt)
  <2>1. Ahead'[1] = Ahead[1 + 1] /\ 1 \in 1..(Len(Ahead) - 1)  BY <1>1, <1>5
  <2>2. CASE Ahead[1].at + 1 < Size(p)
    <3>1. Ahead[1 + 1] = [pkt |-> p, at |-> Ahead[1].at + 1]
      BY <1>1, <2>2, NextByte
    <3>2. Ahead[1 + 1].pkt = p  BY <3>1
    <3> QED  BY <1>1, <1>3, <2>1, <3>2
  <2>3. CASE ~(Ahead[1].at + 1 < Size(p))
    <3>1. Ahead[1].at + 1 = Size(p)  BY <1>2, <2>3
    <3>2. Ahead[1 + 1].at = 0  BY <2>1, <3>1 DEF LinkInv, StreamInv, Runs
    <3> QED  BY <1>5, <2>1, <3>2
  <2> QED  BY <2>2, <2>3
<1>6. Extends /\ \A k \in 1..Len(out') : k > Len(out) => ~Real(out[k])'
  BY <1>2 DEF NoneReal
<1> QED  BY <1>1, <1>4, <1>5, <1>6, KeptParses

\* Whatever happens, KeptInv holds.
LEMMA KeptKept ==
  ASSUME LinkInv, LinkInv', MixInv, KeptInv, [Next]_vars
  PROVE  KeptInv'
<1>1. Len(owner) \in Nat  BY Counts
<1>2. ASSUME UNCHANGED <<out, rx_state, owner>>, cut \subseteq cut', torn => torn',
             InFlight' = InFlight, Ahead' = Ahead \/ Ahead' = <<>>
      PROVE  KeptInv'
  <2>1. Len(owner) <= Len(owner') /\ \A p \in 1..Len(owner') : ~(p > Len(owner))
    BY <1>1, <1>2
  <2> QED  BY <1>2, <2>1, KeptStays
<1>3. CASE UNCHANGED <<protocolVars, streamVars, accepted, cut, torn>>
  <2>1. Ahead' = Ahead /\ owner' = owner /\ InFlight' = InFlight /\ out' = out /\ rx_state' = rx_state
    BY <1>3 DEF protocolVars, streamVars, Ahead, Rest, Line, InFlight
  <2> QED  BY <1>2, <1>3, <2>1
<1>4. ASSUME NEW c \in Conn, ClientSends(c) PROVE KeptInv'
  <2>1. /\ UNCHANGED <<protocolVars, cut, torn>>
        /\ Len(owner') = Len(owner) + 1 /\ Final(Len(owner) + 1) \in InFlight'
        /\ InFlight \subseteq InFlight'
        /\ Ahead # <<>> => Ahead' # <<>> /\ Ahead'[1] = Ahead[1]
        /\ Ahead = <<>> => Ahead' = <<>> \/ Ahead'[1].at = 0
    BY <1>4, Sends
  <2>2. Len(owner) <= Len(owner') /\ \A p \in 1..Len(owner') : p > Len(owner) => p = Len(owner) + 1
    BY <1>1, <2>1
  <2>3. Ahead' = <<>> \/ Ahead'[1].at = 0 \/ (Ahead # <<>> /\ Ahead'[1] = Ahead[1])
    BY <2>1
  <2>4. \A p \in 1..Len(owner') : p > Len(owner) => Final(p) \in InFlight'
    BY <2>1, <2>2
  <2> QED  BY <2>1, <2>2, <2>3, <2>4, KeptStays DEF protocolVars
<1>5. ASSUME NEW c \in Conn, onNewConnection(c) PROVE KeptInv'
  BY <1>2, <1>5, Connects DEF protocolVars
<1>6. ASSUME NEW c \in Conn, NEW n \in 1..Len(net[c]), onClientReadyRead(c, n) PROVE KeptInv'
  BY <1>2, <1>6, Reads
<1>7. CASE Parse
  <2>1. CASE torn'
    BY <2>1 DEF KeptInv
  <2>2. CASE ~torn'
    BY <1>7, <2>2, ParseOutcome, KeptTakesByte, KeptTakesHead, KeptTakesNothing
  <2> QED  BY <2>1, <2>2
<1> QED
  BY <1>3, <1>4, <1>5, <1>6, <1>7
  DEF Next, vars, connVars, FlushGreeting, PeerCloses

\* What comes out of the parser is accounted for, whatever clients come and go.
LEMMA MessagesHold == Spec => [](OutInv /\ MixInv /\ KeptInv)
<1>1. Init => OutInv /\ MixInv /\ KeptInv
  <2> SUFFICES ASSUME Init PROVE OutInv /\ MixInv /\ KeptInv
    OBVIOUS
  <2>1. out = <<>> /\ owner = <<>> /\ raw_data = <<>> /\ accepted = 0
    BY DEF Init, ProtocolInit
  <2>2. 1..Len(out) = {} /\ 1..Len(owner) = {} /\ Ahead = <<>>
    BY <2>1 DEF Ahead
  <2> QED  BY <2>1, <2>2 DEF OutInv, MixInv, KeptInv
<1>2. LinkInv /\ LinkInv' /\ OutInv /\ MixInv /\ KeptInv /\ [Next]_vars
        => (OutInv /\ MixInv /\ KeptInv)'
  BY OutInvKept, MixKept, KeptKept
<1> QED  BY <1>1, <1>2, LinkHolds, PTL DEF Spec

\* Whatever the clients send and however it is cut into reads, as long as no
\* connection breaks in the middle of a packet the parser loses no packet but the
\* ones that are too long or whose header it was given in two pieces, and what it
\* hands over are the others, each once and in the order sent.
THEOREM OnlyCutAreLost == Spec => []OnlyCutHeadersAreLost
<1>1. LinkInv /\ OutInv /\ KeptInv => OnlyCutHeadersAreLost
  <2> SUFFICES ASSUME LinkInv, OutInv, KeptInv, ~torn
        PROVE  /\ \A p \in 1..Len(owner) :
                    Deliverable(p) => \E k \in DOMAIN out : out[k] = MessageOf(p)
               /\ \A k \in DOMAIN out : Real(out[k]) =>
                    \E p \in 1..Len(owner) :
                      /\ Deliverable(p) /\ out[k] = MessageOf(p)
                      /\ \A j \in 1..(k - 1), q \in 1..Len(owner) :
                           Real(out[j]) /\ out[j] = MessageOf(q) => q < p
    BY DEF OnlyCutHeadersAreLost
  <2>1. DOMAIN out = 1..Len(out)  BY LenProperties DEF LinkInv, TypeOK, ProtocolTypeOK
  <2>2. ASSUME NEW p \in 1..Len(owner), Deliverable(p)
        PROVE  \E k \in DOMAIN out : out[k] = MessageOf(p)
    <3>1. Fits(p) /\ p \notin cut /\ Parsed(p)
      <4>1. p \in Packet  BY SentIsPacket DEF LinkInv
      <4> QED  BY <2>2, <4>1, SizeIs DEF Deliverable, Fits
    <3>2. Final(p) \notin InFlight  BY <3>1 DEF Parsed, Final
    <3> QED  BY <2>1, <3>1, <3>2 DEF KeptInv, Owed
  <2>3. ASSUME NEW k \in DOMAIN out, Real(out[k])
        PROVE  \E p \in 1..Len(owner) :
                 /\ Deliverable(p) /\ out[k] = MessageOf(p)
                 /\ \A j \in 1..(k - 1), q \in 1..Len(owner) :
                      Real(out[j]) /\ out[j] = MessageOf(q) => q < p
    <3>1. PICK p \in 1..Len(owner) : out[k] = MessageOf(p)
      BY <2>1, <2>3 DEF KeptInv, Intact
    <3> QED  BY <2>1, <2>3, <3>1 DEF OutInv, OutAt, Is
  <2> QED  BY <2>2, <2>3
<1> QED  BY <1>1, LinkHolds, MessagesHold, PTL

\* However often clients break off in the middle of a packet, the packet of one
\* connection is finished with another's bytes at most once per reconnection.
THEOREM MixedAtMostOncePerReconnect == Spec => []OneMixedPerReconnect
<1>1. LinkInv /\ MixInv => OneMixedPerReconnect
  <2> SUFFICES ASSUME LinkInv, MixInv PROVE OneMixedPerReconnect
    OBVIOUS
  <2>1. accepted \in Nat  BY DEF LinkInv, TypeOK
  <2>2. IsFiniteSet(Broken) /\ Cardinality(Broken) \in Nat
    <3>1. DOMAIN out = 1..Len(out) /\ Len(out) \in Nat
      BY LenProperties DEF LinkInv, TypeOK, ProtocolTypeOK
    <3>2. Broken \subseteq 1..Len(out) /\ IsFiniteSet(1..Len(out))
      BY <3>1, FS_Interval DEF Broken
    <3> QED  BY <3>2, FS_Subset, FS_CardinalityType
  <2>3. CASE raw_data = <<>>
    <3>1. Broken = {}
      <4>1. out = <<>>  BY <2>3 DEF LinkInv, ConnInv
      <4>2. DOMAIN out = {}  BY <4>1
      <4> QED  BY <4>2 DEF Broken
    <3>2. Cardinality(Broken) = 0  BY <3>1, FS_EmptySet
    <3> QED  BY <2>1, <3>2 DEF OneMixedPerReconnect, Broken
  <2>4. CASE raw_data # <<>>
    <3>1. From \in Nat /\ From >= 1 /\ From <= accepted  BY <2>4, FromType
    <3>2. Cardinality(Broken) <= accepted - 1
      BY <2>1, <2>2, <2>4, <3>1 DEF MixInv, AtMost
    <3>3. accepted # 0  BY <2>1, <3>1
    <3> QED  BY <3>2, <3>3 DEF OneMixedPerReconnect, Broken
  <2> QED  BY <2>3, <2>4
<1> QED  BY <1>1, LinkHolds, MessagesHold, PTL

-----------------------------------------------------------------------------
(* The messages handed over whole, as the deliveries of a lossy channel.   *)

Rank(K, x) == Cardinality({j \in K : j <= x})

\* Every place in the set has a member.
Ranked(K) == \A n \in 1..Cardinality(K) : \E x \in K : Rank(K, x) = n

\* Two members of a set of numbers have different places.
LEMMA RanksDiffer ==
  ASSUME NEW K \in SUBSET Nat, IsFiniteSet(K), NEW x \in K, NEW y \in K, x < y
  PROVE  Rank(K, x) < Rank(K, y)
<1> DEFINE below == {j \in K : j <= x}
           upto == {j \in K : j <= y}
<1>1. IsFiniteSet(below) /\ IsFiniteSet(upto)
  <2>1. below \subseteq K /\ upto \subseteq K  OBVIOUS
  <2> QED  BY <2>1, FS_Subset
<1>2. y \notin below  OBVIOUS
<1>3. below \cup {y} \subseteq upto
  <2>1. x \in Nat /\ y \in Nat  OBVIOUS
  <2>2. \A j \in K : j \in Nat /\ (j <= x => j <= y)  BY <2>1
  <2>3. y <= y  BY <2>1
  <2> QED  BY <2>2, <2>3
<1> HIDE DEF below, upto
<1>4. IsFiniteSet(below \cup {y}) /\ Cardinality(below \cup {y}) = Cardinality(below) + 1
  BY <1>1, <1>2, FS_AddElement
<1>5. Cardinality(below \cup {y}) <= Cardinality(upto)
  BY <1>1, <1>3, FS_Subset
<1>6. Cardinality(below) \in Nat /\ Cardinality(upto) \in Nat
  BY <1>1, FS_CardinalityType
<1>7. Cardinality(below) < Cardinality(upto)  BY <1>4, <1>5, <1>6
<1> QED  BY <1>7, Zenon DEF Rank, below, upto

\* So the member at a place is the one Nth chooses.
LEMMA NthIs ==
  ASSUME NEW K \in SUBSET Nat, IsFiniteSet(K), NEW x \in K
  PROVE  Nth(K, Rank(K, x)) = x
<1> DEFINE y == Nth(K, Rank(K, x))
<1>1. y \in K /\ Rank(K, y) = Rank(K, x)
  <2>1. \E z \in K : Cardinality({j \in K : j <= z}) = Rank(K, x)
    BY Zenon DEF Rank
  <2> QED  BY <2>1, Zenon DEF Nth, Rank
<1> HIDE DEF y
<1>2. Rank(K, x) \in Nat
  <2>1. {j \in K : j <= x} \subseteq K  OBVIOUS
  <2>2. IsFiniteSet({j \in K : j <= x})  BY <2>1, FS_Subset
  <2> QED  BY <2>2, FS_CardinalityType DEF Rank
<1>3. ~(x < y) /\ ~(y < x)
  <2>1. ASSUME x < y PROVE FALSE
    <3>1. Rank(K, x) < Rank(K, y)  BY <1>1, <2>1, RanksDiffer
    <3> QED  BY <1>1, <1>2, <3>1
  <2>2. ASSUME y < x PROVE FALSE
    <3>1. Rank(K, y) < Rank(K, x)  BY <1>1, <2>2, RanksDiffer
    <3> QED  BY <1>1, <1>2, <3>1
  <2> QED  BY <2>1, <2>2
<1>4. x \in Nat /\ y \in Nat  BY <1>1
<1>5. y = x  BY <1>3, <1>4
<1> QED  BY <1>5 DEF y

\* A number beyond all members takes the next place and moves no other.
LEMMA RankAppended ==
  ASSUME NEW l \in Nat, NEW K \in SUBSET (1..l), NEW new \in Nat, new > l
  PROVE  /\ IsFiniteSet(K) /\ Cardinality(K) \in Nat
         /\ IsFiniteSet(K \cup {new}) /\ Cardinality(K \cup {new}) = Cardinality(K) + 1
         /\ \A x \in K : Rank(K \cup {new}, x) = Rank(K, x)
         /\ Rank(K \cup {new}, new) = Cardinality(K) + 1
<1> DEFINE more == K \cup {new}
<1>1. IsFiniteSet(K) /\ Cardinality(K) \in Nat
  <2>1. IsFiniteSet(1..l)  BY FS_Interval
  <2> QED  BY <2>1, FS_Subset, FS_CardinalityType
<1>2. new \notin K  OBVIOUS
<1>3. IsFiniteSet(more) /\ Cardinality(more) = Cardinality(K) + 1
  BY <1>1, <1>2, FS_AddElement
<1>4. ASSUME NEW x \in K PROVE Rank(more, x) = Rank(K, x)
  <2>1. {j \in more : j <= x} = {j \in K : j <= x}  OBVIOUS
  <2> QED  BY <2>1, Zenon DEF Rank
<1>5. Rank(more, new) = Cardinality(K) + 1
  <2>1. \A j \in more : j <= new  OBVIOUS
  <2>2. {j \in more : j <= new} = more  BY <2>1
  <2> QED  BY <1>3, <2>2, Zenon DEF Rank
<1> QED  BY <1>1, <1>3, <1>4, <1>5

LEMMA RankedAppended ==
  ASSUME NEW l \in Nat, NEW K \in SUBSET (1..l), NEW new \in Nat, new > l, Ranked(K)
  PROVE  Ranked(K \cup {new})
<1> DEFINE more == K \cup {new}
<1>1. /\ Cardinality(K) \in Nat /\ Cardinality(more) = Cardinality(K) + 1
      /\ \A x \in K : Rank(more, x) = Rank(K, x)
      /\ Rank(more, new) = Cardinality(K) + 1
  BY RankAppended
<1>2. new \in more /\ K \subseteq more  OBVIOUS
<1> HIDE DEF more
<1>3. ASSUME NEW n \in 1..Cardinality(more) PROVE \E x \in more : Rank(more, x) = n
  <2>1. CASE n = Cardinality(K) + 1
    BY <1>1, <1>2, <2>1
  <2>2. CASE n # Cardinality(K) + 1
    <3>1. n \in 1..Cardinality(K)  BY <1>1, <2>2
    <3>2. PICK x \in K : Rank(K, x) = n  BY <3>1 DEF Ranked
    <3> QED  BY <1>1, <1>2, <3>2
  <2> QED  BY <2>1, <2>2
<1> QED  BY <1>3 DEF Ranked, more

\* The packets handed over whole, in the order they were: Fifo!delivered.
Passed == [n \in 1..Cardinality(WholeOnes) |-> out[Nth(WholeOnes, n)].payload[1].pkt]

\* The n-th of the whole messages is the packet of one of those handed over.
LEMMA PassedIs ==
  ASSUME LinkInv, Ranked(WholeOnes)
  PROVE  /\ WholeOnes \subseteq 1..Len(out) /\ IsFiniteSet(WholeOnes)
         /\ Len(out) \in Nat /\ Cardinality(WholeOnes) \in Nat
         /\ \A n \in 1..Cardinality(WholeOnes) :
              \E k \in WholeOnes, p \in 1..Len(owner) :
                /\ Rank(WholeOnes, k) = n /\ Nth(WholeOnes, n) = k
                /\ Is(k, p) /\ Passed[n] = p
<1>1. /\ Len(out) \in Nat /\ DOMAIN out = 1..Len(out) /\ 1..Len(owner) \subseteq Packet
  <2>1. /\ out \in Seq(Message) /\ TypeOK  BY DEF LinkInv, TypeOK, ProtocolTypeOK
  <2> QED  BY <2>1, SentIsPacket, LenProperties
<1>2. WholeOnes \subseteq 1..Len(out)  BY <1>1 DEF WholeOnes
<1>3. IsFiniteSet(WholeOnes) /\ Cardinality(WholeOnes) \in Nat
  <2>1. IsFiniteSet(1..Len(out))  BY <1>1, FS_Interval
  <2> QED  BY <1>2, <2>1, FS_Subset, FS_CardinalityType
<1>4. ASSUME NEW n \in 1..Cardinality(WholeOnes)
      PROVE  \E k \in WholeOnes, p \in 1..Len(owner) :
               /\ Rank(WholeOnes, k) = n /\ Nth(WholeOnes, n) = k
               /\ Is(k, p) /\ Passed[n] = p
  <2>1. PICK k \in WholeOnes : Rank(WholeOnes, k) = n  BY DEF Ranked
  <2>2. WholeOnes \in SUBSET Nat  BY <1>1, <1>2
  <2>3. Nth(WholeOnes, n) = k  BY <1>3, <2>1, <2>2, NthIs
  <2>4. Real(out[k]) /\ Intact(out[k])  BY DEF WholeOnes
  <2>5. PICK p \in 1..Len(owner) : out[k] = MessageOf(p)  BY <2>4 DEF Intact
  <2>6. Is(k, p)  BY <2>4, <2>5 DEF Is
  <2>7. out[k].payload[1].pkt = p
    <3>1. Real(MessageOf(p)) /\ p \in Packet  BY <1>1, <2>4, <2>5
    <3> QED  BY <2>5, <3>1, WholeMessage
  <2>8. Passed[n] = p  BY <2>3, <2>7 DEF Passed
  <2> QED  BY <2>1, <2>3, <2>6, <2>8
<1> QED  BY <1>1, <1>2, <1>3, <1>4

\* Messages handed over stay whole.
LEMMA WholeStay ==
  ASSUME LinkInv, LinkInv', Extends, Len(owner) <= Len(owner')
  PROVE  WholeOnes \subseteq WholeOnes'
<1>1. /\ Len(out) \in Nat /\ DOMAIN out = 1..Len(out) /\ DOMAIN out' = 1..Len(out')
      /\ 1..Len(owner) \subseteq 1..Len(owner') /\ 1..Len(out) \subseteq 1..Len(out')
  BY Counts DEF Extends
<1>2. ASSUME NEW k \in WholeOnes PROVE k \in WholeOnes'
  <2>1. k \in 1..Len(out) /\ Real(out[k]) /\ Intact(out[k])  BY <1>1 DEF WholeOnes
  <2>2. out'[k] = out[k]  BY <2>1 DEF Extends
  <2>3. PICK p \in 1..Len(owner) : out[k] = MessageOf(p)  BY <2>1 DEF Intact
  <2>4. p \in 1..Len(owner') /\ out'[k] = MessageOf(p)  BY <1>1, <2>2, <2>3
  <2>5. Intact(out[k])'  BY <2>4, Zenon DEF Intact, MessageOf
  <2>6. Real(out[k])'  BY <2>1, <2>2 DEF Real
  <2> QED  BY <1>1, <2>1, <2>5, <2>6 DEF WholeOnes
<1> QED  BY <1>2

\* One that was handed over before the step is whole only if it was then.
LEMMA WholeBefore ==
  ASSUME LinkInv, LinkInv', OutInv, Extends, NEW k \in 1..Len(out), k \in WholeOnes'
  PROVE  k \in WholeOnes
<1>1. /\ DOMAIN out = 1..Len(out) /\ 1..Len(owner') \subseteq Packet  BY Counts
<1>2. Real(out[k])' /\ Intact(out[k])'  BY DEF WholeOnes
<1>3. out'[k] = out[k]  BY DEF Extends
<1>4. PICK p \in 1..Len(owner') : out'[k] = MessageOf(p)
  BY <1>2, Zenon DEF Intact, MessageOf
<1>5. Real(out[k]) /\ Is(k, p)  BY <1>2, <1>3, <1>4 DEF Real, Is
<1>6. p \in 1..Len(owner)  BY <1>1, <1>5, NoneTooEarly DEF LinkInv
<1>7. Intact(out[k])  BY <1>3, <1>4, <1>6 DEF Intact
<1> QED  BY <1>1, <1>5, <1>7 DEF WholeOnes

\* A step that hands over nothing whole delivers nothing.
LEMMA PassedStays ==
  ASSUME LinkInv, LinkInv', OutInv, Ranked(WholeOnes), NoneWhole
  PROVE  Ranked(WholeOnes)' /\ Passed' = Passed
<1>1. /\ Len(out) \in Nat /\ Len(out') \in Nat
      /\ DOMAIN out' = 1..Len(out') /\ 1..Len(owner') \subseteq Packet
      /\ Extends /\ Len(owner) <= Len(owner')
  BY Counts DEF NoneWhole
<1>2. ASSUME NEW k \in WholeOnes' PROVE k \in WholeOnes
  <2>1. k \in 1..Len(out') /\ Real(out[k])' /\ Intact(out[k])'  BY <1>1 DEF WholeOnes
  <2>2. ~(k > Len(out))
    <3>1. ASSUME k > Len(out) PROVE FALSE
      <4>1. HasHead(out[k])'  BY <2>1, <3>1 DEF NoneWhole
      <4>2. PICK p \in 1..Len(owner') : out'[k] = MessageOf(p)
        BY <2>1, Zenon DEF Intact, MessageOf
      <4>3. ~HasHead(MessageOf(p))  BY <1>1, WholeMessage
      <4> QED  BY <4>1, <4>2, <4>3 DEF HasHead
    <3> QED  BY <3>1
  <2>3. k \in 1..Len(out)  BY <1>1, <2>1, <2>2
  <2> QED  BY <1>1, <2>3, WholeBefore
<1>3. WholeOnes' = WholeOnes
  <2>1. WholeOnes \subseteq WholeOnes'  BY <1>1, WholeStay
  <2> QED  BY <1>2, <2>1
<1>4. Passed' = Passed
  <2>1. ASSUME NEW n \in 1..Cardinality(WholeOnes)
        PROVE  out'[Nth(WholeOnes, n)] = out[Nth(WholeOnes, n)]
    <3>1. Nth(WholeOnes, n) \in 1..Len(out)  BY PassedIs
    <3> QED  BY <1>1, <3>1 DEF Extends
  <2>2. Passed' = [n \in 1..Cardinality(WholeOnes) |-> out'[Nth(WholeOnes, n)].payload[1].pkt]
    BY <1>3, Zenon DEF Passed
  <2> QED  BY <2>1, <2>2 DEF Passed
<1>5. Ranked(WholeOnes)'  BY <1>3, Zenon DEF Ranked
<1> QED  BY <1>4, <1>5

\* One that hands over a packet delivers it, and it is later than all before.
LEMMA PassedGrows ==
  ASSUME LinkInv, LinkInv', OutInv, OutInv', Ranked(WholeOnes),
         NEW p \in 1..Len(owner), Delivers(p)
  PROVE  /\ Ranked(WholeOnes)' /\ Passed' = Append(Passed, p)
         /\ \A n \in DOMAIN Passed : Passed[n] < p
<1>1. /\ Len(out) \in Nat /\ Len(out') \in Nat /\ Len(owner) \in Nat
      /\ DOMAIN out' = 1..Len(out') /\ 1..Len(owner) \subseteq Packet /\ p \in Packet
      /\ out' = Append(out, MessageOf(p)) /\ Real(MessageOf(p)) /\ owner' = owner
  BY Counts DEF Delivers
<1>0. PICK new \in Nat : new = Len(out) + 1  BY <1>1
<1>2. Len(out') = new /\ out'[new] = MessageOf(p) /\ \A k \in 1..Len(out) : out'[k] = out[k]
  <2>1. MessageOf(p) \in Message
    BY <1>1, PayloadIs, SizeIs DEF MessageOf, Message
  <2>2. out \in Seq(Message)  BY DEF LinkInv, TypeOK, ProtocolTypeOK
  <2> QED  BY <1>0, <1>1, <2>1, <2>2, AppendProperties
<1>3. Extends /\ Len(owner) <= Len(owner')  BY <1>0, <1>1, <1>2 DEF Extends
<1>4. new \in WholeOnes'
  <2>1. Real(out[new])'  BY <1>1, <1>2 DEF Real
  <2>2. p \in 1..Len(owner') /\ out'[new] = MessageOf(p)  BY <1>1, <1>2
  <2>3. Intact(out[new])'  BY <2>2, Zenon DEF Intact, MessageOf
  <2>4. new \in DOMAIN out'  BY <1>0, <1>1, <1>2
  <2> QED  BY <2>1, <2>3, <2>4 DEF WholeOnes
<1>5. WholeOnes' = WholeOnes \cup {new}
  <2>1. ASSUME NEW k \in WholeOnes' PROVE k \in WholeOnes \cup {new}
    <3>1. k \in 1..new  BY <1>1, <1>2 DEF WholeOnes
    <3>2. CASE k = new
      BY <3>2
    <3>3. CASE k # new
      <4>1. k \in 1..Len(out)  BY <1>0, <1>1, <3>1, <3>3
      <4> QED  BY <1>3, <4>1, WholeBefore
    <3> QED  BY <3>2, <3>3
  <2>2. WholeOnes \subseteq WholeOnes'  BY <1>3, WholeStay
  <2> QED  BY <1>4, <2>1, <2>2
<1> DEFINE K == WholeOnes
           c == Cardinality(WholeOnes)
<1>6. /\ K \in SUBSET (1..Len(out)) /\ c \in Nat /\ K \cup {new} \in SUBSET Nat
      /\ new > Len(out)
  BY <1>0, <1>1, PassedIs
<1>7. /\ IsFiniteSet(K \cup {new}) /\ Cardinality(K \cup {new}) = c + 1
      /\ \A x \in K : Rank(K \cup {new}, x) = Rank(K, x)
      /\ Rank(K \cup {new}, new) = c + 1
  <2>1. PICK l \in Nat : l = Len(out)  BY <1>1
  <2>2. K \in SUBSET (1..l) /\ new > l  BY <1>6, <2>1
  <2> HIDE DEF K
  <2>3. /\ IsFiniteSet(K \cup {new}) /\ Cardinality(K \cup {new}) = Cardinality(K) + 1
        /\ \A x \in K : Rank(K \cup {new}, x) = Rank(K, x)
        /\ Rank(K \cup {new}, new) = Cardinality(K) + 1
    BY <2>2, RankAppended
  <2> QED  BY <2>3 DEF K
<1>8. Ranked(WholeOnes)'
  <2>1. Ranked(K \cup {new})  BY <1>1, <1>6, RankedAppended
  <2> QED  BY <1>5, <2>1, Zenon DEF Ranked
<1>9. Passed' = [n \in 1..(c + 1) |-> out'[Nth(K \cup {new}, n)].payload[1].pkt]
  BY <1>5, <1>7, Zenon DEF Passed
<1>10. Nth(K \cup {new}, c + 1) = new
  <2>1. new \in K \cup {new}  OBVIOUS
  <2>2. Nth(K \cup {new}, Rank(K \cup {new}, new)) = new
    BY <1>6, <1>7, <2>1, NthIs
  <2> QED  BY <1>7, <2>2
<1>11. ASSUME NEW n \in 1..c
       PROVE  \E k \in 1..Len(out), q \in 1..Len(owner) :
                Is(k, q) /\ Passed[n] = q /\ Nth(K \cup {new}, n) = k
  <2>1. PICK k \in K, q \in 1..Len(owner) : Rank(K, k) = n /\ Is(k, q) /\ Passed[n] = q
    BY PassedIs
  <2>2. Nth(K \cup {new}, Rank(K \cup {new}, k)) = k
    BY <1>6, <1>7, <2>1, NthIs
  <2>3. Rank(K \cup {new}, k) = n /\ k \in 1..Len(out)  BY <1>6, <1>7, <2>1
  <2> QED  BY <2>1, <2>2, <2>3
<1> HIDE DEF K, c
<1>12. Passed \in Seq(Packet) /\ Len(Passed) = c
  <2>1. DOMAIN Passed = 1..c  BY DEF Passed, c
  <2>2. \A n \in 1..c : Passed[n] \in Packet  BY <1>1, <1>11
  <2>3. Passed \in [1..c -> Packet]  BY <2>1, <2>2 DEF Passed, c
  <2> QED  BY <1>6, <2>3
<1>13. /\ Append(Passed, p) \in Seq(Packet) /\ Len(Append(Passed, p)) = c + 1
       /\ Append(Passed, p)[c + 1] = p
       /\ \A n \in 1..c : Append(Passed, p)[n] = Passed[n]
  BY <1>1, <1>12, AppendProperties
<1>14. ASSUME NEW n \in 1..(c + 1) PROVE Passed'[n] = Append(Passed, p)[n]
  <2>1. Passed'[n] = out'[Nth(K \cup {new}, n)].payload[1].pkt  BY <1>9
  <2>2. CASE n = c + 1
    <3>1. Passed'[n] = out'[new].payload[1].pkt  BY <1>10, <2>1, <2>2
    <3>2. MessageOf(p).payload[1].pkt = p  BY <1>1, WholeMessage
    <3> QED  BY <1>2, <1>13, <2>2, <3>1, <3>2
  <2>3. CASE n # c + 1
    <3>1. n \in 1..c  BY <1>6, <2>3
    <3>2. PICK k \in 1..Len(out), q \in 1..Len(owner) :
            Is(k, q) /\ Passed[n] = q /\ Nth(K \cup {new}, n) = k
      BY <1>11, <3>1
    <3>3. Passed'[n] = out[k].payload[1].pkt  BY <1>2, <2>1, <3>2
    <3>4. out[k] = MessageOf(q) /\ Real(MessageOf(q)) /\ q \in Packet
      BY <1>1, <3>2 DEF Is
    <3>5. out[k].payload[1].pkt = q  BY <3>4, WholeMessage
    <3> QED  BY <1>13, <3>1, <3>2, <3>3, <3>5
  <2> QED  BY <2>2, <2>3
<1>15. Passed' = Append(Passed, p)
  <2>1. Passed' \in Seq(Packet) /\ Len(Passed') = c + 1
    <3>1. DOMAIN Passed' = 1..(c + 1)  BY <1>9
    <3>2. \A n \in 1..(c + 1) : Passed'[n] \in Packet
      BY <1>13, <1>14, ElementOfSeq
    <3>3. Passed' \in [1..(c + 1) -> Packet]  BY <1>9, <3>1, <3>2
    <3> QED  BY <1>6, <3>3
  <2> QED  BY <1>13, <1>14, <2>1, SameSeq
<1>16. ASSUME NEW n \in DOMAIN Passed PROVE Passed[n] < p
  <2>1. n \in 1..c  BY <1>12
  <2>2. PICK k \in 1..Len(out), q \in 1..Len(owner) : Is(k, q) /\ Passed[n] = q
    BY <1>11, <2>1
  <2>3. Real(out'[k]) /\ out'[k] = MessageOf(q)  BY <1>2, <2>2 DEF Is
  <2>4. Is(k, q)'  BY <2>3 DEF Is, MessageOf, Real
  <2>5. Is(new, p)'  BY <1>1, <1>2 DEF Is, MessageOf, Real
  <2>6. new \in 1..Len(out') /\ p \in 1..Len(owner') /\ q \in 1..Len(owner')
        /\ k \in 1..(new - 1)
    BY <1>0, <1>1, <1>2
  <2>7. OutAt(new)'  BY <2>6 DEF OutInv
  <2>8. \A j \in 1..(new - 1), r \in 1..Len(owner') : Is(j, r)' => r < p
    BY <2>5, <2>6, <2>7 DEF OutAt
  <2> QED  BY <2>2, <2>4, <2>6, <2>8
<1> QED  BY <1>8, <1>15, <1>16

\* A step sends a packet, delivers one, or does neither.
LEMMA StepDelivers ==
  ASSUME LinkInv, LinkInv', MixInv, [Next]_vars
  PROVE  \/ NoneWhole /\ (UNCHANGED owner \/ Len(owner') = Len(owner) + 1)
         \/ \E p \in 1..Len(owner) : Delivers(p)
<1>1. Len(out) \in Nat /\ Len(owner) \in Nat  BY Counts
<1>2. ASSUME out' = out, UNCHANGED owner \/ Len(owner') = Len(owner) + 1
      PROVE  NoneWhole
  <2>1. Extends /\ \A k \in 1..Len(out') : ~(k > Len(out))  BY <1>1, <1>2 DEF Extends
  <2>2. Len(owner) <= Len(owner')  BY <1>1, <1>2
  <2> QED  BY <2>1, <2>2 DEF NoneWhole
<1>3. CASE UNCHANGED <<protocolVars, owner>>
  BY <1>2, <1>3 DEF protocolVars
<1>4. ASSUME NEW c \in Conn, ClientSends(c)
      PROVE  NoneWhole /\ Len(owner') = Len(owner) + 1
  BY <1>2, <1>4, Sends DEF protocolVars
<1>5. ASSUME NEW c \in Conn, NEW n \in 1..Len(net[c]), onClientReadyRead(c, n)
      PROVE  NoneWhole /\ UNCHANGED owner
  BY <1>2, <1>5, Reads
<1>6. ASSUME Parse
      PROVE  UNCHANGED owner /\ (NoneWhole \/ \E p \in 1..Len(owner) : Delivers(p))
  <2>1. UNCHANGED owner  BY <1>6 DEF Parse, streamVars
  <2>2. CASE TakesHead \/ TakesNothing
    <3>1. NoneReal  BY <2>2 DEF TakesHead, TakesNothing
    <3>2. Len(owner) <= Len(owner')  BY <1>1, <2>1
    <3> QED  BY <2>1, <3>1, <3>2 DEF NoneReal, NoneWhole
  <2> QED  BY <1>6, <2>1, <2>2, ParseOutcome, ByteDelivers
<1> QED
  BY <1>2, <1>3, <1>4, <1>5, <1>6
  DEF Next, vars, streamVars, FlushGreeting, PeerCloses, onNewConnection

\* The channel has sent no more packets than it may.
LEMMA SentIsBounded ==
  ASSUME LinkInv
  PROVE  Len(owner) \in Nat /\ Len(owner) <= MaxPackets /\ MaxPackets \in Nat
BY LenProperties, ServerAssumption DEF LinkInv, TypeOK

\* Reconnections and all, OptiServer implements a lossy channel: what is handed
\* over whole is delivered at most once and in the order it was sent.
THEOREM VisionLinkIsLossyFifo == Spec => ImplementsLossyFifo
<1>1. Init => Ranked(WholeOnes) /\ Fifo!Init
  <2> SUFFICES ASSUME Init PROVE Ranked(WholeOnes) /\ Fifo!Init
    OBVIOUS
  <2>1. out = <<>> /\ Len(owner) = 0  BY DEF Init, ProtocolInit
  <2>2. WholeOnes = {}  BY <2>1 DEF WholeOnes
  <2>3. Cardinality(WholeOnes) = 0 /\ 1..Cardinality(WholeOnes) = {}
    BY <2>2, FS_EmptySet
  <2>4. Passed = <<>>  BY <2>3 DEF Passed
  <2> QED  BY <2>1, <2>3, <2>4 DEF Ranked, Fifo!Init, Passed
<1>2. ASSUME LinkInv, LinkInv', OutInv, OutInv', MixInv, Ranked(WholeOnes), [Next]_vars
      PROVE  Ranked(WholeOnes)' /\ [Fifo!Next]_(Fifo!fifoVars)
  <2>1. CASE NoneWhole /\ (UNCHANGED owner \/ Len(owner') = Len(owner) + 1)
    <3>1. Ranked(WholeOnes)' /\ Passed' = Passed  BY <1>2, <2>1, PassedStays
    <3>2. CASE UNCHANGED owner
      BY <3>1, <3>2 DEF Fifo!fifoVars, Passed
    <3>3. CASE Len(owner') = Len(owner) + 1
      <4>1. Len(owner') <= MaxPackets /\ Len(owner) \in Nat
        BY <1>2, SentIsBounded DEF LinkInv, TypeOK
      <4>2. Len(owner) < MaxPackets  BY <1>2, <3>3, <4>1, SentIsBounded
      <4>3. Fifo!Send  BY <3>1, <3>3, <4>2 DEF Fifo!Send, Passed
      <4> QED  BY <3>1, <4>3 DEF Fifo!Next
    <3> QED  BY <2>1, <3>2, <3>3
  <2>2. ASSUME NEW p \in 1..Len(owner), Delivers(p)
        PROVE  Ranked(WholeOnes)' /\ [Fifo!Next]_(Fifo!fifoVars)
    <3>1. /\ Ranked(WholeOnes)' /\ Passed' = Append(Passed, p)
          /\ \A n \in DOMAIN Passed : Passed[n] < p
      BY <1>2, <2>2, PassedGrows
    <3>2. p \in 1..MaxPackets  BY <1>2, SentIsBounded
    <3>3. Len(owner') = Len(owner)  BY <2>2 DEF Delivers
    <3>4. Fifo!Deliver(p)  BY <3>1, <3>3 DEF Fifo!Deliver, Passed
    <3> QED  BY <3>1, <3>2, <3>4 DEF Fifo!Next
  <2> QED  BY <1>2, <2>1, <2>2, StepDelivers
<1> QED
  BY <1>1, <1>2, LinkHolds, MessagesHold, PTL DEF Spec, ImplementsLossyFifo, Fifo!Spec

-----------------------------------------------------------------------------
(* The planning pipeline: OptiPostWork.                                    *)

-----------------------------------------------------------------------------
(* Type correctness.                                                       *)

\* elapsed() stays in its range when it counts on, and wraps to 0.
LEMMA TickRange ==
  ASSUME NEW d \in Nat \ {0}, NEW t \in 0..(d - 1)
  PROVE  /\ (t + 1) % d \in 0..(d - 1)
         /\ (t + 1) % d <= t + 1
<1>1. CASE t + 1 = d
  <2>1. d % d = 0  BY SMT
  <2> QED  BY <1>1, <2>1
<1>2. CASE t + 1 < d
  <2>1. t + 1 \in Nat  OBVIOUS
  <2>2. (t + 1) % d = t + 1  BY <1>2, <2>1
  <2> QED  BY <1>2, <2>2
<1> QED  BY <1>1, <1>2

\* The copies have room: what is copied and what is yet to be copied are no
\* more than there are robots.
CopyHasRoom == Len(target_list_) + Cardinality(todo) <= Cardinality(Robot)
TypeInv == PostTypeOK /\ (gui = "copying" => CopyHasRoom)

\* Sets of robots are finite and no larger than Robot.
LEMMA RobotSets ==
  ASSUME NEW S \in SUBSET Robot
  PROVE  /\ IsFiniteSet(S) /\ Cardinality(S) \in Nat
         /\ Cardinality(S) <= Cardinality(Robot)
BY FS_Subset, FS_CardinalityType, PostWorkAssumption

\* Every variable keeps its type, and the arrays of OptiPostWork, one entry
\* per robot, are never overfilled.
THEOREM PipelineTypeCorrect == PostSpec => []PostTypeOK
<1> USE PostWorkAssumption
<1>1. PostInit => TypeInv
  <2> SUFFICES ASSUME PostInit PROVE TypeInv
    OBVIOUS
  <2>1. target_list_ \in Seq(Robot) /\ Len(target_list_) <= Cardinality(Robot)
    BY EmptySeq, RobotSets DEF PostInit
  <2>2. 0 \in 0..(Day - 1)  OBVIOUS
  <2>3. late \in [Robot -> 0..2]  BY DEF PostInit
  <2>4. elapsed \in 0..(Day - 1) /\ last_trigger_ \in 0..(Day - 1) /\ since \in 0..Day
    BY <2>2 DEF PostInit
  <2>5. target_len_ \in Nat /\ queued \in Nat /\ action_size \in Nat  BY DEF PostInit
  <2> HIDE PostWorkAssumption
  <2>6. PostTypeOK  BY <2>1, <2>3, <2>4, <2>5, Zenon DEF PostInit, PostTypeOK
  <2>7. gui = "idle"  BY DEF PostInit
  <2> QED  BY <2>6, <2>7 DEF TypeInv
<1>2. TypeInv /\ [PostNext]_postVars => TypeInv'
  <2> SUFFICES ASSUME TypeInv, [PostNext]_postVars PROVE TypeInv'
    OBVIOUS
  <2> USE DEF TypeInv, PostTypeOK, CopyHasRoom, guiVars, sharedVars, plannerVars,
              clockVars, historyVars
  <2>1. CASE UNCHANGED postVars
    BY <2>1 DEF postVars
  <2>2. CASE Tick
    <3>1. elapsed' \in 0..(Day - 1)  BY <2>2, TickRange DEF Tick
    <3>2. since' \in 0..Day  BY <2>2 DEF Tick
    <3> QED  BY <2>2, <3>1, <3>2 DEF Tick
  <2>3. CASE CopyTarget
    <3>1. PICK r \in todo : /\ target_list_' = Append(target_list_, r)
                            /\ todo' = todo \ {r}
      BY <2>3 DEF CopyTarget
    <3>2. /\ target_list_' \in Seq(Robot)
          /\ Len(target_list_') = Len(target_list_) + 1
          /\ Len(target_list_) \in Nat
      BY <3>1, AppendProperties, LenProperties
    <3>3. IsFiniteSet(todo) /\ Cardinality(todo) \in Nat /\ Cardinality(Robot) \in Nat
      BY RobotSets
    <3>4. Cardinality(todo') = Cardinality(todo) - 1  BY <3>1, <3>3, FS_RemoveElement
    <3>5. todo' \subseteq Robot /\ Cardinality(todo') \in Nat  BY <3>1, RobotSets
    <3> QED  BY <2>3, <3>2, <3>3, <3>4, <3>5 DEF CopyTarget
  <2>4. CASE CopyInfo
    BY <2>4, LenProperties DEF CopyInfo
  <2>5. CASE EmitPlannerUpdate
    BY <2>5 DEF EmitPlannerUpdate
  <2>6. CASE StartRound
    <3>1. queued' \in Nat  BY <2>6 DEF StartRound
    <3> QED  BY <2>6, <3>1, LenProperties DEF StartRound
  <2>7. CASE Plan
    <3>1. actions' \subseteq Robot  BY <2>7 DEF Plan
    <3>2. overrun' \in BOOLEAN /\ garbage' \in BOOLEAN  BY <2>7 DEF Plan
    <3> QED  BY <2>7, <3>1, <3>2 DEF Plan
  <2>8. CASE EndRound
    BY <2>8 DEF EndRound
  <2>9. ASSUME NEW r \in Robot, SendAutoMove(r) PROVE TypeInv'
    <3>1. late' \in [Robot -> 0..2]
      <4>1. (IF r \in target_map_ \/ late[r] = 2 THEN late[r] ELSE late[r] + 1) \in 0..2
        OBVIOUS
      <4> QED  BY <2>9, <4>1 DEF SendAutoMove
    <3>2. actions' \subseteq Robot  BY <2>9 DEF SendAutoMove
    <3> QED  BY <2>9, <3>1, <3>2 DEF SendAutoMove
  <2>10. ASSUME NEW b \in BOOLEAN, startPlanner(b) PROVE TypeInv'
    BY <2>10 DEF startPlanner
  <2>11. ASSUME NEW found \in SUBSET Robot, Trigger(found) PROVE TypeInv'
    <3>1. target_list_' = <<>> /\ todo' = target_map_  BY <2>11 DEF Trigger
    <3>2. /\ target_list_' \in Seq(Robot) /\ Len(target_list_') = 0
          /\ Cardinality(todo') <= Cardinality(Robot) /\ Cardinality(todo') \in Nat
      BY <3>1, EmptySeq, RobotSets
    <3>3. Len(target_list_') <= Cardinality(Robot) /\ CopyHasRoom'
      BY <3>2, RobotSets
    <3>4. last_trigger_' \in 0..(Day - 1) /\ since' \in 0..Day /\ elapsed' \in 0..(Day - 1)
      BY <2>11 DEF Trigger
    <3> HIDE DEF CopyHasRoom
    <3> QED  BY <2>11, <3>1, <3>2, <3>3, <3>4 DEF Trigger
  <2>12. ASSUME NEW r \in Robot, pushTarget(r) \/ removeTarget(r) PROVE TypeInv'
    <3>1. late' = [late EXCEPT ![r] = 0] /\ target_map_' \subseteq Robot
      BY <2>12 DEF pushTarget, removeTarget
    <3>2. late' \in [Robot -> 0..2]  BY <3>1
    <3>3. gui = "idle" /\ UNCHANGED gui  BY <2>12 DEF pushTarget, removeTarget
    <3> QED  BY <2>12, <3>1, <3>2, <3>3 DEF pushTarget, removeTarget
  <2> QED  BY <2>1, <2>2, <2>3, <2>4, <2>5, <2>6, <2>7, <2>8, <2>9, <2>10, <2>11,
              <2>12 DEF PostNext, PlannerStep
<1> QED  BY <1>1, <1>2, PTL DEF PostSpec, TypeInv

-----------------------------------------------------------------------------
(* The threads stay apart.                                                 *)

\* What keeps a trigger away from a pending round: the difference the code
\* compares with INTERVAL_POST_TASK never exceeds the time since the trigger,
\* whether elapsed() has wrapped or not, and a round is over in RoundTime.
Spacing ==
  /\ elapsed - last_trigger_ <= since
  /\ RoundPending => since <= RoundTime
  /\ gui # "idle" => since = 0 /\ ~RoundPending

\* No step of the planner thread alone makes a round pending.
LEMMA PlannerStepPending ==
  ASSUME PostTypeOK, PlannerStep
  PROVE  RoundPending /\ UNCHANGED <<gui, elapsed, last_trigger_, since>>
BY DEF PlannerStep, StartRound, Plan, EndRound, SendAutoMove, RoundPending,
       PostTypeOK, guiVars, clockVars

\* MoveToPostWork never writes the copies while a round that reads them is
\* queued or running.
THEOREM ThreadsStayApart == PostSpec => []NoDataRace
<1> USE PostWorkAssumption, RoundsAreShort
<1>1. PostInit => Spacing
  BY DEF PostInit, Spacing, RoundPending
<1>2. PostTypeOK /\ Spacing /\ [PostNext]_postVars => Spacing'
  <2> SUFFICES ASSUME PostTypeOK, Spacing, [PostNext]_postVars PROVE Spacing'
    OBVIOUS
  <2>1. CASE UNCHANGED <<elapsed, last_trigger_, since, gui, queued, planner>>
    BY <2>1 DEF Spacing, RoundPending
  <2>2. CASE Tick
    <3>1. /\ gui = "idle" /\ gui' = "idle" /\ (RoundPending' <=> RoundPending)
          /\ RoundPending => since < RoundTime
          /\ last_trigger_' = last_trigger_ /\ elapsed' = (elapsed + 1) % Day
          /\ since' = IF since < Day THEN since + 1 ELSE since
      BY <2>2 DEF Tick, RoundPending, guiVars, plannerVars
    <3>2. elapsed' \in 0..(Day - 1) /\ elapsed' <= elapsed + 1
      BY <3>1, TickRange DEF PostTypeOK
    <3>3. elapsed' - last_trigger_' <= since'  BY <3>1, <3>2 DEF PostTypeOK, Spacing
    <3>4. RoundPending' => since' <= RoundTime  BY <3>1 DEF PostTypeOK, Spacing
    <3> QED  BY <3>1, <3>3, <3>4 DEF Spacing
  <2>3. ASSUME NEW found \in SUBSET Robot, Trigger(found) PROVE Spacing'
    <3>1. /\ elapsed - last_trigger_ > INTERVAL_POST_TASK
          /\ last_trigger_' = elapsed /\ elapsed' = elapsed /\ since' = 0
          /\ RoundPending' <=> RoundPending
      BY <2>3 DEF Trigger, RoundPending, plannerVars
    <3>2. ~RoundPending  BY <3>1 DEF Spacing, PostTypeOK
    <3> QED  BY <3>1, <3>2 DEF Spacing, PostTypeOK
  <2>4. CASE CopyTarget \/ CopyInfo
    BY <2>4 DEF CopyTarget, CopyInfo, Spacing, RoundPending, plannerVars, clockVars
  <2>5. CASE EmitPlannerUpdate
    BY <2>5 DEF EmitPlannerUpdate, Spacing, RoundPending, plannerVars, clockVars
  <2>6. CASE PlannerStep
    BY <2>6, PlannerStepPending DEF Spacing
  <2> QED  BY <2>1, <2>2, <2>3, <2>4, <2>5, <2>6
           DEF PostNext, postVars, guiVars, plannerVars, clockVars, startPlanner,
               pushTarget, removeTarget
<1>3. Spacing => NoDataRace
  BY DEF Spacing, NoDataRace
<1> QED  BY <1>1, <1>2, <1>3, PipelineTypeCorrect, PTL DEF PostSpec

-----------------------------------------------------------------------------
(* A round is planned from one trigger's copies.                           *)

\* From the trigger's last copy to the round's end the lengths agree.
Lengths ==
  /\ RoundPending \/ gui = "emit" => target_len_ = Len(target_list_)
  /\ planner # "idle" => action_size = Len(target_list_)
  /\ ~overrun

\* The array of actions has room for what Plan writes, and what it is planned
\* from does not change under it.
THEOREM RoundsAreConsistent == PostSpec => []RoundIsConsistent
<1>1. PostInit => Lengths
  BY DEF PostInit, Lengths, RoundPending
<1>2. PostTypeOK /\ NoDataRace /\ NoDataRace' /\ Lengths /\ [PostNext]_postVars => Lengths'
  <2> SUFFICES ASSUME PostTypeOK, NoDataRace, NoDataRace', Lengths, [PostNext]_postVars
         PROVE  Lengths'
    OBVIOUS
  <2> USE DEF Lengths, RoundPending, NoDataRace
  <2>1. CASE UNCHANGED <<target_list_, target_len_, action_size, overrun, gui, queued,
                         planner>>
    BY <2>1
  <2>2. ASSUME NEW found \in SUBSET Robot, Trigger(found) PROVE Lengths'
    <3>1. gui' = "copying" /\ overrun' = overrun
      BY <2>2 DEF Trigger, historyVars
    <3>2. ~RoundPending'  BY <3>1
    <3> QED  BY <3>1, <3>2
  <2>3. CASE CopyTarget
    BY <2>3 DEF CopyTarget, plannerVars, historyVars
  <2>4. CASE CopyInfo
    BY <2>4 DEF CopyInfo, plannerVars, historyVars
  <2>5. CASE EmitPlannerUpdate
    BY <2>5 DEF EmitPlannerUpdate, sharedVars, plannerVars, historyVars
  <2>6. CASE StartRound
    BY <2>6 DEF StartRound, sharedVars, guiVars, historyVars
  <2>7. CASE Plan
    <3>1. target_len_ = action_size /\ target_len_ \in Nat  BY <2>7 DEF Plan, PostTypeOK
    <3>2. ~(target_len_ > action_size)  BY <3>1
    <3>3. overrun' = (overrun \/ target_len_ > action_size)  BY <2>7, Zenon DEF Plan
    <3>4. ~overrun'  BY <3>2, <3>3, Zenon
    <3> QED  BY <2>7, <3>4 DEF Plan, sharedVars, guiVars
  <2>8. CASE EndRound
    BY <2>8 DEF EndRound, sharedVars, guiVars, historyVars
  <2> QED  BY <2>1, <2>2, <2>3, <2>4, <2>5, <2>6, <2>7, <2>8
           DEF PostNext, PlannerStep, postVars, guiVars, sharedVars, plannerVars, clockVars,
               historyVars, startPlanner, pushTarget, removeTarget, Tick, SendAutoMove
<1>3. Lengths => RoundIsConsistent
  BY DEF Lengths, RoundIsConsistent, RoundPending
<1> QED  BY <1>1, <1>2, <1>3, PipelineTypeCorrect, ThreadsStayApart, PTL DEF PostSpec

-----------------------------------------------------------------------------
(* At most one late move.                                                  *)

\* The robots that a round queued or begun has targets for.
Wanted == {target_list_[k] : k \in 1..Len(target_list_)}

\* Rounds are one at a time, from the signal to the end of the slot.
OneRound ==
  /\ queued <= 1
  /\ planner # "idle" => queued = 0
  /\ planner # "sending" => actions = {}

\* What is being copied is for robots that have a target.
CopiesCurrent == gui # "idle" => todo \subseteq target_map_ /\ Wanted \subseteq target_map_

\* A robot without a target has been sent no late move as long as one is still to
\* come, from a round not yet planned or from the actions of one that is.
Spent(r) ==
  /\ late[r] <= 1
  /\ queued > 0 \/ planner = "planning" => late[r] = 0 \/ r \notin Wanted
  /\ r \in actions => late[r] = 0
LateMoves == ~garbage => \A r \in Robot \ target_map_ : Spent(r)

RoundInv == OneRound /\ CopiesCurrent /\ LateMoves

\* What a step that changes no list and no target must keep.
LEMMA WantedKept ==
  ASSUME UNCHANGED target_list_
  PROVE  Wanted' = Wanted
BY DEF Wanted

\* Without a lost robot nothing is left uninitialised, and a round moves no robot
\* that its list does not name.
LEMMA PlanMovesWanted ==
  ASSUME PostTypeOK, Plan, ~garbage'
  PROVE  ~garbage /\ actions' \subseteq Wanted
<1>1. PICK junk \in SUBSET Robot :
        /\ Cardinality(junk) <= Cardinality(Wanted \ xpider_list_)
        /\ actions' = (Wanted \cap xpider_list_) \cup junk
  BY DEF Plan, Wanted
<1>2. garbage' = (garbage \/ Wanted \ xpider_list_ # {})
  BY Zenon DEF Plan, Wanted
<1>3. ~garbage /\ Wanted \ xpider_list_ = {}  BY <1>2, Zenon
<1>4. Cardinality(junk) \in Nat /\ Cardinality(junk) <= 0 /\ IsFiniteSet(junk)
  BY <1>1, <1>3, RobotSets, FS_EmptySet
<1>5. junk = {}  BY <1>4, FS_EmptySet
<1> QED  BY <1>1, <1>3, <1>5

\* A robot whose target was removed is set going again at most once, by the round in
\* flight at that moment, unless an action that Plan left uninitialised names it: the
\* unlocked copies give no round a second chance.
THEOREM LateMovesAreFew == PostSpec => []AtMostOneLateMove
<1>1. PostInit => RoundInv
  <2> SUFFICES ASSUME PostInit PROVE RoundInv
    OBVIOUS
  <2>1. \A r \in Robot : late[r] = 0  BY DEF PostInit
  <2> QED
    BY <2>1 DEF PostInit, RoundInv, OneRound, CopiesCurrent, LateMoves, Spent
<1>2. PostTypeOK /\ NoDataRace /\ RoundInv /\ [PostNext]_postVars => RoundInv'
  <2> SUFFICES ASSUME PostTypeOK, NoDataRace, RoundInv, [PostNext]_postVars
         PROVE  RoundInv'
    OBVIOUS
  <2> USE DEF RoundInv
  <2>1. CASE UNCHANGED <<target_map_, gui, todo, target_list_, queued, planner, actions, late,
                         garbage>>
    BY <2>1, WantedKept DEF OneRound, CopiesCurrent, LateMoves, Spent
  <2>2. ASSUME NEW r \in Robot, pushTarget(r) \/ removeTarget(r) PROVE RoundInv'
    <3>1. /\ gui' = "idle" /\ late' = [late EXCEPT ![r] = 0] /\ garbage' = garbage
          /\ UNCHANGED <<queued, planner, actions, target_list_>>
          /\ \A s \in Robot \ target_map_' : s = r \/ s \in Robot \ target_map_
      BY <2>2 DEF pushTarget, removeTarget, sharedVars, plannerVars
    <3>2. OneRound' /\ CopiesCurrent'
      BY <3>1 DEF OneRound, CopiesCurrent
    <3>3. ASSUME ~garbage', NEW s \in Robot \ target_map_' PROVE Spent(s)'
      <4>1. CASE s = r
        BY <3>1, <4>1 DEF Spent, PostTypeOK
      <4>2. CASE s # r
        <5>1. late'[s] = late[s] /\ Spent(s)
          BY <3>1, <3>3, <4>2 DEF LateMoves, PostTypeOK
        <5> QED  BY <3>1, <5>1, WantedKept DEF Spent
      <4> QED  BY <4>1, <4>2
    <3> QED  BY <3>2, <3>3 DEF LateMoves
  <2>3. ASSUME NEW found \in SUBSET Robot, Trigger(found) PROVE RoundInv'
    <3>1. /\ gui' = "copying" /\ todo' = target_map_ /\ target_list_' = <<>>
          /\ UNCHANGED <<target_map_, queued, planner, actions, late, garbage>>
      BY <2>3 DEF Trigger, plannerVars, historyVars
    <3>2. Wanted' = {}  BY <3>1 DEF Wanted
    <3> QED  BY <3>1, <3>2 DEF OneRound, CopiesCurrent, LateMoves, Spent
  <2>4. CASE CopyTarget
    <3>1. PICK r \in todo : /\ target_list_' = Append(target_list_, r)
                            /\ todo' = todo \ {r}
      BY <2>4 DEF CopyTarget
    <3>2. /\ gui = "copying" /\ gui' = "copying"
          /\ UNCHANGED <<target_map_, queued, planner, actions, late, garbage>>
      BY <2>4 DEF CopyTarget, plannerVars, historyVars
    <3>3. Wanted' = Wanted \cup {r}
      BY <3>1 DEF Wanted, PostTypeOK
    <3>4. r \in target_map_ /\ ~RoundPending
      BY <3>2 DEF CopiesCurrent, NoDataRace
    <3> QED
      BY <3>1, <3>2, <3>3, <3>4 DEF OneRound, CopiesCurrent, LateMoves, Spent, RoundPending, PostTypeOK
  <2>5. CASE CopyInfo
    <3>1. gui = "copying" /\ UNCHANGED <<target_map_, todo, target_list_, queued, planner,
                                         actions, late, garbage>>
      BY <2>5 DEF CopyInfo, plannerVars, historyVars
    <3> QED  BY <3>1, WantedKept DEF OneRound, CopiesCurrent, LateMoves, Spent
  <2>6. CASE EmitPlannerUpdate
    <3>1. /\ gui = "emit" /\ gui' = "idle" /\ queued' = queued + 1
          /\ UNCHANGED <<target_map_, todo, target_list_, planner, actions, late, garbage>>
      BY <2>6 DEF EmitPlannerUpdate, sharedVars, plannerVars, historyVars
    <3>2. queued = 0 /\ planner = "idle" /\ actions = {} /\ Wanted \subseteq target_map_
      BY <3>1 DEF NoDataRace, RoundPending, OneRound, CopiesCurrent, PostTypeOK
    <3> QED  BY <3>1, <3>2, WantedKept DEF OneRound, CopiesCurrent, LateMoves, Spent
  <2>7. CASE StartRound
    <3>1. /\ queued' = queued - 1 /\ planner' \in {"idle", "planning"} /\ queued > 0
          /\ UNCHANGED <<target_map_, gui, todo, target_list_, actions, late, garbage>>
          /\ planner = "idle"
      BY <2>7 DEF StartRound, guiVars, sharedVars, historyVars
    <3> QED  BY <3>1, WantedKept DEF OneRound, CopiesCurrent, LateMoves, Spent, PostTypeOK
  <2>8. CASE Plan
    <3>1. /\ planner = "planning" /\ planner' = "sending"
          /\ UNCHANGED <<target_map_, gui, todo, target_list_, queued, late>>
      BY <2>8 DEF Plan, guiVars, sharedVars
    <3>2. OneRound' /\ CopiesCurrent'
      BY <3>1, WantedKept DEF OneRound, CopiesCurrent
    <3>3. ~garbage' => ~garbage /\ actions' \subseteq Wanted
      BY <2>8, PlanMovesWanted
    <3>4. queued' = 0
      BY <3>1 DEF OneRound
    <3> QED  BY <3>1, <3>2, <3>3, <3>4 DEF LateMoves, Spent
  <2>9. ASSUME NEW r \in Robot, SendAutoMove(r) PROVE RoundInv'
    <3>1. /\ planner = "sending" /\ r \in actions /\ actions' = actions \ {r}
          /\ UNCHANGED <<target_map_, gui, todo, target_list_, queued, planner, garbage>>
          /\ late' = [late EXCEPT ![r] = IF r \in target_map_ \/ @ = 2 THEN @ ELSE @ + 1]
      BY <2>9 DEF SendAutoMove, guiVars, sharedVars
    <3>2. OneRound' /\ CopiesCurrent' /\ queued' = 0 /\ planner' = "sending"
      BY <3>1, WantedKept DEF OneRound, CopiesCurrent
    <3>3. ASSUME ~garbage', NEW s \in Robot \ target_map_' PROVE Spent(s)'
      <4>1. Spent(s)
        BY <3>1, <3>3 DEF LateMoves
      <4>2. CASE s = r
        <5>1. late[r] = 0 /\ late'[r] = 1
          BY <3>1, <3>3, <4>1, <4>2 DEF Spent, PostTypeOK
        <5> QED  BY <3>1, <3>2, <4>2, <5>1 DEF Spent
      <4>3. CASE s # r
        <5>1. late'[s] = late[s]
          BY <3>1, <4>3 DEF PostTypeOK
        <5> QED  BY <3>1, <3>2, <4>1, <5>1 DEF Spent
      <4> QED  BY <4>2, <4>3
    <3> QED  BY <3>2, <3>3 DEF LateMoves
  <2>10. CASE EndRound
    <3>1. /\ planner = "sending" /\ planner' = "idle" /\ actions = {}
          /\ UNCHANGED <<target_map_, gui, todo, target_list_, queued, actions, late, garbage>>
      BY <2>10 DEF EndRound, guiVars, sharedVars, historyVars
    <3> QED  BY <3>1, WantedKept DEF OneRound, CopiesCurrent, LateMoves, Spent, PostTypeOK
  <2> QED  BY <2>1, <2>2, <2>3, <2>4, <2>5, <2>6, <2>7, <2>8, <2>9, <2>10
           DEF PostNext, PlannerStep, postVars, guiVars, sharedVars, plannerVars, clockVars,
               historyVars, startPlanner, Tick
<1>3. RoundInv => AtMostOneLateMove
  BY DEF RoundInv, LateMoves, Spent, AtMostOneLateMove
<1> QED  BY <1>1, <1>2, <1>3, PipelineTypeCorrect, ThreadsStayApart, PTL DEF PostSpec
=============================================================================
