------------------------ MODULE XpiderProtocolProofs ------------------------
(***************************************************************************)
(* That the two kinds of message never mix in totalMsg, that what is read  *)
(* and what is awaited add up to the length announced, that a message      *)
(* reported whole is whole, and that packets which all arrive are put      *)
(* together as they were cut: for all messages, packet sizes and losses.   *)
(*                                                                         *)
(* Then that the parsers read back what GetBuffer wrote, and that what was *)
(* read stays stored, whatever is lost or dropped of later messages.       *)
(***************************************************************************)
EXTENDS XpiderProtocol, SequenceTheorems, NaturalsInduction, WellFoundedInduction, TLAPS

\* What the sender holds: a whole message before the first packet, and after it
\* enough for a packet that could be taken for a first one.
SenderInv ==
  /\ cur \in Message /\ rest \in Seq(Byte) /\ started \in BOOLEAN
  /\ ~started /\ rest # <<>> => rest = GetBuffer(cur)
  /\ started /\ rest # <<>> => Len(rest) >= HeaderLength - 1

ReceiverType ==
  /\ totalMsg \in Seq(Byte)
  /\ totalMsg # <<>> => Len(totalMsg) >= HeaderLength /\ Head(totalMsg) \in Kind
  /\ unread \in [Kind -> 0..(U16 - 1)]
  /\ isWhole \in [Kind -> BOOLEAN]

IInv ==
  /\ SenderInv /\ ReceiverType /\ AssemblesOneMessage
  /\ KindsDoNotMix /\ LengthAsAnnounced /\ WholeIsVerified

-----------------------------------------------------------------------------
(* Arithmetic modulo U16.                                                   *)

\* A remainder is in range.
LEMMA ModRange == ASSUME NEW a \in Int PROVE a % U16 \in 0..(U16 - 1)
<1>1. a % 65536 \in Int /\ 0 <= a % 65536 /\ a % 65536 < 65536
  OBVIOUS
<1>2. U16 \in Int /\ a % U16 \in Int /\ 0 <= a % U16 /\ a % U16 < U16
  BY <1>1, SMTT(60) DEF U16
<1> QED BY <1>2

\* What is taken off a uint16_t counter and added elsewhere cancels, wrap or not.
LEMMA ModCancels ==
  ASSUME NEW a \in Int, NEW b \in Int
  PROVE  (b + ((a - b) % U16)) % U16 = a % U16
<1>1. PICK q \in Int : a - b = (65536 * q) + ((a - b) % 65536)
  <2>1. a - b = (65536 * ((a - b) \div 65536)) + ((a - b) % 65536)
    OBVIOUS
  <2> QED BY <2>1
<1>2. b + ((a - b) % 65536) = a - (65536 * q)
  BY <1>1
<1>3. (a - (65536 * q)) % 65536 = a % 65536
  BY <1>1
<1> QED BY <1>2, <1>3, SMTT(60) DEF U16

\* A uint16_t is its own remainder.
LEMMA ModSmall == ASSUME NEW a \in 0..(U16 - 1) PROVE a % U16 = a
<1>1. U16 \in Int
  BY Z3 DEF U16
<1>2. a \in Int /\ 0 <= a /\ a < U16
  BY <1>1
<1>3. a \in Int /\ 0 <= a /\ a < 65536
  BY <1>2, Z3 DEF U16
<1>4. a = (65536 * (a \div 65536)) + (a % 65536)
  BY <1>3
<1>5. 0 <= a % 65536 /\ a % 65536 < 65536 /\ a % 65536 \in Int /\ a \div 65536 \in Int
  BY <1>3
<1>6. a \div 65536 = 0
  BY <1>3, <1>4, <1>5
<1>7. a % 65536 = a
  BY <1>3, <1>4, <1>5, <1>6
<1> QED BY <1>7, Z3 DEF U16

\* What is below a uint16_t is one.
LEMMA BelowU16 ==
  ASSUME NEW a \in 0..(U16 - 1), NEW b \in Nat, b <= a PROVE b \in 0..(U16 - 1)
<1>1. U16 \in Int
  BY Z3 DEF U16
<1> QED BY <1>1

\* Two bytes make a uint16_t.
LEMMA TwoBytes ==
  ASSUME NEW a \in Byte, NEW b \in Byte
  PROVE  a + (U8 * b) \in 0..(U16 - 1)
<1>1. a \in Int /\ 0 <= a /\ a <= 255 /\ b \in Int /\ 0 <= b /\ b <= 255
  BY DEF Byte, U8
<1>2. a + (256 * b) \in Int /\ 0 <= a + (256 * b) /\ a + (256 * b) <= U16 - 1
  BY <1>1, SMTT(60) DEF U16
<1> QED BY <1>2 DEF U8

\* The announced length is a uint16_t, and lies in the header.
LEMMA AnnouncedLength ==
  ASSUME NEW m \in Seq(Byte), Len(m) >= HeaderLength
  PROVE  /\ LengthField(m) \in 0..(U16 - 1)
         /\ \A t \in Seq(Byte) : LengthField(m \o t) = LengthField(m)
<1>1. At(m, 2) = m[3] /\ At(m, 3) = m[4] /\ m[3] \in Byte /\ m[4] \in Byte
  BY DEF At, HeaderLength
<1>2. ASSUME NEW t \in Seq(Byte) PROVE LengthField(m \o t) = LengthField(m)
  <2>1. Len(m \o t) >= 4 /\ (m \o t)[3] = m[3] /\ (m \o t)[4] = m[4]
    BY DEF HeaderLength
  <2>2. At(m \o t, 2) = m[3] /\ At(m \o t, 3) = m[4]
    BY <2>1 DEF At
  <2> QED BY <1>1, <2>2 DEF LengthField
<1>3. LengthField(m) = m[3] + (U8 * m[4])
  BY <1>1 DEF LengthField
<1>4. LengthField(m) \in 0..(U16 - 1)
  BY <1>1, <1>3, TwoBytes
<1> QED BY <1>2, <1>4

\* The header GetBuffer writes names the kind and the length of the message.
LEMMA MessageHeader ==
  ASSUME NEW msg \in Message
  PROVE  /\ GetBuffer(msg) \in Seq(Byte) /\ Len(GetBuffer(msg)) >= HeaderLength
         /\ Head(GetBuffer(msg)) = msg.kind
         /\ LengthField(GetBuffer(msg)) = Len(GetBuffer(msg))
<1> DEFINE body == Body(msg)
           length == HeaderLength + Len(body) + 1
           low == length % U8
           high == (length \div U8) % U8
           start == <<msg.kind, msg.info.ver, low, high>>
           whole == start \o body
           m == Append(whole, SumCRC(whole))
<1>1. GetBuffer(msg) = m
  BY DEF GetBuffer, Framed
<1>2. body \in Seq(Byte) /\ m \in Seq(Byte) /\ Len(m) < 65536
  <2>1. /\ Body(msg) \in Seq(Byte) /\ GetBuffer(msg) \in Seq(Byte)
        /\ Len(GetBuffer(msg)) < U16
    BY MessageAssumption, Zenon
  <2> HIDE DEF m
  <2> QED BY <2>1, <1>1 DEF U16
<1> HIDE DEF body
<1>3. /\ Len(whole) = 4 + Len(body)
      /\ whole[1] = msg.kind /\ whole[3] = low /\ whole[4] = high
  <2>1. Len(start) = 4 /\ start[1] = msg.kind /\ start[3] = low /\ start[4] = high
    OBVIOUS
  <2> HIDE DEF start
  <2> DEFINE S == Byte \cup {msg.kind, msg.info.ver, low, high}
  <2>2. start \in Seq(S)
    BY DEF start
  <2>3. body \in Seq(S) /\ Len(body) \in Nat
    BY <1>2
  <2> HIDE DEF S, low, high
  <2>4. /\ Len(start \o body) = 4 + Len(body)
        /\ \A j \in 1..(4 + Len(body)) :
             (start \o body)[j] = IF j <= 4 THEN start[j] ELSE body[j - 4]
    <3>1. /\ Len(start \o body) = Len(start) + Len(body)
          /\ \A j \in 1..(Len(start) + Len(body)) :
               (start \o body)[j] = IF j <= Len(start) THEN start[j]
                                    ELSE body[j - Len(start)]
      BY <2>2, <2>3, ConcatProperties, Zenon
    <3> QED BY <3>1, <2>1
  <2> QED BY <2>1, <2>3, <2>4
<1>4. /\ Len(m) = length
      /\ m[1] = msg.kind /\ m[3] = low /\ m[4] = high
  <2>1. whole \in Seq(Byte \cup {msg.kind, msg.info.ver, low, high})
    BY <1>2
  <2> HIDE DEF whole
  <2> QED BY <2>1, <1>2, <1>3 DEF HeaderLength
<1>5. Len(m) \in Nat /\ Len(m) >= HeaderLength
  BY <1>2, <1>4 DEF HeaderLength
<1>6. At(m, 2) = low /\ At(m, 3) = high
  <2> HIDE DEF m, low, high
  <2> QED BY <1>2, <1>4, <1>5 DEF At, HeaderLength
<1>7. low + (U8 * high) = length
  <2>1. length \in Nat /\ length < 65536
    BY <1>2, <1>4
  <2> HIDE DEF length
  <2>2. length = (256 * (length \div 256)) + (length % 256)
        /\ length \div 256 \in Int /\ length % 256 \in 0..255
    BY <2>1
  <2>3. 0 <= length \div 256 /\ length \div 256 < 256
    BY <2>1, <2>2
  <2>4. \A q \in Int : 0 <= q /\ q < 256 => q % 256 = q
    <3> TAKE q \in Int
    <3>1. q = (256 * (q \div 256)) + (q % 256) /\ q \div 256 \in Int
          /\ 0 <= q % 256 /\ q % 256 < 256
      OBVIOUS
    <3>2. ASSUME 0 <= q, q < 256 PROVE q \div 256 = 0
      BY <3>1, <3>2
    <3> QED BY <3>1, <3>2
  <2>5. (length \div 256) % 256 = length \div 256
    BY <2>2, <2>3, <2>4
  <2> QED BY <2>2, <2>5 DEF U8
<1>8. Head(m) = m[1]
  OBVIOUS
<1> QED
  <2> HIDE DEF m, low, high, length
  <2> QED BY <1>1, <1>2, <1>4, <1>5, <1>6, <1>7, <1>8 DEF LengthField

\* A packet is never shorter than a header and starts with a type byte, so
\* CombineMsg may read its length field.
LEMMA PacketHasHeader ==
  ASSUME SenderInv, rest # <<>>, NEW n \in NextSize
  PROVE  /\ n \in Nat /\ Cut(n) \in 1..Len(rest)
         /\ Packet(n) \in Seq(Byte) /\ Len(Packet(n)) >= HeaderLength
         /\ Head(Packet(n)) = cur.kind /\ cur.kind \in Kind
<1>0. ~started => Len(rest) >= HeaderLength
  BY MessageHeader DEF SenderInv
<1>1. n \in Nat /\ n >= HeaderLength
  BY <1>0, PacketAssumption DEF SenderInv, NextSize, HeaderLength, U8
<1>2. Cut(n) \in 1..Len(rest) /\ Cut(n) \in Nat
  BY <1>1, PacketAssumption DEF SenderInv, NextSize, HeaderLength, Cut, U8
<1>3. SubSeq(rest, 1, Cut(n)) \in Seq(Byte) /\ Len(SubSeq(rest, 1, Cut(n))) = Cut(n)
  BY <1>2 DEF SenderInv
<1>4. SubSeq(rest, 1, Cut(n))[1] = rest[1]
  BY <1>2 DEF SenderInv
<1>5. cur.kind \in Kind /\ cur.kind \in Byte
  BY DEF SenderInv, Message, Kind, kGroupInfo, kNNInfo, Byte, U8
<1>6. CASE started
  <2>1. Packet(n) = <<cur.kind>> \o SubSeq(rest, 1, Cut(n)) /\ Cut(n) = n - 1
    BY <1>6 DEF Packet, Cut
  <2>2. <<cur.kind>> \in Seq(Byte) /\ Len(<<cur.kind>>) = 1 /\ <<cur.kind>>[1] = cur.kind
    BY <1>5
  <2> QED BY <1>1, <1>2, <1>3, <1>5, <2>1, <2>2
<1>7. CASE ~started
  <2>1. Packet(n) = SubSeq(rest, 1, Cut(n)) /\ Cut(n) = n
    BY <1>7, <1>3 DEF Packet, Cut
  <2>2. Head(rest) = cur.kind
    BY <1>7, MessageHeader DEF SenderInv
  <2> QED BY <1>1, <1>2, <1>3, <1>4, <1>5, <2>1, <2>2 DEF SenderInv
<1> QED BY <1>6, <1>7 DEF SenderInv

-----------------------------------------------------------------------------
(* The end of CombineMsg.                                                   *)

\* Whatever message of its kind is in totalMsg when Finish is reached, with the
\* counters as they should be, the receiver is left in order.
LEMMA FinishKeepsOrder ==
  ASSUME ReceiverType, WholeIsVerified,
         NEW k \in Kind, NEW total \in Seq(Byte), Len(total) >= HeaderLength,
         Head(total) \in Kind,
         unread' \in [Kind -> 0..(U16 - 1)],
         \A j \in Kind : unread'[j] # 0 => j = Head(total),
         (Len(total) + unread'[Head(total)]) % U16 = LengthField(total),
         \/ k = Head(total)
         \/ total = totalMsg /\ unread' = unread,
         Finish(k, total)
  PROVE  ReceiverType' /\ KindsDoNotMix' /\ LengthAsAnnounced' /\ WholeIsVerified'
<1>0. total # <<>>
  BY DEF HeaderLength
<1>1. CASE StillUnread(k, total)
  <2>1. totalMsg' = total /\ isWhole' = [isWhole EXCEPT ![k] = FALSE]
        /\ unread'[Head(total)] # 0
    BY <1>1 DEF StillUnread
  <2>2. ReceiverType'
    BY <1>0, <2>1 DEF ReceiverType
  <2>3. KindsDoNotMix'
    BY <1>0, <2>1 DEF KindsDoNotMix
  <2>4. LengthAsAnnounced'
    <3>1. LengthField(totalMsg)' = LengthField(total)
      BY <2>1 DEF LengthField, At
    <3> QED BY <2>1, <3>1 DEF LengthAsAnnounced
  <2>5. ~isWhole'[Head(total)]
    BY <2>1 DEF ReceiverType, WholeIsVerified, HeaderLength
  <2> QED BY <2>1, <2>2, <2>3, <2>4, <2>5 DEF WholeIsVerified
<1>2. CASE BadCRC(k, total)
  BY <1>2 DEF BadCRC, ReceiverType, KindsDoNotMix, LengthAsAnnounced, WholeIsVerified
<1>3. CASE WholeMsg(k, total)
  <2>1. totalMsg' = total /\ unread'[Head(total)] = 0 /\ GetCRCResult(total)
        /\ isWhole' \in [Kind -> BOOLEAN]
    BY <1>3 DEF WholeMsg, ReceiverType
  <2> QED
    BY <1>0, <2>1 DEF ReceiverType, KindsDoNotMix, LengthAsAnnounced, WholeIsVerified
<1> QED BY <1>1, <1>2, <1>3 DEF Finish

\* GetMessage keeps the receiver in order.
LEMMA GetMessageKeepsOrder ==
  ASSUME ReceiverType, KindsDoNotMix, LengthAsAnnounced, WholeIsVerified,
         NEW b \in Seq(Byte), Len(b) >= HeaderLength, Head(b) \in Kind,
         GetMessage(b)
  PROVE  ReceiverType' /\ KindsDoNotMix' /\ LengthAsAnnounced' /\ WholeIsVerified'
<1> DEFINE k == Head(b)
<1>0. LengthField(b) \in 0..(U16 - 1) /\ Len(b) \in Nat /\ b # <<>>
  BY AnnouncedLength DEF HeaderLength
<1>1. CASE FirstPacket(b)
  <2>1. unread' = [unread EXCEPT ![k] = (LengthField(b) - Len(b)) % U16]
        /\ totalMsg = <<>> /\ Finish(k, b)
    BY <1>1 DEF FirstPacket
  <2>2. (LengthField(b) - Len(b)) % U16 \in 0..(U16 - 1)
        /\ (Len(b) + ((LengthField(b) - Len(b)) % U16)) % U16 = LengthField(b)
    <3>1. LengthField(b) \in Int /\ LengthField(b) - Len(b) \in Int
      BY <1>0
    <3> QED BY <1>0, <3>1, ModRange, ModCancels, ModSmall
  <2>3. unread' \in [Kind -> 0..(U16 - 1)]
        /\ unread'[k] = (LengthField(b) - Len(b)) % U16
    BY <2>1, <2>2 DEF ReceiverType
  <2>4. \A j \in Kind : unread'[j] # 0 => j = k
    BY <2>1 DEF ReceiverType, KindsDoNotMix
  <2> QED BY <2>1, <2>2, <2>3, <2>4, FinishKeepsOrder
<1>2. CASE NextPacket(b)
  <2> DEFINE total == totalMsg \o Tail(b)
             u == unread[k]
             t == Len(Tail(b))
  <2>1. unread' = [unread EXCEPT ![k] = (@ - Len(Tail(b))) % U16]
        /\ totalMsg # <<>> /\ unread[k] # 0 /\ Finish(k, total)
    BY <1>2 DEF NextPacket
  <2>2. k = Head(totalMsg) /\ u \in 0..(U16 - 1) /\ t \in Nat
        /\ Tail(b) \in Seq(Byte) /\ Len(totalMsg) \in Nat
    BY <1>0, <2>1 DEF KindsDoNotMix, ReceiverType
  <2>3. total \in Seq(Byte) /\ Len(total) = Len(totalMsg) + t
        /\ Len(total) >= HeaderLength /\ Head(total) = k
    BY <2>1, <2>2 DEF ReceiverType, HeaderLength
  <2>4. LengthField(total) = LengthField(totalMsg)
    BY <2>1, <2>2, AnnouncedLength DEF ReceiverType
  <2>5. (u - t) % U16 \in 0..(U16 - 1)
        /\ (Len(total) + ((u - t) % U16)) % U16 = (Len(totalMsg) + u) % U16
    <3> DEFINE a == Len(totalMsg) + u
               c == Len(totalMsg) + t
    <3>1. u \in Int /\ u - t \in Int /\ a \in Int /\ c \in Int
      BY <2>2
    <3>2. a - c = u - t /\ Len(total) = c
      BY <2>2, <2>3
    <3>3. (c + ((a - c) % U16)) % U16 = a % U16
      BY <3>1, ModCancels
    <3> QED BY <3>1, <3>2, <3>3, ModRange
  <2>6. unread' \in [Kind -> 0..(U16 - 1)] /\ unread'[k] = (u - t) % U16
    BY <2>1, <2>5 DEF ReceiverType
  <2>7. \A j \in Kind : unread'[j] # 0 => j = k
    BY <2>1, <2>2 DEF ReceiverType, KindsDoNotMix
  <2>8. (Len(total) + unread'[k]) % U16 = LengthField(total)
    BY <2>1, <2>2, <2>3, <2>4, <2>5, <2>6 DEF LengthAsAnnounced
  <2> HIDE DEF total, u, t
  <2> QED BY <2>1, <2>3, <2>6, <2>7, <2>8, FinishKeepsOrder
<1>3. CASE UnexpectedPacket(b)
  <2>1. totalMsg # <<>> /\ unread' = unread /\ Finish(k, totalMsg)
    BY <1>3 DEF UnexpectedPacket
  <2>2. totalMsg \in Seq(Byte) /\ Len(totalMsg) >= HeaderLength
        /\ Head(totalMsg) \in Kind /\ unread' \in [Kind -> 0..(U16 - 1)]
    BY <2>1 DEF ReceiverType
  <2>3. \A j \in Kind : unread'[j] # 0 => j = Head(totalMsg)
    BY <2>1 DEF KindsDoNotMix
  <2>4. (Len(totalMsg) + unread'[Head(totalMsg)]) % U16 = LengthField(totalMsg)
    BY <2>1 DEF LengthAsAnnounced
  <2> QED BY <2>1, <2>2, <2>3, <2>4, FinishKeepsOrder
<1> QED BY <1>1, <1>2, <1>3 DEF GetMessage

-----------------------------------------------------------------------------
(* The inductive invariant.                                                 *)

\* The constructor and the first message leave everything in order.
LEMMA InitInv == Init => IInv
<1> SUFFICES ASSUME Init PROVE IInv
  OBVIOUS
<1> QED
  <2>1. totalMsg = <<>> /\ rest = <<>> /\ started = FALSE /\ cur \in Message
        /\ unread = [k \in Kind |-> 0] /\ isWhole = [k \in Kind |-> FALSE]
    BY DEF Init
  <2>2. 0 \in 0..(U16 - 1)
    BY DEF U16
  <2>3. SenderInv
    <3>0. <<>> \in Seq(Byte)
      OBVIOUS
    <3>1. rest \in Seq(Byte)
      BY <2>1, <3>0, Zenon
    <3>2. started \in BOOLEAN /\ ~started
      BY <2>1, Zenon
    <3> QED BY <2>1, <3>1, <3>2, Zenon DEF SenderInv
  <2>4. ReceiverType
    BY <2>1, <2>2 DEF ReceiverType
  <2> QED
    BY <2>1, <2>3, <2>4 DEF IInv, KindsDoNotMix, LengthAsAnnounced, WholeIsVerified,
                            AssemblesOneMessage

\* Cutting a packet off leaves nothing or enough for another.
LEMMA SendKeepsSender ==
  ASSUME SenderInv, NEW n \in NextSize, SendPacket(n)
  PROVE  SenderInv'
<1>1. rest # <<>> /\ rest' = SubSeq(rest, Cut(n) + 1, Len(rest))
      /\ started' = TRUE /\ cur' = cur
  BY DEF SendPacket
<1>2. Cut(n) \in 1..Len(rest) /\ n \in Nat
  BY <1>1, PacketHasHeader
<1>3. rest' \in Seq(Byte) /\ Len(rest') = Len(rest) - Cut(n)
  BY <1>1, <1>2 DEF SenderInv
<1>4. Len(rest') = 0 \/ Len(rest') >= HeaderLength - 1
  BY <1>2, <1>3 DEF NextSize, Cut, SenderInv
<1>5. rest' # <<>> => Len(rest') # 0
  BY <1>3
<1> QED BY <1>1, <1>3, <1>4, <1>5 DEF SenderInv

\* A sequence is its first c elements and the others.
LEMMA CutSeq ==
  ASSUME NEW S, NEW s \in Seq(S), NEW c \in 0..Len(s)
  PROVE  /\ SubSeq(s, 1, c) \in Seq(S) /\ SubSeq(s, c + 1, Len(s)) \in Seq(S)
         /\ Len(SubSeq(s, 1, c)) = c /\ Len(SubSeq(s, c + 1, Len(s))) = Len(s) - c
         /\ SubSeq(s, 1, c) \o SubSeq(s, c + 1, Len(s)) = s
<1>1. Len(s) \in Nat /\ c \in Int /\ Len(s) \in Int
  OBVIOUS
<1>2. \A i \in 1..Len(s) : s[i] \in S
  BY ElementOfSeq
<1>3. SubSeq(s, 1, c) \in Seq(S) /\ Len(SubSeq(s, 1, c)) = c
  BY <1>1, <1>2, SubSeqProperties
<1>4. /\ SubSeq(s, c + 1, Len(s)) \in Seq(S)
      /\ Len(SubSeq(s, c + 1, Len(s))) = Len(s) - c
  BY <1>1, <1>2, SubSeqProperties
<1>5. SubSeq(s, 1, c) \o SubSeq(s, c + 1, Len(s)) = SubSeq(s, 1, Len(s))
  <2>1. /\ 1 \in 1..(Len(s) + 1) /\ c \in (1 - 1)..Len(s)
        /\ Len(s) \in c..Len(s)
    BY <1>1
  <2> QED BY <2>1, ConcatAdjacentSubSeq, Zenon
<1> QED BY <1>3, <1>4, <1>5, SubSeqFull

\* totalMsg once a packet has been taken in its place.
Whole(n) == IF started THEN totalMsg \o Tail(Packet(n)) ELSE Packet(n)

\* A packet taken in its place moves its bytes from the sender to totalMsg.
LEMMA DeliverInOrder ==
  ASSUME IInv, NEW n \in NextSize, Deliver(n), intact'
  PROVE  LET b == Packet(n)
             total == Whole(n)
         IN  /\ Head(b) = cur.kind /\ cur.kind \in Kind /\ cur' = cur
             /\ total \in Seq(Byte) /\ Head(total) = cur.kind
             /\ rest' \in Seq(Byte) /\ total \o rest' = GetBuffer(cur)
             /\ unread'[cur.kind] = Len(rest')
             /\ ~started => /\ totalMsg = <<>> /\ FirstPacket(b)
                            /\ rest = GetBuffer(cur) /\ b[2] = rest[2]
             /\ started => intact /\ NextPacket(b)
             /\ Finish(cur.kind, total)
<1> DEFINE c == Cut(n)
           part == SubSeq(rest, 1, c)
           b == Packet(n)
<1>1. /\ SendPacket(n) /\ GetMessage(b) /\ rest # <<>> /\ cur' = cur
      /\ intact' = IF started THEN intact ELSE totalMsg = <<>>
      /\ rest' = SubSeq(rest, c + 1, Len(rest))
  BY DEF Deliver, SendPacket
<1>2. c \in 1..Len(rest) /\ Head(b) = cur.kind /\ cur.kind \in Kind
      /\ b \in Seq(Byte) /\ Len(b) >= HeaderLength
  BY <1>1, PacketHasHeader DEF IInv
<1>3. rest \in Seq(Byte) /\ Len(rest) \in Nat /\ part \in Seq(Byte) /\ rest' \in Seq(Byte)
      /\ Len(part) = c /\ Len(rest') = Len(rest) - c /\ part \o rest' = rest
  <2>1. rest \in Seq(Byte) /\ c \in 0..Len(rest)
    BY <1>2 DEF IInv, SenderInv
  <2>2. /\ part \in Seq(Byte) /\ rest' \in Seq(Byte)
        /\ Len(part) = c /\ Len(rest') = Len(rest) - c /\ part \o rest' = rest
    <3> HIDE DEF c
    <3> QED BY <1>1, <2>1, CutSeq
  <2> QED BY <2>1, <2>2
<1> HIDE DEF c, part, b
<1>4. CASE ~started
  <2>1. totalMsg = <<>> /\ rest = GetBuffer(cur) /\ b = part
    <3>1. totalMsg = <<>> /\ rest = GetBuffer(cur)
      BY <1>1, <1>4 DEF IInv, SenderInv
    <3>2. b = <<>> \o part
      BY <1>4 DEF Packet, b, part, c
    <3> QED BY <3>1, <3>2, <1>3, ConcatEmptySeq
  <2>2. LengthField(b) = Len(rest)
    <3>1. LengthField(b \o rest') = LengthField(b)
      BY <1>2, <1>3, AnnouncedLength
    <3>2. cur \in Message
      BY DEF IInv, SenderInv
    <3> QED BY <2>1, <1>3, <3>1, <3>2, MessageHeader
  <2>3. unread' = [unread EXCEPT ![Head(b)] = (LengthField(b) - Len(b)) % U16]
        /\ Finish(Head(b), b) /\ FirstPacket(b)
    BY <1>1, <2>1 DEF GetMessage, FirstPacket, NextPacket, UnexpectedPacket
  <2>4. LengthField(b) - Len(b) = Len(rest') /\ Len(rest') \in 0..(U16 - 1)
    <3>1. LengthField(b) \in 0..(U16 - 1)
      BY <1>2, AnnouncedLength
    <3>2. Len(rest') \in Nat /\ Len(rest') <= Len(rest) /\ Len(b) = c
      BY <1>2, <1>3, <2>1
    <3>3. Len(rest') \in 0..(U16 - 1)
      BY <2>2, <3>1, <3>2, BelowU16
    <3> QED BY <1>3, <2>2, <3>2, <3>3
  <2>5. unread'[Head(b)] = Len(rest')
    BY <2>3, <2>4, <1>2, ModSmall DEF IInv, ReceiverType
  <2>6. b[2] = rest[2]
    <3>1. 2 \in 1..Len(part)
      BY <1>2, <2>1 DEF HeaderLength
    <3>2. (part \o rest')[2] = part[2]
      BY <1>3, <3>1
    <3> QED BY <1>3, <2>1, <3>2
  <2>7. Whole(n) = b
    BY <1>4 DEF Whole, b
  <2> QED
    BY <1>1, <1>2, <1>3, <1>4, <2>1, <2>3, <2>5, <2>6, <2>7, Zenon DEF b
<1>5. CASE started
  <2>1. intact /\ totalMsg \o rest = GetBuffer(cur) /\ unread[cur.kind] = Len(rest)
    BY <1>1, <1>5 DEF IInv, AssemblesOneMessage
  <2>2. b = <<cur.kind>> \o part
    BY <1>5 DEF Packet, b, part, c
  <2>3. Tail(b) = part
    BY <2>2, <1>2, <1>3
  <2>4. Len(rest) > 0 /\ Len(rest) \in 0..(U16 - 1)
    BY <1>2, <1>3, <2>1 DEF IInv, ReceiverType
  <2>5. totalMsg # <<>>
    BY <2>1, <2>4, <1>2 DEF IInv, KindsDoNotMix
  <2>6. unread' = [unread EXCEPT ![Head(b)] = (@ - Len(Tail(b))) % U16]
        /\ Finish(Head(b), totalMsg \o Tail(b)) /\ NextPacket(b)
    BY <1>1, <1>2, <2>1, <2>4, <2>5
       DEF GetMessage, FirstPacket, NextPacket, UnexpectedPacket
  <2>7. Len(rest) - c = Len(rest') /\ Len(rest') \in 0..(U16 - 1)
    <3>1. Len(rest') \in Nat /\ Len(rest') <= Len(rest)
      BY <1>2, <1>3
    <3> QED BY <1>3, <2>4, <3>1, BelowU16
  <2>8. unread'[Head(b)] = Len(rest')
    BY <2>1, <2>3, <2>6, <2>7, <1>2, <1>3, ModSmall DEF IInv, ReceiverType
  <2>9. totalMsg \o part \in Seq(Byte) /\ Head(totalMsg \o part) = cur.kind
    <3>1. totalMsg \in Seq(Byte) /\ Head(totalMsg) = cur.kind
      BY <2>1, <2>4, <1>2 DEF IInv, KindsDoNotMix, ReceiverType
    <3> QED BY <1>2, <1>3, <2>5, <3>1
  <2>10. (totalMsg \o part) \o rest' = totalMsg \o rest
    <3>1. totalMsg \in Seq(Byte) /\ part \in Seq(Byte) /\ rest' \in Seq(Byte)
      BY <1>3 DEF IInv, ReceiverType
    <3>2. (totalMsg \o part) \o rest' = totalMsg \o (part \o rest')
      <4>1. \A x, y, z \in Seq(Byte) : (x \o y) \o z = x \o (y \o z)
        BY ConcatAssociative
      <4> QED BY <3>1, <4>1, Zenon
    <3> QED BY <3>2, <1>3
  <2>11. Whole(n) = totalMsg \o part
    BY <1>5, <2>3 DEF Whole, b
  <2> QED
    BY <1>1, <1>2, <1>3, <1>5, <2>1, <2>3, <2>6, <2>8, <2>9, <2>10, <2>11, Zenon DEF b
<1> QED BY <1>4, <1>5

LEMMA DeliverAssembles ==
  ASSUME IInv, NEW n \in NextSize, Deliver(n)
  PROVE  AssemblesOneMessage'
<1> SUFFICES ASSUME intact', rest' # <<>>, started'
             PROVE  /\ totalMsg' \o rest' = GetBuffer(cur)'
                    /\ unread'[cur.kind'] = Len(rest')
  BY DEF AssemblesOneMessage
<1> DEFINE k == cur.kind
           total == Whole(n)
<1>1. /\ cur' = cur /\ rest' \in Seq(Byte) /\ total \o rest' = GetBuffer(cur)
      /\ unread'[k] = Len(rest') /\ Head(total) = k /\ Finish(k, total)
  BY DeliverInOrder, Zenon
<1> HIDE DEF k, total
<1>2. Len(rest') # 0
  BY <1>1
<1>3. totalMsg' = total
  BY <1>1, <1>2 DEF Finish, StillUnread, BadCRC, WholeMsg
<1>4. GetBuffer(cur)' = GetBuffer(cur) /\ cur'.kind = k
  BY <1>1 DEF GetBuffer, Body, k
<1> QED BY <1>1, <1>3, <1>4

\* Every step keeps the invariant.
LEMMA NextInv == IInv /\ [Next]_vars => IInv'
<1> SUFFICES ASSUME IInv, [Next]_vars PROVE IInv'
  OBVIOUS
<1>1. ASSUME NEW msg \in Message, Begin(msg) PROVE IInv'
  <2>1. SenderInv'
    BY <1>1, MessageHeader DEF Begin, SenderInv
  <2>2. UNCHANGED <<totalMsg, unread, isWhole>> /\ started' = FALSE
    BY <1>1 DEF Begin, assembly
  <2>3. AssemblesOneMessage'
    BY <2>2 DEF AssemblesOneMessage
  <2> QED
    BY <2>1, <2>2, <2>3
       DEF IInv, ReceiverType, KindsDoNotMix, LengthAsAnnounced, WholeIsVerified
<1>2. ASSUME NEW n \in NextSize, Deliver(n) PROVE IInv'
  <2>1. SendPacket(n) /\ GetMessage(Packet(n))
    BY <1>2 DEF Deliver
  <2>2. SenderInv'
    BY <2>1, SendKeepsSender DEF IInv
  <2>3. Packet(n) \in Seq(Byte) /\ Len(Packet(n)) >= HeaderLength
        /\ Head(Packet(n)) \in Kind
    BY <2>1, PacketHasHeader DEF IInv, SendPacket
  <2>4. AssemblesOneMessage'
    BY <1>2, DeliverAssembles
  <2> QED BY <2>1, <2>2, <2>3, <2>4, GetMessageKeepsOrder DEF IInv
<1>3. ASSUME NEW n \in NextSize, Lose(n) PROVE IInv'
  <2>1. SendPacket(n) /\ UNCHANGED <<totalMsg, unread, isWhole>> /\ intact' = FALSE
    BY <1>3 DEF Lose, assembly
  <2>2. SenderInv'
    BY <2>1, SendKeepsSender DEF IInv
  <2>3. AssemblesOneMessage'
    BY <2>1 DEF AssemblesOneMessage
  <2> QED
    BY <2>1, <2>2, <2>3
       DEF IInv, ReceiverType, KindsDoNotMix, LengthAsAnnounced, WholeIsVerified
<1>4. CASE Collect
  <2>1. totalMsg' = <<>> /\ UNCHANGED <<unread, isWhole, cur, rest, started, intact>>
    BY <1>4 DEF Collect
  <2>2. \A k \in Kind : unread[k] = 0
    BY <1>4 DEF Collect, IInv, KindsDoNotMix, WholeIsVerified, ReceiverType
  <2>3. ~(intact /\ rest # <<>> /\ started)
    <3>1. Len(rest) # 0 \/ rest = <<>>
      BY DEF IInv, SenderInv
    <3>2. cur.kind \in Kind
      BY DEF IInv, SenderInv, Message, Kind
    <3> QED BY <2>2, <3>1, <3>2 DEF IInv, AssemblesOneMessage
  <2>4. AssemblesOneMessage'
    BY <2>1, <2>3 DEF AssemblesOneMessage
  <2> QED
    BY <2>1, <2>2, <2>4 DEF IInv, SenderInv, ReceiverType, KindsDoNotMix,
                            LengthAsAnnounced, WholeIsVerified
<1>5. CASE UNCHANGED vars
  BY <1>5 DEF vars, assembly, IInv, SenderInv, ReceiverType, KindsDoNotMix,
              LengthAsAnnounced, WholeIsVerified, AssemblesOneMessage
<1> QED BY <1>1, <1>2, <1>3, <1>4, <1>5 DEF Next

\* The invariant holds of every behaviour.
LEMMA Invariance == Spec => []IInv
  BY InitInv, NextInv, PTL DEF Spec

\* Bytes are awaited only for the kind of message that holds totalMsg, in every
\* order in which packets of the two kinds come, are lost and are dropped.
THEOREM MessagesDoNotMix == Spec => []KindsDoNotMix
<1>1. IInv => KindsDoNotMix
  BY DEF IInv
<1> QED BY <1>1, Invariance, PTL

\* totalMsg never holds more or less than the header it starts with accounts for.
THEOREM LengthIsKept == Spec => []LengthAsAnnounced
<1>1. IInv => LengthAsAnnounced
  BY DEF IInv
<1> QED BY <1>1, Invariance, PTL

\* What the caller is told is whole awaits nothing and passes its check byte.
THEOREM WholeIsWhole == Spec => []WholeIsVerified
<1>1. IInv => WholeIsVerified
  BY DEF IInv
<1> QED BY <1>1, Invariance, PTL

\* Packets that all arrive in their place are put together as they were cut.
THEOREM IntactIsAssembled == Spec => []AssemblesOneMessage
<1>1. IInv => AssemblesOneMessage
  BY DEF IInv
<1> QED BY <1>1, Invariance, PTL

-----------------------------------------------------------------------------
(* Reading a message back: what its bytes are, and what the parsers make of *)
(* them.                                                                    *)

\* The least element of a set of natural numbers.
LEMMA LeastOfNats ==
  ASSUME NEW S \in SUBSET Nat, S # {}
  PROVE  \E x \in S : \A y \in S : x <= y
  <1>1. PICK x \in S : \A y \in S : ~(<<y, x>> \in OpToRel(<, Nat))
    BY NatLessThanWellFounded, WFMin
  <1>2. ASSUME NEW y \in S, y < x PROVE FALSE
    <2>1. <<y, x>> \in Nat \X Nat
      OBVIOUS
    <2>2. <<y, x>> \in OpToRel(<, Nat)
      BY <1>2, <2>1 DEF OpToRel
    <2> QED
      BY <1>1, <1>2, <2>2
  <1> QED
    BY <1>2


\* A function made step by step, from values of one set to values of the next.
Steps(w, n, s, F) == w[0] = s /\ \A i \in 1..n : w[i] = F[i][w[i - 1]]

\* There is one.
LEMMA StepsExist ==
  ASSUME NEW n \in Nat, NEW Good, NEW F, NEW s \in Good[0],
         \A i \in 1..n : \A x \in Good[i - 1] : F[i][x] \in Good[i]
  PROVE  \E w : /\ w = [i \in 0..n |-> w[i]] /\ Steps(w, n, s, F)
                /\ \A i \in 0..n : w[i] \in Good[i]
  <1> DEFINE Made(m, w) == /\ w = [i \in 0..m |-> w[i]] /\ Steps(w, m, s, F)
                           /\ \A i \in 0..m : w[i] \in Good[i]
             Bad == {m \in 0..n : ~\E w : Made(m, w)}
  <1>1. ASSUME Bad # {} PROVE FALSE
    <2>1. Bad \in SUBSET Nat
      OBVIOUS
    <2> HIDE DEF Bad
    <2>2. PICK m \in Bad : \A k \in Bad : m <= k
      BY <1>1, <2>1, LeastOfNats
    <2> USE DEF Bad
    <2>3. CASE m = 0
      <3> DEFINE w == [i \in 0..0 |-> s]
      <3>1. Made(0, w)
        BY DEF Steps
      <3> QED
        BY <2>2, <2>3, <3>1
    <2>4. CASE m # 0
      <3>1. m - 1 \in 0..n /\ m \in 1..n /\ m - 1 \notin Bad /\ m \in Nat
        BY <2>2, <2>4
      <3>2. PICK w : Made(m - 1, w)
        BY <3>1
      <3> DEFINE v == [i \in 0..m |-> IF i = m THEN F[m][w[m - 1]] ELSE w[i]]
      <3>3. w[m - 1] \in Good[m - 1] /\ F[m][w[m - 1]] \in Good[m]
        BY <3>1, <3>2
      <3>4. \A i \in 0..m : v[i] \in Good[i]
        <4> TAKE i \in 0..m
        <4>1. CASE i = m
          BY <3>3, <4>1
        <4>2. CASE i # m
          <5>1. i \in 0..(m - 1)
            BY <3>1, <4>2
          <5> QED
            BY <3>2, <4>2, <5>1
        <4> QED
          BY <4>1, <4>2
      <3>5. Steps(v, m, s, F)
        <4>1. v[0] = s
          BY <2>4, <3>1, <3>2 DEF Steps
        <4>2. ASSUME NEW i \in 1..m PROVE v[i] = F[i][v[i - 1]]
          <5>1. v[i - 1] = w[i - 1]
            BY <3>1
          <5>2. CASE i = m
            BY <5>1, <5>2
          <5>3. CASE i # m
            <6>1. i \in 1..(m - 1)
              BY <3>1, <5>3
            <6>2. w[i] = F[i][w[i - 1]]
              BY <3>2, <6>1 DEF Steps
            <6>3. v[i] = w[i]
              BY <5>3
            <6> QED
              BY <5>1, <6>2, <6>3, Zenon
          <5> QED
            BY <5>2, <5>3
        <4> QED
          BY <4>1, <4>2 DEF Steps
      <3>6. v = [i \in 0..m |-> v[i]]
        OBVIOUS
      <3> HIDE DEF v
      <3>7. Made(m, v)
        BY <3>4, <3>5, <3>6
      <3> QED
        BY <2>2, <3>7
    <2> QED
      BY <2>3, <2>4
  <1> QED
    BY <1>1

\* What every step of a recursive function keeps, its last value has.
LEMMA StepsKeep ==
  ASSUME NEW n \in Nat, NEW Good, NEW w, w[0] \in Good[0],
         \A i \in 1..n : w[i - 1] \in Good[i - 1] => w[i] \in Good[i]
  PROVE  w[n] \in Good[n]
  <1> DEFINE Bad == {m \in 0..n : w[m] \notin Good[m]}
  <1>1. ASSUME Bad # {} PROVE FALSE
    <2>1. Bad \in SUBSET Nat
      OBVIOUS
    <2> HIDE DEF Bad
    <2>2. PICK m \in Bad : \A k \in Bad : m <= k
      BY <1>1, <2>1, LeastOfNats
    <2> USE DEF Bad
    <2>3. m \in 1..n /\ m - 1 \notin Bad
      BY <2>2
    <2>4. w[m - 1] \in Good[m - 1]
      BY <2>3
    <2> QED
      BY <2>2, <2>3, <2>4
  <1> QED
    BY <1>1


\* FlattenSeq puts one sequence behind the other.
Joins(s, pre) ==
  /\ pre = [i \in 0..Len(s) |-> pre[i]] /\ pre[0] = <<>>
  /\ \A i \in 1..Len(s) : pre[i] = pre[i - 1] \o s[i]
  /\ FlattenSeq(s) = pre[Len(s)]

\* There is one, of what has come together so far.
LEMMA Flattened ==
  ASSUME NEW S, NEW s \in Seq(Seq(S))
  PROVE  \E pre : Joins(s, pre) /\ \A i \in 0..Len(s) : pre[i] \in Seq(S)
  <1> DEFINE n == Len(s)
             Good == [i \in 0..n |-> Seq(S)]
             F == [i \in 1..n |-> [x \in Seq(S) |-> x \o s[i]]]
             Called(f) == [i \in 1..n |-> IF i = 1 THEN s[i] ELSE f[i - 1] \o s[i]]
             w == CHOOSE f : f = Called(f)
  <1>1. n \in Nat /\ <<>> \in Seq(S) /\ \A i \in 1..n : i \in 0..n /\ i - 1 \in 0..n /\ s[i] \in Seq(S)
    OBVIOUS
  <1>2. FlattenSeq(s) = IF n = 0 THEN s ELSE w[n]
    BY DEF FlattenSeq
  <1> HIDE DEF n, w
  <1>3. ASSUME NEW i \in 1..n, NEW x \in Good[i - 1]
        PROVE  F[i][x] = x \o s[i] /\ F[i][x] \in Good[i]
    <2>1. i - 1 \in 0..n /\ i \in 0..n /\ s[i] \in Seq(S)
      BY <1>1
    <2>2. x \in Seq(S)
      BY <2>1
    <2>3. x \o s[i] \in Seq(S)
      BY <2>1, <2>2
    <2> QED
      BY <2>1, <2>2, <2>3
  <1>4. PICK f : /\ f = [i \in 0..n |-> f[i]] /\ Steps(f, n, <<>>, F)
                 /\ \A i \in 0..n : f[i] \in Good[i]
    <2>1. 0 \in 0..n /\ <<>> \in Good[0]
      BY <1>1
    <2> HIDE DEF Good, F
    <2>2. \A i \in 1..n : \A x \in Good[i - 1] : F[i][x] \in Good[i]
      BY <1>3
    <2> QED
      BY <1>1, <2>1, <2>2, StepsExist, Zenon
  <1>5. /\ f[0] = <<>> /\ \A i \in 0..n : f[i] \in Seq(S)
        /\ \A i \in 1..n : f[i] = f[i - 1] \o s[i]
    <2>1. f[0] = <<>> /\ \A i \in 1..n : f[i] = F[i][f[i - 1]]
      BY <1>4 DEF Steps
    <2>2. \A i \in 0..n : f[i] \in Seq(S)
      BY <1>4
    <2> HIDE DEF F
    <2>3. \A i \in 1..n : f[i] = f[i - 1] \o s[i]
      BY <1>1, <1>3, <1>4, <2>1
    <2> QED
      BY <2>1, <2>2, <2>3
  <1> HIDE DEF Good, F
  <1>6. n # 0 => w[n] = f[n]
    <2> SUFFICES ASSUME n # 0 PROVE w[n] = f[n]
      OBVIOUS
    <2> DEFINE g == [i \in 1..n |-> f[i]]
    <2>1. ASSUME NEW i \in 1..n PROVE g[i] = IF i = 1 THEN s[i] ELSE g[i - 1] \o s[i]
      <3>1. CASE i = 1
        <4>1. s[1] \in Seq(S) /\ 1 \in 1..n /\ f[1 - 1] = <<>>
          BY <1>1, <1>5, <3>1
        <4>2. f[1] = f[1 - 1] \o s[1]
          BY <1>5, <4>1
        <4>3. <<>> \o s[1] = s[1]
          BY <4>1
        <4>4. g[1] = s[1]
          BY <4>1, <4>2, <4>3
        <4> QED
          BY <3>1, <4>4
      <3>2. CASE i # 1
        <4>1. i - 1 \in 1..n
          BY <1>1, <3>2
        <4> QED
          BY <1>5, <3>2, <4>1
      <3> QED
        BY <3>1, <3>2
    <2>2. g = Called(g)
      BY <2>1
    <2>3. w = Called(w)
      BY <2>2, Zenon DEF w
    <2>4. \A i \in 1..n : w[i] = IF i = 1 THEN s[i] ELSE w[i - 1] \o s[i]
      BY <2>3
    <2> DEFINE Same == [i \in 0..n |-> IF i = 0 THEN {w[0]} ELSE {f[i]}]
    <2>5. w[0] \in Same[0]
      BY <1>1
    <2>6. ASSUME NEW i \in 1..n, w[i - 1] \in Same[i - 1] PROVE w[i] \in Same[i]
      <3>1. CASE i = 1
        BY <1>1, <2>1, <2>4, <3>1
      <3>2. CASE i # 1
        <4>1. i - 1 \in 0..n /\ i - 1 # 0 /\ i \in 0..n /\ i # 0
          BY <1>1, <3>2
        <4>2. w[i - 1] = f[i - 1]
          BY <2>6, <4>1
        <4>3. w[i] = f[i]
          BY <1>5, <2>4, <3>2, <4>2
        <4> QED
          BY <4>1, <4>3
      <3> QED
        BY <3>1, <3>2
    <2>7. w[n] \in Same[n]
      <3> HIDE DEF Same
      <3> QED
        BY <1>1, <2>5, <2>6, StepsKeep, Zenon
    <2> QED
      BY <1>1, <2>7
  <1>7. FlattenSeq(s) = f[n]
    <2>1. n = 0 => s = <<>>
      BY DEF n
    <2> QED
      BY <1>2, <1>5, <1>6, <2>1
  <1>8. Joins(s, f)
    BY <1>4, <1>5, <1>7 DEF Joins, n
  <1> QED
    BY <1>5, <1>8 DEF n

\* One sequence behind another.
LEMMA Joint ==
  ASSUME NEW S, NEW x \in Seq(S), NEW y \in Seq(S), NEW z, z = x \o y
  PROVE  /\ z \in Seq(S) /\ Len(x) \in Nat /\ Len(y) \in Nat /\ Len(z) = Len(x) + Len(y)
         /\ \A q \in 1..Len(x) : z[q] = x[q] /\ q \in 1..Len(z)
         /\ \A t \in 1..Len(y) : z[Len(x) + t] = y[t] /\ Len(x) + t \in 1..Len(z)
  OBVIOUS

\* What FlattenSeq put together is where it was put.
PartAt(s, pre, i) ==
  /\ Len(pre[i]) = Len(pre[i - 1]) + Len(s[i])
  /\ Len(pre[i]) <= Len(pre[Len(s)])
  /\ \A t \in 1..Len(s[i]) : pre[Len(s)][Len(pre[i - 1]) + t] = s[i][t]

\* What FlattenSeq put together is where it was put.
LEMMA JoinedAt ==
  ASSUME NEW S, NEW s \in Seq(Seq(S)), NEW pre, Joins(s, pre),
         \A j \in 0..Len(s) : pre[j] \in Seq(S), NEW i \in 1..Len(s)
  PROVE  PartAt(s, pre, i)
  <1> DEFINE n == Len(s)
             Extends(x) == /\ Len(pre[i]) <= Len(x)
                           /\ \A q \in 1..Len(pre[i]) : x[q] = pre[i][q]
             Good == [m \in 0..n |-> IF m < i THEN {pre[m]} ELSE {x \in Seq(S) : Extends(x)}]
  <1>1. /\ n \in Nat /\ i \in 1..n /\ i \in Nat /\ 0 \in 0..n /\ n \in 0..n /\ i \in 0..n /\ i - 1 \in 0..n
        /\ \A m \in 1..n : m \in 0..n /\ m - 1 \in 0..n /\ s[m] \in Seq(S)
    OBVIOUS
  <1>2. /\ \A m \in 1..n : pre[m] = pre[m - 1] \o s[m]
        /\ \A m \in 0..n : pre[m] \in Seq(S)
    BY DEF Joins
  <1> HIDE DEF n
  <1>3. pre[0] \in Good[0]
    BY <1>1
  <1>4. ASSUME NEW m \in 1..n, pre[m - 1] \in Good[m - 1]
        PROVE  pre[m] \in Good[m]
    <2>1. m \in 0..n /\ m - 1 \in 0..n /\ s[m] \in Seq(S) /\ m \in Nat
      BY <1>1
    <2>2. /\ pre[m] \in Seq(S) /\ pre[m - 1] \in Seq(S) /\ pre[i] \in Seq(S)
          /\ pre[m] = pre[m - 1] \o s[m]
      BY <1>1, <1>2, <2>1
    <2>3. CASE m < i
      BY <2>1, <2>3
    <2>4. CASE m = i
      <3>1. Len(pre[i]) \in Nat
        BY <2>2
      <3>2. Len(pre[i]) <= Len(pre[i])
        BY <3>1
      <3>3. Extends(pre[m])
        BY <2>4, <3>2, Zenon
      <3> QED
        BY <2>1, <2>2, <2>4, <3>3
    <2>5. CASE m > i
      <3>1. Extends(pre[m - 1])
        <4>1. ~(m - 1 < i) \/ m - 1 < i
          OBVIOUS
        <4>2. CASE m - 1 < i
          <5>1. m - 1 = i - 1 \/ m - 1 = i
            BY <1>1, <2>1, <2>5, <4>2
          <5> QED
            BY <1>1, <2>1, <2>5, <4>2
        <4>3. CASE ~(m - 1 < i)
          <5>1. Good[m - 1] = {x \in Seq(S) : Extends(x)}
            BY <2>1, <4>3, Zenon
          <5> QED
            BY <1>4, <5>1, Zenon
        <4> QED
          BY <4>1, <4>2, <4>3
      <3>2. Extends(pre[m])
        <4> DEFINE o == pre[i]
                   x == pre[m - 1]
                   y == s[m]
                   z == pre[m]
        <4>1. x \in Seq(S) /\ y \in Seq(S) /\ z = x \o y /\ o \in Seq(S)
          BY <2>1, <2>2
        <4>2. Len(o) <= Len(x) /\ \A q \in 1..Len(o) : x[q] = o[q]
          BY <3>1
        <4> HIDE DEF o, x, y, z
        <4>3. /\ Len(x) \in Nat /\ Len(y) \in Nat /\ Len(z) = Len(x) + Len(y)
              /\ \A q \in 1..Len(x) : z[q] = x[q]
          BY <4>1, Joint
        <4>4. Len(o) \in Nat /\ Len(o) <= Len(z)
          BY <4>1, <4>2, <4>3
        <4>5. ASSUME NEW q \in 1..Len(o) PROVE z[q] = o[q]
          <5>1. q \in 1..Len(x)
            BY <4>2, <4>3, <4>4
          <5> QED
            BY <4>2, <4>3, <5>1, Zenon
        <4> QED
          BY <4>4, <4>5, Zenon DEF o, z
      <3> HIDE DEF Extends
      <3> QED
        BY <1>1, <2>1, <2>2, <2>5, <3>2
    <2>6. m < i \/ m = i \/ m > i
      BY <1>1, <2>1
    <2> QED
      BY <2>3, <2>4, <2>5, <2>6, Zenon
  <1>5. pre[n] \in Good[n]
    <2> HIDE DEF Good
    <2> QED
      BY <1>1, <1>3, <1>4, StepsKeep, Zenon
  <1>6. Extends(pre[n])
    <2> HIDE DEF Extends
    <2> QED
      BY <1>1, <1>5
  <1>7. pre[i] = pre[i - 1] \o s[i] /\ pre[i - 1] \in Seq(S) /\ s[i] \in Seq(S)
    BY <1>1, <1>2
  <1> DEFINE x == pre[i - 1]
             y == s[i]
             z == pre[i]
  <1>8. x \in Seq(S) /\ y \in Seq(S) /\ z = x \o y
    BY <1>7
  <1> HIDE DEF x, y, z
  <1>9. /\ Len(z) = Len(x) + Len(y)
        /\ \A t \in 1..Len(y) : z[Len(x) + t] = y[t] /\ Len(x) + t \in 1..Len(z)
    BY <1>8, Joint
  <1> QED
    BY <1>6, <1>9, Zenon DEF PartAt, x, y, z, n

-----------------------------------------------------------------------------
(* Bytes that lie in a message.                                             *)

\* The elements of s are those of m from the C index p on.
Lies(m, p, s) ==
  /\ p \in Nat /\ p + Len(s) <= Len(m)
  /\ \A t \in 1..Len(s) : m[p + t] = s[t]

\* What lies there in two parts, lies there part by part.
LEMMA LiesInParts ==
  ASSUME NEW m \in Seq(Nat), NEW p, NEW x \in Seq(Nat), NEW y \in Seq(Nat), Lies(m, p, x \o y)
  PROVE  Lies(m, p, x) /\ Lies(m, p + Len(x), y)
  <1> DEFINE z == x \o y
  <1>1. /\ Len(x) \in Nat /\ Len(y) \in Nat /\ Len(z) = Len(x) + Len(y)
        /\ \A q \in 1..Len(x) : z[q] = x[q] /\ q \in 1..Len(z)
        /\ \A t \in 1..Len(y) : z[Len(x) + t] = y[t] /\ Len(x) + t \in 1..Len(z)
    BY Joint
  <1>2. Lies(m, p, z)
    OBVIOUS
  <1> HIDE DEF z
  <1>3. Len(m) \in Nat /\ p \in Nat
    BY <1>2 DEF Lies
  <1>4. Lies(m, p, x)
    BY <1>1, <1>2, <1>3, SMTT(40) DEF Lies
  <1>5. ASSUME NEW t \in 1..Len(y) PROVE m[(p + Len(x)) + t] = y[t]
    <2>1. m[p + (Len(x) + t)] = z[Len(x) + t] /\ z[Len(x) + t] = y[t]
      BY <1>1, <1>2 DEF Lies
    <2>2. p + (Len(x) + t) = (p + Len(x)) + t
      BY <1>1, <1>3
    <2> QED
      BY <2>1, <2>2
  <1>6. p + Len(x) \in Nat /\ p + Len(x) + Len(y) <= Len(m)
    BY <1>1, <1>2, <1>3 DEF Lies
  <1> QED
    BY <1>4, <1>5, <1>6 DEF Lies

\* What FlattenSeq made lies there part by part.
LEMMA LiesFlat ==
  ASSUME NEW m \in Seq(Nat), NEW p, NEW s \in Seq(Seq(Nat)), NEW pre, Joins(s, pre),
         \A j \in 0..Len(s) : pre[j] \in Seq(Nat), Lies(m, p, FlattenSeq(s)), NEW i \in 1..Len(s)
  PROVE  /\ Lies(m, p + Len(pre[i - 1]), s[i])
         /\ Len(pre[i - 1]) \in Nat /\ Len(s[i]) \in Nat
         /\ Len(pre[i]) = Len(pre[i - 1]) + Len(s[i])
         /\ Len(pre[i]) <= Len(FlattenSeq(s))
  <1> DEFINE f == FlattenSeq(s)
             o == Len(pre[i - 1])
             y == s[i]
  <1>1. PartAt(s, pre, i)
    BY JoinedAt
  <1>2. f = pre[Len(s)]
    BY DEF Joins
  <1>3. /\ Len(s) \in Nat /\ i - 1 \in 0..Len(s) /\ i \in 0..Len(s) /\ Len(s) \in 0..Len(s)
        /\ s[i] \in Seq(Nat)
    OBVIOUS
  <1>4. o \in Nat /\ Len(y) \in Nat /\ f \in Seq(Nat) /\ Len(f) \in Nat
    <2>1. pre[i - 1] \in Seq(Nat) /\ f \in Seq(Nat)
      BY <1>2, <1>3
    <2> HIDE DEF f
    <2>2. o \in Nat /\ Len(y) \in Nat /\ Len(f) \in Nat
      BY <1>3, <2>1, LenProperties
    <2> QED
      BY <2>1, <2>2
  <1>5. /\ Len(pre[i]) = o + Len(y) /\ o + Len(y) <= Len(f)
        /\ \A t \in 1..Len(y) : f[o + t] = y[t]
    BY <1>1, <1>2 DEF PartAt
  <1>6. Lies(m, p, f)
    OBVIOUS
  <1> HIDE DEF f, o, y
  <1>7. Len(m) \in Nat /\ p \in Nat
    BY <1>6 DEF Lies
  <1>8. ASSUME NEW t \in 1..Len(y) PROVE m[(p + o) + t] = y[t]
    <2>1. o + t \in 1..Len(f) /\ p + (o + t) = (p + o) + t
      BY <1>4, <1>5, <1>7
    <2>2. m[p + (o + t)] = f[o + t]
      BY <1>6, <2>1 DEF Lies
    <2> QED
      BY <1>5, <2>1, <2>2
  <1>9. p + o \in Nat /\ p + o + Len(y) <= Len(m)
    BY <1>4, <1>5, <1>6, <1>7 DEF Lies
  <1>10. Lies(m, p + o, y)
    BY <1>8, <1>9 DEF Lies
  <1> QED
    BY <1>4, <1>5, <1>10 DEF f, o, y

\* Reading a byte or a block that lies there.
LEMMA ReadLies ==
  ASSUME NEW m \in Seq(Nat), NEW p, NEW s \in Seq(Nat), Lies(m, p, s)
  PROVE  /\ \A j \in 1..Len(s) : At(m, p + j - 1) = s[j] /\ At(m, (p - 1) + j) = s[j]
         /\ Block(m, p, Len(s)) = s
  <1>1. p \in Nat /\ Len(m) \in Nat /\ Len(s) \in Nat
    BY DEF Lies
  <1>2. ASSUME NEW j \in 1..Len(s)
        PROVE  /\ At(m, p + j - 1) = s[j] /\ At(m, (p - 1) + j) = s[j]
               /\ Block(m, p, Len(s))[j] = s[j]
    <2>1. p + j - 1 < Len(m) /\ (p + j - 1) + 1 = p + j /\ (p - 1) + j = p + j - 1
      BY <1>1 DEF Lies
    <2>2. m[p + j] = s[j]
      BY DEF Lies
    <2>3. At(m, p + j - 1) = s[j]
      BY <2>1, <2>2 DEF At
    <2> HIDE DEF At
    <2>4. Block(m, p, Len(s))[j] = At(m, p + j - 1)
      BY DEF Block
    <2> QED
      BY <2>1, <2>3, <2>4
  <1>3. Block(m, p, Len(s)) = s
    <2>1. Block(m, p, Len(s)) = [j \in 1..Len(s) |-> Block(m, p, Len(s))[j]]
      BY DEF Block
    <2>2. s = [j \in 1..Len(s) |-> s[j]]
      OBVIOUS
    <2> QED
      BY <1>2, <2>1, <2>2, Zenon
  <1> QED
    BY <1>2, <1>3

\* How long it is.
LEMMA JointLength ==
  ASSUME NEW S, NEW x \in Seq(S), NEW y \in Seq(S)
  PROVE  x \o y \in Seq(S) /\ Len(x \o y) = Len(x) + Len(y)
  OBVIOUS

\* One element in front of a sequence.
LEMMA OneBefore ==
  ASSUME NEW S, NEW e \in S, NEW y \in Seq(S)
  PROVE  /\ <<e>> \in Seq(S) /\ <<e>> \o y \in Seq(S)
         /\ Len(<<e>>) = 1 /\ Len(<<e>> \o y) = 1 + Len(y)
  OBVIOUS

\* Reading a byte or two.
LEMMA ReadFirst ==
  ASSUME NEW m \in Seq(Nat), NEW p, NEW x \in Nat, Lies(m, p, <<x>>)
  PROVE  At(m, p) = x /\ p \in Nat
  <1>1. p \in Nat /\ p + 1 <= Len(m) /\ Len(m) \in Nat /\ m[p + 1] = x
    BY DEF Lies
  <1> QED
    BY <1>1 DEF At

\* The first two bytes.
LEMMA ReadTwo ==
  ASSUME NEW m \in Seq(Nat), NEW p, NEW x \in Nat, NEW y \in Nat, Lies(m, p, <<x, y>>)
  PROVE  At(m, p) = x /\ At(m, p + 1) = y /\ p \in Nat
  <1>1. p \in Nat /\ p + 2 <= Len(m) /\ Len(m) \in Nat /\ m[p + 1] = x /\ m[p + 2] = y
    BY DEF Lies
  <1>2. (p + 1) + 1 = p + 2 /\ p < Len(m) /\ p + 1 < Len(m)
    BY <1>1
  <1> QED
    BY <1>1, <1>2 DEF At

\* A number below 256 is its own remainder.
LEMMA SmallRemainder == ASSUME NEW a \in Nat, a < 256 PROVE a % 256 = a
  <1>1. a = (256 * (a \div 256)) + (a % 256) /\ a \div 256 \in Int
        /\ 0 <= a % 256 /\ a % 256 < 256
    OBVIOUS
  <1>2. a \div 256 = 0
    BY <1>1
  <1> QED
    BY <1>1, <1>2

\* Bytes are natural numbers.
LEMMA BytesAreNat == ASSUME NEW s \in Seq(Byte) PROVE s \in Seq(Nat) /\ Len(s) \in Nat
  <1>1. \A z \in Byte : z \in Nat
    BY DEF Byte, U8
  <1>2. Len(s) \in Nat /\ s = [j \in 1..Len(s) |-> s[j]] /\ \A j \in 1..Len(s) : s[j] \in Byte
    <2> HIDE DEF Byte
    <2> QED
      OBVIOUS
  <1> HIDE DEF Byte
  <1>3. \A j \in 1..Len(s) : s[j] \in Nat
    BY <1>1, <1>2
  <1> QED
    BY <1>2, <1>3

\* The first elements of a sequence, one after the other.
LEMMA FirstOnes ==
  ASSUME NEW S, NEW s \in Seq(S)
  PROVE  /\ SubSeq(s, 1, 0) = <<>> /\ SubSeq(s, 1, Len(s)) = s /\ Len(s) \in Nat
         /\ \A i \in 1..Len(s) : SubSeq(s, 1, i) = Append(SubSeq(s, 1, i - 1), s[i])
  OBVIOUS

-----------------------------------------------------------------------------
(* ParseGroupMsg reads what GetBuffer wrote.                                *)

\* The bytes of an action, as many as the table says.
LEMMA BytesOfAction ==
  ASSUME NEW a \in Action
  PROVE  /\ ActionBytes(a) \in Seq(Nat) /\ Len(ActionBytes(a)) = 1 + ActionSize[a.id]
         /\ <<a.id>> \in Seq(Nat) /\ a.data \in Seq(Nat) /\ Len(a.data) = ActionSize[a.id]
         /\ ActionSize[a.id] \in Nat /\ a.id \in ActionIndex
  <1>1. a.id \in ActionIndex /\ a.data \in Seq(Byte) /\ Len(a.data) = ActionSize[a.id]
    BY DEF Action
  <1>2. a.id \in Nat
    BY <1>1 DEF ActionIndex
  <1>3. a.data \in Seq(Nat) /\ Len(a.data) \in Nat
    BY <1>1, BytesAreNat
  <1>4. <<a.id>> \in Seq(Nat) /\ <<a.id>> \o a.data \in Seq(Nat)
        /\ Len(<<a.id>> \o a.data) = 1 + Len(a.data)
    BY <1>2, <1>3, OneBefore, Zenon
  <1> QED
    BY <1>1, <1>3, <1>4 DEF ActionBytes

\* A round of the inner loop reads the action that lies there.
LEMMA ActionRead ==
  ASSUME NEW m \in Seq(Nat), NEW p, NEW a \in Action, NEW list, Lies(m, p, ActionBytes(a))
  PROVE  NextAction(m, [actions |-> list, next |-> p, ok |-> TRUE])
           = [actions |-> Append(list, a), next |-> p + Len(ActionBytes(a)), ok |-> TRUE]
  <1> DEFINE size == ActionSize[a.id]
             here == [id |-> At(m, p), data |-> Block(m, p + 1, ActionSize[At(m, p)])]
  <1>1. /\ <<a.id>> \in Seq(Nat) /\ a.data \in Seq(Nat) /\ Len(a.data) = size /\ size \in Nat
        /\ Len(ActionBytes(a)) = 1 + size /\ a.id \in ActionIndex
    BY BytesOfAction
  <1>2. ActionBytes(a) = <<a.id>> \o a.data
    BY DEF ActionBytes
  <1>3. Lies(m, p, <<a.id>>) /\ Lies(m, p + Len(<<a.id>>), a.data)
    BY <1>1, <1>2, LiesInParts, ZenonT(60)
  <1>4. p \in Nat
    BY DEF Lies
  <1>5. At(m, p) = a.id
    <2>1. a.id \in Nat
      BY <1>1 DEF ActionIndex
    <2> QED
      BY <1>3, <2>1, ReadFirst
  <1>6. Block(m, p + 1, size) = a.data
    BY <1>1, <1>3, ReadLies
  <1>7. here = a
    <2>1. a = [id |-> a.id, data |-> a.data]
      BY DEF Action
    <2> QED
      BY <1>5, <1>6, <2>1
  <1>8. NextAction(m, [actions |-> list, next |-> p, ok |-> TRUE])
          = [actions |-> Append(list, here), next |-> p + 1 + size, ok |-> TRUE]
    BY <1>1, <1>5 DEF NextAction
  <1>9. p + 1 + size = p + Len(ActionBytes(a))
    <2> DEFINE n == Len(ActionBytes(a))
    <2>1. n = 1 + size /\ size \in Nat
      BY <1>1
    <2> HIDE DEF n, size
    <2>2. p + 1 + size = p + n
      BY <1>4, <2>1
    <2> QED
      BY <2>2 DEF n
  <1> HIDE DEF here, size
  <1> QED
    BY <1>7, <1>8, <1>9

\* The inner loop goes the way its rounds go, when no action stops it.
ActionRounds(m, first, count, E) ==
  /\ E[0] = [actions |-> <<>>, next |-> first, ok |-> TRUE]
  /\ \A i \in 1..count : E[i] = NextAction(m, E[i - 1])
  /\ \A i \in 0..count : E[i].ok

\* The recursive function of the loop over the actions is those rounds.
LEMMA ActionsMade ==
  ASSUME NEW m, NEW first, NEW count \in Nat, NEW E, ActionRounds(m, first, count, E)
  PROVE  ActionsFrom(m, first, count) = E[count]
  <1>0. /\ E[0] = [actions |-> <<>>, next |-> first, ok |-> TRUE]
        /\ \A i \in 1..count : E[i] = NextAction(m, E[i - 1])
        /\ \A i \in 0..count : E[i].ok
    BY DEF ActionRounds
  <1> DEFINE s == [actions |-> <<>>, next |-> first, ok |-> TRUE]
             Called(f) == [n \in 0..count |-> IF n = 0 THEN s ELSE NextAction(m, f[n - 1])]
             w == CHOOSE f : f = Called(f)
             Ends(n) == n = count \/ ~w[n].ok
             last == CHOOSE n \in 0..count : Ends(n) /\ \A k \in 0..(n - 1) : ~Ends(k)
  <1>1. ActionsFrom(m, first, count) = w[last]
    BY DEF ActionsFrom
  <1>2. \E f : f = Called(f)
    <2> DEFINE g == [n \in 0..count |-> E[n]]
    <2>1. ASSUME NEW n \in 0..count PROVE g[n] = IF n = 0 THEN s ELSE NextAction(m, g[n - 1])
      <3>1. CASE n = 0
        BY <1>0, <3>1
      <3>2. CASE n # 0
        <4>1. n \in 1..count /\ n - 1 \in 0..count
          BY <3>2
        <4>2. g[n - 1] = E[n - 1] /\ g[n] = E[n]
          BY <4>1
        <4> QED
          BY <1>0, <3>2, <4>1, <4>2
      <3> QED
        BY <3>1, <3>2
    <2>2. g = Called(g)
      BY <2>1
    <2> QED
      BY <2>2
  <1>3. w = Called(w)
    BY <1>2, Zenon DEF w
  <1>4. ASSUME NEW n \in 0..count PROVE w[n] = E[n]
    <2> DEFINE Good == [k \in 0..n |-> {E[k]}]
    <2>1. \A k \in 0..n : k \in 0..count
      OBVIOUS
    <2> HIDE DEF w, s
    <2>2. w[0] \in Good[0]
      <3>1. w[0] = s
        BY <1>3, <2>1
      <3> QED
        BY <1>0, <3>1 DEF s
    <2>3. ASSUME NEW k \in 1..n, w[k - 1] \in Good[k - 1] PROVE w[k] \in Good[k]
      <3>1. k \in 0..count /\ k # 0 /\ k \in 1..count /\ k - 1 \in 0..n /\ k \in 0..n
        OBVIOUS
      <3>2. w[k] = NextAction(m, w[k - 1])
        BY <1>3, <3>1
      <3>3. w[k - 1] = E[k - 1]
        BY <2>3, <3>1
      <3>4. w[k] = E[k]
        BY <1>0, <3>1, <3>2, <3>3
      <3> QED
        BY <3>1, <3>4
    <2>4. n \in Nat /\ n \in 0..n
      OBVIOUS
    <2>5. w[n] \in Good[n]
      <3> HIDE DEF Good
      <3> QED
        BY <2>2, <2>3, <2>4, StepsKeep, Zenon
    <2> QED
      BY <2>4, <2>5
  <1> HIDE DEF w, Ends
  <1>5. /\ Ends(count) /\ count \in 0..count
        /\ \A n \in 0..count : n # count => ~Ends(n)
    BY <1>0, <1>4 DEF Ends
  <1>6. last = count
    <2>1. \A k \in 0..(count - 1) : ~Ends(k)
      BY <1>5
    <2>2. \E n \in 0..count : Ends(n) /\ \A k \in 0..(n - 1) : ~Ends(k)
      BY <1>5, <2>1
    <2>3. last \in 0..count /\ Ends(last)
      BY <2>2, Zenon
    <2> QED
      BY <1>5, <2>3
  <1>7. w[count] = E[count]
    BY <1>4, <1>5
  <1> HIDE DEF last
  <1> QED
    BY <1>1, <1>6, <1>7

\* What FlattenSeq makes of sequences is a sequence.
LEMMA FlatType ==
  ASSUME NEW S, NEW s \in Seq(Seq(S))
  PROVE  FlattenSeq(s) \in Seq(S) /\ Len(FlattenSeq(s)) \in Nat
  <1>1. PICK pre : Joins(s, pre) /\ \A i \in 0..Len(s) : pre[i] \in Seq(S)
    BY Flattened
  <1>2. Len(s) \in 0..Len(s)
    OBVIOUS
  <1>3. FlattenSeq(s) \in Seq(S)
    BY <1>1, <1>2 DEF Joins
  <1> QED
    BY <1>3, LenProperties

ActionParts(list) == [j \in DOMAIN list |-> ActionBytes(list[j])]

\* The bytes of the actions, as parts.
LEMMA PartsOfActions ==
  ASSUME NEW list \in Seq(Action)
  PROVE  /\ Len(list) \in Nat /\ ActionParts(list) \in Seq(Seq(Nat))
         /\ Len(ActionParts(list)) = Len(list)
         /\ \A j \in 1..Len(list) : list[j] \in Action /\ ActionParts(list)[j] = ActionBytes(list[j])
  <1> DEFINE n == Len(list)
  <1>1. n \in Nat /\ DOMAIN list = 1..n /\ \A j \in 1..n : list[j] \in Action
    <2> HIDE DEF Action
    <2> QED
      OBVIOUS
  <1>2. \A j \in 1..n : ActionBytes(list[j]) \in Seq(Nat)
    BY <1>1, BytesOfAction
  <1> HIDE DEF n
  <1>3. ActionParts(list) = [j \in 1..n |-> ActionBytes(list[j])]
    BY <1>1 DEF ActionParts
  <1>4. ActionParts(list) \in Seq(Seq(Nat)) /\ Len(ActionParts(list)) = n
    BY <1>1, <1>2, <1>3
  <1> QED
    BY <1>1, <1>3, <1>4 DEF n

\* The inner loop reads the actions that lie there.
LEMMA ActionsRead ==
  ASSUME NEW m \in Seq(Nat), NEW p, NEW list \in Seq(Action), NEW flat,
         flat = FlattenSeq(ActionParts(list)), Lies(m, p, flat)
  PROVE  ActionsFrom(m, p, Len(list)) = [actions |-> list, next |-> p + Len(flat), ok |-> TRUE]
  <1> DEFINE n == Len(list)
             parts == ActionParts(list)
  <1>1. /\ n \in Nat /\ parts \in Seq(Seq(Nat)) /\ Len(parts) = n
        /\ \A j \in 1..n : list[j] \in Action /\ parts[j] = ActionBytes(list[j])
    BY PartsOfActions
  <1>2. flat = FlattenSeq(parts)
    OBVIOUS
  <1> HIDE DEF parts
  <1>3. PICK pre : Joins(parts, pre) /\ \A i \in 0..Len(parts) : pre[i] \in Seq(Nat)
    BY <1>1, Flattened
  <1> DEFINE E == [i \in 0..n |->
                     [actions |-> SubSeq(list, 1, i), next |-> p + Len(pre[i]), ok |-> TRUE]]
  <1>4. p \in Nat
    BY DEF Lies
  <1>5. /\ SubSeq(list, 1, 0) = <<>> /\ SubSeq(list, 1, n) = list
        /\ \A i \in 1..n : SubSeq(list, 1, i) = Append(SubSeq(list, 1, i - 1), list[i])
    BY FirstOnes
  <1> HIDE DEF n
  <1>6. E[0] = [actions |-> <<>>, next |-> p, ok |-> TRUE]
    <2>1. Len(pre[0]) = 0 /\ 0 \in 0..n
      BY <1>1, <1>3 DEF Joins
    <2>2. p + Len(pre[0]) = p
      BY <1>4, <2>1
    <2>3. E[0] = [actions |-> SubSeq(list, 1, 0), next |-> p + Len(pre[0]), ok |-> TRUE]
      BY <2>1
    <2> HIDE DEF E
    <2> QED
      BY <1>5, <2>2, <2>3
  <1>7. ASSUME NEW i \in 1..n PROVE E[i] = NextAction(m, E[i - 1])
    <2> DEFINE q == p + Len(pre[i - 1])
               a == list[i]
               before == SubSeq(list, 1, i - 1)
    <2>1. i \in 0..n /\ i - 1 \in 0..n /\ i \in 1..Len(parts) /\ a \in Action
      BY <1>1
    <2>2. Lies(m, p, FlattenSeq(parts))
      BY <1>2
    <2>3. /\ Lies(m, q, parts[i]) /\ Len(pre[i - 1]) \in Nat
          /\ Len(parts[i]) \in Nat /\ Len(pre[i]) = Len(pre[i - 1]) + Len(parts[i])
      <3>1. parts \in Seq(Seq(Nat)) /\ Joins(parts, pre)
            /\ \A j \in 0..Len(parts) : pre[j] \in Seq(Nat)
        BY <1>1, <1>3
      <3> QED
        BY <2>1, <2>2, <3>1, LiesFlat, ZenonT(60)
    <2>4. parts[i] = ActionBytes(a)
      BY <1>1
    <2>5. E[i - 1] = [actions |-> before, next |-> q, ok |-> TRUE]
      BY <2>1
    <2>6. E[i] = [actions |-> SubSeq(list, 1, i), next |-> p + Len(pre[i]), ok |-> TRUE]
      BY <2>1
    <2>7. p + Len(pre[i]) = q + Len(ActionBytes(a))
      <3> HIDE DEF a
      <3> QED
        BY <1>4, <2>3, <2>4
    <2>8. SubSeq(list, 1, i) = Append(before, a)
      BY <1>5
    <2> HIDE DEF q, a, before, E
    <2>9. NextAction(m, [actions |-> before, next |-> q, ok |-> TRUE])
            = [actions |-> Append(before, a), next |-> q + Len(ActionBytes(a)), ok |-> TRUE]
      BY <2>1, <2>3, <2>4, ActionRead
    <2> QED
      BY <2>5, <2>6, <2>7, <2>8, <2>9
  <1>8. \A i \in 0..n : E[i].ok
    OBVIOUS
  <1>9. E[n] = [actions |-> list, next |-> p + Len(flat), ok |-> TRUE] /\ flat \in Seq(Nat)
    <2>1. n \in 0..n /\ flat = pre[n] /\ pre[n] \in Seq(Nat)
      BY <1>1, <1>2, <1>3 DEF Joins
    <2> QED
      BY <1>5, <2>1
  <1> HIDE DEF E
  <1>10. ActionsFrom(m, p, n) = E[n]
    <2>1. ActionRounds(m, p, n, E)
      BY <1>6, <1>7, <1>8 DEF ActionRounds
    <2> QED
      BY <1>1, <2>1, ActionsMade
  <1> QED
    BY <1>9, <1>10 DEF n


\* The bytes of a group: its id and the number of its actions, and the actions.
LEMMA BytesOfGroup ==
  ASSUME NEW g \in Group, Len(g.actions) < U8
  PROVE  LET n == Len(g.actions)
             flat == FlattenSeq(ActionParts(g.actions))
         IN  /\ g.id \in Nat /\ g.actions \in Seq(Action) /\ n \in Nat
             /\ g = [id |-> g.id, actions |-> g.actions]
             /\ Len(flat) \in Nat /\ flat \in Seq(Nat)
             /\ <<g.id, n>> \in Seq(Nat) /\ Len(<<g.id, n>>) = 2
             /\ GroupBytes(g) = <<g.id, n>> \o flat
             /\ GroupBytes(g) \in Seq(Nat) /\ Len(GroupBytes(g)) = 2 + Len(flat)
             /\ Len(GroupBytes(g)) >= 1
  <1> DEFINE n == Len(g.actions)
             flat == FlattenSeq(ActionParts(g.actions))
             here == [id |-> g.id, actions |-> g.actions]
  <1>1. /\ g.id \in Byte /\ g.actions \in Seq(Action) /\ g = here
    <2> HIDE DEF Byte, Action
    <2> QED
      BY DEF Group
  <1>2. g.id \in Nat
    <2>1. \A z \in Byte : z \in Nat
      BY DEF Byte, U8
    <2> QED
      BY <1>1, <2>1, Zenon
  <1>3. n \in Nat /\ n % U8 = n
    <2>1. n \in Nat /\ n < 256
      BY <1>1, LenProperties DEF U8
    <2> HIDE DEF n
    <2>2. n % 256 = n
      BY <2>1, SmallRemainder
    <2> QED
      BY <2>1, <2>2 DEF U8
  <1>4. flat \in Seq(Nat) /\ Len(flat) \in Nat
    BY <1>1, PartsOfActions, FlatType
  <1>5. GroupBytes(g) = <<g.id, n>> \o flat
    BY <1>3 DEF GroupBytes, ActionParts
  <1> HIDE DEF n, flat, here
  <1> DEFINE x == <<g.id, n>>
             z == x \o flat
  <1>6. x \in Seq(Nat) /\ Len(x) = 2
    BY <1>2, <1>3
  <1> HIDE DEF x
  <1>7. z \in Seq(Nat) /\ Len(z) = 2 + Len(flat) /\ Len(z) >= 1
    <2>2. z \in Seq(Nat) /\ Len(z) = Len(x) + Len(flat)
      BY <1>4, <1>6, JointLength, Zenon
    <2> QED
      BY <1>4, <1>6, <2>2
  <1> QED
    BY <1>1, <1>2, <1>3, <1>4, <1>5, <1>6, <1>7, Zenon DEF n, flat, here, x, z

\* A round of the outer loop reads the group that lies there.
LEMMA GroupRead ==
  ASSUME NEW m \in Seq(Nat), NEW p, NEW g \in Group, Len(g.actions) < U8,
         Lies(m, p, GroupBytes(g)), p < Len(m) - 1, NEW before
  PROVE  NextGroup(m, [groups |-> before, residue |-> <<>>, next |-> p, ok |-> TRUE])
           = [groups |-> Append(before, g), residue |-> <<>>,
              next |-> p + Len(GroupBytes(g)), ok |-> TRUE]
  <1> DEFINE n == Len(g.actions)
             flat == FlattenSeq(ActionParts(g.actions))
             read == [groups |-> before, residue |-> <<>>, next |-> p, ok |-> TRUE]
             here == [id |-> g.id, actions |-> g.actions]
             length == Len(GroupBytes(g))
  <1>1. /\ g.id \in Nat /\ g.actions \in Seq(Action) /\ n \in Nat /\ g = here
        /\ Len(flat) \in Nat /\ flat \in Seq(Nat) /\ p \in Nat
        /\ <<g.id, n>> \in Seq(Nat) /\ Len(<<g.id, n>>) = 2 /\ length = 2 + Len(flat)
    BY BytesOfGroup, Zenon DEF Lies
  <1>2. GroupBytes(g) = <<g.id, n>> \o flat
    BY BytesOfGroup
  <1>3. Lies(m, p, <<g.id, n>>) /\ Lies(m, p + 2, flat)
    <2>1. Lies(m, p, <<g.id, n>> \o flat)
      BY <1>2
    <2> HIDE DEF flat, n
    <2>2. Lies(m, p, <<g.id, n>>) /\ Lies(m, p + Len(<<g.id, n>>), flat)
      BY <1>1, <2>1, LiesInParts, Zenon
    <2> QED
      BY <1>1, <2>2
  <1>4. At(m, p) = g.id /\ At(m, p + 1) = n
    <2> HIDE DEF n
    <2> QED
      BY <1>1, <1>3, ReadTwo
  <1>5. ActionsFrom(m, p + 2, n) = [actions |-> g.actions, next |-> p + 2 + Len(flat), ok |-> TRUE]
    <2>1. flat = FlattenSeq(ActionParts(g.actions))
      OBVIOUS
    <2>2. g.actions \in Seq(Action)
      BY <1>1
    <2> HIDE DEF flat
    <2>3. ActionsFrom(m, p + 2, Len(g.actions))
            = [actions |-> g.actions, next |-> (p + 2) + Len(flat), ok |-> TRUE]
      BY <1>3, <2>1, <2>2, ActionsRead
    <2> QED
      BY <2>3
  <1>6. p + 2 + Len(flat) = p + length
    <2> HIDE DEF length, flat
    <2> QED
      BY <1>1
  <1> HIDE DEF length, flat, n
  <1>7. NextGroup(m, read) = [groups |-> Append(before, here), residue |-> <<>>,
                              next |-> p + 2 + Len(flat), ok |-> TRUE]
    <2> DEFINE list == ActionsFrom(m, p + 2, n)
               next == p + 2 + Len(flat)
    <2>1. list = [actions |-> g.actions, next |-> next, ok |-> TRUE]
      BY <1>5
    <2>2. read.ok /\ read.next = p /\ read.groups = before
      OBVIOUS
    <2> HIDE DEF next, list
    <2>3. list.actions = g.actions /\ list.next = next /\ list.ok
      BY <2>1
    <2> HIDE DEF here, read
    <2>4. here = [id |-> At(m, p), actions |-> list.actions]
      BY <1>4, <2>3 DEF here
    <2>5. NextGroup(m, read) = [groups |-> Append(read.groups, here), residue |-> <<>>,
                                next |-> list.next, ok |-> TRUE]
      BY <1>4, <2>2, <2>3, <2>4 DEF NextGroup, GoesOn, list
    <2> QED
      BY <2>2, <2>3, <2>5 DEF next
  <1> QED
    BY <1>1, <1>6, <1>7 DEF length

\* No part is empty, so there are no more parts than elements.
LEMMA FlatLong ==
  ASSUME NEW S, NEW s \in Seq(Seq(S)), \A i \in 1..Len(s) : Len(s[i]) >= 1
  PROVE  Len(s) <= Len(FlattenSeq(s))
  <1>1. PICK pre : Joins(s, pre) /\ \A i \in 0..Len(s) : pre[i] \in Seq(S)
    BY Flattened
  <1> DEFINE n == Len(s)
             Good == [i \in 0..n |-> {x \in Seq(S) : i <= Len(x)}]
  <1>2. /\ n \in Nat /\ n \in 0..n /\ 0 \in 0..n
        /\ \A i \in 1..n : i \in 0..n /\ i - 1 \in 0..n /\ i - 1 \in Int /\ s[i] \in Seq(S)
    OBVIOUS
  <1>3. pre[0] \in Good[0]
    <2>1. pre[0] = <<>> /\ 0 <= Len(<<>>) /\ <<>> \in Seq(S)
      BY <1>1 DEF Joins
    <2> QED
      BY <1>2, <2>1
  <1>4. ASSUME NEW i \in 1..n, pre[i - 1] \in Good[i - 1] PROVE pre[i] \in Good[i]
    <2>1. PartAt(s, pre, i)
      BY <1>1, JoinedAt
    <2>2. Len(pre[i]) = Len(pre[i - 1]) + Len(s[i]) /\ Len(s[i]) >= 1
      BY <2>1 DEF PartAt
    <2>3. pre[i - 1] \in Seq(S) /\ i - 1 <= Len(pre[i - 1]) /\ pre[i] \in Seq(S)
      BY <1>1, <1>2, <1>4
    <2>4. Len(pre[i - 1]) \in Nat /\ Len(s[i]) \in Nat
      BY <1>2, <2>3, LenProperties
    <2>5. i <= Len(pre[i])
      <3> DEFINE a == Len(pre[i - 1])
                 b == Len(s[i])
                 c == Len(pre[i])
      <3>1. i \in Int /\ a \in Nat /\ b \in Nat /\ c = a + b /\ b >= 1 /\ i - 1 <= a
        BY <2>2, <2>3, <2>4
      <3> HIDE DEF n, a, b, c
      <3>2. i <= c
        BY <3>1
      <3> QED
        BY <3>2 DEF c
    <2> QED
      BY <1>2, <2>3, <2>5
  <1>5. pre[n] \in Good[n]
    <2> HIDE DEF Good, n
    <2> QED
      BY <1>2, <1>3, <1>4, StepsKeep, Zenon
  <1>6. n <= Len(pre[n])
    BY <1>2, <1>5
  <1> QED
    BY <1>1, <1>6 DEF Joins

\* The outer loop goes the way its rounds go.
GroupRounds(m, E) ==
  /\ E[0] = [groups |-> <<>>, residue |-> <<>>, next |-> HeaderLength, ok |-> TRUE]
  /\ \A i \in 1..Len(m) : E[i] = NextGroup(m, E[i - 1])

\* The recursive function of the loop over the groups is those rounds, and what it
\* returns is what they have come to when they end.
LEMMA GroupsMade ==
  ASSUME NEW m \in Seq(Nat), NEW E, GroupRounds(m, E),
         \E c \in 0..Len(m) : ~GoesOn(m, E[c])
  PROVE  \E c \in 0..Len(m) : ~GoesOn(m, E[c]) /\ ParsedGroups(m) = E[c]
  <1> DEFINE count == Len(m)
             s == [groups |-> <<>>, residue |-> <<>>, next |-> HeaderLength, ok |-> TRUE]
             Called(f) == [n \in 0..count |-> IF n = 0 THEN s ELSE NextGroup(m, f[n - 1])]
             w == CHOOSE f : f = Called(f)
             c == CHOOSE n \in 0..count : ~GoesOn(m, w[n])
  <1>0. /\ count \in Nat /\ E[0] = s
        /\ \A i \in 1..count : E[i] = NextGroup(m, E[i - 1])
    BY DEF GroupRounds
  <1>1. ParsedGroups(m) = w[c]
    BY DEF ParsedGroups
  <1> HIDE DEF s, count, c
  <1>2. \E f : f = Called(f)
    <2> DEFINE g == [n \in 0..count |-> E[n]]
    <2>1. ASSUME NEW n \in 0..count PROVE g[n] = IF n = 0 THEN s ELSE NextGroup(m, g[n - 1])
      <3>1. CASE n = 0
        BY <1>0, <3>1
      <3>2. CASE n # 0
        <4>1. n \in 1..count /\ n - 1 \in 0..count
          BY <1>0, <3>2
        <4>2. g[n - 1] = E[n - 1] /\ g[n] = E[n]
          BY <4>1
        <4> QED
          BY <1>0, <3>2, <4>1, <4>2
      <3> QED
        BY <3>1, <3>2
    <2>2. g = Called(g)
      BY <2>1
    <2> QED
      BY <2>2
  <1>3. w = Called(w)
    BY <1>2, Zenon DEF w
  <1> DEFINE Good == [k \in 0..count |-> {E[k]}]
  <1> HIDE DEF w
  <1>4. w[0] \in Good[0]
    <2>1. w[0] = s /\ 0 \in 0..count
      BY <1>0, <1>3
    <2> QED
      BY <1>0, <2>1
  <1>5. ASSUME NEW k \in 1..count, w[k - 1] \in Good[k - 1] PROVE w[k] \in Good[k]
    <2>1. k \in 0..count /\ k # 0 /\ k - 1 \in 0..count
      BY <1>0
    <2>2. w[k] = NextGroup(m, w[k - 1])
      BY <1>3, <2>1
    <2>3. w[k - 1] = E[k - 1]
      BY <1>5, <2>1
    <2>4. w[k] = E[k]
      BY <1>0, <2>2, <2>3
    <2> QED
      BY <2>1, <2>4
  <1>6. ASSUME NEW j \in 0..count PROVE w[j] = E[j]
    <2>1. /\ j \in Nat /\ w[0] \in Good[0]
          /\ \A k \in 1..j : w[k - 1] \in Good[k - 1] => w[k] \in Good[k]
      <3>1. j \in Nat /\ 1..j \subseteq 1..count
        BY <1>0
      <3> HIDE DEF Good
      <3> QED
        BY <1>4, <1>5, <3>1
    <2>2. w[j] \in Good[j]
      <3> HIDE DEF Good
      <3> QED
        BY <2>1, StepsKeep, Zenon
    <2> QED
      BY <1>0, <2>2
  <1>7. \E n \in 0..count : ~GoesOn(m, w[n])
    <2>1. PICK n \in 0..count : ~GoesOn(m, E[n])
      BY DEF count
    <2> QED
      BY <1>6, <2>1
  <1>8. c \in 0..count /\ ~GoesOn(m, w[c])
    BY <1>7, Zenon DEF c
  <1>9. w[c] = E[c]
    BY <1>6, <1>8
  <1> QED
    BY <1>1, <1>8, <1>9 DEF count

GroupParts(list) == [n \in DOMAIN list |-> GroupBytes(list[n])]

\* The bytes of the groups, as parts.
LEMMA PartsOfGroups ==
  ASSUME NEW list \in Seq(Group), \A n \in DOMAIN list : Len(list[n].actions) < U8
  PROVE  /\ Len(list) \in Nat /\ GroupParts(list) \in Seq(Seq(Nat))
         /\ Len(GroupParts(list)) = Len(list)
         /\ \A j \in 1..Len(list) :
              /\ list[j] \in Group /\ Len(list[j].actions) < U8
              /\ GroupParts(list)[j] = GroupBytes(list[j]) /\ Len(GroupParts(list)[j]) >= 1
  <1> DEFINE n == Len(list)
  <1>1. n \in Nat /\ DOMAIN list = 1..n /\ \A j \in 1..n : list[j] \in Group
    <2> HIDE DEF Group
    <2> QED
      OBVIOUS
  <1>2. \A j \in 1..n : GroupBytes(list[j]) \in Seq(Nat) /\ Len(GroupBytes(list[j])) >= 1
    BY <1>1, BytesOfGroup
  <1> HIDE DEF n
  <1>3. GroupParts(list) = [j \in 1..n |-> GroupBytes(list[j])]
    BY <1>1 DEF GroupParts
  <1>4. GroupParts(list) \in Seq(Seq(Nat)) /\ Len(GroupParts(list)) = n
    BY <1>1, <1>2, <1>3
  <1> QED
    BY <1>1, <1>2, <1>3, <1>4 DEF n

\* ParseGroupMsg reads the groups that GetBuffer wrote, and nothing else.
LEMMA GroupsRead ==
  ASSUME NEW m \in Seq(Nat), NEW list \in Seq(Group), NEW flat,
         \A j \in DOMAIN list : Len(list[j].actions) < U8,
         flat = FlattenSeq(GroupParts(list)), Lies(m, HeaderLength, flat),
         Len(m) = HeaderLength + Len(flat) + 1
  PROVE  ParsedGroups(m).groups = list /\ ParsedGroups(m).residue = <<>>
  <1> DEFINE n == Len(list)
             parts == GroupParts(list)
             p == HeaderLength
  <1>1. /\ n \in Nat /\ parts \in Seq(Seq(Nat)) /\ Len(parts) = n
        /\ \A j \in 1..n : /\ list[j] \in Group /\ Len(list[j].actions) < U8
                           /\ parts[j] = GroupBytes(list[j]) /\ Len(parts[j]) >= 1
    BY PartsOfGroups
  <1>2. flat = FlattenSeq(parts) /\ p \in Nat /\ Lies(m, p, flat)
    BY DEF HeaderLength
  <1>3. Len(m) - 1 = p + Len(flat) /\ Len(m) \in Nat /\ Len(flat) \in Nat
    <2>1. Len(flat) \in Nat
      BY <1>1, <1>2, FlatType
    <2> QED
      BY <2>1 DEF HeaderLength
  <1> HIDE DEF parts, p
  <1>4. n <= Len(flat)
    BY <1>1, <1>2, FlatLong, Zenon
  <1>5. n <= Len(m)
    BY <1>1, <1>2, <1>3, <1>4
  <1>6. PICK pre : Joins(parts, pre) /\ \A i \in 0..Len(parts) : pre[i] \in Seq(Nat)
    BY <1>1, Flattened
  <1> DEFINE Read(i) == [groups |-> SubSeq(list, 1, i), residue |-> <<>>,
                         next |-> p + Len(pre[i]), ok |-> TRUE]
             E == [i \in 0..Len(m) |-> IF i <= n THEN Read(i) ELSE Read(n)]
  <1>7. /\ SubSeq(list, 1, 0) = <<>> /\ SubSeq(list, 1, n) = list
        /\ \A i \in 1..n : SubSeq(list, 1, i) = Append(SubSeq(list, 1, i - 1), list[i])
    BY FirstOnes
  <1>8. p + Len(pre[n]) = Len(m) - 1 /\ pre[n] = flat
    BY <1>1, <1>2, <1>3, <1>6 DEF Joins
  <1> HIDE DEF n
  <1>9. E[0] = [groups |-> <<>>, residue |-> <<>>, next |-> HeaderLength, ok |-> TRUE]
    <2>1. Len(pre[0]) = 0 /\ 0 \in 0..Len(m) /\ 0 <= n
      BY <1>1, <1>3, <1>6 DEF Joins
    <2>2. p + Len(pre[0]) = p
      BY <1>2, <2>1
    <2>3. E[0] = Read(0)
      BY <2>1
    <2> HIDE DEF E
    <2> QED
      BY <1>7, <2>2, <2>3 DEF p
  <1>10. ASSUME NEW i \in 1..Len(m), i <= n PROVE E[i] = NextGroup(m, E[i - 1])
    <2> DEFINE q == p + Len(pre[i - 1])
               g == list[i]
               before == SubSeq(list, 1, i - 1)
    <2>1. /\ i \in 0..Len(m) /\ i - 1 \in 0..Len(m) /\ i \in 1..n /\ i - 1 <= n
          /\ i \in 1..Len(parts)
      BY <1>1, <1>3, <1>10
    <2>2. g \in Group /\ Len(g.actions) < U8 /\ parts[i] = GroupBytes(g) /\ Len(parts[i]) >= 1
      BY <1>1, <2>1
    <2>3. /\ Lies(m, q, parts[i]) /\ Len(pre[i - 1]) \in Nat
          /\ Len(parts[i]) \in Nat /\ Len(pre[i]) = Len(pre[i - 1]) + Len(parts[i])
          /\ Len(pre[i]) <= Len(flat)
      <3>1. Lies(m, p, FlattenSeq(parts))
        BY <1>2
      <3> QED
        BY <1>1, <1>2, <1>6, <2>1, <3>1, LiesFlat, ZenonT(60)
    <2>4. E[i - 1] = [groups |-> before, residue |-> <<>>, next |-> q, ok |-> TRUE]
      BY <2>1
    <2>5. E[i] = [groups |-> SubSeq(list, 1, i), residue |-> <<>>,
                  next |-> p + Len(pre[i]), ok |-> TRUE]
      BY <1>10, <2>1
    <2>6. p + Len(pre[i]) = q + Len(GroupBytes(g)) /\ q < Len(m) - 1
      <3> DEFINE a == Len(pre[i - 1])
                 b == Len(GroupBytes(g))
                 c == Len(pre[i])
      <3>1. a \in Nat /\ b \in Nat /\ b >= 1 /\ c = a + b /\ c <= Len(flat) /\ q = p + a
        BY <2>2, <2>3
      <3> HIDE DEF a, b, c, q
      <3>2. p + c = q + b /\ q < Len(m) - 1
        BY <1>2, <1>3, <3>1
      <3> QED
        BY <3>2 DEF b, c
    <2>7. SubSeq(list, 1, i) = Append(before, g)
      BY <1>7, <2>1
    <2> HIDE DEF q, g, before, E
    <2>8. NextGroup(m, [groups |-> before, residue |-> <<>>, next |-> q, ok |-> TRUE])
            = [groups |-> Append(before, g), residue |-> <<>>,
               next |-> q + Len(GroupBytes(g)), ok |-> TRUE]
      BY <2>2, <2>3, <2>6, GroupRead, SMTT(40)
    <2> QED
      BY <2>4, <2>5, <2>6, <2>7, <2>8
  <1>11. ASSUME NEW i \in 1..Len(m), i > n PROVE E[i] = NextGroup(m, E[i - 1])
    <2>1. i \in 0..Len(m) /\ i - 1 \in 0..Len(m) /\ ~(i <= n) /\ (i - 1 <= n => i - 1 = n)
      BY <1>1, <1>3, <1>11
    <2>2. E[i] = Read(n) /\ E[i - 1] = Read(n)
      <3>1. CASE i - 1 = n
        BY <2>1, <3>1
      <3>2. CASE i - 1 # n
        BY <2>1, <3>2
      <3> QED
        BY <3>1, <3>2
    <2> DEFINE r == Read(n)
    <2>3. r.next = Len(m) - 1
      BY <1>8
    <2> HIDE DEF r, E
    <2>4. NextGroup(m, r) = r
      BY <1>3, <2>3 DEF NextGroup, GoesOn
    <2> QED
      BY <2>2, <2>4 DEF r
  <1>12. GroupRounds(m, E)
    <2>1. ASSUME NEW i \in 1..Len(m) PROVE E[i] = NextGroup(m, E[i - 1])
      <3>1. i <= n \/ i > n
        BY <1>1
      <3> QED
        BY <1>10, <1>11, <3>1
    <2> QED
      BY <1>9, <2>1 DEF GroupRounds
  <1>13. ASSUME NEW i \in 1..n PROVE p + Len(pre[i - 1]) < Len(m) - 1
    <2>1. i \in 1..Len(parts) /\ Len(parts[i]) >= 1
      BY <1>1, <1>13
    <2>2. Lies(m, p, FlattenSeq(parts))
      BY <1>2
    <2>3. /\ Len(pre[i - 1]) \in Nat /\ Len(parts[i]) \in Nat
          /\ Len(pre[i]) = Len(pre[i - 1]) + Len(parts[i]) /\ Len(pre[i]) <= Len(flat)
      BY <1>1, <1>2, <1>6, <2>1, <2>2, LiesFlat, ZenonT(60)
    <2> DEFINE a == Len(pre[i - 1])
               b == Len(parts[i])
               c == Len(pre[i])
    <2>4. a \in Nat /\ b \in Nat /\ b >= 1 /\ c = a + b /\ c <= Len(flat)
      BY <2>1, <2>3
    <2> HIDE DEF a, b, c
    <2>5. p + a < Len(m) - 1
      BY <1>2, <1>3, <2>4
    <2> QED
      BY <2>5 DEF a
  <1>14. ASSUME NEW c \in 0..Len(m), ~GoesOn(m, E[c])
         PROVE  E[c].groups = list /\ E[c].residue = <<>>
    <2>1. CASE c < n
      <3>1. c \in 0..Len(m) /\ c + 1 \in 1..n /\ c \in Nat /\ c <= n /\ (c + 1) - 1 = c
        BY <1>1, <1>3, <2>1
      <3>2. p + Len(pre[c]) < Len(m) - 1
        BY <1>13, <3>1
      <3>3. E[c].ok /\ E[c].next = p + Len(pre[c])
        BY <3>1
      <3> HIDE DEF E
      <3> QED
        BY <1>14, <3>2, <3>3 DEF GoesOn
    <2>2. CASE ~(c < n)
      <3>1. c <= n => c = n
        BY <1>1, <1>3, <2>2
      <3>2. E[c] = Read(n)
        <4>1. CASE c <= n
          BY <3>1, <4>1
        <4>2. CASE ~(c <= n)
          BY <4>2
        <4> QED
          BY <4>1, <4>2
      <3> HIDE DEF E
      <3> QED
        BY <1>7, <3>2
    <2> QED
      BY <2>1, <2>2
  <1>15. \E c \in 0..Len(m) : ~GoesOn(m, E[c])
    <2>1. n \in 0..Len(m)
      BY <1>1, <1>3, <1>5
    <2>2. E[n].next = p + Len(pre[n])
      BY <2>1
    <2> HIDE DEF E
    <2>3. ~GoesOn(m, E[n])
      BY <1>3, <1>8, <2>2 DEF GoesOn
    <2> QED
      BY <2>1, <2>3
  <1> HIDE DEF E
  <1> QED
    BY <1>12, <1>14, <1>15, GroupsMade, Zenon

-----------------------------------------------------------------------------
(* ParseNnMsg reads what GetBuffer wrote.                                   *)

\* The bytes of a neuron: how many there are, they, and the category.
LEMMA BytesOfNeuron ==
  ASSUME NEW u \in Neuron
  PROVE  LET n == Len(u.bytes)
         IN  /\ u.bytes \in Seq(Nat) /\ u.cat \in Nat /\ n \in Nat
             /\ u = [bytes |-> u.bytes, cat |-> u.cat]
             /\ <<n>> \in Seq(Nat) /\ Len(<<n>>) = 1 /\ <<u.cat>> \in Seq(Nat)
             /\ <<n>> \o u.bytes \in Seq(Nat) /\ Len(<<n>> \o u.bytes) = 1 + n
             /\ NeuronBytes(u) = (<<n>> \o u.bytes) \o <<u.cat>>
             /\ NeuronBytes(u) \in Seq(Nat) /\ Len(NeuronBytes(u)) = n + 2
             /\ Len(NeuronBytes(u)) >= 1
  <1> DEFINE n == Len(u.bytes)
             x == <<n>> \o u.bytes
             y == <<u.cat>>
  <1>1. u.bytes \in Seq(Byte) /\ u.cat \in Byte /\ u = [bytes |-> u.bytes, cat |-> u.cat]
    <2> HIDE DEF Byte
    <2> QED
      BY DEF Neuron
  <1>2. u.cat \in Nat
    <2>1. \A z \in Byte : z \in Nat
      BY DEF Byte, U8
    <2> QED
      BY <1>1, <2>1, Zenon
  <1>3. u.bytes \in Seq(Nat) /\ n \in Nat
    BY <1>1, BytesAreNat
  <1>4. <<n>> \in Seq(Nat) /\ Len(<<n>>) = 1 /\ x \in Seq(Nat) /\ Len(x) = 1 + n
    BY <1>3, OneBefore, Zenon
  <1>5. y \in Seq(Nat) /\ Len(y) = 1
    BY <1>2
  <1>6. NeuronBytes(u) = x \o y
    BY DEF NeuronBytes
  <1> HIDE DEF x, y, n
  <1>7. x \o y \in Seq(Nat) /\ Len(x \o y) = n + 2
    <2>1. x \o y \in Seq(Nat) /\ Len(x \o y) = Len(x) + Len(y)
      BY <1>4, <1>5, JointLength, Zenon
    <2> QED
      BY <1>3, <1>4, <1>5, <2>1
  <1>8. n + 2 >= 1
    BY <1>3
  <1> QED
    BY <1>1, <1>2, <1>3, <1>4, <1>5, <1>6, <1>7, <1>8, Zenon DEF x, y, n

\* A round of the loop reads the neuron that lies there, as long as its index
\* does not wrap.
LEMMA NeuronRead ==
  ASSUME NEW m \in Seq(Nat), NEW p, NEW u \in Neuron, Lies(m, p, NeuronBytes(u)),
         p + Len(NeuronBytes(u)) < U8, NEW before
  PROVE  NextNeuron(m, [neurons |-> before, next |-> p])
           = [neurons |-> Append(before, u), next |-> p + Len(NeuronBytes(u))]
  <1> DEFINE n == Len(u.bytes)
             x == <<n>> \o u.bytes
             y == <<u.cat>>
             read == [neurons |-> before, next |-> p]
  <1>1. /\ u.bytes \in Seq(Nat) /\ u.cat \in Nat /\ n \in Nat
        /\ <<n>> \in Seq(Nat) /\ Len(<<n>>) = 1 /\ y \in Seq(Nat)
        /\ x \in Seq(Nat) /\ Len(x) = 1 + n
        /\ NeuronBytes(u) = x \o y /\ Len(NeuronBytes(u)) = n + 2
    BY BytesOfNeuron, Zenon
  <1>2. u = [bytes |-> u.bytes, cat |-> u.cat]
    BY BytesOfNeuron
  <1>3. p \in Nat
    BY DEF Lies
  <1>4. /\ p + 1 \in Nat /\ p + 1 + n \in Nat /\ p + 1 + n + 1 \in Nat
        /\ p + 1 < 256 /\ p + 1 + n < 256 /\ p + 1 + n + 1 < 256
    <2>1. p + (n + 2) < 256
      BY <1>1 DEF U8
    <2> HIDE DEF n
    <2> QED
      BY <1>1, <1>3, <2>1
  <1>5. Lies(m, p, x) /\ Lies(m, p + Len(x), y)
    <2>1. Lies(m, p, x \o y)
      BY <1>1
    <2> HIDE DEF x, y
    <2> QED
      BY <1>1, <2>1, LiesInParts, Zenon
  <1>6. Lies(m, p, <<n>>) /\ Lies(m, p + Len(<<n>>), u.bytes)
    <2> HIDE DEF n
    <2> QED
      BY <1>1, <1>5, LiesInParts, Zenon
  <1>7. At(m, p) = n
    <2> HIDE DEF n
    <2> QED
      BY <1>1, <1>6, ReadFirst, Zenon
  <1>8. Block(m, p + 1, n) = u.bytes
    <2>1. Block(m, p + Len(<<n>>), Len(u.bytes)) = u.bytes
      BY <1>1, <1>6, ReadLies, Zenon
    <2> QED
      BY <1>1, <2>1
  <1>9. At(m, p + 1 + n) = u.cat
    <2>1. At(m, p + Len(x)) = u.cat
      BY <1>1, <1>5, ReadFirst, Zenon
    <2>2. p + Len(x) = p + 1 + n
      <3> HIDE DEF x, n
      <3> QED
        BY <1>1, <1>3
    <2> QED
      BY <2>1, <2>2
  <1> HIDE DEF n, x, y
  <1>10. (p + 1) % U8 = p + 1 /\ (p + 1 + n) % U8 = p + 1 + n
         /\ (p + 1 + n + 1) % U8 = p + 1 + n + 1
    <2>1. (p + 1) % 256 = p + 1 /\ (p + 1 + n) % 256 = p + 1 + n
          /\ (p + 1 + n + 1) % 256 = p + 1 + n + 1
      BY <1>4, SmallRemainder
    <2> QED
      BY <2>1 DEF U8
  <1>11. NextNeuron(m, read)
           = [neurons |-> Append(before, [bytes |-> u.bytes, cat |-> u.cat]),
              next |-> p + 1 + n + 1]
    <2>1. read.next = p /\ read.neurons = before
      OBVIOUS
    <2> HIDE DEF read
    <2> QED
      BY <1>7, <1>8, <1>9, <1>10, <2>1, Zenon DEF NextNeuron
  <1>12. p + 1 + n + 1 = p + Len(NeuronBytes(u))
    <2> DEFINE length == Len(NeuronBytes(u))
    <2>1. length = n + 2
      BY <1>1
    <2> HIDE DEF length
    <2>2. p + 1 + n + 1 = p + length
      BY <1>1, <1>3, <2>1
    <2> QED
      BY <2>2 DEF length
  <1> QED
    BY <1>2, <1>11, <1>12

\* ParseNnMsg goes the way its rounds go.
NeuronRounds(m, first, count, E) ==
  /\ E[0] = [neurons |-> <<>>, next |-> first]
  /\ \A i \in 1..count : E[i] = NextNeuron(m, E[i - 1])

\* The recursive function of the loop over the neurons is those rounds.
LEMMA NeuronsMade ==
  ASSUME NEW m, NEW first, NEW count \in Nat, NEW E, NeuronRounds(m, first, count, E)
  PROVE  NeuronsFrom(m, first, count) = E[count].neurons
  <1> DEFINE s == [neurons |-> <<>>, next |-> first]
             Called(f) == [n \in 0..count |-> IF n = 0 THEN s ELSE NextNeuron(m, f[n - 1])]
             w == CHOOSE f : f = Called(f)
  <1>0. /\ count \in Nat /\ E[0] = s
        /\ \A i \in 1..count : E[i] = NextNeuron(m, E[i - 1])
    BY DEF NeuronRounds
  <1>1. NeuronsFrom(m, first, count) = w[count].neurons
    BY DEF NeuronsFrom
  <1> HIDE DEF s
  <1>2. \E f : f = Called(f)
    <2> DEFINE g == [n \in 0..count |-> E[n]]
    <2>1. ASSUME NEW n \in 0..count PROVE g[n] = IF n = 0 THEN s ELSE NextNeuron(m, g[n - 1])
      <3>1. CASE n = 0
        BY <1>0, <3>1
      <3>2. CASE n # 0
        <4>1. n \in 1..count /\ n - 1 \in 0..count
          BY <1>0, <3>2
        <4>2. g[n - 1] = E[n - 1] /\ g[n] = E[n]
          BY <4>1
        <4> QED
          BY <1>0, <3>2, <4>1, <4>2
      <3> QED
        BY <3>1, <3>2
    <2>2. g = Called(g)
      BY <2>1
    <2> QED
      BY <2>2
  <1>3. w = Called(w)
    BY <1>2, Zenon DEF w
  <1> DEFINE Good == [k \in 0..count |-> {E[k]}]
  <1> HIDE DEF w
  <1>4. w[0] \in Good[0]
    <2>1. w[0] = s /\ 0 \in 0..count
      BY <1>0, <1>3
    <2> QED
      BY <1>0, <2>1
  <1>5. ASSUME NEW k \in 1..count, w[k - 1] \in Good[k - 1] PROVE w[k] \in Good[k]
    <2>1. k \in 0..count /\ k # 0 /\ k - 1 \in 0..count
      BY <1>0
    <2>2. w[k] = NextNeuron(m, w[k - 1])
      BY <1>3, <2>1
    <2>3. w[k - 1] = E[k - 1]
      BY <1>5, <2>1
    <2>4. w[k] = E[k]
      BY <1>0, <2>2, <2>3
    <2> QED
      BY <2>1, <2>4
  <1>6. w[count] \in Good[count]
    <2> HIDE DEF Good
    <2> QED
      BY <1>0, <1>4, <1>5, StepsKeep, Zenon
  <1>7. w[count] = E[count]
    BY <1>0, <1>6
  <1> QED
    BY <1>1, <1>7

NeuronParts(list) == [n \in DOMAIN list |-> NeuronBytes(list[n])]

\* The bytes of the neurons, as parts.
LEMMA PartsOfNeurons ==
  ASSUME NEW list \in Seq(Neuron)
  PROVE  /\ Len(list) \in Nat /\ NeuronParts(list) \in Seq(Seq(Nat))
         /\ Len(NeuronParts(list)) = Len(list)
         /\ \A j \in 1..Len(list) :
              list[j] \in Neuron /\ NeuronParts(list)[j] = NeuronBytes(list[j])
  <1> DEFINE n == Len(list)
  <1>1. n \in Nat /\ DOMAIN list = 1..n /\ \A j \in 1..n : list[j] \in Neuron
    <2> HIDE DEF Neuron
    <2> QED
      OBVIOUS
  <1>2. \A j \in 1..n : NeuronBytes(list[j]) \in Seq(Nat)
    BY <1>1, BytesOfNeuron
  <1> HIDE DEF n
  <1>3. NeuronParts(list) = [j \in 1..n |-> NeuronBytes(list[j])]
    BY <1>1 DEF NeuronParts
  <1>4. NeuronParts(list) \in Seq(Seq(Nat)) /\ Len(NeuronParts(list)) = n
    BY <1>1, <1>2, <1>3
  <1> QED
    BY <1>1, <1>3, <1>4 DEF n

\* ParseNnMsg reads the neurons that lie there.
LEMMA NeuronsRead ==
  ASSUME NEW m \in Seq(Nat), NEW p, NEW list \in Seq(Neuron), NEW flat,
         flat = FlattenSeq(NeuronParts(list)), Lies(m, p, flat), p + Len(flat) < U8
  PROVE  NeuronsFrom(m, p, Len(list)) = list
  <1> DEFINE n == Len(list)
             parts == NeuronParts(list)
  <1>1. /\ n \in Nat /\ parts \in Seq(Seq(Nat)) /\ Len(parts) = n
        /\ \A j \in 1..n : list[j] \in Neuron /\ parts[j] = NeuronBytes(list[j])
    BY PartsOfNeurons
  <1>2. flat = FlattenSeq(parts)
    OBVIOUS
  <1> HIDE DEF parts
  <1>3. PICK pre : Joins(parts, pre) /\ \A i \in 0..Len(parts) : pre[i] \in Seq(Nat)
    BY <1>1, Flattened
  <1> DEFINE E == [i \in 0..n |-> [neurons |-> SubSeq(list, 1, i), next |-> p + Len(pre[i])]]
  <1>4. p \in Nat /\ Len(flat) \in Nat /\ p + Len(flat) < U8 /\ U8 \in Int
    <2>1. Len(flat) \in Nat
      BY <1>1, <1>2, FlatType
    <2> QED
      BY <2>1 DEF Lies, U8
  <1>5. /\ SubSeq(list, 1, 0) = <<>> /\ SubSeq(list, 1, n) = list
        /\ \A i \in 1..n : SubSeq(list, 1, i) = Append(SubSeq(list, 1, i - 1), list[i])
    BY FirstOnes
  <1> HIDE DEF n
  <1>6. E[0] = [neurons |-> <<>>, next |-> p]
    <2>1. Len(pre[0]) = 0 /\ 0 \in 0..n
      BY <1>1, <1>3 DEF Joins
    <2>2. p + Len(pre[0]) = p
      BY <1>4, <2>1
    <2>3. E[0] = [neurons |-> SubSeq(list, 1, 0), next |-> p + Len(pre[0])]
      BY <2>1
    <2> HIDE DEF E
    <2> QED
      BY <1>5, <2>2, <2>3
  <1>7. ASSUME NEW i \in 1..n PROVE E[i] = NextNeuron(m, E[i - 1])
    <2> DEFINE q == p + Len(pre[i - 1])
               u == list[i]
               before == SubSeq(list, 1, i - 1)
    <2>1. i \in 0..n /\ i - 1 \in 0..n /\ i \in 1..Len(parts) /\ u \in Neuron
          /\ parts[i] = NeuronBytes(u)
      BY <1>1
    <2>2. /\ Lies(m, q, parts[i]) /\ Len(pre[i - 1]) \in Nat
          /\ Len(parts[i]) \in Nat /\ Len(pre[i]) = Len(pre[i - 1]) + Len(parts[i])
          /\ Len(pre[i]) <= Len(flat)
      <3>1. parts \in Seq(Seq(Nat)) /\ Joins(parts, pre)
            /\ \A j \in 0..Len(parts) : pre[j] \in Seq(Nat)
        BY <1>1, <1>3
      <3>2. Lies(m, p, FlattenSeq(parts))
        BY <1>2
      <3>3. /\ Lies(m, p + Len(pre[i - 1]), parts[i]) /\ Len(pre[i - 1]) \in Nat
            /\ Len(parts[i]) \in Nat /\ Len(pre[i]) = Len(pre[i - 1]) + Len(parts[i])
            /\ Len(pre[i]) <= Len(FlattenSeq(parts))
        BY <2>1, <3>1, <3>2, LiesFlat, ZenonT(60)
      <3> QED
        BY <1>2, <3>3
    <2>3. E[i - 1] = [neurons |-> before, next |-> q]
      BY <2>1
    <2>4. E[i] = [neurons |-> SubSeq(list, 1, i), next |-> p + Len(pre[i])]
      BY <2>1
    <2>5. p + Len(pre[i]) = q + Len(NeuronBytes(u)) /\ q + Len(NeuronBytes(u)) < U8
      <3> DEFINE a == Len(pre[i - 1])
                 b == Len(NeuronBytes(u))
                 c == Len(pre[i])
      <3>1. a \in Nat /\ b \in Nat /\ c = a + b /\ c <= Len(flat) /\ q = p + a
        BY <2>1, <2>2
      <3> HIDE DEF a, b, c, q
      <3>2. p + c = q + b /\ q + b < U8
        BY <1>4, <3>1
      <3> QED
        BY <3>2 DEF b, c
    <2>6. SubSeq(list, 1, i) = Append(before, u)
      BY <1>5
    <2> HIDE DEF q, u, before, E
    <2>7. NextNeuron(m, [neurons |-> before, next |-> q])
            = [neurons |-> Append(before, u), next |-> q + Len(NeuronBytes(u))]
      BY <2>1, <2>2, <2>5, NeuronRead
    <2> QED
      BY <2>3, <2>4, <2>5, <2>6, <2>7
  <1>8. E[n].neurons = list
    BY <1>1, <1>5
  <1> HIDE DEF E
  <1>9. NeuronsFrom(m, p, n) = E[n].neurons
    <2>1. NeuronRounds(m, p, n, E)
      BY <1>6, <1>7 DEF NeuronRounds
    <2> QED
      BY <1>1, <2>1, NeuronsMade
  <1> QED
    BY <1>8, <1>9 DEF n

\* ParseNnMsg reads the sensors and the neurons that GetBuffer wrote, in a message
\* that its index can number.
LEMMA NnRead ==
  ASSUME NEW m \in Seq(Nat), NEW sensors \in Seq(Byte), NEW neurons \in Seq(Neuron),
         NEW body, body = NnBody(sensors, neurons), Lies(m, HeaderLength, body),
         Len(m) = HeaderLength + Len(body) + 1, Len(m) <= U8
  PROVE  ParsedNn(m).sensors = sensors /\ ParsedNn(m).neurons = neurons
  <1> DEFINE c == Len(sensors)
             n == Len(neurons)
             flat == FlattenSeq(NeuronParts(neurons))
             x == <<c>> \o sensors
             y == x \o <<n>>
  <1>1. /\ sensors \in Seq(Nat) /\ c \in Nat /\ n \in Nat
        /\ <<c>> \in Seq(Nat) /\ <<n>> \in Seq(Nat) /\ Len(<<n>>) = 1 /\ Len(<<c>>) = 1
    <2>1. sensors \in Seq(Nat) /\ c \in Nat
      BY BytesAreNat
    <2>2. n \in Nat
      BY PartsOfNeurons
    <2> HIDE DEF c, n
    <2> QED
      BY <2>1, <2>2
  <1>2. flat \in Seq(Nat) /\ Len(flat) \in Nat
    BY PartsOfNeurons, FlatType
  <1>3. body = y \o flat
    BY DEF NnBody, NeuronParts
  <1> HIDE DEF c, n, flat
  <1>4. x \in Seq(Nat) /\ Len(x) = 1 + c
    <2>1. x \in Seq(Nat) /\ Len(x) = Len(<<c>>) + Len(sensors)
      BY <1>1, JointLength, Zenon
    <2> QED
      BY <1>1, <2>1 DEF c
  <1> HIDE DEF x
  <1>5. y \in Seq(Nat) /\ Len(y) = 2 + c
    <2>1. y \in Seq(Nat) /\ Len(y) = Len(x) + Len(<<n>>)
      BY <1>1, <1>4, JointLength, Zenon
    <2> QED
      BY <1>1, <1>4, <2>1
  <1> HIDE DEF y
  <1>6. Len(body) = 2 + c + Len(flat)
    <2>1. Len(y \o flat) = Len(y) + Len(flat)
      BY <1>2, <1>5, JointLength, Zenon
    <2> QED
      BY <1>3, <1>5, <2>1
  <1>7. Lies(m, 4, y) /\ Lies(m, 4 + Len(y), flat)
    <2>1. Lies(m, 4, y \o flat)
      BY <1>3 DEF HeaderLength
    <2> QED
      BY <1>2, <1>5, <2>1, LiesInParts, Zenon
  <1>8. Lies(m, 4, x) /\ Lies(m, 4 + Len(x), <<n>>)
    BY <1>1, <1>4, <1>7, LiesInParts, Zenon DEF y
  <1>9. Lies(m, 4, <<c>>) /\ Lies(m, 4 + Len(<<c>>), sensors)
    BY <1>1, <1>8, LiesInParts, Zenon DEF x
  <1>10. At(m, 4) = c /\ At(m, 4 + Len(x)) = n
    BY <1>1, <1>8, <1>9, ReadFirst, Zenon
  <1>11. At(m, 4 + 1 + c) = n
    BY <1>1, <1>4, <1>10
  <1>12. 4 + 1 + c + 1 + Len(flat) < 256
    BY <1>1, <1>2, <1>6 DEF U8, HeaderLength
  <1>13. (4 + 1 + c) % U8 = 4 + 1 + c /\ (4 + 1 + c + 1) % U8 = 4 + 1 + c + 1
    <2>1. /\ 4 + 1 + c \in Nat /\ 4 + 1 + c < 256
          /\ 4 + 1 + c + 1 \in Nat /\ 4 + 1 + c + 1 < 256
      BY <1>1, <1>2, <1>12
    <2>2. (4 + 1 + c) % 256 = 4 + 1 + c /\ (4 + 1 + c + 1) % 256 = 4 + 1 + c + 1
      BY <2>1, SmallRemainder, Zenon
    <2> QED
      BY <2>2 DEF U8
  <1>14. NeuronsFrom(m, 4 + 1 + c + 1, n) = neurons
    <2>1. 4 + Len(y) = 4 + 1 + c + 1
      BY <1>1, <1>5
    <2>2. Lies(m, 4 + 1 + c + 1, flat)
      BY <1>7, <2>1
    <2>3. 4 + 1 + c + 1 + Len(flat) < U8
      BY <1>12 DEF U8
    <2> QED
      BY <2>2, <2>3, NeuronsRead DEF n, flat
  <1>15. [k \in 1..c |-> At(m, (4 + k) % U8)] = sensors
    <2>1. ASSUME NEW k \in 1..c PROVE At(m, (4 + k) % U8) = sensors[k]
      <3>1. 4 + k \in Nat /\ 4 + k < 256 /\ k \in Nat /\ k \in 1..Len(sensors)
        BY <1>1, <1>2, <1>12 DEF c
      <3>2. (4 + k) % U8 = 4 + k
        <4>1. (4 + k) % 256 = 4 + k
          BY <3>1, SmallRemainder
        <4> QED
          BY <4>1 DEF U8
      <3>3. At(m, ((4 + Len(<<c>>)) - 1) + k) = sensors[k]
        BY <1>1, <1>9, <3>1, ReadLies
      <3>4. ((4 + Len(<<c>>)) - 1) + k = 4 + k
        BY <1>1, <3>1
      <3> QED
        BY <3>2, <3>3, <3>4
    <2>2. sensors = [k \in 1..c |-> sensors[k]]
      BY DEF c
    <2> QED
      BY <2>1, <2>2, Zenon
  <1> QED
    <2>1. ParsedNn(m) = [sensors |-> [k \in 1..c |-> At(m, (4 + k) % U8)],
                         neurons |-> NeuronsFrom(m, 4 + 1 + c + 1, n)]
      BY <1>10, <1>11, <1>13, Zenon DEF ParsedNn, HeaderLength
    <2> QED
      BY <1>14, <1>15, <2>1

-----------------------------------------------------------------------------
(* Messages whole.                                                          *)

\* What GetBuffer writes: the header, the body and a check byte that fits.
LEMMA MessageBytes ==
  ASSUME NEW msg \in Message
  PROVE  LET m == GetBuffer(msg)
         IN  /\ m \in Seq(Nat) /\ Lies(m, HeaderLength, Body(msg))
             /\ Len(m) = HeaderLength + Len(Body(msg)) + 1
             /\ m[2] = msg.info.ver /\ GetCRCResult(m)
  <1> DEFINE body == Body(msg)
             length == HeaderLength + Len(body) + 1
             start == <<msg.kind, msg.info.ver, length % U8, (length \div U8) % U8>>
             whole == start \o body
             m == GetBuffer(msg)
             S == Byte \cup {msg.kind, msg.info.ver, length % U8, (length \div U8) % U8}
  <1>1. m = Append(whole, SumCRC(whole))
    BY DEF GetBuffer, Framed
  <1>2. body \in Seq(Byte) /\ m \in Seq(Byte)
    BY MessageAssumption, Zenon
  <1>3. m \in Seq(Nat)
    BY <1>2, BytesAreNat
  <1>4. start \in Seq(S) /\ Len(start) = 4 /\ start[2] = msg.info.ver
    OBVIOUS
  <1>5. body \in Seq(S)
    <2>1. \A s \in Seq(Byte) : s \in Seq(S)
      <3> HIDE DEF body, Byte
      <3> QED
        OBVIOUS
    <2> QED
      BY <1>2, <2>1
  <1> HIDE DEF start, S, m, body
  <1>6. /\ whole \in Seq(S) /\ Len(body) \in Nat /\ Len(whole) = 4 + Len(body)
        /\ whole[2] = msg.info.ver /\ \A t \in 1..Len(body) : whole[4 + t] = body[t]
    <2>1. whole = start \o body
      OBVIOUS
    <2> HIDE DEF whole
    <2>2. /\ whole \in Seq(S) /\ Len(whole) = Len(start) + Len(body)
          /\ \A j \in 1..(Len(start) + Len(body)) :
               whole[j] = IF j <= Len(start) THEN start[j] ELSE body[j - Len(start)]
      BY <1>4, <1>5, <2>1, ConcatProperties, Zenon
    <2>3. Len(body) \in Nat
      BY <1>5, LenProperties
    <2>4. \A t \in 1..Len(body) : whole[4 + t] = body[t]
      BY <1>4, <2>2, <2>3
    <2>5. whole[2] = start[2]
      BY <1>4, <2>2, <2>3
    <2> QED
      BY <1>4, <2>2, <2>3, <2>4, <2>5
  <1> HIDE DEF whole
  <1>7. /\ Len(m) = Len(body) + 5 /\ m[2] = msg.info.ver
        /\ \A t \in 1..Len(body) : m[4 + t] = body[t]
        /\ m[Len(m)] = SumCRC(whole)
    <2> DEFINE crc == SumCRC(whole)
               T == S \cup {crc}
    <2>1. whole \in Seq(T) /\ crc \in T
      <3>1. \A s \in Seq(S) : s \in Seq(T)
        <4> HIDE DEF crc
        <4> QED
          OBVIOUS
      <3> QED
        BY <1>6, <3>1
    <2> HIDE DEF crc, T
    <2>2. m = Append(whole, crc)
      BY <1>1 DEF crc
    <2>3. /\ Len(m) = Len(whole) + 1 /\ m[Len(whole) + 1] = crc
          /\ \A j \in 1..Len(whole) : m[j] = whole[j]
      BY <2>1, <2>2
    <2> QED
      BY <1>6, <2>3 DEF crc
  <1>8. Front(m) = whole
    <2> DEFINE crc == SumCRC(whole)
               T == S \cup {crc}
    <2>1. whole \in Seq(T) /\ crc \in T
      <3>1. \A s \in Seq(S) : s \in Seq(T)
        <4> HIDE DEF crc
        <4> QED
          OBVIOUS
      <3> QED
        BY <1>6, <3>1
    <2> HIDE DEF crc, T
    <2>2. m = Append(whole, crc)
      BY <1>1 DEF crc
    <2>3. SubSeq(Append(whole, crc), 1, Len(Append(whole, crc)) - 1) = whole
      BY <2>1
    <2> QED
      BY <2>2, <2>3 DEF Front
  <1>9. GetCRCResult(m)
    BY <1>7, <1>8, Zenon DEF GetCRCResult, Last
  <1>10. Lies(m, HeaderLength, body) /\ Len(m) = HeaderLength + Len(body) + 1
    BY <1>6, <1>7 DEF Lies, HeaderLength
  <1> QED
    BY <1>3, <1>7, <1>9, <1>10 DEF m, body

-----------------------------------------------------------------------------
(* What is stored.                                                          *)

Infos(k) == IF k = kGroupInfo THEN GroupInfo ELSE NnInfo
MessageOf(k, x) == [kind |-> k, info |-> x]

\* The kind of message that is whole is read into what is stored.
Parse(k, m) ==
  \/ k = kGroupInfo /\ ParseGroupMsg(m) /\ UNCHANGED nn
  \/ k = kNNInfo /\ ParseNnMsg(m) /\ UNCHANGED groups

\* A message read back is what it was made of.
LEMMA MessageRead ==
  ASSUME Countable, NEW k \in Kind, NEW x \in Infos(k)
  PROVE  LET m == GetBuffer(MessageOf(k, x))
         IN  /\ MessageOf(k, x) \in Message /\ GetCRCResult(m) /\ m[2] = x.ver
             /\ k = kGroupInfo => ParsedGroups(m).groups = x.groups /\ ParsedGroups(m).residue = <<>>
             /\ k = kNNInfo => ParsedNn(m).sensors = x.sensors /\ ParsedNn(m).neurons = x.neurons
  <1> DEFINE msg == MessageOf(k, x)
             m == GetBuffer(msg)
  <1>1. msg.kind = k /\ msg.info = x /\ msg \in Message
    BY DEF MessageOf, Message, Infos, Kind
  <1>2. /\ m \in Seq(Nat) /\ Lies(m, HeaderLength, Body(msg))
        /\ Len(m) = HeaderLength + Len(Body(msg)) + 1
        /\ m[2] = msg.info.ver /\ GetCRCResult(m)
    BY <1>1, MessageBytes, Zenon
  <1> HIDE DEF m, msg
  <1>3. ASSUME k = kGroupInfo
        PROVE  ParsedGroups(m).groups = x.groups /\ ParsedGroups(m).residue = <<>>
    <2> DEFINE flat == FlattenSeq(GroupParts(x.groups))
               list == x.groups
    <2>1. x \in GroupInfo /\ list \in Seq(Group)
      <3>1. x \in GroupInfo
        BY <1>3 DEF Infos
      <3> HIDE DEF Group
      <3> QED
        BY <3>1, InfoAssumption
    <2>2. \A j \in DOMAIN list : Len(list[j].actions) < U8
      BY <2>1 DEF Countable
    <2>3. Body(msg) = flat
      BY <1>1, <1>3 DEF Body, GroupBody, GroupParts
    <2> HIDE DEF list
    <2>4. flat = FlattenSeq(GroupParts(list))
      BY DEF list
    <2> HIDE DEF flat
    <2>5. Lies(m, HeaderLength, flat) /\ Len(m) = HeaderLength + Len(flat) + 1
      BY <1>2, <2>3
    <2>6. ParsedGroups(m).groups = list /\ ParsedGroups(m).residue = <<>>
      BY <1>2, <2>1, <2>2, <2>4, <2>5, GroupsRead
    <2> QED
      BY <2>6 DEF list
  <1>4. ASSUME k = kNNInfo
        PROVE  ParsedNn(m).sensors = x.sensors /\ ParsedNn(m).neurons = x.neurons
    <2>1. x \in NnInfo /\ x.sensors \in Seq(Byte) /\ x.neurons \in Seq(Neuron)
      <3>1. x \in NnInfo
        BY <1>4 DEF Infos, kGroupInfo, kNNInfo
      <3> HIDE DEF Neuron, Byte
      <3> QED
        BY <3>1, InfoAssumption
    <2>2. Len(m) <= U8
      BY <1>4, <2>1 DEF Countable, m, msg, MessageOf
    <2>3. Body(msg) = NnBody(x.sensors, x.neurons)
      BY <1>1, <1>4 DEF Body, kGroupInfo, kNNInfo
    <2> QED
      BY <1>2, <2>1, <2>2, <2>3, NnRead
  <1> QED
    BY <1>1, <1>2, <1>3, <1>4 DEF m, msg

\* Reading a message leaves exactly what it was made of, when no list that is
\* not counted holds an action.
LEMMA MessageStored ==
  ASSUME Countable, NEW k \in Kind, NEW x \in Infos(k), ~Uncounted, infoVer'[k] = x.ver,
         Parse(k, GetBuffer(MessageOf(k, x)))
  PROVE  Stored(k)' = x
  <1> DEFINE m == GetBuffer(MessageOf(k, x))
  <1>1. /\ k = kGroupInfo => ParsedGroups(m).groups = x.groups /\ ParsedGroups(m).residue = <<>>
        /\ k = kNNInfo => ParsedNn(m).sensors = x.sensors /\ ParsedNn(m).neurons = x.neurons
    BY MessageRead, Zenon
  <1>2. Parse(k, m)
    OBVIOUS
  <1> HIDE DEF m
  <1>3. CASE k = kGroupInfo
    <2> DEFINE list == x.groups
               parsed == ParsedGroups(m)
               done == Len(parsed.groups)
               Cleared(n) == IF n < Len(groups.ids) THEN <<>> ELSE groups.lists[n]
               Added(n) == CASE n < done -> parsed.groups[n + 1].actions
                             [] n = done -> parsed.residue
                             [] OTHER    -> <<>>
               ids == [n \in 1..done |-> parsed.groups[n].id]
               lists == [n \in ListIndex |-> Cleared(n) \o Added(n)]
    <2>1. /\ x.ver \in Byte /\ list \in Seq(Group) /\ Len(list) <= MAX_GROUP_NUM
          /\ x = [ver |-> x.ver, groups |-> list] /\ MAX_GROUP_NUM \in Nat
      <3>1. x \in GroupInfo
        BY <1>3 DEF Infos
      <3> HIDE DEF Group, Byte
      <3> QED
        BY <3>1, InfoAssumption
    <2>2. /\ groups' = [ver |-> x.ver, ids |-> ids, lists |-> lists]
          /\ parsed.groups = list /\ parsed.residue = <<>> /\ done = Len(list)
      <3>1. ParseGroupMsg(m)
        BY <1>2, <1>3 DEF Parse, kGroupInfo, kNNInfo
      <3>2. groups' = [ver |-> infoVer'[kGroupInfo], ids |-> ids, lists |-> lists]
        BY <3>1 DEF ParseGroupMsg
      <3>3. infoVer'[kGroupInfo] = x.ver
        BY <1>3
      <3> HIDE DEF ids, lists
      <3> QED
        BY <1>1, <1>3, <3>2, <3>3
    <2>3. done \in Nat /\ DOMAIN list = 1..done /\ \A n \in 1..done : list[n] \in Group
      <3> HIDE DEF Group, parsed
      <3> QED
        BY <2>1, <2>2
    <2> HIDE DEF list, done, parsed
    <2>4. ASSUME NEW n \in 1..done
          PROVE  n - 1 \in ListIndex /\ lists[n - 1] = list[n].actions
                 /\ list[n] = [id |-> list[n].id, actions |-> list[n].actions]
      <3>1. n - 1 \in ListIndex /\ n - 1 < done /\ (n - 1) + 1 = n
        BY <2>1, <2>2, <2>3 DEF ListIndex
      <3>2. Cleared(n - 1) = <<>>
        BY <3>1 DEF Uncounted
      <3>3. Added(n - 1) = list[n].actions
        BY <2>2, <3>1
      <3>4. list[n] = [id |-> list[n].id, actions |-> list[n].actions]
            /\ list[n].actions \in Seq(Action)
        <4>1. list[n] \in Group
          BY <2>3
        <4> HIDE DEF Byte, Action
        <4> QED
          BY <4>1 DEF Group
      <3>5. lists[n - 1] = Cleared(n - 1) \o Added(n - 1)
        BY <3>1
      <3> HIDE DEF lists, Cleared, Added
      <3>6. lists[n - 1] = <<>> \o list[n].actions
        BY <3>2, <3>3, <3>5
      <3>7. <<>> \o list[n].actions = list[n].actions
        <4> DEFINE s == list[n].actions
        <4>1. s \in Seq(Action)
          BY <3>4
        <4> HIDE DEF s
        <4> QED
          BY <4>1, ConcatEmptySeq DEF s
      <3> QED
        BY <3>1, <3>4, <3>6, <3>7
    <2> HIDE DEF lists, Cleared, Added
    <2>5. [n \in 1..done |-> [id |-> ids[n], actions |-> lists[n - 1]]] = list
      <3>1. ASSUME NEW n \in 1..done
            PROVE  [id |-> ids[n], actions |-> lists[n - 1]] = list[n]
        <4>1. ids[n] = list[n].id
          BY <2>2
        <4> HIDE DEF ids
        <4> QED
          BY <2>4, <4>1
      <3>2. list = [n \in 1..done |-> list[n]]
        BY <2>1, <2>2, <2>3
      <3> HIDE DEF ids
      <3> QED
        BY <3>1, <3>2, Zenon
    <2>6. Stored(k)' = [ver |-> x.ver,
                        groups |-> [n \in 1..done |-> [id |-> ids[n], actions |-> lists[n - 1]]]]
      <3>1. groups'.ver = x.ver /\ groups'.ids = ids /\ groups'.lists = lists
        <4> HIDE DEF ids
        <4> QED
          BY <2>2
      <3>2. DOMAIN ids = 1..done
        OBVIOUS
      <3> HIDE DEF ids
      <3> QED
        BY <1>3, <3>1, <3>2, Zenon DEF Stored
    <2> HIDE DEF ids
    <2> QED
      BY <2>1, <2>5, <2>6 DEF list
  <1>4. CASE k = kNNInfo
    <2>1. x = [ver |-> x.ver, sensors |-> x.sensors, neurons |-> x.neurons]
      <3>1. x \in NnInfo
        BY <1>4 DEF Infos, kGroupInfo, kNNInfo
      <3> HIDE DEF Neuron, Byte
      <3> QED
        BY <3>1, InfoAssumption
    <2>2. ParseNnMsg(m)
      BY <1>2, <1>4 DEF Parse, kGroupInfo, kNNInfo
    <2>3. nn' = x
      BY <1>1, <1>4, <2>1, <2>2, Zenon DEF ParseNnMsg
    <2> QED
      BY <1>4, <2>3 DEF Stored, kGroupInfo, kNNInfo
  <1> QED
    BY <1>3, <1>4 DEF Kind

\* Nor does it touch what is stored of the other kind.
LEMMA OtherKept ==
  ASSUME NEW k \in Kind, NEW j \in Kind, j # k, NEW m, Parse(k, m)
  PROVE  Stored(j)' = Stored(j)
  BY DEF Kind, Parse, Stored, kGroupInfo, kNNInfo

-----------------------------------------------------------------------------
(* The invariant of what is stored.                                         *)

\* totalMsg is still the message that carried x.
Carries(k, x) ==
  /\ x \in Infos(k) /\ infoVer[k] = x.ver
  /\ unread[k] = 0 /\ totalMsg = GetBuffer(MessageOf(k, x))

\* What the last message of a kind carried is stored, and as long as that message
\* is in totalMsg, parsing it again would store the same.
StoreInv ==
  /\ ~residue => ~Uncounted
  /\ intact /\ started /\ rest # <<>> => infoVer[cur.kind] = cur.info.ver
  /\ rest # <<>> => settled[cur.kind] = {}
  /\ \A k \in Kind : totalMsg # <<>> /\ Head(totalMsg) = k =>
       \A x \in settled[k] : Carries(k, x)
  /\ StoredWithoutResidue
  /\ infoVer \in [Kind -> Byte] /\ DOMAIN settled = Kind

\* The first packet of a message names its version.
LEMMA InOrderVersion ==
  ASSUME IInv, StoreInv, NEW n \in NextSize, Deliver(n), intact'
  PROVE  infoVer'[cur.kind] = cur.info.ver
  <1> DEFINE k == cur.kind
             b == Packet(n)
  <1>1. /\ Head(b) = k /\ k \in Kind
        /\ ~started => /\ totalMsg = <<>> /\ FirstPacket(b)
                       /\ rest = GetBuffer(cur) /\ b[2] = rest[2]
        /\ started => intact /\ NextPacket(b)
    BY DeliverInOrder, Zenon
  <1>2. rest # <<>> /\ cur \in Message
    BY DEF Deliver, SendPacket, IInv, SenderInv
  <1>3. CASE ~started
    <2>1. b[2] = cur.info.ver
      BY <1>1, <1>2, <1>3, MessageBytes
    <2>2. infoVer' = [infoVer EXCEPT ![k] = b[2]]
      BY <1>1, <1>3 DEF FirstPacket
    <2> HIDE DEF b
    <2> QED
      BY <1>1, <2>1, <2>2 DEF StoreInv
  <1>4. CASE started
    <2>1. intact /\ infoVer' = infoVer
      BY <1>1, <1>4 DEF NextPacket
    <2> QED
      BY <1>2, <1>4, <2>1 DEF StoreInv
  <1> QED
    BY <1>3, <1>4

\* A message read in full is stored, and is in totalMsg.
LEMMA SettledNow ==
  ASSUME IInv, StoreInv, Countable, NEW n \in NextSize, Deliver(n), intact', rest' = <<>>
  PROVE  /\ cur' = cur /\ cur.kind \in Kind /\ Carries(cur.kind, cur.info)'
         /\ totalMsg' # <<>> /\ Head(totalMsg') = cur.kind
         /\ ~residue => Stored(cur.kind)' = cur.info
         /\ \A j \in Kind : j # cur.kind => Stored(j)' = Stored(j)
  <1>0. PICK k, x : k = cur.kind /\ x = cur.info
    OBVIOUS
  <1> DEFINE total == Whole(n)
  <1>1. /\ k \in Kind /\ cur' = cur /\ total \in Seq(Byte) /\ Head(total) = k
        /\ total \o rest' = GetBuffer(cur) /\ unread'[k] = Len(rest')
        /\ Finish(k, total)
    BY <1>0, DeliverInOrder, Zenon
  <1>2. infoVer'[k] = x.ver
    BY <1>0, InOrderVersion
  <1>3. cur = MessageOf(k, x) /\ x \in Infos(k) /\ cur \in Message
    <2>1. cur \in Message
      BY DEF IInv, SenderInv
    <2> QED
      BY <1>0, <2>1 DEF Message, MessageOf, Infos, kGroupInfo, kNNInfo
  <1> HIDE DEF total
  <1>4. unread'[k] = 0 /\ total = GetBuffer(cur)
    <2>1. total \o <<>> = total
      BY <1>1, ConcatEmptySeq
    <2> QED
      BY <1>1, <2>1
  <1>5. GetCRCResult(total)
    BY <1>3, <1>4, MessageBytes
  <1>6. totalMsg' = total /\ Parse(k, total)
    BY <1>1, <1>4, <1>5 DEF Finish, StillUnread, BadCRC, WholeMsg, Parse
  <1>7. total # <<>>
    <2>1. Len(total) >= HeaderLength
      BY <1>3, <1>4, MessageHeader
    <2> QED
      BY <2>1 DEF HeaderLength
  <1>8. Carries(k, x)'
    <2>1. GetBuffer(MessageOf(k, x))' = GetBuffer(MessageOf(k, x))
      BY DEF GetBuffer, Body
    <2> QED
      BY <1>2, <1>3, <1>4, <1>6 DEF Carries
  <1>9. ASSUME ~residue PROVE Stored(k)' = x
    <2>1. ~Uncounted
      BY <1>9 DEF StoreInv
    <2>2. Parse(k, GetBuffer(MessageOf(k, x)))
      BY <1>3, <1>4, <1>6
    <2> QED
      BY <1>1, <1>2, <1>3, <2>1, <2>2, MessageStored
  <1>10. \A j \in Kind : j # k => Stored(j)' = Stored(j)
    BY <1>1, <1>6, OtherKept
  <1> QED
    BY <1>0, <1>1, <1>6, <1>7, <1>8, <1>9, <1>10 DEF Carries

\* The end of CombineMsg, for the other kind than the one in totalMsg.
LEMMA FinishOther ==
  ASSUME NEW k \in Kind, NEW total, Head(total) \in Kind, Finish(k, total),
         NEW j \in Kind, j # Head(total)
  PROVE  Stored(j)' = Stored(j) /\ (totalMsg' = total \/ totalMsg' = <<>>)
  <1>1. CASE UNCHANGED stored /\ (totalMsg' = total \/ totalMsg' = <<>>)
    BY <1>1 DEF stored, Stored
  <1>2. CASE WholeMsg(k, total)
    <2>1. Parse(Head(total), total) /\ totalMsg' = total
      BY <1>2 DEF WholeMsg, Parse
    <2> QED
      BY <2>1, OtherKept
  <1> QED
    BY <1>1, <1>2 DEF Finish, StillUnread, BadCRC

\* A message already stored stays so while packets of the other kind come in.
LEMMA SettledBefore ==
  ASSUME IInv, StoreInv, Countable, NEW n \in NextSize, Deliver(n),
         NEW j \in Kind, NEW x \in settled[j]
  PROVE  /\ j # cur.kind
         /\ totalMsg' # <<>> /\ Head(totalMsg') = j => Carries(j, x)'
         /\ ~residue => Stored(j)' = x
  <1>0. PICK k, b : k = cur.kind /\ b = Packet(n)
    OBVIOUS
  <1>1. /\ k \in Kind /\ Head(b) = k /\ b \in Seq(Byte) /\ Len(b) >= HeaderLength
        /\ rest # <<>> /\ GetMessage(b)
    <2>1. rest # <<>> /\ GetMessage(b)
      BY <1>0 DEF Deliver, SendPacket
    <2> QED
      BY <1>0, <2>1, PacketHasHeader DEF IInv
  <1>2. j # k
    BY <1>0, <1>1 DEF StoreInv
  <1>3. ~residue => Stored(j) = x
    BY DEF StoreInv, StoredWithoutResidue
  <1>4. ASSUME NEW total, Head(total) = k, Finish(k, total)
        PROVE  /\ totalMsg' # <<>> => Head(totalMsg') # j
               /\ ~residue => Stored(j)' = x
    <2>1. Stored(j)' = Stored(j) /\ (totalMsg' = total \/ totalMsg' = <<>>)
      BY <1>1, <1>2, <1>4, FinishOther
    <2> QED
      BY <1>2, <1>3, <1>4, <2>1
  <1>5. CASE FirstPacket(b)
    <2>1. Finish(k, b)
      BY <1>1, <1>5 DEF FirstPacket
    <2> QED
      BY <1>0, <1>1, <1>2, <1>4, <2>1
  <1>6. CASE NextPacket(b)
    <2> DEFINE total == totalMsg \o Tail(b)
    <2>1. /\ totalMsg # <<>> /\ totalMsg \in Seq(Byte) /\ Head(totalMsg) = k
          /\ Finish(k, total)
      BY <1>1, <1>6 DEF NextPacket, IInv, ReceiverType, KindsDoNotMix
    <2>2. Tail(b) \in Seq(Byte)
      BY <1>1 DEF HeaderLength
    <2>3. Head(total) = k
      BY <2>1, <2>2
    <2> HIDE DEF total
    <2> QED
      BY <1>0, <1>2, <1>4, <2>1, <2>3
  <1>7. CASE UnexpectedPacket(b)
    <2>1. /\ totalMsg # <<>> /\ unread' = unread /\ infoVer' = infoVer
          /\ Finish(k, totalMsg) /\ Head(totalMsg) \in Kind
      BY <1>1, <1>7 DEF UnexpectedPacket, IInv, ReceiverType
    <2>2. CASE Head(totalMsg) # j
      <3>1. Stored(j)' = Stored(j) /\ (totalMsg' = totalMsg \/ totalMsg' = <<>>)
        BY <1>1, <2>1, <2>2, FinishOther
      <3> QED
        BY <1>0, <1>2, <1>3, <2>2, <3>1
    <2>3. CASE Head(totalMsg) = j
      <3>1. Carries(j, x)
        BY <2>1, <2>3 DEF StoreInv
      <3>2. totalMsg' = totalMsg \/ totalMsg' = <<>>
        BY <2>1 DEF Finish, StillUnread, BadCRC, WholeMsg
      <3>3. totalMsg' # <<>> => Carries(j, x)'
        <4>1. GetBuffer(MessageOf(j, x))' = GetBuffer(MessageOf(j, x))
          BY DEF GetBuffer, Body
        <4> QED
          BY <2>1, <3>1, <3>2 DEF Carries
      <3>4. ASSUME ~residue PROVE Stored(j)' = x
        <4>1. CASE WholeMsg(k, totalMsg)
          <5>1. Parse(j, GetBuffer(MessageOf(j, x)))
            BY <2>3, <3>1, <4>1 DEF WholeMsg, Parse, Carries
          <5>2. x \in Infos(j) /\ infoVer'[j] = x.ver /\ ~Uncounted
            BY <2>1, <3>1, <3>4 DEF Carries, StoreInv
          <5> QED
            BY <5>1, <5>2, MessageStored
        <4>2. CASE UNCHANGED stored
          BY <1>3, <3>4, <4>2 DEF stored, Stored
        <4> QED
          BY <2>1, <4>1, <4>2 DEF Finish, StillUnread, BadCRC
      <3> QED
        BY <1>0, <1>2, <3>3, <3>4
    <2> QED
      BY <2>2, <2>3
  <1> QED
    BY <1>1, <1>5, <1>6, <1>7 DEF GetMessage

\* Delivering a packet keeps what is stored in order.
LEMMA DeliverStores ==
  ASSUME IInv, StoreInv, Countable, NEW n \in NextSize, Deliver(n)
  PROVE  StoreInv'
  <1>0. PICK k, x : k = cur.kind /\ x = cur.info
    OBVIOUS
  <1>1. /\ rest # <<>> /\ cur' = cur /\ residue' = (residue \/ Uncounted')
        /\ settled' = IF intact' /\ rest' = <<>>
                      THEN [settled EXCEPT ![cur.kind] = {cur.info}] ELSE settled
        /\ GetMessage(Packet(n))
    BY DEF Deliver, SendPacket
  <1>2. k \in Kind /\ Head(Packet(n)) = k /\ Packet(n) \in Seq(Byte) /\ Len(Packet(n)) >= HeaderLength
    BY <1>0, <1>1, PacketHasHeader DEF IInv
  <1>3. DOMAIN settled = Kind /\ infoVer \in [Kind -> Byte] /\ settled[k] = {}
    BY <1>0, <1>1 DEF StoreInv
  <1>4. ~residue' => ~Uncounted' /\ ~residue
    BY <1>1
  <1>5. intact' /\ started' /\ rest' # <<>> => infoVer'[cur'.kind] = cur'.info.ver
    BY <1>1, InOrderVersion
  <1>6. rest' # <<>> => settled'[cur'.kind] = {}
    BY <1>0, <1>1, <1>3
  <1>7. infoVer' \in [Kind -> Byte] /\ DOMAIN settled' = Kind
    <2>1. Packet(n)[2] \in Byte
      BY <1>2 DEF HeaderLength
    <2>2. infoVer' = infoVer \/ infoVer' = [infoVer EXCEPT ![k] = Packet(n)[2]]
      BY <1>1, <1>2 DEF GetMessage, FirstPacket, NextPacket, UnexpectedPacket
    <2> HIDE DEF Byte
    <2> QED
      BY <1>1, <1>3, <2>1, <2>2
  <1>8. ASSUME NEW j \in Kind, NEW y \in settled'[j]
        PROVE  /\ totalMsg' # <<>> /\ Head(totalMsg') = j => Carries(j, y)'
               /\ ~residue' => Stored(j)' = y
    <2>1. CASE y \in settled[j]
      BY <1>4, <2>1, SettledBefore
    <2>2. CASE y \notin settled[j]
      <3>1. intact' /\ rest' = <<>> /\ j = k /\ y = x
        BY <1>0, <1>1, <1>3, <2>2
      <3>2. Carries(cur.kind, cur.info)' /\ (~residue => Stored(cur.kind)' = cur.info)
        BY <3>1, SettledNow
      <3>3. Carries(j, y)'
        BY <1>0, <1>1, <3>1, <3>2 DEF Carries
      <3>4. ~residue => Stored(j)' = y
        BY <1>0, <1>1, <3>1, <3>2 DEF Stored
      <3> QED
        BY <1>4, <3>3, <3>4
    <2> QED
      BY <2>1, <2>2
  <1> QED
    BY <1>4, <1>5, <1>6, <1>7, <1>8 DEF StoreInv, StoredWithoutResidue

\* Every step keeps what is stored in order.
LEMMA StoreStep == IInv /\ StoreInv /\ Countable /\ [Next]_vars => StoreInv'
  <1> SUFFICES ASSUME IInv, StoreInv, Countable, [Next]_vars PROVE StoreInv'
    OBVIOUS
  <1>0. GetBuffer(cur) = GetBuffer(cur) /\ DOMAIN settled = Kind
    BY DEF StoreInv
  <1>1. ASSUME UNCHANGED assembly, UNCHANGED residue
        PROVE  /\ UNCHANGED Uncounted /\ \A j \in Kind : UNCHANGED Stored(j)
               /\ \A j \in Kind : \A x \in settled[j] : Carries(j, x) => Carries(j, x)'
               /\ UNCHANGED <<totalMsg, infoVer>>
    BY <1>1 DEF assembly, Uncounted, Stored, Carries, GetBuffer, Body
  <1>2. ASSUME NEW msg \in Message, Begin(msg) PROVE StoreInv'
    <2>1. UNCHANGED assembly /\ UNCHANGED residue /\ started' = FALSE /\ cur' = msg
          /\ settled' = [settled EXCEPT ![msg.kind] = {}]
      BY <1>2 DEF Begin
    <2>2. msg.kind \in Kind
      BY DEF Message, Kind
    <2>3. settled'[msg.kind] = {} /\ \A j \in Kind : settled'[j] \subseteq settled[j]
      BY <1>0, <2>1, <2>2
    <2>4. DOMAIN settled' = Kind
      BY <1>0, <2>1
    <2> QED
      BY <1>1, <2>1, <2>3, <2>4 DEF StoreInv, StoredWithoutResidue
  <1>3. ASSUME NEW n \in NextSize, Deliver(n) PROVE StoreInv'
    BY <1>3, DeliverStores
  <1>4. ASSUME NEW n \in NextSize, Lose(n) PROVE StoreInv'
    <2>1. UNCHANGED assembly /\ UNCHANGED <<residue, settled, cur>> /\ intact' = FALSE /\ rest # <<>>
      BY <1>4 DEF Lose, SendPacket
    <2> QED
      BY <1>1, <2>1 DEF StoreInv, StoredWithoutResidue
  <1>5. CASE Collect
    <2>1. totalMsg' = <<>> /\ UNCHANGED <<infoVer, groups, nn, cur, rest, started, intact, residue, settled>>
      BY <1>5 DEF Collect
    <2>2. UNCHANGED Uncounted /\ \A j \in Kind : UNCHANGED Stored(j)
      BY <2>1 DEF Uncounted, Stored
    <2> QED
      BY <2>1, <2>2 DEF StoreInv, StoredWithoutResidue
  <1>6. CASE UNCHANGED vars
    <2>1. UNCHANGED assembly /\ UNCHANGED <<cur, rest, started, intact, residue, settled>>
      BY <1>6 DEF vars
    <2> QED
      BY <1>1, <2>1 DEF StoreInv, StoredWithoutResidue
  <1> QED
    BY <1>2, <1>3, <1>4, <1>5, <1>6 DEF Next

\* At the start nothing is delivered and what is stored is in order.
LEMMA StoreInit == Init => StoreInv
  <1> SUFFICES ASSUME Init PROVE StoreInv
    OBVIOUS
  <1>1. /\ totalMsg = <<>> /\ infoVer = [k \in Kind |-> 0] /\ rest = <<>> /\ started = FALSE
        /\ settled = [k \in Kind |-> {Stored(k)}]
        /\ groups = [ver |-> 255, ids |-> <<>>, lists |-> [n \in ListIndex |-> <<>>]]
    BY DEF Init
  <1>2. ~Uncounted
    BY <1>1 DEF Uncounted
  <1>3. StoredWithoutResidue
    <2> HIDE DEF Stored
    <2> QED
      BY <1>1 DEF StoredWithoutResidue
  <1>4. 0 \in Byte
    BY DEF Byte, U8
  <1>5. infoVer \in [Kind -> Byte]
    <2> HIDE DEF Byte
    <2> QED
      BY <1>1, <1>4
  <1> QED
    BY <1>1, <1>2, <1>3, <1>5 DEF StoreInv

\* Whatever is lost and however the two kinds of message alternate, what the last
\* message of a kind carried is what the robot holds, exactly, when its packets all
\* arrived in their place, its counts and indices of a byte can number it and no
\* list that is not counted has held an action.
THEOREM DeliveredIsKept ==
  ASSUME Countable
  PROVE  Spec => []StoredWithoutResidue
  <1>1. Init => IInv /\ StoreInv
    BY InitInv, StoreInit
  <1>2. IInv /\ StoreInv /\ [Next]_vars => (IInv /\ StoreInv)'
    BY NextInv, StoreStep
  <1>3. IInv /\ StoreInv => StoredWithoutResidue
    BY DEF StoreInv
  <1> QED
    BY <1>1, <1>2, <1>3, PTL DEF Spec
=============================================================================
