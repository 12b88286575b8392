--------------------------- MODULE XpiderProtocol ---------------------------
(***************************************************************************)
(* The reassembly of the long robot messages                               *)
(* (xpider_ctl/xpider_protocol.cpp, CombineMsg) and the storing of what    *)
(* they carry (xpider_ctl/xpider_info.cpp).                                *)
(*                                                                         *)
(* A sender cuts a message of GetBuffer into packets; every packet after   *)
(* the first repeats the type byte.  Packets arrive in order, but one may  *)
(* be lost: the frames below carry their own check and a bad frame is      *)
(* dropped.  GetMessage is called with each packet that arrives and        *)
(* collects the message in totalMsg, which both kinds of message share.    *)
(* The caller sees isWholeGroupInfoMsg or isWholeNnInfoMsg, takes the      *)
(* message through getWholeMsg and clears it; no code in this repository   *)
(* does.                                                                   *)
(***************************************************************************)
EXTENDS XpiderMessages

CONSTANTS
  GroupInfo,      \* the action groups a sender may hold: [ver, groups]
  NnInfo,         \* the learned neurons it may hold: [ver, sensors, neurons]
  PacketSize,     \* the lengths of packets, type byte included
  MAX_GROUP_NUM,
  Lossy,          \* whether packets may be lost
  MaxSent         \* bound: messages sent

\* A packet holds at least a header, and its length is passed as a uint8_t.
ASSUME PacketAssumption == PacketSize \subseteq HeaderLength..(U8 - 1)
ASSUME InfoAssumption ==
  /\ GroupInfo \subseteq [ver : Byte, groups : Seq(Group)]
  /\ NnInfo \subseteq [ver : Byte, sensors : Seq(Byte), neurons : Seq(Neuron)]
  /\ MAX_GROUP_NUM \in Nat
  /\ \A x \in GroupInfo : Len(x.groups) <= MAX_GROUP_NUM

VARIABLES
  totalMsg,       \* totalMsg up to total_msg_position; <<>> if totalMsg[0] = 0
  unread,         \* group_info_unread_byte and nn_info_unread_byte
  infoVer,        \* group_info_ver and nn_info_ver of the protocol object
  isWhole,        \* isWholeGroupInfo and isWholeNnInfo
  groups,         \* group_info_ver, store_group_id and action_group_list
  nn,             \* nn_info_ver, nn_sensor_list and nn_data_list
  cur, rest,      \* the message being sent, and its bytes not yet sent
  started,        \* whether a packet of it has been sent
  sent,
  intact,         \* history: every packet of cur so far was taken, in its place
  residue,        \* history: a list that is not counted has held an action
  settled         \* history: what the last message of each kind carried, if its
                  \* packets all arrived in their place and none was sent since

stored == <<groups, nn>>
assembly == <<totalMsg, unread, infoVer, isWhole, groups, nn>>
vars == <<assembly, cur, rest, started, sent, intact, residue, settled>>

Message == [kind : {kGroupInfo}, info : GroupInfo]
             \cup [kind : {kNNInfo}, info : NnInfo]

\* GetBuffer(kGroupInfo) and GetBuffer(kNNInfo), with the check byte.  The length in
\* the header counts it, the *length given to the caller does not: the sender here,
\* which is external, is one that sends it nevertheless.
Body(msg) ==
  IF msg.kind = kGroupInfo THEN GroupBody(msg.info.groups)
  ELSE NnBody(msg.info.sensors, msg.info.neurons)
GetBuffer(msg) == Framed(msg.kind, msg.info.ver, Body(msg))

\* A message is made of bytes, and its length fits the header.
ASSUME MessageAssumption ==
  \A msg \in Message :
    /\ Body(msg) \in Seq(Byte) /\ GetBuffer(msg) \in Seq(Byte)
    /\ Len(GetBuffer(msg)) < U16

ListIndex == 0..(MAX_GROUP_NUM - 1)

\* What an XpiderInfo holds, as the info of a message.
Stored(k) ==
  IF k = kGroupInfo
  THEN [ver |-> groups.ver,
        groups |-> [n \in DOMAIN groups.ids |->
                      [id |-> groups.ids[n], actions |-> groups.lists[n - 1]]]]
  ELSE nn

\* A list past store_group_num holds an action.
Uncounted == \E i \in ListIndex : ~(i < Len(groups.ids)) /\ groups.lists[i] # <<>>

Init ==
  /\ totalMsg = <<>>
  /\ unread = [k \in Kind |-> 0]
  /\ infoVer = [k \in Kind |-> 0]
  /\ isWhole = [k \in Kind |-> FALSE]
  /\ groups = [ver |-> 255, ids |-> <<>>, lists |-> [n \in ListIndex |-> <<>>]]
  /\ nn = [ver |-> 255, sensors |-> <<>>, neurons |-> <<>>]
  /\ cur \in Message /\ rest = <<>> /\ started = FALSE /\ sent = 0
  /\ intact = FALSE /\ residue = FALSE
  /\ settled = [k \in Kind |-> {Stored(k)}]

----------------------------------------------------------------------------
(* The robot's side: GetMessage with a packet b of one of the two kinds.   *)

\* Mutant of ParseGroupMsg: the lists of the message before are not cleared.
ParseGroupMsgAppends(m) ==
  LET parsed == ParsedGroups(m).groups
  IN  groups' = [ver   |-> infoVer'[kGroupInfo],
                 ids   |-> [n \in DOMAIN parsed |-> parsed[n].id],
                 lists |-> [n \in ListIndex |->
                   groups.lists[n] \o
                     IF n < Len(parsed) THEN parsed[n + 1].actions ELSE <<>>]]

\* ParseGroupMsg clears the lists in use and GroupListAdd appends to what is
\* left: a list an earlier message filled without counting it keeps its actions.
ParseGroupMsg(m) ==
  LET parsed == ParsedGroups(m)
      done == Len(parsed.groups)
      Cleared(n) == IF n < Len(groups.ids) THEN <<>> ELSE groups.lists[n]
      Added(n) == CASE n < done -> parsed.groups[n + 1].actions
                    [] n = done -> parsed.residue
                    [] OTHER    -> <<>>
  IN  groups' = [ver   |-> infoVer'[kGroupInfo],
                 ids   |-> [n \in 1..done |-> parsed.groups[n].id],
                 lists |-> [n \in ListIndex |-> Cleared(n) \o Added(n)]]

ParseNnMsg(m) ==
  nn' = [ver |-> infoVer'[kNNInfo],
         sensors |-> ParsedNn(m).sensors, neurons |-> ParsedNn(m).neurons]

\* Mutant of StillUnread: isWhole is not taken back for the next message.
StillUnreadStaysWhole(k, total) ==
  /\ unread'[Head(total)] # 0
  /\ totalMsg' = total
  /\ UNCHANGED <<isWhole, stored>>

\* The end of CombineMsg, after a packet of kind k: `total` is now in totalMsg.
StillUnread(k, total) ==
  /\ unread'[Head(total)] # 0
  /\ totalMsg' = total
  /\ isWhole' = [isWhole EXCEPT ![k] = FALSE]
  /\ UNCHANGED stored

BadCRC(k, total) ==
  /\ unread'[Head(total)] = 0 /\ ~GetCRCResult(total)
  /\ totalMsg' = <<>>
  /\ isWhole' = [isWhole EXCEPT ![k] = FALSE]
  /\ UNCHANGED stored

WholeMsg(k, total) ==
  /\ unread'[Head(total)] = 0 /\ GetCRCResult(total)
  /\ totalMsg' = total
  /\ isWhole' = [isWhole EXCEPT ![k] = FALSE, ![Head(total)] = TRUE]
  /\ \/ Head(total) = kGroupInfo /\ ParseGroupMsg(total) /\ UNCHANGED nn
     \/ Head(total) = kNNInfo /\ ParseNnMsg(total) /\ UNCHANGED groups

Finish(k, total) ==
  StillUnread(k, total) \/ BadCRC(k, total) \/ WholeMsg(k, total)

\* Mutant of NextPacket: the type byte is counted as one of the message.
NextPacketTypeCounted(b) ==
  /\ totalMsg # <<>> /\ unread[Head(b)] # 0
  /\ unread' = [unread EXCEPT ![Head(b)] = (@ - Len(b)) % U16]
  /\ UNCHANGED infoVer
  /\ Finish(Head(b), totalMsg \o Tail(b))

\* Mutant of NextPacket: the type byte is copied and counted.
NextPacketTypeKept(b) ==
  /\ totalMsg # <<>> /\ unread[Head(b)] # 0
  /\ unread' = [unread EXCEPT ![Head(b)] = (@ - Len(b)) % U16]
  /\ UNCHANGED infoVer
  /\ Finish(Head(b), totalMsg \o b)

\* totalMsg is empty: the packet is taken for the first of a message.
FirstPacket(b) ==
  /\ totalMsg = <<>>
  /\ unread' = [unread EXCEPT ![Head(b)] = (LengthField(b) - Len(b)) % U16]
  /\ infoVer' = [infoVer EXCEPT ![Head(b)] = b[2]]
  /\ Finish(Head(b), b)

NextPacket(b) ==
  /\ totalMsg # <<>> /\ unread[Head(b)] # 0
  /\ unread' = [unread EXCEPT ![Head(b)] = (@ - Len(Tail(b))) % U16]
  /\ UNCHANGED infoVer
  /\ Finish(Head(b), totalMsg \o Tail(b))

\* "That will never happen!": the packet is dropped, and a message already
\* whole is checked and parsed once more.
UnexpectedPacket(b) ==
  /\ totalMsg # <<>> /\ unread[Head(b)] = 0
  /\ UNCHANGED <<unread, infoVer>>
  /\ Finish(Head(b), totalMsg)

GetMessage(b) == FirstPacket(b) \/ NextPacket(b) \/ UnexpectedPacket(b)

\* The caller takes a whole message and clears totalMsg through getWholeMsg.
Collect ==
  /\ totalMsg # <<>> /\ isWhole[Head(totalMsg)]
  /\ totalMsg' = <<>>
  /\ UNCHANGED <<unread, infoVer, isWhole, groups, nn,
                 cur, rest, started, sent, intact, residue, settled>>

----------------------------------------------------------------------------
(* The sender.                                                             *)

Begin(msg) ==
  /\ rest = <<>> /\ sent < MaxSent
  /\ cur' = msg /\ rest' = GetBuffer(msg) /\ started' = FALSE /\ sent' = sent + 1
  /\ settled' = [settled EXCEPT ![msg.kind] = {}]
  /\ UNCHANGED <<assembly, intact, residue>>

\* A packet of n bytes carries n - 1 more bytes of the message, the first n;
\* only the last packet may have a length of its own.
Cut(n) == IF started THEN n - 1 ELSE n
Packet(n) ==
  (IF started THEN <<cur.kind>> ELSE <<>>) \o SubSeq(rest, 1, Cut(n))
NextSize ==
  LET last == IF started THEN Len(rest) + 1 ELSE Len(rest)
  IN  {n \in PacketSize : last - n >= HeaderLength - 1}
        \cup {n \in {last} : \E p \in PacketSize : n <= p}

SendPacket(n) ==
  /\ rest # <<>>
  /\ rest' = SubSeq(rest, Cut(n) + 1, Len(rest))
  /\ started' = TRUE
  /\ UNCHANGED <<cur, sent>>

Deliver(n) ==
  /\ SendPacket(n)
  /\ GetMessage(Packet(n))
  /\ intact' = IF started THEN intact ELSE totalMsg = <<>>
  /\ residue' = (residue \/ Uncounted')
  /\ settled' = IF intact' /\ rest' = <<>>
                THEN [settled EXCEPT ![cur.kind] = {cur.info}] ELSE settled

Lose(n) ==
  /\ Lossy
  /\ SendPacket(n)
  /\ intact' = FALSE
  /\ UNCHANGED <<assembly, residue, settled>>

Next ==
  \/ \E msg \in Message : Begin(msg)
  \/ \E n \in NextSize : Deliver(n) \/ Lose(n)
  \/ Collect

Spec == Init /\ [][Next]_vars

----------------------------------------------------------------------------
(* Properties.                                                             *)

\* Every variable keeps the range its C type gives it.
TypeOK ==
  /\ totalMsg \in Seq(Byte)
  /\ totalMsg # <<>> => Head(totalMsg) \in Kind
  /\ unread \in [Kind -> 0..(U16 - 1)]
  /\ infoVer \in [Kind -> Byte]
  /\ isWhole \in [Kind -> BOOLEAN]
  /\ groups.ver \in Byte /\ groups.ids \in Seq(Byte)
  /\ DOMAIN groups.lists = ListIndex
  /\ \A n \in ListIndex : groups.lists[n] \in Seq(Action)
  /\ nn.ver \in Byte /\ nn.sensors \in Seq(Byte) /\ nn.neurons \in Seq(Neuron)
  /\ cur \in Message /\ rest \in Seq(Byte) /\ sent \in 0..MaxSent
  /\ started \in BOOLEAN
  /\ intact \in BOOLEAN /\ residue \in BOOLEAN
  /\ DOMAIN settled = Kind

\* The two kinds of message share totalMsg but count their unread bytes apart:
\* bytes are only ever awaited for the kind that holds totalMsg.
KindsDoNotMix ==
  \A k \in Kind : unread[k] # 0 => totalMsg # <<>> /\ Head(totalMsg) = k

\* The bytes collected and the bytes awaited always add up to the length the
\* first packet announced, modulo the width of the counter and whatever was lost.
LengthAsAnnounced ==
  totalMsg # <<>> =>
    (Len(totalMsg) + unread[Head(totalMsg)]) % U16 = LengthField(totalMsg)

\* When the caller is told that totalMsg is whole, it awaits nothing and its
\* check byte is right, even when a later packet was dropped in the meantime.
WholeIsVerified ==
  \A k \in Kind :
    totalMsg # <<>> /\ Head(totalMsg) = k /\ isWhole[k]
      => unread[k] = 0 /\ GetCRCResult(totalMsg)

\* While no packet of a message is lost or dropped, totalMsg and the bytes the
\* sender still holds are that message, cut at the same place.
AssemblesOneMessage ==
  intact /\ rest # <<>> /\ started =>
    totalMsg \o rest = GetBuffer(cur) /\ unread[cur.kind] = Len(rest)

\* Messages that GetBuffer's and ParseGroupMsg's count of the actions of a group
\* and ParseNnMsg's index, all of one byte, can number.
Countable ==
  /\ \A x \in GroupInfo : \A n \in DOMAIN x.groups : Len(x.groups[n].actions) < U8
  /\ \A x \in NnInfo : Len(GetBuffer([kind |-> kNNInfo, info |-> x])) <= U8

\* The robot holds exactly what the last message of each kind carried, when its
\* packets all arrived in their place: neither what was lost before it nor a
\* message of the other kind after it leaves a trace.
DeliveredIsStored == \A k \in Kind : \A x \in settled[k] : Stored(k) = x

\* The same as long as every list that is not counted is empty, which
\* ParseGroupMsg relies on.
StoredWithoutResidue ==
  ~residue => \A k \in Kind : \A x \in settled[k] : Stored(k) = x
=============================================================================
