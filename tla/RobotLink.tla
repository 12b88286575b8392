------------------------------ MODULE RobotLink ------------------------------
(***************************************************************************)
(* From GetBuffer in one device to GetMessage in the other.  Every frame    *)
(* travels behind XPIDER_MESSAGE_HEAD on a TCP stream that also carries     *)
(* unframed text; the reader takes the bytes of each read, in               *)
(* XpiderSocketThread all of them, in XpiderClient and XpiderSocket all but *)
(* the first two, and feeds them to the HDLC receiver, which outlives the   *)
(* connection.  The connection is XpiderClient's with its retry timer.      *)
(* Reader and sender may have different versions of the codec.              *)
(***************************************************************************)
EXTENDS Hdlc, XpiderCodec, FiniteSetsExt

CONSTANTS
  Messages,          \* what may be sent: records of type, reg and info
  Fresh,             \* the reader's XpiderInfo before anything was read
  Junk,              \* contents the uninitialized receiver may start with
  ReadSizes,         \* how many bytes a read may find, if there are as many
  MaxConnects,       \* bound: connections
  MaxShort,          \* bound: reads that leave something on the wire
  MaxSent            \* bound: messages sent

ASSUME RobotLinkAssumption ==
  /\ MaxSent \in Nat /\ {MaxShort, MaxConnects} \subseteq Nat
  /\ ReadSizes \subseteq Nat \ {0} /\ MaxFrame \in Nat \ {0} /\ Junk \subseteq Seq(0..255)
  /\ \A b \in 0..255 : Invert(Invert(b)) = b
  /\ \A b \in Special : Invert(b) \notin Special

VARIABLES
  clientState,       \* QAbstractSocket::state() of the reader
  retry,             \* timer_retry_ is running
  wire,              \* octets on their way: their byte and their message's number
  rx,                \* the HDLC receiver, with the frames of the last read
  connects,          \* counts the connections
  short,             \* counts the reads that left something
  reader,            \* which program reads
  sender,            \* the version of the sender's codec
  sent,              \* history: the messages sent
  delivered,         \* history: the number of each frame handed over, 0 for a mixture
  cut,               \* history: messages that lost an octet on the way
  info               \* the reader's XpiderInfo

readVars == <<rx, delivered, info>>
ends == <<reader, sender>>
linkVars == <<clientState, retry, wire, short, connects, ends, sent, cut, readVars>>

XPIDER_MESSAGE_HEAD == <<1, 85>>
Text == <<72, 101, 121, 32, 98>>     \* "Hey b...": text the peer writes unframed

Octets(bytes, msg) == [k \in DOMAIN bytes |-> [byte |-> bytes[k], msg |-> msg]]
MsgsOf(octets) == {octets[k].msg : k \in DOMAIN octets}

Ends ==
  {<<"XpiderSocketThread", "center">>, <<"XpiderSocket", "client">>,
   <<"XpiderClient", "center">>}
Version == IF reader = "XpiderClient" THEN "client" ELSE "center"

\* How many bytes the reader removes from each read.
strip == IF reader = "XpiderSocketThread" THEN 0 ELSE 2

Payload(m) ==
  CASE m.type = "kGetRegister" -> GetRegister(m.reg)
    [] m.type = "kUpdateRegister" -> UpdateRegister(m.reg, m.info)
    [] m.type = "kRegisterResponse" -> RegisterResponse(m.reg, m.info)
    [] OTHER -> GetBuffer(m.type, m.info)

\* A message and its two check octets are made of bytes.
ASSUME BytesAssumption ==
  \A m \in Messages :
    /\ Payload(m) \in Seq(0..255)
    /\ Fcs(Payload(m)) \in Seq(0..255) /\ Len(Fcs(Payload(m))) = 2

\* The sender's XpiderInfo and the reader's have the fields of the class.
ASSUME InfoAssumption ==
  IsInfo(Fresh) /\ \A m \in Messages : IsInfo(m.info) /\ m.reg \in 0..3

\* The members of HDLC_qt that no constructor sets hold anything.
LinkInit ==
  /\ \E j \in Junk, e \in BOOLEAN :
       rx = [buffer |-> Octets(j, 0), escape |-> e, frames |-> <<>>]
  /\ clientState = "Unconnected" /\ retry = TRUE
  /\ wire = <<>> /\ short = 0 /\ connects = 0
  /\ \E e \in Ends : reader = e[1] /\ sender = e[2]
  /\ sent = <<>> /\ delivered = <<>> /\ cut = {} /\ info = Fresh

-----------------------------------------------------------------------------
(* XpiderClient's connection.                                              *)

\* connectToHost; on a socket that is busy it does nothing.
onRetryTimeout ==
  /\ retry /\ clientState = "Unconnected" /\ clientState' = "Connecting"
  /\ UNCHANGED <<readVars, retry, wire, short, connects, ends, sent, cut>>

ConnectFails ==
  /\ clientState = "Connecting" /\ clientState' = "Unconnected"
  /\ UNCHANGED <<readVars, retry, wire, short, connects, ends, sent, cut>>

\* The peer greets with text that is no frame.
onConnected ==
  /\ clientState = "Connecting" /\ clientState' = "Connected" /\ retry' = FALSE
  /\ connects < MaxConnects /\ connects' = connects + 1
  /\ wire' = Octets(Text, 0)
  /\ UNCHANGED <<readVars, short, ends, sent, cut>>

\* What was not read is lost; the receiver keeps what it holds.
onDisconnected ==
  /\ clientState = "Connected" /\ clientState' = "Unconnected" /\ retry' = TRUE
  /\ wire' = <<>>
  /\ cut' = cut \cup MsgsOf(wire)
  /\ UNCHANGED <<readVars, short, connects, ends, sent>>

\* The peer sends a message: onHdlcEncodedByte, onHdlcTransmitByte.
Send(m) ==
  /\ clientState = "Connected" /\ Len(sent) < MaxSent
  /\ m.type \in TypesOf(sender) \cup {"kGetRegister", "kUpdateRegister", "kRegisterResponse"}
  /\ sent' = Append(sent, m)
  /\ wire' = wire \o Octets(XPIDER_MESSAGE_HEAD, 0)
                  \o Octets(frameDecode(Payload(m)), Len(sent) + 1)
  /\ UNCHANGED <<readVars, clientState, retry, short, connects, ends, cut>>

-----------------------------------------------------------------------------
(* The reader.                                                             *)

\* Which message a frame is, whole and nothing else.
Number(frame) ==
  LET whole == {k \in 1..Len(sent) : MsgsOf(frame) = {k} /\ Values(frame) = Payload(sent[k])}
  IN  IF whole = {} THEN 0 ELSE CHOOSE k \in whole : TRUE

\* GetMessage of each frame in turn.
Read(i, frames) ==
  LET after[n \in 0..Len(frames)] ==
        IF n = 0 THEN i ELSE GetMessage(Version, Values(frames[n]), after[n - 1])
  IN  after[Len(frames)]

\* The reader loses the first bytes of what it read; hdlcValidFrameReceived is a
\* direct call for every frame the rest completes.
onReadyRead(n) ==
  /\ clientState = "Connected" /\ n \in 1..Len(wire)
  /\ short' = short + (IF n < Len(wire) THEN 1 ELSE 0) /\ short' <= MaxShort
  /\ wire' = SubSeq(wire, n + 1, Len(wire))
  /\ rx' = charReceiver(rx, SubSeq(wire, strip + 1, n))
  /\ cut' = cut \cup MsgsOf(SubSeq(wire, 1, IF strip < n THEN strip ELSE n))
  /\ delivered' = delivered \o [k \in DOMAIN rx'.frames |-> Number(rx'.frames[k])]
  /\ info' = Read(info, rx'.frames)
  /\ UNCHANGED <<clientState, retry, connects, ends, sent>>

LinkNext ==
  \/ onRetryTimeout \/ ConnectFails \/ onConnected \/ onDisconnected
  \/ \E m \in Messages : Send(m)
  \/ \E n \in ReadSizes \cup {Len(wire)} : onReadyRead(n)

LinkSpec == LinkInit /\ [][LinkNext]_linkVars

-----------------------------------------------------------------------------

\* What the variables hold; the receiver never holds MaxFrame octets once it
\* has seen one.
TypeOK ==
  /\ rx.buffer \in Seq([byte : 0..255, msg : 0..MaxSent]) /\ rx.escape \in BOOLEAN
  /\ clientState \in {"Unconnected", "Connecting", "Connected"} /\ retry \in BOOLEAN
  /\ wire \in Seq([byte : 0..255, msg : 0..MaxSent])
  /\ <<reader, sender>> \in Ends /\ short \in 0..MaxShort /\ connects \in 0..MaxConnects
  /\ sent \in Seq(Messages) /\ Len(sent) <= MaxSent
  /\ delivered \in Seq(0..MaxSent) /\ cut \subseteq 0..MaxSent

\* A frame the receiver can hold, of at least the four octets it asks for.
Fits(m) == Len(Payload(m)) >= 2 /\ Len(Payload(m)) + 2 < MaxFrame
Arrived(k) == k \notin cut \cup MsgsOf(wire)

\* A frame that arrives whole is handed over, whatever the receiver went
\* through before: members never initialized, text between the frames, a frame
\* cut by a lost connection, an escape with nothing behind it.
UncutIsDelivered ==
  \A k \in 1..Len(sent) : Arrived(k) /\ Fits(sent[k]) => Contains(delivered, k)

\* However the stream is stripped and cut, the frames handed over whole are sent
\* messages, each at most once and in the order sent.
OnceInOrder ==
  \A i, k \in DOMAIN delivered : i < k /\ delivered[i] # 0 /\ delivered[k] # 0
    => delivered[i] < delivered[k]

\* GetBuffer writes the sound level at offset 19, and the newer GetMessage reads
\* it at offset 13.
Misread == IF Version = "center" THEN {"sound_level"} ELSE {}

\* The fields a message carries for this reader.
Carried(m) ==
  CASE m.type = "kGetRegister" -> {}
    [] m.type \in {"kUpdateRegister", "kRegisterResponse"} -> {RegField[m.reg + 1]}
    [] m.type = "kAutoPilot" /\ AutoPilotOff(m.info) -> {"autopilot_enable"}
    [] OTHER -> IF m.type \in TypesOf(Version) THEN ToSet(Written[m.type]) ELSE {}

\* The reader knows of every field what the last message that carries it said:
\* whatever the order of the kinds and the versions of the codecs, none disturbs
\* the fields of another, and a kind that is not known is ignored.
StoredAsSent ==
  ~Contains(delivered, 0) =>
    \A f \in DOMAIN Fresh \ Misread :
      LET said == {k \in ToSet(delivered) : f \in Carried(sent[k])}
      IN  info[f] = IF said = {} THEN Fresh[f] ELSE sent[Max(said)].info[f]
=============================================================================
