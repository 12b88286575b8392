---------------------------- MODULE OptiProtocol ----------------------------
(***************************************************************************)
(* The packet parser of the vision-system link (optiprotocol.cpp).         *)
(*                                                                         *)
(* A packet is a header of MESSAGE_HEAD_LEN bytes (magic number, command,  *)
(* total length) followed by its payload.  PushToProtocol is called with   *)
(* one chunk of the byte stream at a time; its loop keeps rx_state_ and    *)
(* the partial payload from one call to the next.  One step of this module *)
(* is one iteration of that loop.                                          *)
(*                                                                         *)
(* A byte is named by the packet it belongs to and its offset there, so    *)
(* the four magic bytes, the command and the length are read off the       *)
(* packet: CheckMessageHead holds exactly at offset 0.                     *)
(***************************************************************************)
EXTENDS Integers, Sequences

CONSTANTS
  Packet,            \* the packets a client may send
  Cmd,               \* command identifiers
  CmdOf,             \* message_head_s.cmdId of each packet
  LenOf,             \* message_head_s.len of each packet: what its header says
  MESSAGE_HEAD_LEN,
  MAX_MESSAGE_LEN

ASSUME ProtocolAssumption ==
  /\ MESSAGE_HEAD_LEN \in Nat \ {0}
  /\ MAX_MESSAGE_LEN \in Nat
  /\ MESSAGE_HEAD_LEN <= MAX_MESSAGE_LEN
  /\ CmdOf \in [Packet -> Cmd]
  /\ LenOf \in [Packet -> Nat]

VARIABLES
  raw_data,          \* the chunk PushToProtocol was last called with
  i,                 \* its loop index; the call has returned at Len(raw_data)
  rx_state,          \* rx_state_
  rx_cmd,            \* rx_message_head_.cmdId
  rx_payload,        \* rx_payload_
  rx_payload_size,   \* rx_payload_size_
  out                \* history: the PayloadReady signals, oldest first

protocolVars ==
  <<raw_data, i, rx_state, rx_cmd, rx_payload, rx_payload_size, out>>

Byte == [pkt : Packet, at : Nat]
Message == [cmd : Cmd, payload : Seq(Byte)]

\* The bytes of packet p on the wire, a whole header at least, whatever length it
\* announces; and the part a handler should be given.
Size(p) == IF LenOf[p] < MESSAGE_HEAD_LEN THEN MESSAGE_HEAD_LEN ELSE LenOf[p]
Encode(p) == [k \in 1..Size(p) |-> [pkt |-> p, at |-> k - 1]]
Payload(p) == SubSeq(Encode(p), MESSAGE_HEAD_LEN + 1, Size(p))

\* The constructor; it leaves rx_message_head_ uninitialised.
ProtocolInit ==
  /\ raw_data = <<>> /\ i = 0
  /\ rx_state = "Idle"
  /\ rx_cmd \in Cmd
  /\ rx_payload = <<>> /\ rx_payload_size = 0
  /\ out = <<>>

\* No call of PushToProtocol is on the stack.
ParserDone == i = Len(raw_data)

\* PushToProtocol is entered with the chunk data.
PushToProtocol(data) ==
  /\ ParserDone
  /\ raw_data' = data /\ i' = 0
  /\ UNCHANGED <<rx_state, rx_cmd, rx_payload, rx_payload_size, out>>

Current == raw_data[i + 1]

CheckMessageHead(b) == b.at = 0

\* The whole header lies in this chunk: the rest of a cut one is not awaited.
HeadHere ==
  i <= Len(raw_data) - MESSAGE_HEAD_LEN /\ CheckMessageHead(Current)

\* Mutants of EndOfIteration: a forgotten clear(), and an awaited length reset after
\* each packet.
EndOfIteration_NoClear(state, cmd, payload, size, delta) ==
  /\ IF Len(payload) >= size
       THEN /\ out' = Append(out, [cmd |-> cmd, payload |-> payload])
            /\ rx_state' = "Idle"
       ELSE rx_state' = state /\ UNCHANGED out
  /\ rx_payload' = payload
  /\ rx_cmd' = cmd /\ rx_payload_size' = size /\ i' = i + delta
  /\ UNCHANGED raw_data
EndOfIteration_SizeReset(state, cmd, payload, size, delta) ==
  /\ IF Len(payload) >= size
       THEN /\ out' = Append(out, [cmd |-> cmd, payload |-> payload])
            /\ rx_state' = "Idle" /\ rx_payload' = <<>> /\ rx_payload_size' = 0
       ELSE /\ rx_state' = state /\ rx_payload' = payload
            /\ rx_payload_size' = size /\ UNCHANGED out
  /\ rx_cmd' = cmd /\ i' = i + delta
  /\ UNCHANGED raw_data

\* What ends every iteration, whichever branch the switch took: a payload at
\* least as long as awaited is handed over, and the index moves by delta.
EndOfIteration(state, cmd, payload, size, delta) ==
  /\ IF Len(payload) >= size
       THEN /\ out' = Append(out, [cmd |-> cmd, payload |-> payload])
            /\ rx_state' = "Idle"
            /\ rx_payload' = <<>>
       ELSE /\ rx_state' = state
            /\ rx_payload' = payload
            /\ UNCHANGED out
  /\ rx_cmd' = cmd
  /\ rx_payload_size' = size
  /\ i' = i + delta
  /\ UNCHANGED raw_data

ReceivePayloadByte ==
  /\ ~ParserDone /\ rx_state = "Processing"
  /\ LET grown == IF Len(rx_payload) < rx_payload_size
                    THEN Append(rx_payload, Current) ELSE rx_payload
     IN  EndOfIteration("Processing", rx_cmd, grown, rx_payload_size, 1)

\* Mutants of AcceptHead: one byte too many awaited, and any length accepted.
AcceptHead_OneMore ==
  /\ ~ParserDone /\ rx_state = "Idle" /\ HeadHere
  /\ LenOf[Current.pkt] <= MAX_MESSAGE_LEN
  /\ EndOfIteration("Processing", CmdOf[Current.pkt], <<>>,
                    LenOf[Current.pkt] - MESSAGE_HEAD_LEN + 1, MESSAGE_HEAD_LEN)
AcceptHead_NoTest ==
  /\ ~ParserDone /\ rx_state = "Idle" /\ HeadHere
  /\ EndOfIteration("Processing", CmdOf[Current.pkt], <<>>,
                    LenOf[Current.pkt] - MESSAGE_HEAD_LEN, MESSAGE_HEAD_LEN)

\* Only too long a packet is turned away: of one that announces less than its own
\* header a negative number of bytes is awaited, and an empty payload handed over.
AcceptHead ==
  /\ ~ParserDone /\ rx_state = "Idle" /\ HeadHere
  /\ LenOf[Current.pkt] <= MAX_MESSAGE_LEN
  /\ EndOfIteration("Processing", CmdOf[Current.pkt], <<>>,
                    LenOf[Current.pkt] - MESSAGE_HEAD_LEN, MESSAGE_HEAD_LEN)

\* Too long a packet: its header has already replaced rx_message_head_.
RejectHead ==
  /\ ~ParserDone /\ rx_state = "Idle" /\ HeadHere
  /\ LenOf[Current.pkt] > MAX_MESSAGE_LEN
  /\ EndOfIteration("Idle", CmdOf[Current.pkt], rx_payload, rx_payload_size, 1)

SkipByte ==
  /\ ~ParserDone /\ rx_state = "Idle" /\ ~HeadHere
  /\ EndOfIteration("Idle", rx_cmd, rx_payload, rx_payload_size, 1)

ParserStep ==
  ReceivePayloadByte \/ AcceptHead \/ RejectHead \/ SkipByte

ProtocolTypeOK ==
  /\ raw_data \in Seq(Byte)
  /\ i \in 0..Len(raw_data)
  /\ rx_state \in {"Idle", "Processing"}
  /\ rx_cmd \in Cmd
  /\ rx_payload \in Seq(Byte)
  /\ rx_payload_size \in Int
  /\ out \in Seq(Message)
=============================================================================
