----------------------------- MODULE OptiServer -----------------------------
(***************************************************************************)
(* The TCP side of OptiService (optiserver.cpp): vision-system clients     *)
(* connect, are replaced and go away, and what the current one sends is    *)
(* pushed through one OptiProtocol that outlives every connection.         *)
(*                                                                         *)
(* All slots run on the GUI thread, so none starts while PushToProtocol is *)
(* on the stack (ParserDone).  TCP is a byte stream: a client's bytes      *)
(* arrive in order, cut into chunks at any place.                          *)
(***************************************************************************)
EXTENDS OptiProtocol, FiniteSets, SequencesExt

CONSTANTS
  MaxConn,           \* bound: how many connections are ever made
  RX_MAX_SIZE,       \* most bytes one onClientReadyRead takes
  MaxPackets         \* bound: how many packets are ever sent

ASSUME ServerAssumption ==
  /\ MaxConn \in Nat \ {0}
  /\ RX_MAX_SIZE \in Nat \ {0}
  /\ MaxPackets \in Nat
  /\ 1..MaxPackets \subseteq Packet

Conn == 1..MaxConn   \* connections, numbered in the order they are accepted
NoClient == 0

VARIABLES
  client_,           \* the connection client_ points to, or NoClient
  accepted,          \* how many connections have been accepted
  sock,              \* QTcpSocket::state of each of them
  greeting,          \* connections whose greeting is still in the write buffer
  net,               \* bytes on their way to the server, per connection
  rxbuf,             \* bytes in the socket's read buffer, per connection
  owner,             \* history: the connection each packet was sent on
  cut,               \* history: packets whose header was split by two reads
  crowded,           \* history: a client was replaced before it was greeted
  torn               \* history: a packet begun on one connection was
                     \* continued with another's bytes

connVars == <<client_, accepted, sock, greeting>>
streamVars == <<net, rxbuf, owner>>
vars == <<protocolVars, connVars, streamVars, cut, crowded, torn>>

Init ==
  /\ ProtocolInit
  /\ client_ = NoClient /\ accepted = 0
  /\ sock = [c \in Conn |-> "none"]
  /\ greeting = {}
  /\ net = [c \in Conn |-> <<>>] /\ rxbuf = [c \in Conn |-> <<>>]
  /\ owner = <<>>
  /\ cut = {} /\ crowded = FALSE /\ torn = FALSE

-----------------------------------------------------------------------------
(* The environment: a client sends a whole packet.                         *)

ClientSends(c) ==
  /\ sock[c] = "open" /\ Len(owner) < MaxPackets
  /\ owner' = Append(owner, c)
  /\ net' = [net EXCEPT ![c] = @ \o Encode(Len(owner) + 1)]
  /\ UNCHANGED <<protocolVars, connVars, rxbuf, cut, crowded, torn>>

-----------------------------------------------------------------------------
(* The slots of OptiService.                                               *)

\* onClientDisconnected: it does not ask which client disconnected.
onClientDisconnected == NoClient

\* Mutant of onNewConnection: client_ is assigned before the old client is
\* disconnected, whose disconnected() then resets it.
onNewConnection_AssignFirst(c) ==
  /\ ParserDone
  /\ c = accepted + 1
  /\ accepted' = c
  /\ sock' = [d \in Conn |-> CASE d = c -> "open"
                               [] d = client_ -> IF d \in greeting
                                                   THEN "closing" ELSE "closed"
                               [] OTHER -> sock[d]]
  /\ client_' = IF client_ # NoClient /\ client_ \notin greeting THEN NoClient ELSE c
  /\ greeting' = greeting \cup {c}
  /\ crowded' = (crowded \/ client_ \in greeting)
  /\ UNCHANGED <<protocolVars, streamVars, cut, torn>>

\* disconnectFromHost closes at once, its disconnected() signal running before
\* client_ is assigned, unless the greeting is still to be written.
onNewConnection(c) ==
  /\ ParserDone
  /\ c = accepted + 1
  /\ accepted' = c
  /\ sock' = [d \in Conn |-> CASE d = c -> "open"
                               [] d = client_ -> IF d \in greeting
                                                   THEN "closing" ELSE "closed"
                               [] OTHER -> sock[d]]
  /\ client_' = c
  /\ greeting' = greeting \cup {c}
  /\ crowded' = (crowded \/ client_ \in greeting)
  /\ UNCHANGED <<protocolVars, streamVars, cut, torn>>

\* The event loop writes a greeting out; a closing socket then disconnects.
FlushGreeting(c) ==
  /\ ParserDone
  /\ c \in greeting
  /\ greeting' = greeting \ {c}
  /\ IF sock[c] = "closing"
       THEN /\ sock' = [sock EXCEPT ![c] = "closed"]
            /\ client_' = onClientDisconnected
       ELSE UNCHANGED <<sock, client_>>
  /\ UNCHANGED <<protocolVars, accepted, streamVars, cut, crowded, torn>>

\* The client goes away, or the link to it breaks.
PeerCloses(c) ==
  /\ ParserDone
  /\ sock[c] \in {"open", "closing"}
  /\ sock' = [sock EXCEPT ![c] = "closed"]
  /\ greeting' = greeting \ {c}
  /\ client_' = onClientDisconnected
  /\ UNCHANGED <<protocolVars, accepted, streamVars, cut, crowded, torn>>

\* The connection whose bytes the parser was last given.
FromConn(data) == owner[data[1].pkt]

\* The read ends inside a header.
CutBy(data) ==
  LET b == Last(data)
  IN  IF b.at < MESSAGE_HEAD_LEN - 1 THEN {b.pkt} ELSE {}

\* n bytes arrive on connection c and readyRead fires.  The slot reads from
\* client_, whichever socket the signal came from; what one read leaves
\* behind waits for the next signal.
onClientReadyRead(c, n) ==
  /\ ParserDone
  /\ sock[c] = "open"
  /\ n \in 1..Len(net[c])
  /\ net' = [net EXCEPT ![c] = SubSeq(@, n + 1, Len(@))]
  /\ LET filled == [rxbuf EXCEPT ![c] = @ \o SubSeq(net[c], 1, n)]
         waiting == IF client_ = NoClient THEN <<>> ELSE filled[client_]
         size == IF Len(waiting) < RX_MAX_SIZE THEN Len(waiting) ELSE RX_MAX_SIZE
         data == SubSeq(waiting, 1, size)
     IN  IF size = 0
           THEN /\ rxbuf' = filled
                /\ UNCHANGED <<protocolVars, cut, torn>>
           ELSE /\ rxbuf' = [filled EXCEPT
                               ![client_] = SubSeq(waiting, size + 1, Len(waiting))]
                /\ PushToProtocol(data)
                /\ cut' = cut \cup CutBy(data)
                /\ torn' = (torn \/ /\ rx_state = "Processing"
                                    /\ FromConn(raw_data) # FromConn(data))
  /\ UNCHANGED <<connVars, owner, crowded>>

Parse == ParserStep /\ UNCHANGED <<connVars, streamVars, cut, crowded, torn>>

Next ==
  \/ \E c \in Conn : \/ ClientSends(c)
                     \/ onNewConnection(c)
                     \/ FlushGreeting(c)
                     \/ PeerCloses(c)
                     \/ \E n \in 1..Len(net[c]) : onClientReadyRead(c, n)
  \/ Parse

\* The loop of a slot runs to its end, and TCP delivers what was sent.
Fairness ==
  /\ WF_vars(Parse)
  /\ \A c \in Conn : WF_vars(\E n \in 1..Len(net[c]) : onClientReadyRead(c, n))

Spec == Init /\ [][Next]_vars
FairSpec == Spec /\ Fairness

-----------------------------------------------------------------------------

\* What the variables hold.
TypeOK ==
  /\ ProtocolTypeOK
  /\ client_ \in Conn \cup {NoClient}
  /\ accepted \in 0..MaxConn
  /\ sock \in [Conn -> {"none", "open", "closing", "closed"}]
  /\ greeting \subseteq Conn
  /\ net \in [Conn -> Seq(Byte)] /\ rxbuf \in [Conn -> Seq(Byte)]
  /\ owner \in Seq(Conn) /\ Len(owner) <= MaxPackets
  /\ cut \subseteq Packet /\ crowded \in BOOLEAN /\ torn \in BOOLEAN

\* The parser never buffers more than one maximal payload, awaits no more than
\* it still has room for, and is idle exactly when it holds no partial payload:
\* what makes the fixed MAX_MESSAGE_LEN a bound on rx_payload_.
BoundedBuffering ==
  /\ rx_payload_size <= MAX_MESSAGE_LEN - MESSAGE_HEAD_LEN
  /\ rx_state = "Idle" => rx_payload = <<>>
  /\ rx_state = "Processing" => Len(rx_payload) < rx_payload_size
  /\ \A k \in DOMAIN out : Len(out[k].payload) <= MAX_MESSAGE_LEN - MESSAGE_HEAD_LEN

\* Unless clients were accepted back to back, the newest live connection is
\* the one being read: replacing a client closes it before client_ is
\* assigned, so the disconnected() of the old one cannot unseat the new one.
NewestClientServed ==
  accepted > 0 /\ sock[accepted] = "open" /\ ~crowded => client_ = accepted

Real(m) == m.payload # <<>>
MessageOf(p) == [cmd |-> CmdOf[p], payload |-> Payload(p)]
Intact(m) == \E p \in 1..Len(owner) : m = MessageOf(p)

\* Every byte of packet p has been through the parser.
InFlight ==
  {raw_data[k] : k \in (i + 1)..Len(raw_data)}
    \cup UNION {Range(rxbuf[c]) \cup Range(net[c]) : c \in Conn}
Parsed(p) == \A b \in InFlight : b.pkt # p

Deliverable(p) ==
  /\ Parsed(p) /\ p \notin cut
  /\ LenOf[p] > MESSAGE_HEAD_LEN /\ LenOf[p] <= MAX_MESSAGE_LEN

\* A packet with a payload is lost only if its header straddles two reads or it
\* is too long: until a connection breaks mid-packet, exactly the other ones
\* that were parsed are delivered, each once and whole, in order.
OnlyCutHeadersAreLost ==
  ~torn =>
    /\ \A p \in 1..Len(owner) :
         Deliverable(p) => \E k \in DOMAIN out : out[k] = MessageOf(p)
    /\ \A k \in DOMAIN out : Real(out[k]) =>
         \E p \in 1..Len(owner) :
           /\ Deliverable(p) /\ out[k] = MessageOf(p)
           /\ \A j \in 1..(k - 1), q \in 1..Len(owner) :
                Real(out[j]) /\ out[j] = MessageOf(q) => q < p

\* A packet abandoned by a broken connection costs at most one wrong message:
\* the parser finds the next header of the new connection by itself.
OneMixedPerReconnect ==
  Cardinality({k \in DOMAIN out : Real(out[k]) /\ ~Intact(out[k])})
    <= (IF accepted = 0 THEN 0 ELSE accepted - 1)

\* Where every packet carries a payload, the empty messages a junk byte makes
\* the initial parser emit are over once a first header has been accepted.
NoPhantomAfterReal ==
  (\A p \in 1..MaxPackets : LenOf[p] > MESSAGE_HEAD_LEN) =>
    \A j, k \in DOMAIN out : j < k /\ Real(out[j]) => Real(out[k])

\* A packet sent is parsed in the end unless its connection ends, when reads
\* empty the socket and no two clients are accepted back to back.
EverySentIsParsed ==
  \A p \in 1..MaxPackets :
    p <= Len(owner) ~> (Parsed(p) \/ sock[owner[p]] # "open" \/ crowded)

\* The messages handed over whole, and the n-th of a set of them.
WholeOnes == {k \in DOMAIN out : Real(out[k]) /\ Intact(out[k])}
Nth(K, n) == CHOOSE k \in K : Cardinality({j \in K : j <= k}) = n

\* Reconnections and all, the packets handed over whole are those of a lossy
\* channel: each at most once, in the order sent.
Fifo == INSTANCE LossyFifo WITH
  MaxSent <- MaxPackets,
  count <- Len(owner),
  delivered <- [n \in 1..Cardinality(WholeOnes) |->
                  out[Nth(WholeOnes, n)].payload[1].pkt]

ImplementsLossyFifo == Fifo!Spec
=============================================================================
