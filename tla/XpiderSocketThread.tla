------------------------- MODULE XpiderSocketThread -------------------------
(***************************************************************************)
(* The link to one robot (xpidersocketthread.cpp): a QTcpSocket living in  *)
(* an event thread of its own.  SendMessage encodes a frame in the thread  *)
(* that calls it (GUI, planner or command thread) and posts it to the      *)
(* event thread as a queued signal; timer_retry_ posts onTimeoutRetry to   *)
(* every socket each INTERVAL_RETRY; the socket's own signals run their    *)
(* slots there directly.  A message is a number, in the order posted.      *)
(*                                                                         *)
(* What QTcpSocket does is modelled from how the code uses it: a write is   *)
(* refused without a connection under way, else buffered, and lost with    *)
(* the connection; a dead connection shows only when something is written. *)
(***************************************************************************)
EXTENDS Integers, Sequences, SequencesExt

CONSTANTS
  MaxPosted,         \* bound: messages ever posted
  MaxEvents,         \* bound: events waiting for the event thread
  MaxBuffered        \* bound: heartbeats stop filling the write buffer

ASSUME LinkAssumption ==
  MaxPosted \in Nat /\ MaxEvents \in Nat \ {0} /\ MaxBuffered \in Nat \ {0}

VARIABLES
  state,             \* QAbstractSocket::state()
  events,            \* the event thread's queue: message numbers and Retry
  wbuf,              \* the socket's write buffer
  reachable,         \* the robot is on and in range
  alive,             \* the robot still knows this connection
  posted,            \* messages posted so far
  received           \* history: messages the robot has read, oldest first

vars == <<state, events, wbuf, reachable, alive, posted, received>>

Retry == 0           \* onTimeoutRetry in the queue
HeartBeat == -1      \* in the write buffer: the four spaces of onTimeoutRetry
Led == -2            \* ... and the colour sent by onConnected

\* StartConnection starts the event thread; the first retry connects.
Init ==
  /\ state = "Unconnected" /\ events = <<>> /\ wbuf = <<>>
  /\ reachable \in BOOLEAN /\ alive = FALSE
  /\ posted = 0 /\ received = <<>>

\* Mutants of Write: what was written last goes first; a busy socket is skipped.
Write_InFront(item) == wbuf' = IF state = "Unconnected" THEN wbuf ELSE <<item>> \o wbuf
Write_IfIdle(item) == wbuf' = IF state = "Unconnected" \/ wbuf # <<>> THEN wbuf ELSE <<item>>

\* write(): an unconnected socket refuses, any other buffers.
Write(item) == wbuf' = IF state = "Unconnected" THEN wbuf ELSE Append(wbuf, item)

-----------------------------------------------------------------------------
(* The other threads.                                                      *)

\* SendMessage, and StopWalking which calls it: hdlcTransmitByte is queued.
SendMessage ==
  /\ posted < MaxPosted /\ Len(events) < MaxEvents
  /\ posted' = posted + 1
  /\ events' = Append(events, posted + 1)
  /\ UNCHANGED <<state, wbuf, reachable, alive, received>>

\* timer_retry_ fires in the GUI thread: one more onTimeoutRetry is queued.
TimeoutRetry ==
  /\ Len(events) < MaxEvents
  /\ events' = Append(events, Retry)
  /\ UNCHANGED <<state, wbuf, reachable, alive, posted, received>>

-----------------------------------------------------------------------------
(* The event thread.                                                       *)

\* Mutant of onTimeoutRetry: no heartbeat.
onTimeoutRetry_NoHeartBeat ==
  /\ events # <<>> /\ Head(events) = Retry
  /\ events' = Tail(events)
  /\ state' = IF state = "Unconnected" THEN "Connecting" ELSE state
  /\ UNCHANGED <<wbuf, reachable, alive, posted, received>>

\* onTimeoutRetry: connect, or keep the connection alive, or let it be.
onTimeoutRetry ==
  /\ events # <<>> /\ Head(events) = Retry
  /\ events' = Tail(events)
  /\ \/ state = "Unconnected" /\ state' = "Connecting" /\ UNCHANGED wbuf
     \/ state = "Connecting" /\ UNCHANGED <<state, wbuf>>
     \/ /\ state = "Connected" /\ UNCHANGED state
        /\ IF Len(wbuf) < MaxBuffered THEN Write(HeartBeat) ELSE UNCHANGED wbuf
  /\ UNCHANGED <<reachable, alive, posted, received>>

\* onHdlcEncodedByte: the frame is written behind the message head.
onHdlcEncodedByte ==
  /\ events # <<>> /\ Head(events) # Retry
  /\ events' = Tail(events)
  /\ Write(Head(events))
  /\ UNCHANGED <<state, reachable, alive, posted, received>>

\* onConnected: the robot's colour is encoded and written by direct calls,
\* the sender being the event thread itself.
onConnected ==
  /\ state = "Connecting" /\ reachable
  /\ state' = "Connected" /\ alive' = TRUE
  /\ wbuf' = Append(wbuf, Led)
  /\ UNCHANGED <<events, reachable, posted, received>>

\* The attempt times out, or a write shows that the connection is dead;
\* onDisconnected only logs.
onDisconnected ==
  /\ \/ state = "Connecting" /\ ~reachable
     \/ state = "Connected" /\ wbuf # <<>> /\ (~reachable \/ ~alive)
  /\ state' = "Unconnected" /\ wbuf' = <<>> /\ alive' = FALSE
  /\ UNCHANGED <<events, reachable, posted, received>>

\* The event loop writes to the network and the robot reads.
Flush ==
  /\ state = "Connected" /\ alive /\ reachable /\ wbuf # <<>>
  /\ received' = IF Head(wbuf) > 0 THEN Append(received, Head(wbuf)) ELSE received
  /\ wbuf' = Tail(wbuf)
  /\ UNCHANGED <<state, events, reachable, alive, posted>>

EventThread ==
  onTimeoutRetry \/ onHdlcEncodedByte \/ onConnected \/ onDisconnected \/ Flush

-----------------------------------------------------------------------------
(* The robot: it goes out of reach, perhaps restarting, and comes back.    *)

Lose ==
  /\ reachable /\ reachable' = FALSE
  /\ alive' \in {alive, FALSE}
  /\ UNCHANGED <<state, events, wbuf, posted, received>>

Return ==
  /\ ~reachable /\ reachable' = TRUE
  /\ UNCHANGED <<state, events, wbuf, alive, posted, received>>

Next == SendMessage \/ TimeoutRetry \/ EventThread \/ Lose \/ Return

\* The timer fires for ever, the event thread serves its queue and its socket.
Fairness ==
  /\ WF_vars(TimeoutRetry)
  /\ WF_vars(onTimeoutRetry) /\ WF_vars(onHdlcEncodedByte)
  /\ WF_vars(onConnected) /\ WF_vars(onDisconnected) /\ WF_vars(Flush)

Spec == Init /\ [][Next]_vars
FairSpec == Spec /\ Fairness

-----------------------------------------------------------------------------

\* What the variables hold; without a connection nothing is buffered, and the
\* robot knows no connection but an established one.
TypeOK ==
  /\ state \in {"Unconnected", "Connecting", "Connected"}
  /\ events \in Seq(0..MaxPosted) /\ Len(events) <= MaxEvents
  /\ wbuf \in Seq(-2..MaxPosted)
  /\ reachable \in BOOLEAN /\ alive \in BOOLEAN
  /\ posted \in 0..MaxPosted /\ received \in Seq(1..MaxPosted)
  /\ state = "Unconnected" => wbuf = <<>>
  /\ alive => state = "Connected"

\* To the robot the link is a channel that may lose messages and no more.
Fifo == INSTANCE LossyFifo WITH
  MaxSent <- MaxPosted, count <- posted, delivered <- received
ImplementsLossyFifo == Fifo!Spec

\* A robot that stays in reach is connected for good in the end, also after a
\* restart nobody told the socket of: the heartbeat finds the dead connection.
Reconnects == <>[]reachable => <>[](state = "Connected" /\ alive)

\* A message queued while the connection stands reaches the robot unless the
\* connection breaks.
QueuedIsDelivered ==
  \A n \in 1..MaxPosted :
    (n <= posted /\ Contains(events, n) /\ state = "Connected" /\ alive)
      ~> (Contains(received, n) \/ ~alive \/ ~reachable)
=============================================================================
